\* The user may stay on a page that does not refresh itself: then nothing happens.
CONSTANTS
  Pages = {"dashboard", "deviceinfo", "sms"}
  Rates = {0, 5, 99}
  NotANumber = NotANumber
  RetryLimit = 3
  MaxActs = 6
  MaxOut = 3
SPECIFICATION FairSpec
INVARIANTS TypeOK RefreshWhileShown
PROPERTIES ShownIsRefreshed
CHECK_DEADLOCK FALSE
