CONSTANTS
  Reqs = {r1, r2}
  Mixed = {"show_page", "post_login", "delete_user"}
  MaxOps = 3
  MaxFaults = 1
  Period = 3
  Notice = 1
  MaxDay = 5
  MaxOrders = 3
  Names = {"ann", "bob"}
  Founder = "zoe"
  Codes = {code}
  NoCode = NoCode
SPECIFICATION AllFairSpec
CHECK_DEADLOCK FALSE
INVARIANTS AllTypesOK SavedStands CacheFresh UsedTokenIsDead RowFollowsStripe CreatedOnce OneAccountPerCode OneAdministrator
PROPERTIES CacheCatchesUp  WarnedBeforeCleaned DeletedIsCancelled
