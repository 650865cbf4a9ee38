SPECIFICATION Spec
CONSTANTS
  None = None
  EXHIBIT_A_CREDITS <- MCCredits
  EXHIBIT_A_DEBITS <- MCDebits
  ITEM_10 = "item_10"
  GOVERNMENT_BANDS <- MCBands
  Issues = {"x"}
  Holidays <- MCHolidays
  LoadedUntil = 46
  MonthStarts <- MCMonthStarts
  HoursPerDay = 2
  HouseRate = 30
  CallDays = 2
  Bookings <- MCBookings
  MaxBooked = 2
  Profiles <- MCProfiles
  Draws <- MCDraws
  ShortShare = 50
  Cent = 2
  StartDate = 37
  RunDays = 1
  Reviews <- MCReviews
  Open = 1
  DeadlineRules <- MCDeadlineRules
  LastInstant = 18
INVARIANTS DepositsAreJudged TogetherCovered EnginesAgree IgnoranceNeverPasses
PROPERTY LateStaysLate
CHECK_DEADLOCK FALSE
