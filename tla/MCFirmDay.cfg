SPECIFICATION Spec
CONSTANTS
  None = None
  NotFinite = NotFinite
  Holidays <- MCHolidays
  LoadedUntil = 20
  MonthStarts <- MCMonthStarts
  HoursPerDay = 4
  Issues = {"i1"}
  Prices = {6}
  MaxShares = 2
  MaxBatches = 1
  MaxBooked = 3
  StartDate = 0
  RunDays = 6
  Opening = 9
  Profiles <- MCProfiles
  Reports <- MCReports
INVARIANTS DayCloses SharesConserved OverdueIsFlagged SettledIsReported
CHECK_DEADLOCK FALSE
