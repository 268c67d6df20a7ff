SPECIFICATION MCCronSpec
CONSTANTS
  Parts = {"cron"}
  Procs = {p1, p2}
  Working = {p1, p2}
  TTL = 2
  Stamps = {1, 2, 3, 4, 5}
  MaxGen = 1
  MaxFaults = 2
  Every = 2
  LeaderTTL = 3
  Interval = 2
  CatchUps = {0, 2}
  RunOnStarts = {TRUE, FALSE}
  MaxClock = 8
  MaxTerms = 2
  MaxFailures = 2
  Members = {"a", "b"}
  Definitions = {"d1", "d2"}
  Decodes <- NewerDecodesMore
  MaxLease = 3
  MaxEdits = 2
  MaxTermsLed = 1
  SecondsPerMinute = 2
  MinutesPerHour = 2
  HoursPerDay = 4
  DaysPerWeek = 3
  YearLimit = 1
  MonthLengths <- TwoMonths
  CronSpecs <- MidnightSpecs
  CronZones <- MidnightZones
  CronStarts <- SomeInstants
  Migrators = {"p", "q"}
  MigrationEngines = {"pg", "sqlite"}
  MaxMigrates = 2
  MaxCrashes = 1
  Latest <- NewerHasMore
PROPERTIES NextReturns
CHECK_DEADLOCK FALSE
