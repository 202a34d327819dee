SPECIFICATION Spec
CONSTANTS
  Volumes <- MCVolumes
  Stopping <- MCStopping
  Week = 2
  Month = 4
  KeepDaily = 1
  KeepWeekly = 3
  KeepMonthly = 5
  MaxFaults = 2
  MaxDay = 5
INVARIANTS
  ArchivesAreWhole
  DownForTheCopyOnly
  MetricsTellTheTruth
