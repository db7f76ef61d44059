CONSTANTS
  Instance = {a, b}
  ReconnectTimes = 1
  MaxTryCount = 1
  MaxRaces = 1
  Windows = FALSE
  Keys <- MCKeys
  Definitions <- MCDefinitions
  Overrides <- MCOverrides
  Names <- MCNames
  MaxVersion = 3
  Mirrors = 1
  DownloadRetryMaxTimes = 1
  MaxCrashes = 2
  MaxEvents = 3
  MaxMsgs = 2
  RegionHas = {"Recruit", "Tasks", "Items", "WordOcr"}
  OddFiles = {"General", "Recruit", "Battle", "Tasks", "Infrast", "Tiles", "WordOcr"}
  MaxLoads = 2
  Region = {"en_US", "ja_JP"}
  Checked = {"en_US"}
  SkillsOf <- MCSkillsOf
  NoPicture = {"dorm"}
  MaxRuns = 2
  MaxFaults = 2
SPECIFICATION HostSpec
INVARIANTS
  SharedKept
  InitedCanCapture
  ResourcesAreMeant
  FilesAreWhole
  ActsForMainTasks
PROPERTIES
  ReleasedByTheLast
  DroppedForAReason
  ReconnectIsSettled
  StopSettles
CHECK_DEADLOCK FALSE
