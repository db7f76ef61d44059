CONSTANTS
  Idle = Idle
  Slots = 2
  MaxTimes = 2
  RecruitAsks <- MCAsks
  RefreshLimit = 0
  AnalyzeLimit = 1
  SlotRetryLimit = 2
  RecruitRetries = 1
  RecruitSets = 1
  Operator = {A, B}
  Rooms = 2
  RoomSize = 2
  OperSelectRetryTimes = 0
  TaskRetryTimes = 1
  Person = {p, q, r}
  Working = {q}
  Tired = {r}
  Dorms = 2
  DormSize = 2
  EnoughSeen = 2
  DormRetries = 1
  Oper = {a, b}
  Tile = {x, y}
  Nowhere = Nowhere
  Nobody = Nobody
  MaxActions = 1
  ToolMen = 1
  Homes = 2
  Blocking = {a}
  Melee = {x}
  Recruit = {a, b, c}
  Group = {g, h}
  FormationRetries = 1
  Char = {a, b, c}
  CharGroup = {g, h}
  Hand <- MCHand
  NoHand = NoHand
  Elite <- MCElite
  Wish <- MCWish
  Pages <- MCPages
  Teams <- MCTeams
  SwipeTimes = 2
  CheckTimes = 3
  MaxRefresh = 1
  PluginRetries = 0
  Member = {"a"}
  NoMember = NoMember
  Goods <- MCGoods
  TripRuns = 2
  TripAsks <- MCTripAsks
  InvestFull = 2
  TripSets = 1
  MaxFloors = 2
  Battles = 2
  MaxEnds = 2
  DropRetries = 1
  ReportRetries = 1
  Absent = Absent
  MaxSets = 1
  Rounds = 2
  Npcs = 1
  Options <- MCOptions
  DialogTries = 2
  QuitTries = 1
  BattleTries = 1
  Material = 1
  StaffPages <- MCStaffPages
  SkillOf <- MCSkillOf
  Worth <- MCWorth
  Formula = {"y"}
  MaxNum <- MCMaxNum
  SkillGroups <- MCSkillGroups
  StaffRooms = 2
  MayTire = {"t", "u"}
  StaffSize = 2
  StaffRetries = 1
  Clue = {1, 2}
  HandSize = 2
  MaxNew = 2
  Towers <- MCTowers
  Planned <- MCPlanned
  Drops <- MCDrops
  RoleOf <- MCRoleOf
  Blacklist = {"b"}
  NoRole = ""
  MaxOffers = 1
  Commodities <- MCCommodities
  Price <- MCPrice
  Within <- MCWithin
  Shoppings <- MCShoppings
  Credits = {0, 2, 5}
  MaxCredit = 3
  Unread <- MCUnread
  Materials <- MCMaterials
  Alike <- MCAlike
  Novelties = {"new"}
  Has <- MCHas
  Contents <- MCContents
  PageSize = 3
  MaxExtraMatch = 8
  Unit = 10
SPECIFICATION Spec
INVARIANTS
  RecruitsAsAsked
  InfrastIsManned
  BattlesAreKnown
  SquadsAreAsked
  BestIsTaken
  RecordsAreTrue
  ParamsAreMeant
PROPERTIES
  TaskReturns
  StopEndsTask
CHECK_DEADLOCK FALSE
