SPECIFICATION CommandsSpec
CONSTANTS
  NoValue = NoValue
  BatchCalls = 3
  BatchLimit = 2
  BatchTries = 2
  Tokens = 3
  MaxPolls = 2
  Subscription = {s1, s2}
  Lifetime = 4
  Within = 3
  Every = 2
  ListTokens = 1
  Connection = {c1, c2, c3}
  MaxConnections = 2
  Loader = {l1, l2}
  Clearer = {x}
  Api = {drive, Drive}
  ClearMaxRounds = 1
  Guest = {me, g1}
  Me = me
  Folder = {root_id, f1}
  Root = root_id
  Edits = 1
  Calendar = {cal1, cal2, cal3}
  MaxReads = 2
  Horizon = 6
  Day = 3
  Address = {self, alias, ann, bob}
  Own = {self, alias}
  MaxOriginal = 2
  MaxGiven = 2
  Proc = {p1, p2}
  Named = {work}
  Default = default
  Account = {anna, ben}
  MaxKeys = 2
  MaxCommands = 3
  Entries = 3
  ListTurns = 3
  MaxFetches = 2
  Spelling = {a, A}
  MaxParts = 3
  Intrusions = 1
  ColumnKey = {k1, k2}
  MaxRows = 3
  MaxPages = 3
  MaxSkills = 3
  SkillRuns = 2
  UserFiles = 1
  DownloadTurns = 3
  MarkdownEvents = 3
  Change = 3
  LastTime = 4
  LastDate = 2
  CloudAccount = {ca1, ca2}
  CloudProject = {gp1, gp2}
INVARIANTS
  CommandsTypeOK AlwaysReadable
  RightIdentity BystandersKept ReadsCorrect WritesCorrect SetupsCorrect DocumentCorrect
PROPERTIES
  RenewalCorrect DiscoveryCorrect ScriptCorrect AccountsCorrect CommandsEnd
CHECK_DEADLOCK FALSE
