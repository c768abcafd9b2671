CONSTANTS
  Users = {ann}
  Admins = {ann}
  Pages = {home, admin}
  AdminPages = {admin}
  Home = home
  Requests = {r1}
  Nobody = Nobody
  NoPage = NoPage
  Sandbox = TRUE
  MaxLoads = 1

  Runs = {a}
  Emits = TRUE
  MaxEvents = 1
  Fetches = {f, g}
  MaxFaults = 1

  MaxRuns = 2
  Polls = {p, q}
  maxLines = 3
  MaxClears = 0
  MaxTroubles = 1

  Files = {"a", "b"}
  FileColumns = {"x"}
  TargetTypes = {"A", "B"}
  SeededTargets = {"B"}
  inferredEntity <- inferredEntities
  Matches <- matchingRows
  RowCount = 2
  itemsPerPage = 1
  MaxAttempts = 2
  MaxEdits = 1

  Connectors = {"f", "g", "db"}
  Seeded = {"f", "db"}
  Uploaded = {"f", "g"}
  connName <- connNames
  Loads = {l, m}
  MaxVisits = 1
  MaxUpsets = 1

  Datasets = {"f", "g", "h"}
  datasetName <- datasetNames
  Reads = {q1, q2}
  MaxLooks = 1

  Hosts = {"x", "y"}
  Tables = {"a", "b", "c"}
  Schemas = {"s1", "s2"}
  tablesOf <- discoverable
  schemaOf <- schemaNames
  searched = {"b"}
  MaxClicks = 3

  Sources = {"s", "t"}
  Uuids = {"s"}
  headKey = "h"
  columnsOf <- sourceColumns
  EntityTypes = {"A", "B", "G"}
  propsOf <- typeProps
  SeededTypes = {"A"}
  Packs <- packTypes
  generated <- generatedTypes
  SeededRows <- seededRows
  Few = 2
  MaxMoves = 2
  MaxRows = 4
  Nothing = "none"

  TypeNames = {"A"}
  MaxTypes = 2
  MaxActs = 3

  PropNames = {"x", "y"}
  MaxFields = 3
  MaxTouches = 1
  blank = blank
  undefined = undefined

  Conns = {"f"}
  derivedName <- derivedNames
  Templates = {"k"}
  typesIn <- templateTypes
  relsIn <- templateRels
  MaxOpens = 2
  MaxTries = 1

  Types = {"A"}
  OwnTags <- ownTags
  MaxVersions = 2
  MaxVisits2 = 3

  PairIds = {1, 2, 3}
  Golden = {"g"}
  goldenOf <- goldenRecords
  NoGolden = NoGolden
  Filters = {"PENDING", "ALL"}
  MaxCalls = 2
  MaxLosses = 1

  Texts = {"", "b", "ab"}
  Facets = {"A"}
  namesOf <- foundNames
  contains <- containing
  Totals = {1, 2}
  MaxFinds = 2

  Entities = {"e", "f"}
  propertyKeys <- keysOf
  NoEntity = NoEntity
  NoKey = NoKey
  MaxSteps = 3

  Vertices = {"e", "f", "g"}
  kindOf <- kindsOf
  Edges <- edges
  Linked <- linksThen
  Landing = {"e"}
  NoVertex = "no vertex"
  NoFilter = "no filter"
  MaxDepth = 2
  MaxHops = 2

  Emails = {"a"}
  Slugs = {"s"}
  NoName = "none"
  MaxJobs = 2

  Cards = {"summary", "engine"}
  Ranges = {"7d"}
  Blank = Blank
  MaxNews = 1
  MaxMisses = 1
  MaxPresses = 1

  MaxShown = 2
SPECIFICATION WorkbenchFairSpec
PROPERTIES
  WaitsEnd CatchesUp
CHECK_DEADLOCK FALSE
