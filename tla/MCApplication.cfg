SPECIFICATION Spec
CONSTANTS
  Sections = {"session", "campaigns", "quick send", "inbox", "contacts", "import", "panels",
              "top-up", "tables", "api", "rentals", "replies", "lists", "sign-in"}
  Calls = {c1, c2}
  Opening = open_session
  MaxTokens = 2
  MaxRedirects = 3
  Old = {"old"}
  New = {"new"}
  EditorFields = {"mediaKey"}
  EditorSlots = 2
  MaxEditorEdits = 2
  MaxHaste = 1
  MaxForms = 1
  Numbers = {"n1"}
  Preset = TRUE
  QuickFields = {"recipients", "mediaKey"}
  MAX_RECIPIENTS = 2
  QuickSlots = 2
  MaxQuickEdits = 2
  MaxMounts = 2
  MaxDialogs = 2
  Peers = {"p1", "p2"}
  InboxSlots = 1
  MaxInboxChanges = 1
  MaxMoves = 2
  MaxList = 2
  MaxNumber = 2
  Limits = {1, 2}
  MaxTrail = 1
  MaxBulks = 1
  FileRows <- MCFiles
  NotANumber = not_a_number
  NoColumn = no_column
  NoFile = no_file
  IMPORT_CHUNK_ROWS = 2
  MaxRuns = 2
  MaxModals = 2
  PanelSlots = 2
  MaxPanelChanges = 1
  Codes = {"boost", "pack"}
  TopUpSlots = 2
  Filters = {"f1", "f2"}
  MaxRows = 2
  MaxTableTrail = 2
  MaxFetches = 4
  Requests = {q1, q2}
  Keys = {k1}
  NoKey = no_key
  d1 = d1
  d2 = d2
  Destinations = {d1, d2}
  DISPATCH_CONCURRENCY = 2
  MaxBreaks = 1
  MaxLives = 1
  RETRY_LIMIT = 1
  MaxBalance = 2
  MaxPeriods = 3
  MaxDeaths = 2
  Inbounds = {i1, i2}
  Handlers = {h1, h2}
  Rules = 1
  MaxCopies = 2
  MaxRaises = 2
  Mobiles = {m1, m2}
  Writers = {w1, w2}
  LIST_CEILING = 2
  MaxWrites = 2
  MaxStops = 1
  Subs = {u1, u2}
  Sessions = {r1, r2}
  Hooks = 2
  MaxFails = 1
  Batches <- MCBatches
INVARIANTS TypeOK ActedOnOnce UnrenewedIsRedirected
  CleanMeansSaved AskedOncePerDialog OwnChangesShown BulkActsOnItsList
  ReportMeansAll TableShowsWhatIsChosen RepeatsActOnce BilledOnce
  OptOutsAreKept CountAgrees
PROPERTIES SentAsQuoted AnswersMoveNobody LastRedirectReturns
CHECK_DEADLOCK FALSE
