CONSTANTS
  a1 = a1
  b1 = b1
  slugA = slugA
  slugB = slugB
  Entry = {a1, b1}
  Slug = {slugA, slugB}
  SlugOf <- TwoSlugs
  Source = {feed}
  Erai = {feed}
  Br = {a1, b1}
  Hashed = {a1}
  PerAnimeCap = 1
  MainAttempts = 2
  PerAnimeAttempts = 2
  Backoff = 2
  RetryAfter = {0, 100}
  Loop = loop
  Rebuilder = {rebuild}
  Recovers = {loop, rebuild}
  NoJob = NoJob
  SaveFaults = TRUE
SPECIFICATION LiveSpec
INVARIANTS
  TypeOK
  FlagsFollowRun
  KnownReleasesAreExpanded
PROPERTIES
  ImplementsService
  LateSyncsChangeNothing
  FetchesAdvance
  StatusNamesTheStart
  ServesEveryRequest
  TicksLeadToSyncs
