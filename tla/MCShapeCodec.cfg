CONSTANTS
  NoMap = "none"
  NotFound = "notfound"
  NoFn = "nofn"
  Specials = {"sym"}
  StableRoots = {"R", "RA"}
  MaxSaves = 2
  MaxDepth <- MCMaxDepth
  Maps <- MCMaps
  Parent <- MCParent
  OwnKeys <- MCOwnKeys
  TransitionKey <- MCTransitionKey
  Objs <- MCObjs
  MapOf <- MCMapOf
  Fns <- MCFns
  FnSave <- MCFnSave
  Constructor <- MCConstructor
  Heaps <- MCCodecHeaps
  FnLoad <- MCFnLoad
SPECIFICATION CSpec
INVARIANT TypeOK
INVARIANT CacheIsOpenMaps
INVARIANT SaveRecursionBounded
INVARIANT RoundTrip
