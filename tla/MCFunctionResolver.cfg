SPECIFICATION FairSpec
CONSTANTS
  fTop = fTop
  fInner = fInner
  fHelper = fHelper
  fTop2 = fTop2
  fNat1 = fNat1
  fNat2 = fNat2
  fNat3 = fNat3
  fNat4 = fNat4
  fNat5 = fNat5
  fArray = fArray
  sRoot = sRoot
  sTop = sTop
  sInner = sInner
  sHelper = sHelper
  sTop2 = sTop2
  sX = sX
  sLRoot = sLRoot
  sLib = sLib
  sNat1 = sNat1
  sNat2 = sNat2
  sNat3 = sNat3
  sNat4 = sNat4
  sNat5 = sNat5
  sArray = sArray
  nHelper = nHelper
  nBar = nBar
  nFloor = nFloor
  nPush = nPush
  nMap = nMap
  nArray = nArray
  nHole = nHole
  Other = Other
  NotInContext = NotInContext
  NoName = NoName
  NoSfi = NoSfi
  Undef = Undef
  Fns <- MCFns
  Sfis <- MCSfis
  NIds = 1
  DebugBuild = TRUE
  Envs <- MCEnvs
INVARIANT TypeOK
INVARIANT NoFault
CHECK_DEADLOCK FALSE
PROPERTY FunctionKeysLive
