SPECIFICATION GateFairSpec
CONSTANTS
  c1 = c1  c2 = c2  c3 = c3  i1 = i1  i2 = i2  n1 = n1  n2 = n2  t1 = t1  t2 = t2
  x = x  y = y  user = user  noFile = noFile  noOwner = noOwner  noId = noId
  Authors <- ThreeCalls
  Appliers <- ThreeCalls
  Ids <- TwoIds
  Names <- TwoNames
  Targets <- TwoTargets
  Contents <- TwoContents
  Manifests <- Proposed
  TargetOf <- Resolve
  IdOf <- IdOfProposed
  Escapes <- NoNames
  UserContent = user
  Absent = noFile
  NoOwner = noOwner
  NoId = noId
  Edits <- NoEdits
  Meddlers <- NoBody
  MaxRetries = 0
  MaxMeddling = 0
  MaxCrashes = 1
INVARIANTS AppliesWholeManifest AppliedAsShown
PROPERTIES LockComesFree
CHECK_DEADLOCK FALSE
