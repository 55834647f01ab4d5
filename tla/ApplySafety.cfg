SPECIFICATION Spec
CONSTANTS
  p1 = p1  a1 = a1  a2 = a2  i1 = i1  i2 = i2
  n1 = n1  n2 = n2  dotn1 = dotn1  nout = nout
  t1 = t1  t2 = t2  x = x  y = y  user = user  noFile = noFile  noOwner = noOwner
  Authors <- OneAuthor
  Appliers <- TwoAppliers
  Ids <- OneId
  Names <- FourNames
  Targets <- TwoTargets
  Contents <- TwoContents
  Manifests <- Every
  TargetOf <- Resolve
  IdOf <- OneIdOfEvery
  Escapes <- OutsideNames
  UserContent = user
  Absent = noFile
  NoOwner = noOwner
  Edits <- SomeEdits
  Meddlers <- Everybody
  MaxRetries = 1
  MaxMeddling = 1
  MaxCrashes = 1
INVARIANTS ApplyInv WrittenAsCommitted NothingBeforePreflight NoTempLeft
PROPERTIES NoClobber
CHECK_DEADLOCK FALSE
