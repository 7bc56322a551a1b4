SPECIFICATION Spec
CONSTANTS
  Write <- TwoWrites
  Nonced <- OneNonced
  WriteAttempts = 2
  MaxSequence = 3
  Tab = {b1, b2}
  Operation = {o1, o2}
  Refused = {}
  DispatchAttempts = 2
  MaxToggles = 1
  MaxSyncs = 2
  MaxCloses = 1
  ClaimId <- TwoClaims
  Status <- Decisions
  MaxLoaded = 1
  MaxPresses = 3
  Request = {q1, q2}
  Issuer <- TwoIssuers
  CertRecord <- TwoRecords
  MaxCertRequests = 5
  Poster = {s1, s2}
  Message <- SignedMessages
  ExpiryWindow = 1
  NonceTtl = 2
  MaxRatingTime = 3
  MaxPosts = 3
  Address <- TwoAddresses
  FirstOwner = "a1"
  MaxEdits = 4
  Flow <- EveryFlow
INVARIANTS NoncedAppliesOnce
  QueuedIsKeptUntilHanded ToldStaysShown AnsweredRecordStands EachRatingCountsOnce
  ShieldMatchesAddress
SYMMETRY Symmetric
CHECK_DEADLOCK FALSE
