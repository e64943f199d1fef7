SPECIFICATION Spec
CONSTANTS
  \* Relay
  Clients = {"m1", "c1", "c2", "x"}
  Token <- MCToken
  Side <- MCSide
  Tokens = {"t1", "t2"}
  Moon = "moon"
  Comet = "comet"
  Signed = {"t1"}
  Expiry <- MCExpiry
  NoClient = "nobody"
  NoSession = NoSession
  NoToken = "none"
  Rate = 1
  Burst = 4
  Idle = 2
  Interval = 1
  Sizes = {2, 4}
  MaxTime = 5
  MaxRestarts = 1
  \* MeshTransport
  Dials = {"d1", "d2"}
  Listens = {"l1"}
  Accepts = {"a1"}
  ListenerOf <- MCListenerOf
  Candidate <- MCCandidate
  Peers = {"p1", "p2"}
  AnyPeer = "any"
  Addresses = {"lan", "ov", "relay"}
  NoAddr = "none"
  NoChoice = "nothing"
  TLSReady = TRUE
  WellFormed = {"lan", "ov"}
  \* ArtifactDelivery
  Total = 3
  Cap = 1
  Protocols = {"smb", "nfs", "webdav", "s3"}
  \* ShortLinks
  Shorteners = {"s1", "s2"}
  URLs = {"u1", "u2", "u3"}
  NoURL = "none"
  CodeOf <- MCCodeOf
  \* Episodes
  Appenders = {"a1", "a2"}
  MaxNano = 3
  MaxEvents = 3
  MaxStarts = 1
  \* PackHost
  Manifests <- MCManifests
  EnvVars = {"T1", "T2"}
  MaxDeployments = 2
  MaxFires = 1
INVARIANTS
  TypeOK WithinQuota RelaySessionsSound NothingLeaks CheapestRouteWins
  InvocationsEndWell SmallStoresSound AcceptedPacksRegister FiresReachEveryPublisher
CHECK_DEADLOCK FALSE
