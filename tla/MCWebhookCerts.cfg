SPECIFICATION FirstLeaderFairSpec
CONSTANTS
  Pods = {p1, p2}
  CAs = {c1, c2, c3}
  None = None
  Empty = Empty
  CAValidity = 6
  CertValidity = 2
  RenewThreshold = 1
  CARenewThreshold = 2
  CheckInterval = 1
  FaultyCalls = {"getNew", "getOld", "deleteOld", "createPrimary", "deleteNew", "getCA", "generateNew", "generateCA", "getServer", "verify", "store", "patch"}
  MaxFaults = 2
INVARIANTS WatcherTypeOK TrustedUndisturbed SignerKept PodsCaughtUp HandshakesUndisturbed
PROPERTIES ImplementsRotation HandshakesRecover ServesOnlyNewer
