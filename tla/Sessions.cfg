SPECIFICATION Spec
CONSTANTS
  t1 = t1
  t2 = t2
  t3 = t3
  s1 = s1
  s2 = s2
  NoChange = 7
  Scope <- Scopes
  Shares = {"image", "whole"}
  Locked = {"image", "whole"}
  Openers = {"image"}
  Sessions = {s1, s2}
  Procs = {"one", "smb", "webdav", "nfs", "sftp", "s3"}
  Threads = {t1, t2, t3}
  Owner <- Owners
  Sizes = {2, 3}
  MaxFile = 2
  MaxTotal = 3
  MaxHandles <- FewHandles
  Configs <- AllConfigs
  Crowded <- Crowd
  Lead = s1
  Creds <- Presented
INVARIANT DriverAlone
INVARIANT SnapshotsBounded
INVARIANT AccessEntitled
INVARIANT EveryProtocolTheSame
INVARIANT WorkerAsThem
PROPERTY OnlyWhatTheViewAllows
SYMMETRY Symmetry
