CONSTANTS
  Proc = {p1, p2}
  Inode = {i1, i2}
  NoFile = NoFile
  Nobody = Nobody
  Faults = {"fork", "stat", "mkdir", "open", "flock", "fdopen", "write",
            "listen", "unlink"}
SPECIFICATION Spec
INVARIANTS
  TypeOK
  AtMostOneDaemon
  PidFileNamesDaemon
  DaemonListens
PROPERTIES
  NotAllQuit
  OneDaemonServes
