\* Files and shutdowns.  The application may stop
\* calling, and SHUTDOWN is final.
SPECIFICATION Spec
CHECK_DEADLOCK FALSE
CONSTANTS
  Lens = {}
  Classes = {"copy"}
  FileLens = {1, 2}
  VecLens = {}
  MaxStream = 4
  MaxJobs = 4
  SndBuf = 1
  MaxChunks = 2
  PacketSlots = 2
  BufLimit = 0
  AckDuringWrite = FALSE
  FileErrors = FALSE
INVARIANTS ShutdownKept
