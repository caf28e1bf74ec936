\* The peer makes room between two write() calls.  The application may stop
\* calling, and SHUTDOWN is final.
SPECIFICATION Spec
CHECK_DEADLOCK FALSE
CONSTANTS
  Lens = {1, 2, 3}
  Classes = {"copy"}
  FileLens = {}
  VecLens = {}
  MaxStream = 4
  MaxJobs = 2
  SndBuf = 2
  MaxChunks = 2
  PacketSlots = 2
  BufLimit = 0
  AckDuringWrite = TRUE
  FileErrors = FALSE
INVARIANTS StreamIntact
