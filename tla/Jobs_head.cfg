\* Writes and files.  The application may stop
\* calling, and SHUTDOWN is final.
SPECIFICATION Spec
CHECK_DEADLOCK FALSE
CONSTANTS
  Lens = {1, 2}
  Classes = {"copy"}
  FileLens = {1, 2}
  VecLens = {}
  MaxStream = 5
  MaxJobs = 4
  SndBuf = 1
  MaxChunks = 2
  PacketSlots = 2
  BufLimit = 0
  AckDuringWrite = FALSE
  FileErrors = FALSE
INVARIANTS HeadFirst
