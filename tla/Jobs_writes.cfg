\* Writes and shutdowns only, with a memory limit; also against ByteStream.
\* The application may stop calling, and SHUTDOWN is final.
SPECIFICATION Spec
CHECK_DEADLOCK FALSE
CONSTANTS
  Lens = {1, 2, 3}
  Classes = {"copy", "auto", "own"}
  FileLens = {}
  VecLens = {}
  MaxStream = 5
  MaxJobs = 4
  SndBuf = 2
  MaxChunks = 2
  PacketSlots = 2
  BufLimit = 4
  AckDuringWrite = FALSE
  FileErrors = FALSE
INVARIANTS TypeOK StreamIntact AccountsExact HeapExact GracefulShutdown ShutdownKept HeadFirst NoLostWakeup DrainReported
PROPERTIES StreamSpec
