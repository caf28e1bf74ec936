\* Three frames of a peer that masks, or of one that does not (one-byte
\* lengths only).  The peer may stop.
SPECIFICATION Spec
CHECK_DEADLOCK FALSE
CONSTANTS
  ByteXor <- XorBits
  Shapes <- ServerShapes
  BareShapes <- ShortShapes
  Keys <- TwoKeys
  MaxFrames = 3
INVARIANTS TypeOK InSync Delivered RepliesRight ClosedOnce
