CONSTANTS
  C_BLK_SIZE <- MCBlk
  OBJ_IO_MAX_BUFFER_SIZE <- MCWindow
  MAX_INLINE_VAL_SIZE <- MCInline
  Lengths <- MCLengthsOneWindow
  FrameMax <- MCFrameMax
  NBlocks <- MCNBlocks
  MaxPuts <- MCMaxPutsThree
  MaxGets <- MCMaxGets


SPECIFICATION Spec
CHECK_DEADLOCK FALSE
INVARIANT GetAtomic
