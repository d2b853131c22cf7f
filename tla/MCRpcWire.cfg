SPECIFICATION Spec
CONSTANTS
  ZDR_ENCODEBUF_MINSIZE = 160
  RPC_FAST_VECTORS = 8
  RPC_MAX_VECTORS = 1024
  ZCRP = 132
  MAX_FRAGMENT_SIZE = 4096
  Calls <- MCCalls
  Answers <- MCAnswers
  Pieces <- MCPieces
  Late <- MCLate
  WriteVectors <- Few
  PieceLengths = 220
  MaxPieces = 1
  MaxHangups = 1
INVARIANTS
  ArgsArrive
  ResultArrives
  InStep
  NotWaiting
  CursorSound
  
CHECK_DEADLOCK FALSE
