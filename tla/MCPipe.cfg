\* refinement of the bounded FIFO with the loop counter at 0
CONSTANTS
  PIPE_SIZE <- MC_PIPE_SIZE
  Bytes <- MC_Bytes
  MaxChars <- MC_MaxChars
  CounterInit <- MC_CounterZero
  Junk = Junk
SPECIFICATION PipeSpec
INVARIANT PipeTypeOK
PROPERTY ImplementsPipeQueue
