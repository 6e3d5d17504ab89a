------------------------------- MODULE MCPipe -------------------------------
EXTENDS Pipe, TLC

\* A ring of 3 bytes: writes of up to 4 bytes overrun it, reads of up to 4
\* drain it, and the indices wrap within a few steps
MC_PIPE_SIZE == 3
MC_Bytes == {1, 2}
MC_MaxChars == 4
\* The value spec 9 intends for the uninitialised counter, and the ones the
\* build may leave there instead
MC_CounterZero == {0}
MC_CounterAny == {-1, 0, 1}

=============================================================================
