CONSTANTS
    s1 = s1
    s2 = s2
    u1 = u1
    u2 = u2
    Stream <- MCStream
    Sub <- MCSub
    EvCap <- MCEvCap
    SubCap <- MCSubCap
    MaxEvents <- MCMaxEvents

SPECIFICATION FairSpec
\* After Stop returns, or after a panic, the monitor rests for good; that
\* is the end of the process, not a deadlock.
CHECK_DEADLOCK FALSE

INVARIANT StopQuiescent
PROPERTY StopCompletes
