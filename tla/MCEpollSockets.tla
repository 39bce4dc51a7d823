--------------------------- MODULE MCEpollSockets ---------------------------
EXTENDS EpollSockets, TLC

\* A stream of two frames, of 2 and 3 bytes, in a buffer of 4.
MCStreams == {0 :> 0 @@ 1 :> 2 @@ 2 :> 5}

=============================================================================
