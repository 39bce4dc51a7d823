---------------------------- MODULE MCTransport ----------------------------
EXTENDS Transport, SequencesExt

\* Frames of 2 to 4 bytes (a header and up to two more) in a buffer of 5.
Sizes == 2..4

MCStreams ==
    {[k \in 0..MaxFrames |->
        FoldLeft(LAMBDA a, b : a + b, 0, SubSeq(sizes, 1, k))] :
       sizes \in [1..MaxFrames -> Sizes]}

=============================================================================
