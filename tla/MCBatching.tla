----------------------------- MODULE MCBatching -----------------------------
(* Pack with a word of 16: sizes up to 7, so that two files can pass the    *)
(* half word, and limits of every sign around the sizes.                    *)
EXTENDS BatchingLoop, TLC

CONSTANTS MaxLen, Sizes

MCInputs == {[i \in 1 .. n |-> [pos |-> i, Size |-> s[i]]] :
                <<n, s>> \in {<<Len(q), q>> : q \in BoundedSeq(Sizes, MaxLen)}}

MCFileLimits == {-1, 0, 1, 3}
MCByteLimits == {-1, 0, 1, 4, 7}
=============================================================================
