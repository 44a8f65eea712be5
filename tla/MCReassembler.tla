--------------------------- MODULE MCReassembler ---------------------------
(* Model values and bounds for checking Reassembler with TLC.              *)
EXTENDS Reassembler

\* Two deadlines, so that adaptive recovery can shorten or lengthen the wait
\* of packets that are already buffered.
MCDeadlines == {1, 2}

\* With a dedupe window smaller than what is in flight a number can be
\* buffered again while it is still held, and each time the lazy arrival
\* queue takes another entry.
BoundedArrivals == Len(arrivals) <= 5

=============================================================================
