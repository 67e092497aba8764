------------------------------- MODULE MCWire -------------------------------
(* Instances of Wire for TLC, and the property that flattens the queue of   *)
(* chunks.                                                                 *)
EXTENDS Wire, SequencesExt

\* One frame of each kind, with metadata beyond the limits on payloads and
\* beyond one byte.
SomeControls ==
    {Data(1, {"FIN"}, <<>>), WindowUpdate(1, {}, 770), Ping({"ACK"}, 2), GoAway(Known("Timeout")),
     GoAway(Unknown(7))}

(* What a stream's reader has read and has in its buffer is a prefix of    *)
(* what was written, whatever the sizes of the frames and of the reads.    *)
BytesInOrder ==
    \A s \in StreamIds :
        LET got == read[s] \o FlattenSeq(recv[s]) IN got = [i \in 1..Len(got) |-> i]
=============================================================================
