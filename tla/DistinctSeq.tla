---------------------------- MODULE DistinctSeq ----------------------------
(* Queues in which no element is twice: those of buffers and of places.    *)
EXTENDS Naturals, Sequences

InQueue(x, s) == \E i \in 1 .. Len(s) : s[i] = x
Distinct(s) == \A i, j \in 1 .. Len(s) : s[i] = s[j] => i = j

=============================================================================
