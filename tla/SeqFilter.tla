----------------------------- MODULE SeqFilter ------------------------------
(***************************************************************************)
(* The loop that copies, in order, the elements of a slice that pass a     *)
(* test: the cleanup of the job store and of the log backups.  It is what  *)
(* SelectSeq computes, written as the loop, because SelectSeq is a         *)
(* primitive about which the proof system knows nothing.                   *)
(***************************************************************************)
EXTENDS Integers, Sequences

\* The elements of s that are in S: kept[i] is the copy after i iterations.
Keep(s, S) ==
    LET kept[i \in 0 .. Len(s)] ==
            IF i = 0 THEN <<>>
            ELSE IF s[i] \in S THEN Append(kept[i - 1], s[i]) ELSE kept[i - 1]
    IN  kept[Len(s)]

=============================================================================
