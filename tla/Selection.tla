----------------------------- MODULE Selection -----------------------------
(***************************************************************************)
(* The elements of a sequence that are in a set, in their order.           *)
(*                                                                         *)
(* What SelectSeq returns, with the test given as a set: the provers know  *)
(* nothing of SelectSeq, and cannot be given a theorem about a test.       *)
(***************************************************************************)
EXTENDS Naturals, Sequences

Selected(s, S) ==
    LET upTo[n \in 0 .. Len(s)] ==
            IF n = 0 THEN <<>>
            ELSE IF s[n] \in S THEN Append(upTo[n - 1], s[n]) ELSE upTo[n - 1]
    IN  upTo[Len(s)]

=============================================================================
