---------------------------- MODULE Subsequences ----------------------------
(***************************************************************************)
(* What a filter leaves of a sequence: the elements at some positions, in  *)
(* their order.                                                            *)
(***************************************************************************)
EXTENDS Integers, Sequences, FiniteSets

Picked(s, D) ==
  LET left[n \in 0..Len(s)] ==
        IF n = 0 THEN <<>>
        ELSE IF n \in D THEN Append(left[n - 1], s[n])
        ELSE left[n - 1]
  IN  left[Len(s)]

Filtered(s, Kept(_)) == Picked(s, {i \in DOMAIN s : Kept(s[i])})
=============================================================================
