---------------------------- MODULE MCGrounding ----------------------------
(* An instance of Grounding for TLC. *)
EXTENDS GroundingProofs

(* A ligature, a wide letter and a spacing accent among the letters. *)
MCLetters == {"a", "b", "c", "LIGATURE", "WIDE", "ACCENT"}

MCNfkc ==
  [char \in Characters |->
     CASE char = "LIGATURE" -> <<"a", "b">>
       [] char = "WIDE" -> <<"c">>
       [] char = "ACCENT" -> <<" ", "a">>
       [] OTHER -> <<char>>]

(* All short texts, and some that the normalisation of letters, newlines   *)
(* and runs of blanks lengthens or shortens.                               *)
MCTexts ==
  BoundedSeq({"a", " "}, 1)
    \cup {<<"a", "b", "c">>, <<"a", " ", " ", "b">>,
          <<"a", "\r", "\n", "b">>, <<"a", "\n", "\n", "\r", "b">>,
          <<"LIGATURE", " ", "ACCENT">>, <<"ACCENT", "WIDE">>}

MCSizes == {0, 1, 2, 4}

MCOverlaps == -1..2

(* No wait, one above the cap, a negative number. *)
MCRetryAfter == {0, 40, -1, Date, Absent}

(* Below zero, at zero, one term below the threshold, and at it. *)
MCScores == {-10, 0, 42, 50}
=============================================================================
