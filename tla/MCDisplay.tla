------------------------------- MODULE MCDisplay -------------------------------
(* Display for TLC: two texts, a short queue. *)
EXTENDS Display

CONSTANTS hello, noon, blank, mixed

MCTexts == {hello, noon}

\* The texts are interchangeable, so the clock may start at noon.
InitAtNoon == Init /\ input \in {noon, blank}

FromNoon == InitAtNoon /\ [][Next]_vars /\ Fairness
=============================================================================
