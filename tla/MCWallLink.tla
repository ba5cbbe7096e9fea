----------------------------- MODULE MCWallLink -----------------------------
(***************************************************************************)
(* Small walls for TLC.  Every run names the part of the protocol that it  *)
(* leaves room for: jobs, texts, settings, several rows, several addresses. *)
(***************************************************************************)
EXTENDS WallLink, TLC

CONSTANTS r1, r2, a1, a2, t1

OneRow   == {r1}
TwoRows  == {r1, r2}
OneAddr  == {a1}
TwoAddrs == {a1, a2}
AtFirst  == [r \in Rows |-> a1]
OneText  == {t1}
NoSettings  == <<>>
OneSetting == <<"config">>

\* The names of connections are interchangeable.
Recycled == Permutations(Links)
=============================================================================
