------------------------------- MODULE UnitJob -------------------------------
(***************************************************************************)
(* What a unit job promises the operator, whatever the network, the row    *)
(* and the master do: it runs at most once, it is reported ended at most   *)
(* once, an answer of the row is the answer to this very job, and a job    *)
(* that is reported as not run does not run, then or later.                *)
(***************************************************************************)
EXTENDS Naturals

CONSTANT Jobs
VARIABLES result,     \* what the operator is told: "none" before the job exists
          ran, done   \* the jobs that have started, that have finished

\* A job that ended like this may still be run by a row that was slow to read it.
MayStillRun == {"open", "noResult", "wallChanged", "forgotten"}

Init == result = [j \in Jobs |-> "none"] /\ ran = {} /\ done = {}

Ask(j) ==
  /\ result[j] = "none"
  /\ result' = [result EXCEPT ![j] = "open"] /\ UNCHANGED <<ran, done>>

Run(j) ==
  /\ j \notin ran /\ result[j] \in MayStillRun
  /\ ran' = ran \cup {j} /\ UNCHANGED <<result, done>>

Finish(j) ==
  /\ j \in ran
  /\ done' = done \cup {j} /\ UNCHANGED <<result, ran>>

\* The row's answer.
Answer(j, how) ==
  /\ result[j] = "open"
  /\ IF how = "refused" THEN j \notin ran ELSE j \in done
  /\ result' = [result EXCEPT ![j] = how] /\ UNCHANGED <<ran, done>>

\* The master gives the job up without an answer.
GiveUp(j, how) ==
  /\ result[j] = "open"
  /\ how = "notHandedOver" => j \notin ran
  /\ result' = [result EXCEPT ![j] = how] /\ UNCHANGED <<ran, done>>

\* All open jobs end at once.
AllEnd(how) ==
  /\ result' = [j \in Jobs |-> IF result[j] = "open" THEN how ELSE result[j]]
  /\ UNCHANGED <<ran, done>>

Next ==
  \/ \E j \in Jobs :
       \/ Ask(j) \/ Run(j) \/ Finish(j)
       \/ \E how \in {"ok", "failed", "refused"} : Answer(j, how)
       \/ \E how \in {"notHandedOver", "noResult", "restarted"} : GiveUp(j, how)
  \/ \E how \in {"wallChanged", "forgotten"} : AllEnd(how)

Spec == Init /\ [][Next]_<<result, ran, done>>
=============================================================================
