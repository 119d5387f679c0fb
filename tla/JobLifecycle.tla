---------------------------- MODULE JobLifecycle ----------------------------
(***************************************************************************)
(* What OctoConv promises the owner of a job, without workers, queues,     *)
(* retries or sweeps: an accepted job is settled exactly once, as done     *)
(* only with a result to download, and it is settled eventually.           *)
(***************************************************************************)
CONSTANT Jobs

VARIABLES
  phase,   \* "absent", "pending", "done" or "failed"
  result   \* the jobs with a downloadable result

vars == <<phase, result>>

Init ==
  /\ phase = [j \in Jobs |-> "absent"]
  /\ result = {}

Accept(j) ==
  /\ phase[j] = "absent"
  /\ phase' = [phase EXCEPT ![j] = "pending"]
  /\ UNCHANGED result

\* A result may still appear for a job that was given up, never for a done one.
Publish(j) ==
  /\ phase[j] \in {"pending", "failed"}
  /\ result' = result \cup {j}
  /\ UNCHANGED phase

Succeed(j) ==
  /\ phase[j] = "pending" /\ j \in result
  /\ phase' = [phase EXCEPT ![j] = "done"]
  /\ UNCHANGED result

GiveUp(j) ==
  /\ phase[j] = "pending"
  /\ phase' = [phase EXCEPT ![j] = "failed"]
  /\ UNCHANGED result

Next == \E j \in Jobs : Accept(j) \/ Publish(j) \/ Succeed(j) \/ GiveUp(j)

Spec == Init /\ [][Next]_vars

FairSpec == Spec /\ \A j \in Jobs : WF_vars(Succeed(j) \/ GiveUp(j))
=============================================================================
