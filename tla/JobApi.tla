------------------------------- MODULE JobApi -------------------------------
(***************************************************************************)
(* The tail of handleCreateJob in internal/api/handlers.go, from the point *)
(* where the request has passed validation: store the upload, insert the   *)
(* row, push the task ("Postgres-first double write").  The two writes are *)
(* separate steps, and the request may end between them.                   *)
(***************************************************************************)
EXTENDS TaskQueue

VARIABLE request   \* per job id: "open", "created" (row inserted), "answered"

ApiInit == request = [j \in Jobs |-> "open"]

\* Upload of the input, then Create; an error of either is answered with 500 and
\* leaves at most an orphaned object (or a row whose commit was not acknowledged).
SubmitJob(j) ==
  /\ request[j] = "open"
  /\ \E res \in {"ok", "blip"} :
       /\ Create(j, res)
       /\ request' = [request EXCEPT ![j] = IF res = "ok" THEN "created" ELSE "answered"]
  /\ UNCHANGED queueVars

\* Enqueue onto the engine's queue.  202 or 500: the row stays queued either way.
EnqueueJob(j) ==
  /\ request[j] = "created"
  /\ \E res \in EnqueueResults : Enqueue("convert", j, pc, res)
  /\ request' = [request EXCEPT ![j] = "answered"]
  /\ UNCHANGED repoVars

\* The API process dies between the two writes.
ApiCrash(j) ==
  /\ request[j] = "created"
  /\ request' = [request EXCEPT ![j] = "answered"]
  /\ Fault
  /\ UNCHANGED queueVars /\ UNCHANGED repoVars

ApiTypeOK == request \in [Jobs -> {"open", "created", "answered"}]
=============================================================================
