------------------------------- MODULE HttpApi -------------------------------
(***************************************************************************)
(* The REST API as a client sees it: the authentication middleware,        *)
(* POST /v1/jobs and GET /v1/jobs/{id}.  What happens to an accepted job   *)
(* behind the API is the contract JobLifecycle, which System implements.   *)
(* A reply is reduced to its status code and, on success, to the job it    *)
(* describes; code 0 stands for a fetch that got no reply at all.          *)
(***************************************************************************)
EXTENDS Naturals

CONSTANTS
  Jobs, Clients,
  Keys,        \* the API keys in existence
  Owner,       \* the client each key belongs to
  Files, Targets,
  Convertible, \* the <<file, target>> pairs handleCreateJob accepts
  NoBody,      \* the body of an error reply
  MaxFaults    \* bound on server errors, refusals by rate, lost messages and revocations

ASSUME ApiAssumption ==
  /\ Owner \in [Keys -> Clients]
  /\ Convertible \subseteq Files \X Targets
  /\ MaxFaults \in Nat

VARIABLES
  phase, result,  \* the jobs, see JobLifecycle
  owned,          \* owned[c]: the jobs of client c (jobs.client_id)
  activeKeys,     \* the keys that are not revoked
  faults          \* how many faults have happened

Backend == INSTANCE JobLifecycle WITH Jobs <- Jobs, phase <- phase, result <- result

apiVars == <<phase, result, owned, activeKeys, faults>>

Statuses == {"queued", "active", "done", "failed"}
Settled == {"done", "failed"}
Bodies == [job_id : Jobs, status : Statuses, download_url : BOOLEAN]

Reply(code, body) == [code |-> code, body |-> body]
ErrorCodes == {0, 400, 401, 404, 413, 422, 429, 500}
Replies == [code : {200, 202}, body : Bodies] \cup [code : ErrorCodes, body : {NoBody}]

ApiTypeOK ==
  /\ phase \in [Jobs -> {"absent", "pending", "done", "failed"}]
  /\ result \subseteq Jobs
  /\ owned \in [Clients -> SUBSET Jobs]
  /\ activeKeys \subseteq Keys
  /\ faults \in 0..MaxFaults

ApiInit ==
  /\ Backend!Init
  /\ owned = [c \in Clients |-> {}]
  /\ activeKeys = Keys
  /\ faults = 0

Fault == faults < MaxFaults /\ faults' = faults + 1

-----------------------------------------------------------------------------
\* RevokeKey of the client repository; requests with the key get 401 from now on.
RevokeKey(k) ==
  /\ k \in activeKeys /\ Fault
  /\ activeKeys' = activeKeys \ {k}
  /\ UNCHANGED <<phase, result, owned>>

\* Middleware: the key, or the absence of one, decides before any handler runs.
Authorized(k) == k \in activeKeys

\* The limiter's 429, or a 500 from a store that does not answer.
Refusals == {Reply(429, NoBody), Reply(500, NoBody)}

\* The errors of handleCreateJob that leave no row: a missing or unreadable field, too
\* large, or no converter for the pair.  Jobs bounds the rows: when every id is used,
\* the insert fails.
CreateErrors(k, file, target) ==
  IF ~Authorized(k) THEN {Reply(401, NoBody)}
  ELSE IF <<file, target>> \notin Convertible
         THEN {Reply(code, NoBody) : code \in {400, 413, 422}}
  ELSE IF \A j \in Jobs : phase[j] # "absent" THEN {Reply(500, NoBody)}
  ELSE {}

\* handleCreateJob inserts the row.
Insert(k, file, target, j) ==
  /\ Authorized(k) /\ <<file, target>> \in Convertible
  /\ Backend!Accept(j)
  /\ owned' = [owned EXCEPT ![Owner[k]] = @ \cup {j}]
  /\ UNCHANGED activeKeys

Created(j) == Reply(202, [job_id |-> j, status |-> "queued", download_url |-> FALSE])

\* handleGetJob on a row of the caller's: a pending job is queued or active, a done
\* job comes with a presigned URL of its first output.
JobReplies(j) ==
  {Reply(200, [job_id |-> j, status |-> s, download_url |-> s = "done" /\ j \in result]) :
     s \in IF phase[j] = "pending" THEN {"queued", "active"} ELSE {phase[j]}}

\* The row of another client is reported as missing.
GetReplies(k, j) ==
  IF ~Authorized(k) THEN {Reply(401, NoBody)}
  ELSE IF j \in owned[Owner[k]] THEN JobReplies(j)
  ELSE {Reply(404, NoBody)}

\* The pipeline stores a result and settles the job.
Publish(j) == Backend!Publish(j) /\ UNCHANGED <<owned, activeKeys, faults>>
Finish(j) == (Backend!Succeed(j) \/ Backend!GiveUp(j)) /\ UNCHANGED <<owned, activeKeys, faults>>
=============================================================================
