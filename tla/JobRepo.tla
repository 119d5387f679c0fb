------------------------------- MODULE JobRepo -------------------------------
(***************************************************************************)
(* The Postgres side of OctoConv: the rows of jobs, job_outputs,           *)
(* job_events and webhook_deliveries, and the operations of                *)
(* internal/jobs/repo.go and internal/webhook/repo.go on them.             *)
(*                                                                         *)
(* Every operation is one transaction or one statement, so it is one       *)
(* atomic step; a caller learns of it only through a result.  A call that  *)
(* breaks (connection lost, context expired) may or may not have been      *)
(* committed by the server: both outcomes are modelled.                    *)
(*                                                                         *)
(* Abstracted: wall-clock time is reduced to "older than the reconciler's  *)
(* cutoff or not" for each timestamp column; the columns nothing reads     *)
(* back (attempts, error text, the audit part of job_events) are left out. *)
(***************************************************************************)
EXTENDS Naturals, FiniteSets

CONSTANTS
  Jobs,       \* job ids the API may create
  Callback,   \* the jobs created with a callback_url
  MaxFaults   \* bound on infrastructure faults in one behaviour

ASSUME JobsAssumption == Callback \subseteq Jobs /\ MaxFaults \in Nat

VARIABLES
  status,      \* jobs.status, "none" while there is no row
  started,     \* the jobs whose started_at is not NULL
  aged,        \* the timestamp columns of a row that are past their cutoff
  recoveries,  \* number of job_events rows tagged reconciler_recovery
  outputs,     \* the jobs with a job_outputs row
  deliveries,  \* what webhook_deliveries holds for a job
  faults       \* infrastructure faults so far

repoVars == <<status, started, aged, recoveries, outputs, deliveries>>

Statuses == {"none", "queued", "active", "done", "failed"}
Final    == {"done", "failed"}
InFlight == {"queued", "active"}
Stamps   == {"created", "started", "finished"}
Marks    == {"delivered", "undelivered", "dead"}

\* How a call that reached its service but did not answer properly looks to the
\* caller: an error, or the expiry of the context it ran under.
Broken  == {"blip", "timeout"}
Results == {"ok", "illegal"} \cup Broken

NoFault == UNCHANGED faults
Fault   == faults < MaxFaults /\ faults' = faults + 1

RepoInit ==
  /\ status = [j \in Jobs |-> "none"]
  /\ started = {}
  /\ aged = [j \in Jobs |-> {}]
  /\ recoveries = [j \in Jobs |-> 0]
  /\ outputs = {}
  /\ deliveries = [j \in Jobs |-> {}]
  /\ faults = 0

-----------------------------------------------------------------------------
\* The body of a transition: the status and what the callers' UPDATEs set with
\* it.  started_at is set once (COALESCE); only RequeueStale goes to queued, and
\* it is the one that appends a reconciler_recovery event.
Apply(j, to) ==
  /\ status' = [status EXCEPT ![j] = to]
  /\ started' = IF to = "active" THEN started \cup {j} ELSE started
  /\ recoveries' = [recoveries EXCEPT ![j] = IF to = "queued" THEN @ + 1 ELSE @]
  /\ UNCHANGED <<aged, outputs, deliveries>>

\* SELECT ... FOR UPDATE, the guard on the source status, the update and the
\* event, in one transaction.
Transition(j, to, allowedFrom, res) ==
  \/ /\ res = "ok"
     /\ status[j] \in allowedFrom
     /\ Apply(j, to)
     /\ NoFault
  \/ /\ res = "illegal"
     /\ status[j] \notin allowedFrom
     /\ UNCHANGED repoVars
     /\ NoFault
  \/ /\ res \in Broken
     /\ Fault
     /\ \/ UNCHANGED repoVars
        \/ status[j] \in allowedFrom /\ Apply(j, to)

\* Faulty variants of the guards, to show what each of them is for.
MarkFailedAnyStatus(j, res)    == Transition(j, "failed", Statuses, res)
MarkFailedActiveOnly(j, res)   == Transition(j, "failed", {"active"}, res)
RequeueStaleFailedToo(j, res)  == Transition(j, "queued", InFlight \cup {"failed"}, res)

MarkActive(j, res)   == Transition(j, "active", InFlight, res)
MarkDone(j, res)     == Transition(j, "done", {"active"}, res)
MarkFailed(j, res)   == Transition(j, "failed", InFlight, res)
RequeueStale(j, res) == Transition(j, "queued", InFlight, res)

\* INSERT of the job, its input and its first event.
InsertJob(j) ==
  /\ status' = [status EXCEPT ![j] = "queued"]
  /\ UNCHANGED <<started, aged, recoveries, outputs, deliveries>>

Create(j, res) ==
  /\ status[j] = "none"
  /\ \/ res = "ok" /\ NoFault /\ InsertJob(j)
     \/ res = "blip" /\ Fault /\ (UNCHANGED repoVars \/ InsertJob(j))

\* job_outputs has no unique index: a second attempt adds a second row with the
\* same key, which no reader can tell from the first.
InsertOutput(j) ==
  /\ outputs' = outputs \cup {j}
  /\ UNCHANGED <<status, started, aged, recoveries, deliveries>>

AddOutput(j, res) ==
  \/ res = "ok" /\ NoFault /\ InsertOutput(j)
  \/ res \in Broken /\ Fault /\ (UNCHANGED repoVars \/ InsertOutput(j))

\* Faulty variant: the event of the first transition to queued is counted too.
RecoveryCountAllQueued(j) == recoveries[j] + 1

RecoveryCount(j) == recoveries[j]

\* Faulty variant: lost enqueues are not looked for.
FindStaleActiveOnly == {j \in Jobs : status[j] = "active" /\ "started" \in aged[j]}

\* FindStale: queued rows by created_at, active rows by started_at.
FindStale ==
  {j \in Jobs : \/ status[j] = "queued" /\ "created" \in aged[j]
                \/ status[j] = "active" /\ "started" \in aged[j]}

\* Faulty variant: jobs that failed are not looked at.
FindWebhookGapsDoneOnly ==
  {j \in Callback : /\ status[j] = "done"
                    /\ "finished" \in aged[j]
                    /\ deliveries[j] = {}}

\* FindWebhookGaps: finished long enough ago, a callback, and no row at all.
FindWebhookGaps ==
  {j \in Callback : /\ status[j] \in Final
                    /\ "finished" \in aged[j]
                    /\ deliveries[j] = {}}

\* RecordAttempt and MarkDeadLetter (internal/webhook/repo.go): one INSERT, one
\* UPDATE of the row just inserted.
Note(j, mark) ==
  /\ deliveries' = [deliveries EXCEPT ![j] = @ \cup {mark}]
  /\ UNCHANGED <<status, started, aged, recoveries, outputs>>

RecordAttempt(j, delivered, res) ==
  LET mark == IF delivered THEN "delivered" ELSE "undelivered"
  IN \/ res = "ok" /\ NoFault /\ Note(j, mark)
     \/ res = "blip" /\ Fault /\ (UNCHANGED repoVars \/ Note(j, mark))

\* Faulty variant: the UPDATE names a row that does not exist.
MarkDeadLetterNoRow(j, res) == res = "ok" /\ NoFault /\ UNCHANGED repoVars

MarkDeadLetter(j, res) ==
  \/ res = "ok" /\ NoFault /\ Note(j, "dead")
  \/ res = "blip" /\ Fault /\ (UNCHANGED repoVars \/ Note(j, "dead"))

-----------------------------------------------------------------------------
\* The timestamp columns that are set on row j.
Stamped(j) ==
  {s \in Stamps : \/ s = "created" /\ status[j] # "none"
                  \/ s = "started" /\ j \in started
                  \/ s = "finished" /\ status[j] \in Final}

\* Time passes: one timestamp of row j falls behind the cutoff the reconciler
\* compares it with.  No operation ever moves a timestamp forward again.
Age(j) ==
  /\ \E s \in Stamped(j) \ aged[j] : aged' = [aged EXCEPT ![j] = @ \cup {s}]
  /\ UNCHANGED <<status, started, recoveries, outputs, deliveries, faults>>

RepoTypeOK ==
  /\ status \in [Jobs -> Statuses]
  /\ started \subseteq Jobs
  /\ aged \in [Jobs -> SUBSET Stamps]
  /\ recoveries \in [Jobs -> Nat]
  /\ outputs \subseteq Jobs
  /\ deliveries \in [Jobs -> SUBSET Marks]
  /\ faults \in 0 .. MaxFaults
=============================================================================
