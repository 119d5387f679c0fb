----------------------------- MODULE Reconciler -----------------------------
(***************************************************************************)
(* The sweepers of internal/reconciler/reconciler.go: one per replica of   *)
(* cmd/webhook-worker, elected by a Postgres session advisory lock.        *)
(*                                                                         *)
(* sweep() is a sequence of calls, so it is a sequence of steps here: the  *)
(* FindStale result is a snapshot that other processes overtake while the  *)
(* sweeper walks it, and the lock is only looked at when a tick begins.    *)
(* The unroutable-engine branch is left out: the API only stores engines   *)
(* that have a queue (handlers.go:630-650).  RecordWebhookGapRecovered     *)
(* only appends an audit event nothing reads.                              *)
(***************************************************************************)
EXTENDS TaskQueue

CONSTANTS
  Sweepers,       \* the replicas that run RunWithLock
  MaxRecoveries,  \* RECONCILER_MAX_RECOVERIES
  NoJob           \* "no current job"

ASSUME SweeperAssumption == MaxRecoveries \in Nat /\ NoJob \notin Jobs

VARIABLES
  leader,   \* the sweeper whose session holds the advisory lock, if any, as a set
  sweep,    \* where a sweeper is in sweep()
  todo,     \* what is left of the scan it walks
  cur,      \* the job it is at
  revived   \* history: convert tasks the sweepers pushed for a job

sweepVars == <<leader, sweep, todo, cur, revived>>

SweepSteps == {"idle", "scan", "stale", "enqueue", "requeue", "requeueAgain",
               "exhaust", "exhaustBlind", "exhaustHook", "gaps"}

\* Bound of the history counter, above anything RecoveryBudget allows.
MaxRevived == MaxRecoveries + MaxFaults + 1

SweepInit ==
  /\ leader = {}
  /\ sweep = [s \in Sweepers |-> "idle"]
  /\ todo = [s \in Sweepers |-> {}]
  /\ cur = [s \in Sweepers |-> NoJob]
  /\ revived = [j \in Jobs |-> 0]

-----------------------------------------------------------------------------
At(s, step, job) ==
  /\ sweep' = [sweep EXCEPT ![s] = step]
  /\ cur' = [cur EXCEPT ![s] = job]

\* "continue": on to the next job of the scan.
NextJob(s) == At(s, "stale", NoJob)

\* Faulty variant: the answer of TryAcquire is not looked at.
TickUnlocked(s) ==
  /\ sweep[s] = "idle"
  /\ leader' = {s}
  /\ At(s, "scan", NoJob)
  /\ UNCHANGED <<todo, revived>>
  /\ UNCHANGED queueVars /\ UNCHANGED repoVars /\ NoFault

\* RunWithLock: TryAcquire.  A tick that wins or already holds the lock sweeps.
Tick(s) ==
  /\ sweep[s] = "idle"
  /\ leader \subseteq {s}
  /\ leader' = {s}
  /\ At(s, "scan", NoJob)
  /\ UNCHANGED <<todo, revived>>
  /\ UNCHANGED queueVars /\ UNCHANGED repoVars /\ NoFault

\* The sweep starts with FindStale; a scan that fails ends it.
Scan(s) ==
  /\ sweep[s] = "scan"
  /\ \/ NoFault /\ NextJob(s) /\ todo' = [todo EXCEPT ![s] = FindStale]
     \/ Fault /\ At(s, "idle", NoJob) /\ UNCHANGED todo
  /\ UNCHANGED <<leader, revived>>
  /\ UNCHANGED queueVars /\ UNCHANGED repoVars

\* Faulty variant: the cap is compared with > instead of >=.
PickOverCap(s) ==
  /\ sweep[s] = "stale"
  /\ \E j \in todo[s] :
       /\ todo' = [todo EXCEPT ![s] = @ \ {j}]
       /\ \/ /\ RecoveryCount(j) <= MaxRecoveries
             /\ NoFault /\ At(s, "enqueue", j)
          \/ /\ RecoveryCount(j) > MaxRecoveries
             /\ NoFault /\ At(s, "exhaust", j)
  /\ UNCHANGED <<leader, revived>>
  /\ UNCHANGED queueVars /\ UNCHANGED repoVars

\* The next job of the scan: RecoveryCount (an error skips the job), the cap,
\* and on the capped path the Get whose failure only costs the webhook.
Pick(s) ==
  /\ sweep[s] = "stale"
  /\ \E j \in todo[s] :
       /\ todo' = [todo EXCEPT ![s] = @ \ {j}]
       /\ \/ /\ RecoveryCount(j) < MaxRecoveries
             /\ NoFault /\ At(s, "enqueue", j)
          \/ /\ RecoveryCount(j) >= MaxRecoveries
             /\ \/ NoFault /\ At(s, "exhaust", j)
                \/ Fault /\ At(s, "exhaustBlind", j)
          \/ Fault /\ NextJob(s)
  /\ UNCHANGED <<leader, revived>>
  /\ UNCHANGED queueVars /\ UNCHANGED repoVars

\* Faulty variant: the cap only stops the recoveries.
ExhaustForgets(s) ==
  /\ sweep[s] \in {"exhaust", "exhaustBlind"}
  /\ NextJob(s)
  /\ UNCHANGED <<leader, todo, revived>>
  /\ UNCHANGED queueVars /\ UNCHANGED repoVars /\ NoFault

\* The cap is reached: fail the job whatever became of it, and enqueue the
\* webhook whatever MarkFailed said.
Exhaust(s) ==
  /\ sweep[s] \in {"exhaust", "exhaustBlind"}
  /\ \E res \in Results : MarkFailed(cur[s], res)
  /\ IF sweep[s] = "exhaust" /\ cur[s] \in Callback
     THEN At(s, "exhaustHook", cur[s])
     ELSE NextJob(s)
  /\ UNCHANGED <<leader, todo, revived>>
  /\ UNCHANGED queueVars

ExhaustHook(s) ==
  /\ sweep[s] = "exhaustHook"
  /\ \E res \in EnqueueResults : Enqueue("webhook", cur[s], pc, res)
  /\ NextJob(s)
  /\ UNCHANGED <<leader, todo, revived>>
  /\ UNCHANGED repoVars

\* Under the cap: enqueue first, and touch the row only if the queue took it.
EnqueueStale(s) ==
  /\ sweep[s] = "enqueue"
  /\ \E res \in EnqueueResults :
       /\ Enqueue("convert", cur[s], pc, res)
       /\ IF res = "ok" THEN At(s, "requeue", cur[s]) ELSE NextJob(s)
  /\ revived' = [revived EXCEPT ![cur[s]] =
                   IF pc' # pc /\ @ < MaxRevived THEN @ + 1 ELSE @]
  /\ UNCHANGED <<leader, todo>>
  /\ UNCHANGED repoVars

\* Faulty variant: RequeueStale always runs twice.
RequeueTwice(s) ==
  /\ sweep[s] \in {"requeue", "requeueAgain"}
  /\ \E res \in Results : RequeueStale(cur[s], res)
  /\ IF sweep[s] = "requeue" THEN At(s, "requeueAgain", cur[s]) ELSE NextJob(s)
  /\ UNCHANGED <<leader, todo, revived>>
  /\ UNCHANGED queueVars

\* RequeueStale, tried once more after any error, then given up.
Requeue(s) ==
  /\ sweep[s] \in {"requeue", "requeueAgain"}
  /\ \E res \in Results :
       /\ RequeueStale(cur[s], res)
       /\ IF res # "ok" /\ sweep[s] = "requeue"
          THEN At(s, "requeueAgain", cur[s])
          ELSE NextJob(s)
  /\ UNCHANGED <<leader, todo, revived>>
  /\ UNCHANGED queueVars

\* The second scan; an error ends the sweep.
GapScan(s) ==
  /\ sweep[s] = "stale" /\ todo[s] = {}
  /\ \/ /\ NoFault
        /\ IF FindWebhookGaps = {} THEN At(s, "idle", NoJob) ELSE At(s, "gaps", NoJob)
        /\ todo' = [todo EXCEPT ![s] = FindWebhookGaps]
     \/ Fault /\ At(s, "idle", NoJob) /\ UNCHANGED todo
  /\ UNCHANGED <<leader, revived>>
  /\ UNCHANGED queueVars /\ UNCHANGED repoVars

GapEnqueue(s) ==
  /\ sweep[s] = "gaps"
  /\ \E j \in todo[s], res \in EnqueueResults :
       /\ Enqueue("webhook", j, pc, res)
       /\ todo' = [todo EXCEPT ![s] = @ \ {j}]
       /\ At(s, IF todo[s] = {j} THEN "idle" ELSE "gaps", NoJob)
  /\ UNCHANGED <<leader, revived>>
  /\ UNCHANGED repoVars

SweepStep(s) ==
  \/ Tick(s) \/ Scan(s) \/ Pick(s) \/ Exhaust(s) \/ ExhaustHook(s)
  \/ EnqueueStale(s) \/ Requeue(s) \/ GapScan(s) \/ GapEnqueue(s)

\* The session behind the lock ends (backend terminated, network): the sweeper
\* does not notice before its next TryAcquire and finishes the sweep it is in.
LoseLock(s) ==
  /\ leader = {s}
  /\ leader' = {}
  /\ Fault
  /\ UNCHANGED <<sweep, todo, cur, revived>>
  /\ UNCHANGED queueVars /\ UNCHANGED repoVars

\* The replica dies in the middle of a sweep; Postgres drops its session.
SweeperCrash(s) ==
  /\ sweep[s] # "idle"
  /\ At(s, "idle", NoJob)
  /\ todo' = [todo EXCEPT ![s] = {}]
  /\ leader' = leader \ {s}
  /\ Fault
  /\ UNCHANGED revived
  /\ UNCHANGED queueVars /\ UNCHANGED repoVars

SweepTypeOK ==
  /\ leader \subseteq Sweepers
  /\ sweep \in [Sweepers -> SweepSteps]
  /\ todo \in [Sweepers -> SUBSET Jobs]
  /\ cur \in [Sweepers -> Jobs \cup {NoJob}]
  /\ revived \in [Jobs -> 0 .. MaxRevived]
  /\ \A s \in Sweepers : cur[s] = NoJob <=> sweep[s] \in {"idle", "scan", "stale", "gaps"}
=============================================================================
