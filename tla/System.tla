------------------------------- MODULE System -------------------------------
(***************************************************************************)
(* OctoConv's job pipeline: the API, the conversion workers, the webhook   *)
(* workers and the sweepers over one Postgres (JobRepo), one Redis         *)
(* (TaskQueue) and one object store, with crashes, lost answers and lock   *)
(* expiry.  Every step of every component may interleave with every other. *)
(***************************************************************************)
EXTENDS JobApi, ConvertWorker, WebhookWorker, Reconciler

vars == <<repoVars, faults, queueVars, objects, webhookVars, sweepVars, request>>

Init ==
  /\ RepoInit /\ QueueInit /\ WorkerInit /\ WebhookInit /\ SweepInit /\ ApiInit

ApiStep(j) ==
  /\ SubmitJob(j) \/ EnqueueJob(j)
  /\ UNCHANGED <<objects, webhookVars, sweepVars>>

ApiDies(j) ==
  /\ ApiCrash(j)
  /\ UNCHANGED <<objects, webhookVars, sweepVars>>

Convert(t) ==
  /\ ConvertStep(t)
  /\ UNCHANGED <<webhookVars, sweepVars, request>>

Deliver(t) ==
  /\ WebhookStep(t)
  /\ UNCHANGED <<objects, sweepVars, request>>

Serve(t) ==
  /\ Dequeue(t) \/ Return(t)
  /\ UNCHANGED <<objects, webhookVars, sweepVars, request>>

Expire(t) ==
  /\ LockExpire(t)
  /\ UNCHANGED <<objects, webhookVars, sweepVars, request>>

\* What a webhook handler had read dies with it.
WorkerDies(t) ==
  /\ WorkerCrash(t) \/ WorkerShutdown(t)
  /\ body' = [body EXCEPT ![t] = "none"]
  /\ UNCHANGED <<objects, heard, sweepVars, request>>

Reconcile(s) ==
  /\ SweepStep(s)
  /\ UNCHANGED <<objects, webhookVars, request>>

SweeperFails(s) ==
  /\ LoseLock(s) \/ SweeperCrash(s)
  /\ UNCHANGED <<objects, webhookVars, request>>

TimePasses(j) ==
  /\ Age(j)
  /\ UNCHANGED <<queueVars, objects, webhookVars, sweepVars, request>>

Next ==
  \/ \E j \in Jobs : ApiStep(j) \/ ApiDies(j) \/ TimePasses(j)
  \/ \E t \in Tasks : Convert(t) \/ Deliver(t) \/ Serve(t) \/ Expire(t) \/ WorkerDies(t)
  \/ \E s \in Sweepers : Reconcile(s) \/ SweeperFails(s)

Spec == Init /\ [][Next]_vars

\* The API finishes its requests, the servers poll their queues and run their
\* handlers, the tickers tick, time passes and TTLs expire.  Faults owe nothing.
Fairness ==
  /\ \A j \in Jobs : WF_vars(ApiStep(j)) /\ WF_vars(TimePasses(j))
  /\ \A t \in Tasks : /\ WF_vars(Convert(t)) /\ WF_vars(Deliver(t))
                      /\ WF_vars(Serve(t)) /\ WF_vars(Expire(t))
  /\ \A s \in Sweepers : WF_vars(Reconcile(s))

FairSpec == Spec /\ Fairness

-----------------------------------------------------------------------------
\* Every variable has its type, and a sweeper has a current job exactly while it is
\* working on one.
StateTypeOK ==
  /\ RepoTypeOK /\ QueueTypeOK /\ WebhookTypeOK /\ SweepTypeOK /\ ApiTypeOK
  /\ objects \subseteq Jobs

\* A webhook is only ever sent, or about to be sent, for a job that has a callback_url.
HooksHaveUrl ==
  /\ \A t \in Tasks :
       (Kind(t) = "webhook" /\ Live(t)) \/ pc[t] \in {"notifyDone", "notifyFailed"}
       => Job(t) \in Callback
  /\ \A s \in Sweepers : /\ sweep[s] = "exhaustHook" => cur[s] \in Callback
                         /\ sweep[s] = "gaps" => todo[s] \subseteq Callback

\* The state of the pipeline has its type, and every webhook in the queue, or that a
\* worker or a sweeper is about to enqueue, is for a job with a callback_url: the delivery
\* handler's "no callback_url" answer is never needed (worker.go:475, 489 and 934).
TypeOK == StateTypeOK /\ HooksHaveUrl

\* T-03-10: while unique locks outlive their tasks, every live task owns the lock
\* of its job and kind, so the API, the workers and the sweepers together never
\* have two live tasks for one job (NewImageConvertTask, queue.go:58-64).
OneLiveTask ==
  /\ \A t \in Tasks : Live(t) => t \in locked
  /\ \A t, u \in locked : SameKey(t, u) => t = u

\* A job reported done can be downloaded: its job_outputs row and the object that
\* row names exist (handleGetJob and HandleWebhookDeliver presign outs[0]).
DoneHasOutput == \A j \in Jobs : status[j] = "done" => j \in outputs /\ j \in objects

\* done and failed are final, and started_at and the recovery events survive every
\* retry and requeue: the guards of MarkActive, MarkFailed and RequeueStale hold
\* against late workers and sweepers acting on an old scan.
FinalStatusIsFinal ==
  [][\A j \in Jobs : /\ status[j] \in Final => status'[j] = status[j]
                     /\ j \in started => j \in started'
                     /\ recoveries'[j] >= recoveries[j]]_vars

\* No attempt is spent, and no output overwritten, on a job that is already done:
\* MarkActive stops a redelivered or requeued task before process().
NoWorkAfterDone ==
  \A t \in Tasks : pc[t] \in {"process", "addOutput", "markDone"} => status[Job(t)] # "done"

\* The sweepers push at most MaxRecoveries tasks for a job, plus one for each
\* fault that hid a recovery from the count (reconciler.go:328-370).
RecoveryBudget == \A j \in Jobs : revived[j] <= MaxRecoveries + faults

\* T-03-12: the recovery events the cap counts never run ahead of the tasks really
\* pushed by more than the lost acknowledgements that made RequeueStale run twice.
HonestCount == \A j \in Jobs : recoveries[j] <= revived[j] + faults

\* A job is given up as exhausted only after MaxRecoveries tasks were really pushed for
\* it, less one for each fault that made RequeueStale count a recovery twice
\* (reconciler.go:256-274).
ExhaustIsEarned ==
  \A s \in Sweepers : sweep[s] \in {"exhaust", "exhaustBlind", "exhaustHook"}
                       => revived[cur[s]] + faults >= MaxRecoveries

\* The advisory lock admits one sweep at a time; each further one is the rest of a
\* sweep whose replica has lost its session meanwhile (reconciler.go:205-228).
OneSweepPerSession == Cardinality({s \in Sweepers : sweep[s] # "idle"}) <= 1 + faults

\* A verdict a client has heard is the row's verdict, now and later: however often
\* a webhook is delivered, retried or recovered, nobody hears both done and failed.
VerdictIsTrue == \A j \in Jobs : heard[j] \cap Final \subseteq {status[j]}

\* WR-04 as far as it goes: as long as no fault has happened, a client hears nothing
\* but verdicts, although the cap branch sends its webhook whatever MarkFailed said.
FaultlessVerdicts == faults = 0 => \A j \in Jobs : heard[j] \subseteq Final

\* WEBHOOK-05 as far as it goes: as long as no fault has happened, a delivery leaves
\* the queue only when it is on record as delivered or dead-lettered.
NoSilentDrop ==
  [][faults' = 0 =>
       \A t \in Tasks : Kind(t) = "webhook" /\ Live(t) /\ ~Live(t)'
                         => deliveries'[Job(t)] \cap {"delivered", "dead"} # {}]_vars

-----------------------------------------------------------------------------
\* Refinement: what a job's owner can see of the rows and the store.
JobPhase == [j \in Jobs |-> CASE status[j] = "none" -> "absent"
                              [] status[j] \in InFlight -> "pending"
                              [] OTHER -> status[j]]
Downloadable == outputs \cap objects

Contract == INSTANCE JobLifecycle WITH phase <- JobPhase, result <- Downloadable

\* The pipeline implements the safety part of JobLifecycle.
ImplementsLifecycle == Contract!Spec
\* With fair processes and finitely many faults it also settles every job.
SettlesEveryJob == Contract!FairSpec

\* RECON-04: a finished job with a callback_url gets a delivery attempt on record,
\* whatever enqueue, worker or recording was lost on the way.
EventuallyAttempted ==
  \A j \in Callback : status[j] \in Final ~> deliveries[j] # {}

-----------------------------------------------------------------------------
\* What comments and documents of the repository say and the code does not keep.

\* WR-04 (worker.go:468-474): a webhook only ever carries done or failed, since
\* "active" is a status "which the contract never defines".
OnlyVerdictsSent == \A j \in Jobs : heard[j] \subseteq Final

\* reconciler.go:311-316 and 03-03-PLAN.md:66: a job whose task is merely
\* backlogged, or still running, is never driven to reconciler_exhausted.
ExhaustedIsStranded ==
  [][\A s \in Sweepers :
       /\ sweep[s] \in {"exhaust", "exhaustBlind"}
       /\ sweep'[s] # sweep[s]
       /\ status'[cur[s]] # status[cur[s]]
       => \A t \in Tasks : Kind(t) = "convert" /\ Job(t) = cur[s] => ~Live(t)]_vars

\* WEBHOOK-05 and README.md:67-68: a webhook is delivered or, once its retries are
\* exhausted, dead-lettered; it is never dropped silently.
DeliveredOrDeadLettered ==
  \A j \in Callback :
    status[j] \in Final ~> deliveries[j] \cap {"delivered", "dead"} # {}

\* README.md:33-34: a webhook that was dropped is caught by the reconciler, which
\* "delivers exactly once": no client acknowledges a webhook for a job that already
\* has an acknowledged one on record.
DeliveredOnce ==
  [][\A t \in Tasks : pc[t] = "post" /\ pc'[t] = "recordOk"
                       => "delivered" \notin deliveries[Job(t)]]_vars
=============================================================================
