---------------------------- MODULE WebhookProofs ----------------------------
(***************************************************************************)
(* What a client can rely on when it hears a verdict, for any number of    *)
(* deliveries, redeliveries, recoveries and faults, with or without lapsed *)
(* locks; and what the documents promise of webhooks and only a fault can  *)
(* break.                                                                  *)
(***************************************************************************)
EXTENDS RecoveryProofs

\* The strengthening that makes VerdictIsTrue inductive: a verdict that a handler
\* has read and not yet sent is the row's.
VerdictInv ==
  /\ \A t \in Tasks : body[t] \in Final => body[t] = status[Job(t)]
  /\ VerdictIsTrue

\* A handler holds only what it has just read from the row, and a client hears only
\* what a handler held when it made the POST.
LEMMA WordOfMouth ==
  ASSUME StateTypeOK, [Next]_vars
  PROVE  /\ \A u \in Tasks : body'[u] \in {body[u], "none", status[Job(u)]}
         /\ \A j \in Jobs : \A w \in heard'[j] :
              w \in heard[j] \/ \E u \in Tasks : pc[u] = "post" /\ j = Job(u) /\ w = body[u]
<1> DEFINE Told == /\ \A u \in Tasks : body'[u] \in {body[u], "none", status[Job(u)]}
                   /\ \A j \in Jobs : \A w \in heard'[j] :
                        w \in heard[j] \/ \E u \in Tasks : pc[u] = "post" /\ j = Job(u) /\ w = body[u]
<1> USE DEF StateTypeOK, WebhookTypeOK
<1>1. CASE UNCHANGED webhookVars
  BY <1>1 DEF webhookVars
<1>2. ASSUME NEW t \in Tasks, Deliver(t) PROVE Told
  <2>1. CASE Read(t)
    BY <2>1 DEF Read
  <2>2. CASE Post(t)
    BY <2>2, TaskFacts DEF Post
  <2> QED BY <1>1, <1>2, <2>1, <2>2
          DEF Deliver, WebhookStep, RecordSuccess, RecordFailure, DeadLetter
<1>3. ASSUME NEW t \in Tasks, WorkerDies(t) PROVE Told
  BY <1>3 DEF WorkerDies
<1> QED BY <1>1, <1>2, <1>3
        DEF Next, vars, ApiStep, ApiDies, TimePasses, Convert, Serve, Expire, Reconcile,
            SweeperFails

\* A client never hears a verdict that is not the row's, nor two different ones,
\* although the row may be requeued or failed between the read and the POST.
THEOREM TrueVerdicts == Spec => []VerdictIsTrue
<1>1. Init => VerdictInv
  BY DEF Init, WebhookInit, VerdictInv, VerdictIsTrue, Final
<1>2. StateTypeOK /\ VerdictInv /\ [Next]_vars => VerdictInv'
  <2> SUFFICES ASSUME StateTypeOK, VerdictInv, [Next]_vars PROVE VerdictInv'
    OBVIOUS
  <2>1. /\ \A u \in Tasks : body'[u] \in {body[u], "none", status[Job(u)]}
        /\ \A j \in Jobs : \A w \in heard'[j] :
             w \in heard[j] \/ \E u \in Tasks : pc[u] = "post" /\ j = Job(u) /\ w = body[u]
    BY WordOfMouth
  <2>2. \A j \in Jobs : status[j] \in Final => status'[j] = status[j]
    BY RowsStay
  <2>3. \A t \in Tasks : body'[t] \in Final => body'[t] = status'[Job(t)]
    BY <2>1, <2>2, TaskFacts DEF VerdictInv, Final
  <2>4. ASSUME NEW j \in Jobs, NEW w \in heard'[j], w \in Final PROVE w = status'[j]
    <3>1. w = status[j]
      BY <2>1, <2>4 DEF VerdictInv, VerdictIsTrue
    <3> QED BY <3>1, <2>2, <2>4
  <2> QED BY <2>3, <2>4 DEF VerdictInv, VerdictIsTrue
<1>3. VerdictInv => VerdictIsTrue
  BY DEF VerdictInv
<1> QED BY <1>1, <1>2, <1>3, Typed, PTL DEF Spec

-----------------------------------------------------------------------------
\* The positions at which a conversion handler is about to enqueue the webhook.
Notifying == {"notifyDone", "notifyFailed"}

\* Someone is about to enqueue a webhook for job j: a worker that settled it, the cap
\* branch of a sweep, or the second loop of a sweep.
Due(j) ==
  \/ \E t \in Tasks : pc[t] \in Notifying /\ Job(t) = j
  \/ \E s \in Sweepers : sweep[s] = "exhaustHook" /\ cur[s] = j
  \/ \E s \in Sweepers : sweep[s] = "gaps" /\ j \in todo[s]

\* What a step can make of task u: it enters a handler of its own kind only; it is
\* about to announce a verdict only after it wrote it itself, to a job with a
\* callback_url; it sends the status it read; it is pushed by someone who was about to;
\* and if no fault has happened it succeeds with a delivery on record and is archived
\* with a dead letter on record.
TaskMove(u) ==
  /\ pc'[u] \in ConvertSteps \cup {"drop"}
       => pc[u] \in ConvertSteps \cup {"drop"} \/ Kind(u) = "convert"
  /\ pc'[u] \in WebhookSteps => pc[u] \in WebhookSteps \/ Kind(u) = "webhook"
  /\ pc'[u] \in Notifying
       => \/ pc[u] \in Notifying
          \/ /\ status[Job(u)] \notin Final /\ status'[Job(u)] \in Final
             /\ Job(u) \in Callback
             /\ \A v \in Tasks \ {u} : pc'[v] = pc[v]
  /\ pc'[u] = "post" => \/ pc[u] = "post" /\ body'[u] = body[u]
                        \/ pc[u] = "read" /\ body'[u] = status[Job(u)]
  /\ ~Live(u) /\ Live(u)' /\ Kind(u) = "webhook" => Due(Job(u))
  /\ pc'[u] = "succeed" /\ faults' = 0
       => \/ pc[u] \in ConvertSteps \cup {"succeed"}
          \/ "delivered" \in deliveries'[Job(u)]
  /\ Live(u) /\ ~Live(u)' /\ Kind(u) = "webhook" /\ faults' = 0
       => \/ pc[u] \in ConvertSteps \cup {"succeed", "drop"}
          \/ "dead" \in deliveries'[Job(u)]
          \/ status[Job(u)] = "done" /\ Job(u) \notin outputs

\* A task that is left alone makes a TaskMove.
LEMMA StayTask ==
  ASSUME NEW u, pc'[u] = pc[u], body'[u] = body[u]
  PROVE  TaskMove(u)
BY DEF TaskMove, Live

\* So does one that goes back to the queue, or into it when someone was about to push it.
LEMMA QueuedTask ==
  ASSUME NEW u, pc'[u] = "pending", Live(u) \/ Kind(u) = "convert" \/ Due(Job(u))
  PROVE  TaskMove(u)
BY DEF TaskMove, Live, ConvertSteps, WebhookSteps, Notifying

\* An enqueue pushes a task of its kind and job or none.
LEMMA EnqueueTask ==
  ASSUME NEW k \in Kinds, NEW j \in Jobs, NEW npc \in [Tasks -> PcValues], NEW res,
         Enqueue(k, j, npc, res), NEW u \in Tasks
  PROVE  pc'[u] = npc[u] \/ (pc'[u] = "pending" /\ Kind(u) = k /\ Job(u) = j)
<1>1. CASE Push(k, j, npc)
  <2>1. PICK n \in Slots : pc' = [npc EXCEPT ![<<k, j, n>>] = "pending"]
    BY <1>1 DEF Push
  <2>2. Kind(<<k, j, n>>) = k /\ Job(<<k, j, n>>) = j
    BY DEF Kind, Job
  <2> QED BY <2>1, <2>2
<1>2. CASE pc' = npc
  BY <1>2
<1> QED BY <1>1, <1>2 DEF Enqueue, NoPush

\* The steps of a conversion handler.
LEMMA ConvertMoves ==
  ASSUME StateTypeOK, NEW t \in Tasks, Convert(t), NEW u \in Tasks
  PROVE  TaskMove(u)
<1> USE TaskFacts DEF StateTypeOK, QueueTypeOK
<1>0. QueueTypeOK /\ body' = body
  BY DEF Convert, webhookVars
<1>1. CASE Notify(t)
  <2>1. PICK step \in {<<"notifyDone", "succeed">>, <<"notifyFailed", "drop">>} :
          /\ pc[t] = step[1]
          /\ \E res \in EnqueueResults :
               Enqueue("webhook", Job(t), [pc EXCEPT ![t] = step[2]], res)
    BY <1>1 DEF Notify
  <2>2. [pc EXCEPT ![t] = step[2]] \in [Tasks -> PcValues]
    BY DEF PcValues, Positions, ReturnSteps
  <2>3. \/ pc'[u] = [pc EXCEPT ![t] = step[2]][u]
        \/ pc'[u] = "pending" /\ Kind(u) = "webhook" /\ Job(u) = Job(t)
    <3>1. PICK res \in EnqueueResults :
            Enqueue("webhook", Job(t), [pc EXCEPT ![t] = step[2]], res)
      BY <2>1
    <3>2. Job(t) \in Jobs /\ "webhook" \in Kinds
      BY DEF Kinds
    <3> DEFINE npc == [pc EXCEPT ![t] = step[2]]
    <3>3. npc \in [Tasks -> PcValues] /\ Enqueue("webhook", Job(t), npc, res)
      BY <2>2, <3>1
    <3> HIDE DEF npc
    <3>4. pc'[u] = npc[u] \/ (pc'[u] = "pending" /\ Kind(u) = "webhook" /\ Job(u) = Job(t))
      BY <3>2, <3>3, EnqueueTask
    <3> QED BY <3>4 DEF npc
  <2>4. CASE pc'[u] = "pending" /\ Job(u) = Job(t)
    BY <2>1, <2>4, QueuedTask DEF Due, Notifying
  <2>5. CASE pc'[u] = pc[u]
    BY <1>0, <2>5, StayTask
  <2>6. CASE u = t /\ pc'[u] = step[2]
    BY <2>1, <2>6 DEF TaskMove, Live, ConvertSteps, WebhookSteps, Notifying
  <2> QED BY <2>3, <2>4, <2>5, <2>6
<1>2. CASE u # t /\ ~Notify(t)
  <2>1. pc'[u] = pc[u]
    BY <1>2, <1>0, GotoPc, FailPc, RetryPc
       DEF Convert, ConvertStep, Load, DoMarkActive, Process, DoAddOutput, DoMarkDone,
           DoMarkFailed
  <2> QED BY <1>0, <2>1, StayTask
<1>3. CASE u = t /\ ~Notify(t)
  <2>1. CASE Load(t)
    BY <1>3, <2>1, GotoPc, RetryPc
       DEF Load, TaskMove, Live, ConvertSteps, WebhookSteps, Notifying
  <2>2. CASE DoMarkActive(t)
    BY <1>3, <2>2, GotoPc
       DEF DoMarkActive, TaskMove, Live, ConvertSteps, WebhookSteps, Notifying
  <2>3. CASE Process(t)
    BY <1>3, <2>3, GotoPc, FailPc
       DEF Process, TaskMove, Live, ConvertSteps, WebhookSteps, Notifying
  <2>4. CASE DoAddOutput(t)
    BY <1>3, <2>4, GotoPc, FailPc
       DEF DoAddOutput, TaskMove, Live, ConvertSteps, WebhookSteps, Notifying
  <2>5. CASE DoMarkDone(t)
    <3>1. PICK res \in Results :
            /\ MarkDone(Job(t), res)
            /\ IF res = "ok"
               THEN Goto(t, IF Job(t) \in Callback THEN "notifyDone" ELSE "succeed")
               ELSE Fail(t, res)
      BY <2>5 DEF DoMarkDone
    <3>2. res = "ok" => status[Job(t)] \notin Final /\ status'[Job(t)] \in Final
      BY <3>1 DEF MarkDone, Transition, Apply, Broken, Final, RepoTypeOK
    <3>3. /\ pc[t] = "markDone" /\ pc'[t] \in {"notifyDone", "succeed", "none", "pending",
                                               "markFailed"}
          /\ pc'[t] \in Notifying => res = "ok" /\ Job(t) \in Callback
          /\ \A v \in Tasks \ {t} : pc'[v] = pc[v]
      BY <2>5, <3>1, GotoPc, FailPc DEF DoMarkDone, Notifying
    <3> QED BY <1>3, <3>2, <3>3 DEF TaskMove, Live, ConvertSteps, WebhookSteps, Notifying
  <2>6. CASE DoMarkFailed(t)
    <3>1. PICK res \in Results :
            /\ MarkFailed(Job(t), res)
            /\ Goto(t, IF res = "ok" /\ Job(t) \in Callback THEN "notifyFailed" ELSE "drop")
      BY <2>6 DEF DoMarkFailed
    <3>2. res = "ok" => status[Job(t)] \notin Final /\ status'[Job(t)] \in Final
      BY <3>1 DEF MarkFailed, Transition, Apply, Broken, Final, InFlight, RepoTypeOK
    <3>3. /\ pc[t] = "markFailed" /\ pc'[t] \in {"notifyFailed", "drop"}
          /\ pc'[t] = "notifyFailed" => res = "ok" /\ Job(t) \in Callback
          /\ \A v \in Tasks \ {t} : pc'[v] = pc[v]
      BY <2>6, <3>1, GotoPc DEF DoMarkFailed
    <3> QED BY <1>3, <3>2, <3>3 DEF TaskMove, Live, ConvertSteps, WebhookSteps, Notifying
  <2> QED BY <1>3, <2>1, <2>2, <2>3, <2>4, <2>5, <2>6 DEF Convert, ConvertStep
<1> QED BY <1>1, <1>2, <1>3

\* The steps of a webhook handler.
LEMMA DeliverMoves ==
  ASSUME StateTypeOK, NEW t \in Tasks, Deliver(t), NEW u \in Tasks
  PROVE  TaskMove(u)
<1> USE TaskFacts DEF StateTypeOK, WebhookTypeOK
<1>0. pc \in [Tasks -> PcValues] /\ QueueTypeOK
  BY DEF QueueTypeOK
<1>1. CASE u # t
  <2>1. pc'[u] = pc[u]
    BY <1>0, <1>1, GotoPc, RetryPc
       DEF Deliver, WebhookStep, Read, Post, RecordSuccess, RecordFailure, DeadLetter
  <2>2. body'[u] = body[u]
    BY <1>1 DEF Deliver, WebhookStep, Read, Post, RecordSuccess, RecordFailure, DeadLetter,
                webhookVars
  <2> QED BY <2>1, <2>2, StayTask
<1>2. CASE u = t
  <2>1. CASE Read(t)
    BY <1>0, <1>2, <2>1, GotoPc, RetryPc
       DEF Read, Fault, RepoTypeOK, TaskMove, Live, ConvertSteps, WebhookSteps, Notifying
  <2>2. CASE Post(t)
    BY <1>0, <1>2, <2>2, GotoPc
       DEF Post, TaskMove, Live, ConvertSteps, WebhookSteps, Notifying
  <2>3. CASE RecordSuccess(t)
    <3>1. pc[t] = "recordOk" /\ pc'[t] = "succeed"
      BY <1>0, <2>3, GotoPc DEF RecordSuccess
    <3>2. faults' = 0 => "delivered" \in deliveries'[Job(t)]
      BY <2>3 DEF RecordSuccess, RecordAttempt, Note, Fault, RepoTypeOK
    <3> QED BY <1>2, <3>1, <3>2 DEF TaskMove, Live, ConvertSteps, WebhookSteps, Notifying
  <2>4. CASE RecordFailure(t)
    <3>1. pc[t] = "recordErr" /\ pc'[t] \in {"none", "pending", "deadLetter"}
      BY <1>0, <2>4, GotoPc, RetryPc DEF RecordFailure
    <3>2. PICK res \in {"ok", "blip"} :
            /\ RecordAttempt(Job(t), FALSE, res)
            /\ IF res = "ok" /\ retried[t] >= MaxRetry["webhook"]
               THEN Goto(t, "deadLetter") ELSE Retry(t)
      BY <2>4 DEF RecordFailure
    <3>3. faults' = 0 => res = "ok"
      BY <3>2 DEF RecordAttempt, Fault, RepoTypeOK
    <3>4. res = "ok" /\ Kind(t) = "webhook" => pc'[t] # "none"
      BY <1>0, <3>2 DEF Goto, Retry
    <3> QED BY <1>2, <3>1, <3>3, <3>4
            DEF TaskMove, Live, ConvertSteps, WebhookSteps, Notifying
  <2>5. CASE DeadLetter(t)
    <3>1. pc[t] = "deadLetter" /\ pc'[t] \in {"none", "pending"}
      BY <1>0, <2>5, RetryPc DEF DeadLetter
    <3>2. faults' = 0 => "dead" \in deliveries'[Job(t)]
      BY <2>5 DEF DeadLetter, MarkDeadLetter, Note, Fault, RepoTypeOK
    <3> QED BY <1>2, <3>1, <3>2 DEF TaskMove, Live, ConvertSteps, WebhookSteps, Notifying
  <2> QED BY <2>1, <2>2, <2>3, <2>4, <2>5 DEF Deliver, WebhookStep
<1> QED BY <1>1, <1>2

\* What asynq, the locks and the faults of the workers do to a task.
LEMMA ServeMoves ==
  ASSUME StateTypeOK, NEW t \in Tasks, Serve(t) \/ Expire(t) \/ WorkerDies(t), NEW u \in Tasks
  PROVE  TaskMove(u)
<1> USE TaskFacts DEF StateTypeOK, WebhookTypeOK
<1>0. pc \in [Tasks -> PcValues] /\ QueueTypeOK
  BY DEF QueueTypeOK
<1>1. CASE Expire(t)
  BY <1>1, StayTask DEF Expire, LockExpire, webhookVars
<1>2. CASE Serve(t)
  <2>1. body' = body /\ (u # t => pc'[u] = pc[u])
    BY <1>0, <1>2, GotoPc, RetryPc DEF Serve, Dequeue, Return, webhookVars
  <2>2. CASE u = t
    <3>1. \/ pc[t] = "pending" /\ pc'[t] = IF Kind(t) = "convert" THEN "load" ELSE "read"
          \/ pc[t] \in {"succeed", "drop"} /\ pc'[t] = "none"
      BY <1>0, <1>2, GotoPc DEF Serve, Dequeue, Return, Finish, Archive
    <3> QED BY <2>2, <3>1 DEF TaskMove, Live, ConvertSteps, WebhookSteps, Notifying, Kinds
  <2> QED BY <2>1, <2>2, StayTask
<1>3. CASE WorkerDies(t)
  <2>1. u # t => pc'[u] = pc[u] /\ body'[u] = body[u]
    BY <1>0, <1>3, GotoPc, RetryPc DEF WorkerDies, WorkerCrash, WorkerShutdown
  <2>2. CASE u = t
    <3>1. Live(t) /\ pc'[t] \in {"none", "pending"} /\ faults' # 0
      BY <1>0, <1>3, GotoPc, RetryPc
         DEF WorkerDies, WorkerCrash, WorkerShutdown, Fault, RepoTypeOK, Running, Live,
             Positions, ConvertSteps, WebhookSteps, ReturnSteps
    <3> QED BY <2>2, <3>1 DEF TaskMove, Live, ConvertSteps, WebhookSteps, Notifying
  <2> QED BY <2>1, <2>2, StayTask
<1> QED BY <1>1, <1>2, <1>3

\* What the API and the sweepers do to a task.
LEMMA PushMoves ==
  ASSUME StateTypeOK, NEW u \in Tasks,
         \/ \E j \in Jobs : ApiStep(j) \/ ApiDies(j) \/ TimePasses(j)
         \/ \E s \in Sweepers : Reconcile(s) \/ SweeperFails(s)
  PROVE  TaskMove(u)
<1>0. pc \in [Tasks -> PcValues] /\ body' = body /\ "convert" \in Kinds /\ "webhook" \in Kinds
  BY DEF StateTypeOK, QueueTypeOK, ApiStep, ApiDies, TimePasses, Reconcile, SweeperFails, webhookVars,
         Kinds
<1>1. ASSUME NEW j \in Jobs, NEW res, Enqueue("convert", j, pc, res) PROVE TaskMove(u)
  BY <1>0, <1>1, EnqueueTask, StayTask, QueuedTask
<1>2. ASSUME NEW j \in Jobs, NEW res, Enqueue("webhook", j, pc, res), Due(j) PROVE TaskMove(u)
  BY <1>0, <1>2, EnqueueTask, StayTask, QueuedTask
<1>3. CASE UNCHANGED queueVars
  BY <1>0, <1>3, StayTask DEF queueVars
<1>4. CASE \E j \in Jobs : ApiStep(j) \/ ApiDies(j) \/ TimePasses(j)
  BY <1>1, <1>3, <1>4 DEF ApiStep, ApiDies, TimePasses, SubmitJob, EnqueueJob, ApiCrash
<1>5. ASSUME NEW s \in Sweepers, Reconcile(s) \/ SweeperFails(s) PROVE TaskMove(u)
  <2>0. sweep[s] \notin {"idle", "scan", "stale", "gaps"} => cur[s] \in Jobs
    BY SweeperAssumption DEF StateTypeOK, SweepTypeOK
  <2>1. CASE ExhaustHook(s)
    BY <1>2, <2>0, <2>1 DEF ExhaustHook, Due
  <2>2. CASE EnqueueStale(s)
    BY <1>1, <2>0, <2>2 DEF EnqueueStale
  <2>3. CASE GapEnqueue(s)
    BY <1>2, <2>3 DEF GapEnqueue, Due, StateTypeOK, SweepTypeOK
  <2> QED BY <1>3, <1>5, <2>1, <2>2, <2>3
          DEF Reconcile, SweepStep, SweeperFails, Tick, Scan, Pick, Exhaust, Requeue, GapScan,
              LoseLock, SweeperCrash
<1> QED BY <1>4, <1>5

\* Every step of the pipeline is a TaskMove of every task.
LEMMA TaskMoves ==
  ASSUME StateTypeOK, [Next]_vars, NEW u \in Tasks
  PROVE  TaskMove(u)
<1>1. CASE UNCHANGED vars
  BY <1>1, StayTask DEF vars, queueVars, webhookVars
<1> QED BY <1>1, ConvertMoves, DeliverMoves, ServeMoves, PushMoves DEF Next

\* No step takes back a fault or a row of webhook_deliveries.
LEMMA RecordsStay ==
  ASSUME StateTypeOK, [Next]_vars
  PROVE  faults' >= faults /\ \A j \in Jobs : deliveries[j] \subseteq deliveries'[j]
<1> USE DEF StateTypeOK, RepoTypeOK
<1>1. faults' >= faults
  BY Elsewhere, OwnSteps DEF NoFault, Fault
<1>2. CASE UNCHANGED deliveries
  BY <1>1, <1>2
<1>3. ASSUME NEW j \in Jobs, NEW m, Note(j, m)
      PROVE  \A i \in Jobs : deliveries[i] \subseteq deliveries'[i]
  BY <1>3 DEF Note
<1>4. ASSUME NEW t \in Tasks, Deliver(t)
      PROVE  \A i \in Jobs : deliveries[i] \subseteq deliveries'[i]
  BY <1>2, <1>3, <1>4, TaskFacts
     DEF Deliver, WebhookStep, Read, Post, RecordSuccess, RecordFailure, DeadLetter,
         RecordAttempt, MarkDeadLetter, repoVars
<1>5. ASSUME NEW t \in Tasks, Convert(t) \/ Serve(t) \/ Expire(t) \/ WorkerDies(t)
      PROVE  UNCHANGED deliveries
  BY <1>5 DEF Convert, ConvertStep, Load, DoMarkActive, MarkActive, Process, DoAddOutput,
              AddOutput, InsertOutput, DoMarkDone, MarkDone, DoMarkFailed, MarkFailed, Notify,
              Transition, Apply, Serve, Dequeue, Return, Expire, LockExpire, WorkerDies,
              WorkerCrash, WorkerShutdown, repoVars
<1>6. ASSUME NEW j \in Jobs, ApiStep(j) \/ ApiDies(j) \/ TimePasses(j)
      PROVE  UNCHANGED deliveries
  BY <1>6 DEF ApiStep, SubmitJob, Create, InsertJob, EnqueueJob, ApiDies, ApiCrash, TimePasses,
              Age, repoVars
<1>7. ASSUME NEW s \in Sweepers, Reconcile(s) \/ SweeperFails(s)
      PROVE  UNCHANGED deliveries
  BY <1>7 DEF Reconcile, SweepStep, Tick, Scan, Pick, Exhaust, MarkFailed, ExhaustHook, EnqueueStale,
              Requeue, RequeueStale, GapScan, GapEnqueue, Transition, Apply, SweeperFails,
              LoseLock, SweeperCrash, repoVars
<1>8. CASE UNCHANGED vars
  BY <1>8, <1>2 DEF vars, repoVars
<1> QED BY <1>1, <1>2, <1>4, <1>5, <1>6, <1>7, <1>8 DEF Next

-----------------------------------------------------------------------------
\* A sweep comes to enqueue a webhook only for a job with a callback_url: Exhaust asks
\* for it, and so does the query of the gap scan.
LEMMA SweepHooks ==
  ASSUME StateTypeOK, HooksHaveUrl, [Next]_vars, NEW s \in Sweepers
  PROVE  /\ sweep'[s] = "exhaustHook" => cur'[s] \in Callback
         /\ sweep'[s] = "gaps" => todo'[s] \subseteq Callback
<1> USE DEF StateTypeOK, SweepTypeOK, HooksHaveUrl
<1>1. CASE sweep'[s] = sweep[s] /\ cur'[s] = cur[s] /\ todo'[s] \subseteq todo[s]
  BY <1>1
<1>2. CASE Exhaust(s)
  BY <1>2 DEF Exhaust, NextJob, At
<1>3. CASE GapScan(s)
  BY <1>3 DEF GapScan, At, FindWebhookGaps
<1>4. CASE GapEnqueue(s)
  BY <1>4 DEF GapEnqueue, At
<1>5. CASE Tick(s) \/ Scan(s) \/ Pick(s) \/ ExhaustHook(s) \/ EnqueueStale(s) \/ Requeue(s)
  BY <1>5 DEF Tick, Scan, Pick, ExhaustHook, EnqueueStale, Requeue, NextJob, At
<1>6. CASE SweeperFails(s)
  BY <1>1, <1>6 DEF SweeperFails, LoseLock, SweeperCrash, At
<1>7. ASSUME NEW u \in Sweepers, u # s, Reconcile(u) \/ SweeperFails(u)
      PROVE  sweep'[s] = sweep[s] /\ cur'[s] = cur[s] /\ todo'[s] = todo[s]
  BY <1>7, OwnSteps DEF OwnStep
<1>8. CASE \A u \in Sweepers : ~Reconcile(u) /\ ~SweeperFails(u)
  BY <1>1, <1>8, Elsewhere DEF sweepVars
<1> QED BY <1>1, <1>2, <1>3, <1>4, <1>5, <1>6, <1>7, <1>8 DEF Reconcile, SweepStep

\* TypeOK in every reachable state of the pipeline: every column, task, sweeper and
\* request stays in its range, and every webhook in the queue or about to be enqueued is
\* for a job with a callback_url.
THEOREM Typing == Spec => []TypeOK
<1>1. Init => HooksHaveUrl
  BY DEF Init, QueueInit, SweepInit, HooksHaveUrl, Live
<1>2. StateTypeOK /\ HooksHaveUrl /\ [Next]_vars => HooksHaveUrl'
  <2> SUFFICES ASSUME StateTypeOK, HooksHaveUrl, [Next]_vars PROVE HooksHaveUrl'
    OBVIOUS
  <2>1. ASSUME NEW j \in Jobs, Due(j) PROVE j \in Callback
    BY <2>1 DEF Due, HooksHaveUrl, Notifying
  <2>2. ASSUME NEW t \in Tasks, Kind(t) = "webhook", Live(t)' PROVE Job(t) \in Callback
    <3>1. Live(t) \/ Due(Job(t))
      BY <2>2, TaskMoves DEF TaskMove
    <3> QED BY <2>1, <2>2, <3>1, TaskFacts DEF HooksHaveUrl
  <2>3. ASSUME NEW t \in Tasks, pc'[t] \in Notifying PROVE Job(t) \in Callback
    BY <2>3, TaskMoves DEF TaskMove, HooksHaveUrl, Notifying
  <2> QED BY <2>2, <2>3, SweepHooks DEF HooksHaveUrl, Notifying
<1> QED BY <1>1, <1>2, Typed, PTL DEF Spec, TypeOK

-----------------------------------------------------------------------------
\* Every task is in a handler of its own kind, and only a conversion is dropped.
KindInv ==
  \A t \in Tasks : /\ pc[t] \in ConvertSteps \cup {"drop"} => Kind(t) = "convert"
                   /\ pc[t] \in WebhookSteps => Kind(t) = "webhook"

\* KindInv holds in every reachable state.
LEMMA Kinded == Spec => []KindInv
<1>1. Init => KindInv
  BY DEF Init, QueueInit, KindInv, ConvertSteps, WebhookSteps
<1>2. StateTypeOK /\ KindInv /\ [Next]_vars => KindInv'
  <2> SUFFICES ASSUME StateTypeOK, KindInv, [Next]_vars, NEW t \in Tasks
               PROVE  /\ pc'[t] \in ConvertSteps \cup {"drop"} => Kind(t) = "convert"
                      /\ pc'[t] \in WebhookSteps => Kind(t) = "webhook"
    BY DEF KindInv
  <2>1. TaskMove(t)
    BY TaskMoves
  <2> QED BY <2>1 DEF KindInv, TaskMove
<1> QED BY <1>1, <1>2, Typed, PTL DEF Spec

\* At most one worker is about to announce the outcome of a job: the one that wrote it.
OneAnnouncer ==
  \A t, u \in Tasks :
    pc[t] \in Notifying /\ pc[u] \in Notifying /\ Job(t) = Job(u) => t = u

\* What makes OneAnnouncer inductive: the outcome is in the row when a worker gets there.
AnnounceInv ==
  /\ \A t \in Tasks : pc[t] \in Notifying => status[Job(t)] \in Final
  /\ OneAnnouncer

\* AnnounceInv holds in every reachable state.
LEMMA Announcing == Spec => []AnnounceInv
<1>1. Init => AnnounceInv
  BY DEF Init, QueueInit, AnnounceInv, OneAnnouncer, Notifying
<1>2. StateTypeOK /\ AnnounceInv /\ [Next]_vars => AnnounceInv'
  <2> SUFFICES ASSUME StateTypeOK, AnnounceInv, [Next]_vars PROVE AnnounceInv'
    OBVIOUS
  <2>1. \A t \in Tasks : TaskMove(t) /\ Job(t) \in Jobs
    BY TaskMoves, TaskFacts
  <2>2. \A j \in Jobs : status[j] \in Final => status'[j] \in Final
    BY RowsStay
  <2>3. \A t \in Tasks : pc'[t] \in Notifying => status'[Job(t)] \in Final
    BY <2>1, <2>2 DEF TaskMove, AnnounceInv
  <2>4. ASSUME NEW t \in Tasks, NEW u \in Tasks, pc'[t] \in Notifying, pc'[u] \in Notifying,
               Job(t) = Job(u), t # u
        PROVE  FALSE
    <3>1. pc[t] \in Notifying /\ pc[u] \in Notifying
      BY <2>1, <2>4 DEF TaskMove, AnnounceInv
    <3> QED BY <2>4, <3>1 DEF AnnounceInv, OneAnnouncer
  <2> QED BY <2>3, <2>4 DEF AnnounceInv, OneAnnouncer
<1> QED BY <1>1, <1>2, Typed, PTL DEF Spec

\* However many tasks of a job run at the same time, after lapsed locks, redeliveries
\* and requeues, no two workers enqueue its webhook side by side.
THEOREM OneWord == Spec => []OneAnnouncer
<1>1. AnnounceInv => OneAnnouncer
  BY DEF AnnounceInv
<1> QED BY <1>1, Announcing, PTL

-----------------------------------------------------------------------------
\* What makes FaultlessVerdicts inductive: without a fault, whoever is about to
\* enqueue a webhook, and whatever webhook is under way, is for a settled job.
SettledInv ==
  faults = 0 =>
    /\ \A j \in Jobs : Due(j) => status[j] \in Final
    /\ \A t \in Tasks : Kind(t) = "webhook" /\ Live(t) => status[Job(t)] \in Final
    /\ \A t \in Tasks : pc[t] = "post" => body[t] \in Final
    /\ \A j \in Jobs : heard[j] \subseteq Final

\* Without a fault a sweep comes to enqueue a webhook only for a settled job: MarkFailed
\* has just settled it or found it settled, or the gap scan did.
LEMMA SweepDue ==
  ASSUME StateTypeOK, StateTypeOK', SweepInv, [Next]_vars, faults' = 0, NEW s \in Sweepers, NEW j \in Jobs,
         (sweep[s] = "exhaustHook" /\ cur[s] = j)' \/ (sweep[s] = "gaps" /\ j \in todo[s])'
  PROVE  \/ sweep[s] = "exhaustHook" /\ cur[s] = j
         \/ sweep[s] = "gaps" /\ j \in todo[s]
         \/ status'[j] \in Final
<1> USE DEF StateTypeOK, SweepTypeOK
<1>1. CASE sweep'[s] = sweep[s] /\ cur'[s] = cur[s] /\ todo'[s] \subseteq todo[s]
  BY <1>1
<1>2. CASE Exhaust(s)
  <2>1. /\ sweep[s] = "exhaust" /\ cur[s] = j /\ sweep'[s] = "exhaustHook"
    BY <1>2 DEF Exhaust, NextJob, At
  <2>2. status[j] # "none"
    BY <2>1 DEF SweepInv, Walking
  <2>3. \E res \in Results : MarkFailed(j, res)
    BY <1>2, <2>1 DEF Exhaust
  <2> QED BY <2>2, <2>3
          DEF MarkFailed, Transition, Apply, repoVars, Fault, RepoTypeOK, InFlight, Final, Statuses
<1>3. CASE GapScan(s)
  BY <1>3 DEF GapScan, At, FindWebhookGaps, repoVars
<1>4. CASE GapEnqueue(s)
  BY <1>4 DEF GapEnqueue, At
<1>5. CASE Tick(s) \/ Scan(s) \/ Pick(s) \/ ExhaustHook(s) \/ EnqueueStale(s) \/ Requeue(s)
  BY <1>5 DEF Tick, Scan, Pick, ExhaustHook, EnqueueStale, Requeue, NextJob, At
<1>6. CASE SweeperFails(s)
  BY <1>1, <1>6 DEF SweeperFails, LoseLock, SweeperCrash, At
<1>7. ASSUME NEW u \in Sweepers, u # s, Reconcile(u) \/ SweeperFails(u)
      PROVE  sweep'[s] = sweep[s] /\ cur'[s] = cur[s] /\ todo'[s] = todo[s]
  BY <1>7, OwnSteps DEF OwnStep
<1>8. CASE \A u \in Sweepers : ~Reconcile(u) /\ ~SweeperFails(u)
  BY <1>1, <1>8, Elsewhere DEF sweepVars
<1> QED BY <1>1, <1>2, <1>3, <1>4, <1>5, <1>6, <1>7, <1>8 DEF Reconcile, SweepStep

\* SettledInv holds in every reachable state.
LEMMA Settled == Spec => []SettledInv
<1>1. Init => SettledInv
  BY DEF Init, QueueInit, SweepInit, WebhookInit, SettledInv, Due, Live, Notifying
<1>2. StateTypeOK /\ StateTypeOK' /\ SweepInv /\ KindInv /\ AnnounceInv' /\ SettledInv /\ [Next]_vars
        => SettledInv'
  <2> SUFFICES ASSUME StateTypeOK, StateTypeOK', SweepInv, KindInv, AnnounceInv', SettledInv, [Next]_vars,
                      faults' = 0
               PROVE  /\ \A j \in Jobs : Due(j)' => status'[j] \in Final
                      /\ \A t \in Tasks : Kind(t) = "webhook" /\ Live(t)'
                                            => status'[Job(t)] \in Final
                      /\ \A t \in Tasks : pc'[t] = "post" => body'[t] \in Final
                      /\ \A j \in Jobs : heard'[j] \subseteq Final
    BY DEF SettledInv
  <2>0. faults = 0
    BY RecordsStay DEF StateTypeOK, RepoTypeOK
  <2>1. \A j \in Jobs : status[j] \in Final => status'[j] \in Final
    BY RowsStay
  <2>2. \A t \in Tasks : TaskMove(t) /\ Job(t) \in Jobs
    BY TaskMoves, TaskFacts
  <2>3. ASSUME NEW j \in Jobs, Due(j)' PROVE status'[j] \in Final
    <3>1. CASE \E t \in Tasks : pc'[t] \in Notifying /\ Job(t) = j
      BY <3>1 DEF AnnounceInv
    <3>2. ASSUME NEW s \in Sweepers,
                 (sweep[s] = "exhaustHook" /\ cur[s] = j)' \/ (sweep[s] = "gaps" /\ j \in todo[s])'
          PROVE  Due(j) \/ status'[j] \in Final
      BY <3>2, SweepDue DEF Due
    <3> QED BY <2>0, <2>1, <2>3, <3>1, <3>2 DEF Due, SettledInv
  <2>4. \A t \in Tasks : Kind(t) = "webhook" /\ Live(t)' => status'[Job(t)] \in Final
    BY <2>0, <2>1, <2>2 DEF TaskMove, SettledInv
  <2>5. \A t \in Tasks : pc'[t] = "post" => body'[t] \in Final
    BY <2>0, <2>2 DEF TaskMove, SettledInv, KindInv, Live, WebhookSteps
  <2>6. \A j \in Jobs : heard'[j] \subseteq Final
    BY <2>0, WordOfMouth DEF SettledInv
  <2> QED BY <2>3, <2>4, <2>5, <2>6
<1> QED BY <1>1, <1>2, Typed, Sweeping, Kinded, Announcing, PTL DEF Spec

\* FaultlessVerdicts for any number of jobs, workers and replicas: it takes a fault to
\* make a webhook carry a status that is not a verdict.
THEOREM OnlyFaultsMislead == Spec => []FaultlessVerdicts
<1>1. SettledInv => FaultlessVerdicts
  BY DEF SettledInv, FaultlessVerdicts
<1> QED BY <1>1, Settled, PTL

-----------------------------------------------------------------------------
\* Without a fault, a delivery whose handler returns nil is on record.
RecordInv ==
  faults = 0 => \A t \in Tasks : Kind(t) = "webhook" /\ pc[t] = "succeed"
                                  => "delivered" \in deliveries[Job(t)]

\* NoSilentDrop for any number of jobs, workers and retries: without a fault asynq never
\* archives a delivery before MarkDeadLetter has flagged it, nor deletes an unrecorded one.
THEOREM NothingDropped == Spec => NoSilentDrop
<1> DEFINE Recorded ==
      faults' = 0 => \A t \in Tasks : Kind(t) = "webhook" /\ Live(t) /\ ~Live(t)'
                                       => deliveries'[Job(t)] \cap {"delivered", "dead"} # {}
<1>1. Init => RecordInv
  BY DEF Init, QueueInit, RecordInv
<1>2. ASSUME StateTypeOK, StateTypeOK', KindInv, OutputInv, RecordInv, [Next]_vars
      PROVE  RecordInv' /\ Recorded
  <2> SUFFICES ASSUME faults' = 0, NEW t \in Tasks, Kind(t) = "webhook"
               PROVE  /\ pc'[t] = "succeed" => "delivered" \in deliveries'[Job(t)]
                      /\ Live(t) /\ ~Live(t)'
                           => deliveries'[Job(t)] \cap {"delivered", "dead"} # {}
    BY DEF RecordInv
  <2>1. faults = 0 /\ deliveries[Job(t)] \subseteq deliveries'[Job(t)]
    BY <1>2, RecordsStay, TaskFacts DEF StateTypeOK, RepoTypeOK
  <2>2. TaskMove(t) /\ Job(t) \in Jobs
    BY <1>2, TaskMoves, TaskFacts
  <2>3. pc[t] \notin ConvertSteps \cup {"drop"}
    BY <1>2 DEF KindInv
  <2>4. pc[t] = "succeed" => "delivered" \in deliveries[Job(t)]
    BY <1>2, <2>1 DEF RecordInv
  <2>5. ~(status[Job(t)] = "done" /\ Job(t) \notin outputs)
    BY <1>2, <2>2 DEF OutputInv
  <2> QED BY <2>1, <2>2, <2>3, <2>4, <2>5 DEF TaskMove
<1>3. StateTypeOK /\ StateTypeOK' /\ KindInv /\ OutputInv /\ RecordInv /\ [Next]_vars
        => RecordInv' /\ [Recorded]_vars
  BY <1>2
<1> QED BY <1>1, <1>3, Typed, Kinded, StoredFirst, PTL DEF Spec, NoSilentDrop
=============================================================================
