---------------------------- MODULE SystemProofs ----------------------------
(***************************************************************************)
(* Theorems about the pipeline for every set of jobs, slots and sweepers,  *)
(* every retry and recovery budget and any number of faults.               *)
(***************************************************************************)
EXTENDS System, TLAPS

-----------------------------------------------------------------------------
\* What the calls to Postgres do to the types of the rows.

\* Every row operation keeps the rows well typed, however the call ends.
LEMMA ApplyTyped ==
  ASSUME RepoTypeOK, NEW j \in Jobs, NEW to \in Statuses,
         Apply(j, to), NoFault \/ Fault
  PROVE  RepoTypeOK'
BY JobsAssumption DEF RepoTypeOK, Apply, NoFault, Fault

\* A call that leaves the rows alone keeps them well typed, fault or not.
LEMMA UnchangedTyped ==
  ASSUME RepoTypeOK, UNCHANGED repoVars, NoFault \/ Fault
  PROVE  RepoTypeOK'
BY JobsAssumption DEF RepoTypeOK, repoVars, NoFault, Fault

\* A guarded transition keeps the rows well typed, whatever its result.
LEMMA TransitionTyped ==
  ASSUME RepoTypeOK, NEW j \in Jobs, NEW to \in Statuses, NEW from, NEW res,
         Transition(j, to, from, res)
  PROVE  RepoTypeOK'
BY ApplyTyped, UnchangedTyped DEF Transition

\* The inserts and the dead-letter update keep the rows well typed.
LEMMA InsertTyped ==
  ASSUME RepoTypeOK, NEW j \in Jobs,
         \/ InsertJob(j) \/ InsertOutput(j)
         \/ \E m \in Marks : Note(j, m),
         NoFault \/ Fault
  PROVE  RepoTypeOK'
<1>1. CASE InsertJob(j)
  BY <1>1, JobsAssumption DEF RepoTypeOK, InsertJob, NoFault, Fault, Statuses
<1>2. CASE InsertOutput(j)
  BY <1>2, JobsAssumption DEF RepoTypeOK, InsertOutput, NoFault, Fault
<1>3. CASE \E m \in Marks : Note(j, m)
  BY <1>3, JobsAssumption DEF RepoTypeOK, Note, NoFault, Fault
<1> QED BY <1>1, <1>2, <1>3

-----------------------------------------------------------------------------
\* What the calls to Redis do to the tasks.

\* A step inside a handler keeps the tasks well typed.
LEMMA GotoTyped ==
  ASSUME QueueTypeOK, NEW t \in Tasks, NEW step \in PcValues, Goto(t, step)
  PROVE  QueueTypeOK'
BY DEF QueueTypeOK, Goto

\* The ways a task can leave its handler keep the tasks well typed.
LEMMA RetryTyped ==
  ASSUME QueueTypeOK, NEW t \in Tasks, Retry(t) \/ Archive(t) \/ Finish(t)
  PROVE  QueueTypeOK'
BY DEF QueueTypeOK, Retry, Archive, Finish, PcValues

\* Both ways a handler can go after an error keep the tasks well typed.
LEMMA FailTyped ==
  ASSUME QueueTypeOK, NEW t \in Tasks, NEW err, Fail(t, err)
  PROVE  QueueTypeOK'
BY GotoTyped, RetryTyped DEF Fail, PcValues, Positions, ConvertSteps

\* An enqueue keeps the tasks well typed, whether or not it pushes one.
LEMMA EnqueueTyped ==
  ASSUME QueueTypeOK, NEW k \in Kinds, NEW j \in Jobs,
         NEW npc \in [Tasks -> PcValues], NEW res, Enqueue(k, j, npc, res)
  PROVE  QueueTypeOK' /\ (NoFault \/ Fault)
<1>1. CASE Push(k, j, npc)
  <2>1. PICK n \in Slots :
          /\ pc' = [npc EXCEPT ![<<k, j, n>>] = "pending"]
          /\ retried' = [retried EXCEPT ![<<k, j, n>>] = 0]
          /\ locked' = locked \cup {<<k, j, n>>}
    BY <1>1 DEF Push
  <2>2. <<k, j, n>> \in Tasks
    BY DEF Tasks
  <2> QED BY <2>1, <2>2 DEF QueueTypeOK, PcValues, Enqueue
<1>2. CASE NoPush(npc)
  BY <1>2 DEF NoPush, QueueTypeOK, Enqueue
<1> QED BY <1>1, <1>2 DEF Enqueue

\* The parts of a task.
LEMMA TaskFacts ==
  ASSUME NEW t \in Tasks
  PROVE  Kind(t) \in Kinds /\ Job(t) \in Jobs
BY DEF Tasks, Kind, Job

\* A component whose variables an action leaves alone keeps its type.
LEMMA FrameTyped ==
  /\ WebhookTypeOK /\ UNCHANGED webhookVars => WebhookTypeOK'
  /\ SweepTypeOK /\ UNCHANGED sweepVars => SweepTypeOK'
  /\ ApiTypeOK /\ UNCHANGED request => ApiTypeOK'
  /\ QueueTypeOK /\ UNCHANGED queueVars => QueueTypeOK'
BY DEF WebhookTypeOK, webhookVars, SweepTypeOK, sweepVars, ApiTypeOK, QueueTypeOK, queueVars

-----------------------------------------------------------------------------
\* Each process keeps the types.

\* Every step of the API keeps StateTypeOK.
LEMMA ApiTyped ==
  ASSUME StateTypeOK, NEW j \in Jobs, ApiStep(j) \/ ApiDies(j)
  PROVE  StateTypeOK'
<1>1. CASE SubmitJob(j)
  <2>1. RepoTypeOK'
    BY <1>1, UnchangedTyped, InsertTyped DEF StateTypeOK, SubmitJob, Create
  <2>2. ApiTypeOK' /\ QueueTypeOK'
    BY <1>1, FrameTyped DEF StateTypeOK, SubmitJob, ApiTypeOK
  <2> QED BY <2>1, <2>2, FrameTyped DEF StateTypeOK, ApiStep, ApiDies
<1>2. CASE EnqueueJob(j)
  <2>1. QueueTypeOK' /\ (NoFault \/ Fault)
    BY <1>2, EnqueueTyped DEF StateTypeOK, EnqueueJob, QueueTypeOK, Kinds
  <2>2. RepoTypeOK'
    BY <1>2, <2>1, UnchangedTyped DEF StateTypeOK, EnqueueJob
  <2>3. ApiTypeOK'
    BY <1>2 DEF StateTypeOK, EnqueueJob, ApiTypeOK
  <2> QED BY <2>1, <2>2, <2>3, FrameTyped DEF StateTypeOK, ApiStep, ApiDies
<1>3. CASE ApiCrash(j)
  <2>1. RepoTypeOK'
    BY <1>3, UnchangedTyped DEF StateTypeOK, ApiCrash
  <2>2. ApiTypeOK' /\ QueueTypeOK'
    BY <1>3, FrameTyped DEF StateTypeOK, ApiCrash, ApiTypeOK
  <2> QED BY <2>1, <2>2, FrameTyped DEF StateTypeOK, ApiStep, ApiDies
<1> QED BY <1>1, <1>2, <1>3 DEF ApiStep, ApiDies

\* Every step of a conversion handler keeps StateTypeOK.
LEMMA ConvertTyped ==
  ASSUME StateTypeOK, NEW t \in Tasks, Convert(t)
  PROVE  StateTypeOK'
<1> USE TaskFacts
<1>1. QueueTypeOK' /\ RepoTypeOK' /\ objects' \subseteq Jobs
  <2>1. CASE Load(t)
    BY <2>1, GotoTyped, RetryTyped, UnchangedTyped
    DEF StateTypeOK, Load, PcValues, Positions, ConvertSteps
  <2>2. CASE DoMarkActive(t)
    <3>1. RepoTypeOK'
      BY <2>2, TransitionTyped DEF StateTypeOK, DoMarkActive, MarkActive, Statuses
    <3> QED BY <3>1, <2>2, GotoTyped
            DEF StateTypeOK, DoMarkActive, PcValues, Positions, ConvertSteps, ReturnSteps
  <2>3. CASE Process(t)
    <3>1. QueueTypeOK'
      BY <2>3, GotoTyped, FailTyped DEF StateTypeOK, Process, PcValues, Positions, ConvertSteps
    <3>2. RepoTypeOK'
      BY <2>3, UnchangedTyped DEF StateTypeOK, Process
    <3> QED BY <2>3, <3>1, <3>2 DEF StateTypeOK, Process
  <2>4. CASE DoAddOutput(t)
    <3>1. RepoTypeOK'
      BY <2>4, UnchangedTyped, InsertTyped DEF StateTypeOK, DoAddOutput, AddOutput
    <3>2. QueueTypeOK'
      BY <2>4, GotoTyped, FailTyped DEF StateTypeOK, DoAddOutput, PcValues, Positions, ConvertSteps
    <3> QED BY <2>4, <3>1, <3>2 DEF StateTypeOK, DoAddOutput
  <2>5. CASE DoMarkDone(t)
    <3>1. RepoTypeOK'
      BY <2>5, TransitionTyped DEF StateTypeOK, DoMarkDone, MarkDone, Statuses
    <3>2. QueueTypeOK'
      BY <2>5, GotoTyped, FailTyped
      DEF StateTypeOK, DoMarkDone, PcValues, Positions, ConvertSteps, ReturnSteps
    <3> QED BY <2>5, <3>1, <3>2 DEF StateTypeOK, DoMarkDone
  <2>6. CASE DoMarkFailed(t)
    <3>1. RepoTypeOK'
      BY <2>6, TransitionTyped DEF StateTypeOK, DoMarkFailed, MarkFailed, Statuses
    <3> QED BY <3>1, <2>6, GotoTyped
            DEF StateTypeOK, DoMarkFailed, PcValues, Positions, ConvertSteps, ReturnSteps
  <2>7. CASE Notify(t)
    <3>1. PICK step \in {<<"notifyDone", "succeed">>, <<"notifyFailed", "drop">>} :
            \E res \in EnqueueResults :
              Enqueue("webhook", Job(t), [pc EXCEPT ![t] = step[2]], res)
      BY <2>7 DEF Notify
    <3>2. [pc EXCEPT ![t] = step[2]] \in [Tasks -> PcValues]
      BY DEF StateTypeOK, QueueTypeOK, PcValues, Positions, ReturnSteps
    <3>3. QueueTypeOK' /\ (NoFault \/ Fault)
      BY <3>1, <3>2, EnqueueTyped DEF StateTypeOK, Kinds
    <3> QED BY <3>3, <2>7, UnchangedTyped DEF StateTypeOK, Notify
  <2> QED BY <2>1, <2>2, <2>3, <2>4, <2>5, <2>6, <2>7 DEF Convert, ConvertStep
<1> QED BY <1>1, FrameTyped DEF StateTypeOK, Convert

\* Every step of the webhook handler keeps StateTypeOK.
LEMMA DeliverTyped ==
  ASSUME StateTypeOK, NEW t \in Tasks, Deliver(t)
  PROVE  StateTypeOK'
<1> USE TaskFacts
<1>1. QueueTypeOK' /\ RepoTypeOK' /\ WebhookTypeOK'
  <2>1. CASE Read(t)
    <3>1. QueueTypeOK' /\ RepoTypeOK'
      BY <2>1, GotoTyped, RetryTyped, UnchangedTyped
      DEF StateTypeOK, Read, PcValues, Positions, WebhookSteps
    <3>2. WebhookTypeOK'
      BY <2>1 DEF StateTypeOK, Read, WebhookTypeOK, RepoTypeOK
    <3> QED BY <3>1, <3>2
  <2>2. CASE Post(t)
    <3>1. QueueTypeOK' /\ RepoTypeOK'
      BY <2>2, GotoTyped, UnchangedTyped DEF StateTypeOK, Post, PcValues, Positions, WebhookSteps
    <3>2. body' \in [Tasks -> Statuses]
      BY <2>2 DEF StateTypeOK, Post, WebhookTypeOK, Statuses
    <3>3. heard' \in [Jobs -> SUBSET Statuses]
      BY <2>2 DEF StateTypeOK, Post, WebhookTypeOK
    <3> QED BY <3>1, <3>2, <3>3 DEF WebhookTypeOK
  <2>3. CASE RecordSuccess(t)
    <3>1. RepoTypeOK'
      BY <2>3, InsertTyped, UnchangedTyped DEF StateTypeOK, RecordSuccess, RecordAttempt, Marks
    <3> QED BY <3>1, <2>3, GotoTyped, FrameTyped
            DEF StateTypeOK, RecordSuccess, PcValues, Positions, ReturnSteps
  <2>4. CASE RecordFailure(t)
    <3>1. RepoTypeOK'
      BY <2>4, InsertTyped, UnchangedTyped DEF StateTypeOK, RecordFailure, RecordAttempt, Marks
    <3> QED BY <3>1, <2>4, GotoTyped, RetryTyped, FrameTyped
            DEF StateTypeOK, RecordFailure, PcValues, Positions, WebhookSteps
  <2>5. CASE DeadLetter(t)
    <3>1. RepoTypeOK'
      BY <2>5, InsertTyped, UnchangedTyped DEF StateTypeOK, DeadLetter, MarkDeadLetter, Marks
    <3> QED BY <3>1, <2>5, RetryTyped, FrameTyped DEF StateTypeOK, DeadLetter
  <2> QED BY <2>1, <2>2, <2>3, <2>4, <2>5 DEF Deliver, WebhookStep
<1> QED BY <1>1, FrameTyped DEF StateTypeOK, Deliver

\* Dequeue, return, lock expiry and the death of a worker keep StateTypeOK.
LEMMA TaskEventTyped ==
  ASSUME StateTypeOK, NEW t \in Tasks, Serve(t) \/ Expire(t) \/ WorkerDies(t)
  PROVE  StateTypeOK'
<1>1. QueueTypeOK' /\ RepoTypeOK'
  <2>1. CASE Serve(t)
    BY <2>1, GotoTyped, RetryTyped, UnchangedTyped
    DEF StateTypeOK, Serve, Dequeue, Return, PcValues, Positions, ConvertSteps, WebhookSteps
  <2>2. CASE Expire(t)
    BY <2>2, UnchangedTyped DEF StateTypeOK, Expire, LockExpire, QueueTypeOK
  <2>3. CASE WorkerDies(t)
    BY <2>3, GotoTyped, RetryTyped, UnchangedTyped
    DEF StateTypeOK, WorkerDies, WorkerCrash, WorkerShutdown, PcValues
  <2> QED BY <2>1, <2>2, <2>3
<1>2. WebhookTypeOK'
  BY DEF StateTypeOK, WebhookTypeOK, Serve, Expire, WorkerDies, webhookVars, Statuses
<1> QED BY <1>1, <1>2, FrameTyped DEF StateTypeOK, Serve, Expire, WorkerDies

\* Every step and every failure of a sweeper keeps StateTypeOK.
LEMMA ReconcileTyped ==
  ASSUME StateTypeOK, NEW s \in Sweepers, Reconcile(s) \/ SweeperFails(s)
  PROVE  StateTypeOK'
<1> USE SweeperAssumption
<1>0. sweep[s] \notin {"idle", "scan", "stale", "gaps"} => cur[s] \in Jobs
  BY DEF StateTypeOK, SweepTypeOK
<1>1. QueueTypeOK' /\ RepoTypeOK' /\ SweepTypeOK'
  <2>0. CASE Tick(s)
    BY <2>0, UnchangedTyped, FrameTyped DEF StateTypeOK, Tick, At, SweepTypeOK, SweepSteps
  <2>1. CASE Scan(s)
    <3>1. FindStale \subseteq Jobs
      BY DEF FindStale
    <3> QED BY <2>1, <3>1, UnchangedTyped, FrameTyped
            DEF StateTypeOK, Scan, NextJob, At, SweepTypeOK, SweepSteps
  <2>2. CASE Pick(s)
    BY <2>2, UnchangedTyped, FrameTyped
    DEF StateTypeOK, Pick, NextJob, At, SweepTypeOK, SweepSteps
  <2>3. CASE Exhaust(s)
    <3>1. RepoTypeOK'
      BY <2>3, <1>0, TransitionTyped DEF StateTypeOK, Exhaust, MarkFailed, Statuses
    <3> QED BY <2>3, <3>1, <1>0, FrameTyped
            DEF StateTypeOK, Exhaust, NextJob, At, SweepTypeOK, SweepSteps
  <2>4. CASE ExhaustHook(s)
    <3>1. QueueTypeOK' /\ (NoFault \/ Fault)
      BY <2>4, <1>0, EnqueueTyped DEF StateTypeOK, ExhaustHook, QueueTypeOK, Kinds
    <3> QED BY <2>4, <3>1, UnchangedTyped
            DEF StateTypeOK, ExhaustHook, NextJob, At, SweepTypeOK, SweepSteps
  <2>5. CASE EnqueueStale(s)
    <3>1. QueueTypeOK' /\ (NoFault \/ Fault)
      BY <2>5, <1>0, EnqueueTyped DEF StateTypeOK, EnqueueStale, QueueTypeOK, Kinds
    <3>2. revived' \in [Jobs -> 0 .. MaxRevived]
      BY <2>5, JobsAssumption DEF StateTypeOK, EnqueueStale, SweepTypeOK, MaxRevived
    <3>3. RepoTypeOK'
      BY <2>5, <3>1, UnchangedTyped DEF StateTypeOK, EnqueueStale
    <3> QED BY <2>5, <3>1, <3>2, <3>3, <1>0
            DEF StateTypeOK, EnqueueStale, NextJob, At, SweepTypeOK, SweepSteps
  <2>6. CASE Requeue(s)
    <3>1. RepoTypeOK'
      BY <2>6, <1>0, TransitionTyped DEF StateTypeOK, Requeue, RequeueStale, Statuses
    <3> QED BY <2>6, <3>1, <1>0, FrameTyped
            DEF StateTypeOK, Requeue, NextJob, At, SweepTypeOK, SweepSteps
  <2>7. CASE GapScan(s)
    <3>1. FindWebhookGaps \subseteq Jobs
      BY JobsAssumption DEF FindWebhookGaps
    <3> QED BY <2>7, <3>1, UnchangedTyped, FrameTyped
            DEF StateTypeOK, GapScan, At, SweepTypeOK, SweepSteps
  <2>8. CASE GapEnqueue(s)
    <3>1. QueueTypeOK' /\ (NoFault \/ Fault)
      BY <2>8, EnqueueTyped DEF StateTypeOK, GapEnqueue, QueueTypeOK, Kinds, SweepTypeOK
    <3> QED BY <2>8, <3>1, UnchangedTyped
            DEF StateTypeOK, GapEnqueue, At, SweepTypeOK, SweepSteps
  <2>9. CASE SweeperFails(s)
    BY <2>9, UnchangedTyped, FrameTyped
    DEF StateTypeOK, SweeperFails, LoseLock, SweeperCrash, At, SweepTypeOK, SweepSteps
  <2> QED BY <2>0, <2>1, <2>2, <2>3, <2>4, <2>5, <2>6, <2>7, <2>8, <2>9
          DEF Reconcile, SweepStep
<1> QED BY <1>1, FrameTyped DEF StateTypeOK, Reconcile, SweeperFails

\* The passing of time keeps StateTypeOK.
LEMMA AgeTyped ==
  ASSUME StateTypeOK, NEW j \in Jobs, TimePasses(j)
  PROVE  StateTypeOK'
<1>1. RepoTypeOK'
  BY DEF StateTypeOK, RepoTypeOK, TimePasses, Age, Stamped
<1> QED BY <1>1, FrameTyped DEF StateTypeOK, TimePasses

\* The invariant StateTypeOK of every reachable state of the pipeline: every column, task,
\* sweeper and request stays in its range, and a sweeper that acts on a job has one.
LEMMA Typed == Spec => []StateTypeOK
<1>1. Init => StateTypeOK
  BY SweeperAssumption, JobsAssumption
  DEF Init, RepoInit, QueueInit, WorkerInit, WebhookInit, SweepInit, ApiInit, StateTypeOK,
      RepoTypeOK, QueueTypeOK, WebhookTypeOK, SweepTypeOK, ApiTypeOK, Statuses, PcValues,
      SweepSteps, MaxRevived
<1>2. StateTypeOK /\ [Next]_vars => StateTypeOK'
  <2> SUFFICES ASSUME StateTypeOK, [Next]_vars PROVE StateTypeOK'
    OBVIOUS
  <2>1. CASE UNCHANGED vars
    BY <2>1, FrameTyped, UnchangedTyped DEF StateTypeOK, vars, NoFault
  <2> QED BY <2>1, ApiTyped, ConvertTyped, DeliverTyped, TaskEventTyped, ReconcileTyped, AgeTyped
          DEF Next
<1> QED BY <1>1, <1>2, PTL DEF Spec

-----------------------------------------------------------------------------
\* What a step of the pipeline can do to the rows, with everything else left out.
RowStep ==
  \/ UNCHANGED <<status, started, recoveries, outputs>>
  \/ \E j \in Jobs : status[j] = "none" /\ InsertJob(j)
  \/ \E j \in Jobs, to \in {"queued", "active", "failed"} :
       status[j] \in InFlight /\ Apply(j, to)
  \/ \E t \in Tasks :
       DoMarkDone(t) /\ status[Job(t)] = "active" /\ Apply(Job(t), "done")
  \/ \E t \in Tasks : pc[t] = "addOutput" /\ InsertOutput(Job(t))

\* A call of Transition out of the in-flight statuses is a RowStep.
LEMMA TransitionRow ==
  ASSUME NEW j \in Jobs, NEW to \in {"queued", "active", "failed"}, NEW res,
         Transition(j, to, InFlight, res)
  PROVE  RowStep
BY DEF Transition, RowStep, repoVars

\* Every step of the pipeline is a RowStep, and no step removes a stored object.
LEMMA RowSteps ==
  ASSUME StateTypeOK, [Next]_vars
  PROVE  RowStep /\ objects \subseteq objects'
<1>1. ASSUME NEW j \in Jobs, ApiStep(j) \/ ApiDies(j) \/ TimePasses(j)
      PROVE  RowStep /\ objects \subseteq objects'
  BY <1>1 DEF ApiStep, ApiDies, TimePasses, SubmitJob, EnqueueJob, ApiCrash, Age, Create,
              RowStep, repoVars
<1>2. ASSUME NEW t \in Tasks, Convert(t)
      PROVE  RowStep /\ objects \subseteq objects'
  <2>0. Job(t) \in Jobs
    BY TaskFacts
  <2>1. CASE Load(t) \/ Process(t) \/ Notify(t)
    BY <2>1 DEF Load, Process, Notify, RowStep, repoVars
  <2>2. CASE DoMarkActive(t)
    BY <2>2, <2>0, TransitionRow DEF DoMarkActive, MarkActive
  <2>3. CASE DoAddOutput(t)
    BY <2>3 DEF DoAddOutput, AddOutput, RowStep, repoVars
  <2>4. CASE DoMarkDone(t)
    BY <2>4, <2>0 DEF DoMarkDone, MarkDone, Transition, RowStep, repoVars
  <2>5. CASE DoMarkFailed(t)
    BY <2>5, <2>0, TransitionRow DEF DoMarkFailed, MarkFailed
  <2> QED BY <1>2, <2>1, <2>2, <2>3, <2>4, <2>5 DEF Convert, ConvertStep
<1>3. ASSUME NEW t \in Tasks, Deliver(t) \/ Serve(t) \/ Expire(t) \/ WorkerDies(t)
      PROVE  RowStep /\ objects \subseteq objects'
  BY <1>3 DEF Deliver, WebhookStep, Read, Post, RecordSuccess, RecordFailure, DeadLetter,
              RecordAttempt, MarkDeadLetter, Note, Serve, Dequeue, Return, Expire, LockExpire,
              WorkerDies, WorkerCrash, WorkerShutdown, RowStep, repoVars
<1>4. ASSUME NEW s \in Sweepers, Reconcile(s) \/ SweeperFails(s)
      PROVE  RowStep /\ objects \subseteq objects'
  <2>0. sweep[s] \notin {"idle", "scan", "stale", "gaps"} => cur[s] \in Jobs
    BY SweeperAssumption DEF StateTypeOK, SweepTypeOK
  <2>1. CASE Exhaust(s)
    BY <1>4, <2>0, <2>1, TransitionRow DEF Exhaust, MarkFailed, Reconcile, SweeperFails
  <2>2. CASE Requeue(s)
    BY <1>4, <2>0, <2>2, TransitionRow DEF Requeue, RequeueStale, Reconcile, SweeperFails
  <2>3. CASE \/ Tick(s) \/ Scan(s) \/ Pick(s) \/ ExhaustHook(s) \/ EnqueueStale(s)
             \/ GapScan(s) \/ GapEnqueue(s) \/ LoseLock(s) \/ SweeperCrash(s)
    BY <1>4, <2>3 DEF Tick, Scan, Pick, ExhaustHook, EnqueueStale, GapScan, GapEnqueue, LoseLock,
                      SweeperCrash, Reconcile, SweeperFails, RowStep, repoVars
  <2> QED BY <1>4, <2>1, <2>2, <2>3 DEF Reconcile, SweepStep, SweeperFails
<1>5. CASE UNCHANGED vars
  BY <1>5 DEF vars, RowStep, repoVars
<1> QED BY <1>1, <1>2, <1>3, <1>4, <1>5 DEF Next

\* No step takes a job out of done or failed, forgets that it was started, or loses
\* a recovery event: the guards of the row-locked transitions suffice against every
\* interleaving of late workers, redelivered tasks and sweepers with an old scan.
THEOREM Finality == Spec => FinalStatusIsFinal
<1> DEFINE Step == \A j \in Jobs : /\ status[j] \in Final => status'[j] = status[j]
                                   /\ j \in started => j \in started'
                                   /\ recoveries'[j] >= recoveries[j]
<1>1. StateTypeOK /\ [Next]_vars => Step
  <2> SUFFICES ASSUME StateTypeOK, [Next]_vars PROVE Step
    OBVIOUS
  <2>1. RowStep
    BY RowSteps
  <2>2. CASE UNCHANGED <<status, started, recoveries, outputs>>
    BY <2>2 DEF StateTypeOK, RepoTypeOK
  <2>3. ASSUME NEW j \in Jobs, status[j] = "none", InsertJob(j) PROVE Step
    BY <2>3 DEF StateTypeOK, RepoTypeOK, InsertJob, Final
  <2>4. ASSUME NEW j \in Jobs, NEW to \in Statuses, status[j] \in InFlight, Apply(j, to)
        PROVE  Step
    BY <2>4 DEF StateTypeOK, RepoTypeOK, Apply, Final, InFlight
  <2>5. ASSUME NEW t \in Tasks, InsertOutput(Job(t)) PROVE Step
    BY <2>5 DEF StateTypeOK, RepoTypeOK, InsertOutput
  <2> QED BY <2>1, <2>2, <2>3, <2>4, <2>5, TaskFacts DEF RowStep, Statuses, InFlight
<1>2. StateTypeOK /\ [Next]_vars => [Step]_vars
  BY <1>1
<1> QED BY <1>2, Typed, PTL DEF Spec, FinalStatusIsFinal

-----------------------------------------------------------------------------
\* Where a step of the pipeline can take a handler: into the conversion steps only
\* as a convert task, into process() only with the row active, to AddOutput only
\* with the object stored and to MarkDone only with the output row inserted.
Working == {"process", "addOutput", "markDone"}

PcMove(u) ==
  /\ pc'[u] \in ConvertSteps => pc[u] \in ConvertSteps \/ Kind(u) = "convert"
  /\ pc'[u] \in Working => pc[u] \in Working \/ status'[Job(u)] = "active"
  /\ pc'[u] = "addOutput" => pc[u] = "addOutput" \/ Job(u) \in objects'
  /\ pc'[u] = "markDone" => pc[u] = "markDone" \/ Job(u) \in outputs'

\* Leaving a task where it is, or giving it up, or sending it back to the queue.
LEMMA StayMove ==
  ASSUME NEW u, pc'[u] = pc[u] \/ pc'[u] \notin ConvertSteps
  PROVE  PcMove(u)
BY DEF PcMove, Working, ConvertSteps

\* A step inside a handler moves its own task only.
LEMMA GotoPc ==
  ASSUME QueueTypeOK, NEW t \in Tasks, NEW step, Goto(t, step)
  PROVE  pc'[t] = step /\ \A u \in Tasks \ {t} : pc'[u] = pc[u]
BY DEF QueueTypeOK, Goto

\* A handler that returns sends its own task back to the queue or ends it.
LEMMA RetryPc ==
  ASSUME QueueTypeOK, NEW t \in Tasks, Retry(t) \/ Archive(t) \/ Finish(t)
  PROVE  pc'[t] \in {"none", "pending"} /\ \A u \in Tasks \ {t} : pc'[u] = pc[u]
BY DEF QueueTypeOK, Retry, Archive, Finish

\* After an error of process() a task is ended, queued again or to be marked failed.
LEMMA FailPc ==
  ASSUME QueueTypeOK, NEW t \in Tasks, NEW err, Fail(t, err)
  PROVE  /\ pc'[t] \in {"none", "pending", "markFailed"}
         /\ \A u \in Tasks \ {t} : pc'[u] = pc[u]
BY GotoPc, RetryPc DEF Fail

\* An enqueue moves no task but the caller's, and starts none.
LEMMA EnqueuePc ==
  ASSUME NEW k \in Kinds, NEW j \in Jobs, NEW npc \in [Tasks -> PcValues], NEW res,
         Enqueue(k, j, npc, res)
  PROVE  \A u \in Tasks : pc'[u] = npc[u] \/ pc'[u] = "pending"
BY DEF Enqueue, Push, NoPush

\* Every step of the pipeline is a PcMove of every task.
LEMMA PcMoves ==
  ASSUME StateTypeOK, [Next]_vars
  PROVE  \A u \in Tasks : PcMove(u)
<1> USE TaskFacts
<1>0. QueueTypeOK /\ pc \in [Tasks -> PcValues]
  BY DEF StateTypeOK, QueueTypeOK
<1>1. ASSUME NEW j \in Jobs, ApiStep(j) \/ ApiDies(j) \/ TimePasses(j)
      PROVE  \A u \in Tasks : PcMove(u)
  <2>1. CASE EnqueueJob(j)
    BY <2>1, <1>0, EnqueuePc, StayMove DEF EnqueueJob, ConvertSteps, Kinds
  <2>2. CASE UNCHANGED queueVars
    BY <2>2, StayMove DEF queueVars
  <2> QED BY <1>1, <2>1, <2>2 DEF ApiStep, ApiDies, TimePasses, SubmitJob, ApiCrash
<1>2. ASSUME NEW t \in Tasks, Convert(t)
      PROVE  \A u \in Tasks : PcMove(u)
  <2>1. CASE Load(t)
    BY <2>1, <1>0, GotoPc, RetryPc, StayMove DEF Load, PcMove, Working, ConvertSteps
  <2>2. CASE DoMarkActive(t)
    <3>1. pc'[t] = "process" => status'[Job(t)] = "active"
      <4>1. PICK res \in Results : MarkActive(Job(t), res)
                                   /\ Goto(t, IF res = "ok" THEN "process" ELSE "drop")
        BY <2>2 DEF DoMarkActive
      <4>2. res # "ok" => pc'[t] = "drop"
        BY <4>1, <1>0, GotoPc
      <4>3. res = "ok" => status'[Job(t)] = "active"
        BY <4>1 DEF MarkActive, Transition, Apply, Broken, StateTypeOK, RepoTypeOK
      <4> QED BY <4>2, <4>3
    <3>2. pc[t] = "markActive" /\ pc'[t] \in {"process", "drop"}
      BY <2>2, <1>0, GotoPc DEF DoMarkActive
    <3>3. \A u \in Tasks \ {t} : pc'[u] = pc[u]
      BY <2>2, <1>0, GotoPc DEF DoMarkActive
    <3> QED BY <3>1, <3>2, <3>3, StayMove DEF PcMove, Working, ConvertSteps
  <2>3. CASE Process(t)
    <3>1. pc'[t] = "addOutput" => Job(t) \in objects'
      BY <2>3, <1>0, FailPc DEF Process
    <3>2. pc[t] = "process" /\ pc'[t] \in {"addOutput", "none", "pending", "markFailed"}
      BY <2>3, <1>0, GotoPc, FailPc DEF Process
    <3>3. \A u \in Tasks \ {t} : pc'[u] = pc[u]
      BY <2>3, <1>0, GotoPc, FailPc DEF Process
    <3> QED BY <3>1, <3>2, <3>3, StayMove DEF PcMove, Working, ConvertSteps
  <2>4. CASE DoAddOutput(t)
    <3>1. PICK res \in Results :
            /\ AddOutput(Job(t), res)
            /\ IF res = "ok" THEN Goto(t, "markDone") ELSE Fail(t, res)
      BY <2>4 DEF DoAddOutput
    <3>2. res = "ok" => pc'[t] = "markDone" /\ Job(t) \in outputs'
      BY <3>1, <1>0, GotoPc DEF AddOutput, InsertOutput, Broken
    <3>3. res # "ok" => pc'[t] \in {"none", "pending", "markFailed"}
      BY <3>1, <1>0, FailPc
    <3>4. pc[t] = "addOutput" /\ \A u \in Tasks \ {t} : pc'[u] = pc[u]
      BY <2>4, <3>1, <1>0, GotoPc, FailPc DEF DoAddOutput
    <3> QED BY <3>2, <3>3, <3>4, StayMove DEF PcMove, Working, ConvertSteps
  <2>5. CASE DoMarkDone(t)
    <3>1. /\ pc[t] = "markDone"
          /\ pc'[t] \in {"notifyDone", "succeed", "none", "pending", "markFailed"}
          /\ \A u \in Tasks \ {t} : pc'[u] = pc[u]
      BY <2>5, <1>0, GotoPc, FailPc DEF DoMarkDone
    <3> QED BY <3>1, StayMove DEF PcMove, Working, ConvertSteps
  <2>6. CASE DoMarkFailed(t)
    <3>1. /\ pc[t] = "markFailed" /\ pc'[t] \in {"notifyFailed", "drop"}
          /\ \A u \in Tasks \ {t} : pc'[u] = pc[u]
      BY <2>6, <1>0, GotoPc DEF DoMarkFailed
    <3> QED BY <3>1, StayMove DEF PcMove, Working, ConvertSteps
  <2>7. CASE Notify(t)
    <3>1. PICK step \in {<<"notifyDone", "succeed">>, <<"notifyFailed", "drop">>} :
            \E res \in EnqueueResults :
              Enqueue("webhook", Job(t), [pc EXCEPT ![t] = step[2]], res)
      BY <2>7 DEF Notify
    <3>2. [pc EXCEPT ![t] = step[2]] \in [Tasks -> PcValues]
      BY <1>0 DEF PcValues, Positions, ReturnSteps
    <3>3. \A u \in Tasks : pc'[u] = [pc EXCEPT ![t] = step[2]][u] \/ pc'[u] = "pending"
      BY <3>1, <3>2, EnqueuePc DEF Kinds
    <3>4. \A u \in Tasks : pc'[u] = pc[u] \/ pc'[u] \in {"succeed", "drop", "pending"}
      BY <3>3, <1>0
    <3> QED BY <3>4, StayMove DEF ConvertSteps
  <2> QED BY <1>2, <2>1, <2>2, <2>3, <2>4, <2>5, <2>6, <2>7 DEF Convert, ConvertStep
<1>3. ASSUME NEW t \in Tasks, Deliver(t)
      PROVE  \A u \in Tasks : PcMove(u)
  <2> DEFINE Moved == /\ pc'[t] \notin ConvertSteps
                      /\ \A u \in Tasks \ {t} : pc'[u] = pc[u]
  <2>1. ASSUME Read(t) PROVE Moved
    BY <2>1, <1>0, GotoPc, RetryPc DEF Read, ConvertSteps
  <2>2. ASSUME Post(t) PROVE Moved
    BY <2>2, <1>0, GotoPc DEF Post, ConvertSteps
  <2>3. ASSUME RecordSuccess(t) PROVE Moved
    BY <2>3, <1>0, GotoPc DEF RecordSuccess, ConvertSteps
  <2>4. ASSUME RecordFailure(t) PROVE Moved
    BY <2>4, <1>0, GotoPc, RetryPc DEF RecordFailure, ConvertSteps
  <2>5. ASSUME DeadLetter(t) PROVE Moved
    BY <2>5, <1>0, RetryPc DEF DeadLetter, ConvertSteps
  <2>6. Moved
    BY <1>3, <2>1, <2>2, <2>3, <2>4, <2>5 DEF Deliver, WebhookStep
  <2> QED BY <2>6, StayMove
<1>4. ASSUME NEW t \in Tasks, Serve(t) \/ Expire(t) \/ WorkerDies(t)
      PROVE  \A u \in Tasks : PcMove(u)
  <2>1. CASE Serve(t)
    BY <2>1, <1>0, GotoPc, RetryPc, StayMove
    DEF Serve, Dequeue, Return, PcMove, Working, ConvertSteps
  <2>2. CASE Expire(t)
    BY <2>2, StayMove DEF Expire, LockExpire
  <2>3. CASE WorkerDies(t)
    BY <2>3, <1>0, GotoPc, RetryPc, StayMove
    DEF WorkerDies, WorkerCrash, WorkerShutdown, ConvertSteps
  <2> QED BY <1>4, <2>1, <2>2, <2>3
<1>5. ASSUME NEW s \in Sweepers, Reconcile(s) \/ SweeperFails(s)
      PROVE  \A u \in Tasks : PcMove(u)
  <2>0. sweep[s] \notin {"idle", "scan", "stale", "gaps"} => cur[s] \in Jobs
    BY SweeperAssumption DEF StateTypeOK, SweepTypeOK
  <2>1. CASE ExhaustHook(s) \/ EnqueueStale(s) \/ GapEnqueue(s)
    <3>1. \A u \in Tasks : pc'[u] = pc[u] \/ pc'[u] = "pending"
      BY <2>0, <2>1, <1>0, EnqueuePc
      DEF ExhaustHook, EnqueueStale, GapEnqueue, Kinds, StateTypeOK, SweepTypeOK
    <3> QED BY <3>1, StayMove DEF ConvertSteps
  <2>2. CASE UNCHANGED queueVars
    BY <2>2, StayMove DEF queueVars
  <2> QED BY <1>5, <2>1, <2>2
          DEF Reconcile, SweepStep, SweeperFails, Tick, Scan, Pick, Exhaust, Requeue, GapScan,
              LoseLock, SweeperCrash
<1>6. CASE UNCHANGED vars
  BY <1>6, StayMove DEF vars, queueVars
<1> QED BY <1>1, <1>2, <1>3, <1>4, <1>5, <1>6 DEF Next

-----------------------------------------------------------------------------
\* The strengthening that makes DoneHasOutput inductive: what a handler has already
\* stored when it reaches AddOutput and MarkDone.
OutputInv ==
  /\ outputs \subseteq objects
  /\ \A t \in Tasks : pc[t] = "addOutput" => Job(t) \in objects
  /\ \A t \in Tasks : pc[t] = "markDone" => Job(t) \in outputs
  /\ \A j \in Jobs : status[j] = "done" => j \in outputs

\* OutputInv holds in every reachable state.
LEMMA StoredFirst == Spec => []OutputInv
<1>1. Init => OutputInv
  BY DEF Init, RepoInit, QueueInit, WorkerInit, OutputInv
<1>2. StateTypeOK /\ OutputInv /\ [Next]_vars => OutputInv'
  <2> SUFFICES ASSUME StateTypeOK, OutputInv, [Next]_vars PROVE OutputInv'
    OBVIOUS
  <2>1. RowStep /\ objects \subseteq objects' /\ \A u \in Tasks : PcMove(u)
    BY RowSteps, PcMoves
  <2>2. /\ outputs \subseteq outputs'
        /\ \A j \in outputs' \ outputs : \E t \in Tasks : pc[t] = "addOutput" /\ j = Job(t)
    BY <2>1 DEF RowStep, InsertJob, Apply, InsertOutput
  <2>3. outputs' \subseteq objects'
    BY <2>1, <2>2 DEF OutputInv
  <2>4. \A t \in Tasks : /\ pc'[t] = "addOutput" => Job(t) \in objects'
                         /\ pc'[t] = "markDone" => Job(t) \in outputs'
    BY <2>1, <2>2 DEF OutputInv, PcMove
  <2>5. \A j \in Jobs : status'[j] = "done" =>
           status[j] = "done" \/ \E t \in Tasks : pc[t] = "markDone" /\ j = Job(t)
    BY <2>1 DEF RowStep, InsertJob, Apply, InsertOutput, DoMarkDone, StateTypeOK, RepoTypeOK
  <2> QED BY <2>2, <2>3, <2>4, <2>5 DEF OutputInv
<1> QED BY <1>1, <1>2, Typed, PTL DEF Spec

\* A job that is reported done has its output row and its object, for any number of
\* workers on the same job (locks may lapse), crashes, lost answers and requeues.
THEOREM DoneIsDownloadable == Spec => []DoneHasOutput
<1>1. OutputInv => DoneHasOutput
  BY DEF OutputInv, DoneHasOutput
<1> QED BY <1>1, StoredFirst, PTL

-----------------------------------------------------------------------------
\* A task is past MarkActive only for a job that has a row.
RowInv == \A t \in Tasks : pc[t] \in Working => status[Job(t)] # "none"

\* RowInv holds in every reachable state.
LEMMA WorkOnRows == Spec => []RowInv
<1>1. Init => RowInv
  BY DEF Init, QueueInit, RowInv, Working
<1>2. StateTypeOK /\ RowInv /\ [Next]_vars => RowInv'
  <2> SUFFICES ASSUME StateTypeOK, RowInv, [Next]_vars,
                      NEW t \in Tasks, pc'[t] \in Working
               PROVE  status'[Job(t)] # "none"
    BY DEF RowInv
  <2>1. RowStep /\ PcMove(t) /\ Job(t) \in Jobs
    BY RowSteps, PcMoves, TaskFacts
  <2>2. \A j \in Jobs : status[j] # "none" => status'[j] # "none"
    BY <2>1 DEF RowStep, InsertJob, Apply, InsertOutput, StateTypeOK, RepoTypeOK
  <2> QED BY <2>1, <2>2 DEF PcMove, RowInv
<1> QED BY <1>1, <1>2, Typed, PTL DEF Spec

\* The pipeline implements the contract of JobLifecycle: what an owner sees of a job
\* is accepted, given a result, and settled once, as done only with a result.
THEOREM Refinement == Spec => ImplementsLifecycle
<1>1. Init => Contract!Init
  BY DEF Init, RepoInit, WorkerInit, Contract!Init, JobPhase, Downloadable, InFlight
<1>2. StateTypeOK /\ OutputInv /\ OutputInv' /\ RowInv /\ [Next]_vars
        => [Contract!Next]_(Contract!vars)
  <2> SUFFICES ASSUME StateTypeOK, OutputInv, OutputInv', RowInv, [Next]_vars
               PROVE  [Contract!Next]_(Contract!vars)
    OBVIOUS
  <2> USE DEF StateTypeOK, RepoTypeOK
  <2>0. RowStep /\ Downloadable = outputs /\ Downloadable' = outputs'
    BY RowSteps DEF OutputInv, Downloadable
  <2>1. CASE UNCHANGED <<status, started, recoveries, outputs>>
    BY <2>0, <2>1 DEF Contract!vars, JobPhase
  <2>2. ASSUME NEW j \in Jobs, status[j] = "none", InsertJob(j)
        PROVE  Contract!Accept(j)
    BY <2>0, <2>2 DEF Contract!Accept, InsertJob, JobPhase, Statuses, InFlight
  <2>3. ASSUME NEW j \in Jobs, status[j] \in InFlight, Apply(j, "failed")
        PROVE  Contract!GiveUp(j)
    BY <2>0, <2>3 DEF Contract!GiveUp, Apply, JobPhase, Statuses, InFlight
  <2>4. ASSUME NEW j \in Jobs, NEW to \in InFlight, status[j] \in InFlight, Apply(j, to)
        PROVE  UNCHANGED Contract!vars
    BY <2>0, <2>4 DEF Contract!vars, Apply, JobPhase, Statuses, InFlight
  <2>5. ASSUME NEW t \in Tasks, pc[t] = "markDone", status[Job(t)] = "active",
               Apply(Job(t), "done")
        PROVE  Contract!Succeed(Job(t))
    BY <2>0, <2>5, TaskFacts DEF Contract!Succeed, Apply, JobPhase, Statuses, InFlight, OutputInv
  <2>6. ASSUME NEW t \in Tasks, pc[t] = "addOutput", InsertOutput(Job(t))
        PROVE  Contract!Publish(Job(t)) \/ UNCHANGED Contract!vars
    <3>1. status[Job(t)] # "none" /\ Job(t) \in Jobs
      BY <2>6, TaskFacts DEF RowInv, Working
    <3>2. CASE status[Job(t)] = "done"
      BY <2>0, <2>6, <3>1, <3>2 DEF OutputInv, InsertOutput, Contract!vars, JobPhase
    <3>3. CASE status[Job(t)] # "done"
      BY <2>0, <2>6, <3>1, <3>3 DEF InsertOutput, Contract!Publish, JobPhase, Statuses, InFlight
    <3> QED BY <3>2, <3>3
  <2> QED BY <2>0, <2>1, <2>2, <2>3, <2>4, <2>5, <2>6, TaskFacts
          DEF RowStep, DoMarkDone, Contract!Next, InFlight
<1> QED BY <1>1, <1>2, Typed, StoredFirst, WorkOnRows, PTL
        DEF Spec, ImplementsLifecycle, Contract!Spec
=============================================================================
