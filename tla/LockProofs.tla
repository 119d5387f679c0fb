------------------------------ MODULE LockProofs ------------------------------
(***************************************************************************)
(* What the unique locks of the queue guarantee while they outlive their   *)
(* tasks, for any number of jobs, slots, sweepers and faults.              *)
(***************************************************************************)
EXTENDS SystemProofs

-----------------------------------------------------------------------------
\* A step of a live task inside its handler leaves the locks as they are.
LEMMA GotoUnique ==
  ASSUME QueueTypeOK, OneLiveTask, NEW t \in Tasks, Live(t), NEW step, Goto(t, step)
  PROVE  OneLiveTask'
BY DEF QueueTypeOK, OneLiveTask, Live, Goto, SameKey

\* A task that is retried or archived keeps its lock, one that succeeds gives up
\* its own lock only.
LEMMA RetryUnique ==
  ASSUME QueueTypeOK, OneLiveTask, NEW t \in Tasks, Live(t),
         Retry(t) \/ Archive(t) \/ Finish(t)
  PROVE  OneLiveTask'
BY DEF QueueTypeOK, OneLiveTask, Live, Retry, Archive, Finish, SameKey

\* Both ways a handler can go after an error of process().
LEMMA FailUnique ==
  ASSUME QueueTypeOK, OneLiveTask, NEW t \in Tasks, Live(t), NEW err, Fail(t, err)
  PROVE  OneLiveTask'
BY GotoUnique, RetryUnique DEF Fail

\* A call that does not touch Redis.
LEMMA FrameUnique ==
  ASSUME OneLiveTask, UNCHANGED queueVars
  PROVE  OneLiveTask'
BY DEF OneLiveTask, Live, SameKey, queueVars

\* An enqueue adds a task only with a lock no other task of its key holds.
LEMMA EnqueueUnique ==
  ASSUME QueueTypeOK, OneLiveTask, NEW k \in Kinds, NEW j \in Jobs,
         NEW npc \in [Tasks -> PcValues], \A u \in Tasks : npc[u] # "none" => Live(u),
         NEW res, Enqueue(k, j, npc, res)
  PROVE  OneLiveTask'
<1>1. CASE NoPush(npc)
  BY <1>1 DEF NoPush, OneLiveTask, Live, SameKey
<1>2. CASE Push(k, j, npc)
  <2>1. PICK n \in Slots : /\ pc' = [npc EXCEPT ![<<k, j, n>>] = "pending"]
                           /\ locked' = locked \cup {<<k, j, n>>}
    BY <1>2 DEF Push
  <2> DEFINE t == <<k, j, n>>
  <2>2. t \in Tasks /\ Kind(t) = k /\ Job(t) = j
    BY DEF Tasks, Kind, Job
  <2>3. \A u \in locked : ~SameKey(t, u) /\ ~SameKey(u, t)
    BY <1>2, <2>2 DEF Push, KeyHeld, SameKey
  <2>4. \A u \in Tasks : Live(u)' => u \in locked'
    BY <2>1, <2>2 DEF OneLiveTask, Live
  <2>5. \A u, v \in locked' : SameKey(u, v) => u = v
    BY <2>1, <2>3 DEF OneLiveTask
  <2> QED BY <2>4, <2>5 DEF OneLiveTask, SameKey
<1> QED BY <1>1, <1>2 DEF Enqueue

\* Every step of the pipeline keeps the locks unique and every live task locked.
LEMMA LockStep ==
  ASSUME StateTypeOK, OneLiveTask, ~LockMayLapse, [Next]_vars
  PROVE  OneLiveTask'
<1> USE TaskFacts
<1>0. QueueTypeOK /\ pc \in [Tasks -> PcValues] /\ \A u \in Tasks : pc[u] # "none" => Live(u)
  BY DEF StateTypeOK, QueueTypeOK, Live
<1>1. ASSUME NEW j \in Jobs, ApiStep(j) \/ ApiDies(j) \/ TimePasses(j)
      PROVE  OneLiveTask'
  <2>1. CASE EnqueueJob(j)
    BY <2>1, <1>0, EnqueueUnique DEF EnqueueJob, Kinds
  <2>2. CASE UNCHANGED queueVars
    BY <2>2, FrameUnique
  <2> QED BY <1>1, <2>1, <2>2 DEF ApiStep, ApiDies, TimePasses, SubmitJob, ApiCrash
<1>2. ASSUME NEW t \in Tasks, Convert(t)
      PROVE  OneLiveTask'
  <2>0. Live(t)
    BY <1>2 DEF Convert, ConvertStep, Load, DoMarkActive, Process, DoAddOutput, DoMarkDone,
                DoMarkFailed, Notify, Live
  <2>1. CASE Load(t)
    BY <2>0, <2>1, <1>0, GotoUnique, RetryUnique DEF Load
  <2>2. CASE DoMarkActive(t)
    BY <2>0, <2>2, <1>0, GotoUnique DEF DoMarkActive
  <2>3. CASE Process(t)
    BY <2>0, <2>3, <1>0, GotoUnique, FailUnique DEF Process
  <2>4. CASE DoAddOutput(t)
    BY <2>0, <2>4, <1>0, GotoUnique, FailUnique DEF DoAddOutput
  <2>5. CASE DoMarkDone(t)
    BY <2>0, <2>5, <1>0, GotoUnique, FailUnique DEF DoMarkDone
  <2>6. CASE DoMarkFailed(t)
    BY <2>0, <2>6, <1>0, GotoUnique DEF DoMarkFailed
  <2>7. CASE Notify(t)
    <3>1. PICK step \in {<<"notifyDone", "succeed">>, <<"notifyFailed", "drop">>} :
            \E res \in EnqueueResults :
              Enqueue("webhook", Job(t), [pc EXCEPT ![t] = step[2]], res)
      BY <2>7 DEF Notify
    <3> DEFINE npc == [pc EXCEPT ![t] = step[2]]
    <3>2. npc \in [Tasks -> PcValues]
      BY <1>0 DEF PcValues, Positions, ReturnSteps
    <3>3. \A u \in Tasks : npc[u] # "none" => Live(u)
      BY <2>0, <1>0
    <3> QED BY <3>1, <3>2, <3>3, <1>0, EnqueueUnique DEF Kinds
  <2> QED BY <1>2, <2>1, <2>2, <2>3, <2>4, <2>5, <2>6, <2>7 DEF Convert, ConvertStep
<1>3. ASSUME NEW t \in Tasks, Deliver(t)
      PROVE  OneLiveTask'
  <2>0. Live(t)
    BY <1>3 DEF Deliver, WebhookStep, Read, Post, RecordSuccess, RecordFailure, DeadLetter, Live
  <2>1. CASE Read(t)
    BY <2>0, <2>1, <1>0, GotoUnique, RetryUnique DEF Read
  <2>2. CASE Post(t)
    BY <2>0, <2>2, <1>0, GotoUnique DEF Post
  <2>3. CASE RecordSuccess(t)
    BY <2>0, <2>3, <1>0, GotoUnique DEF RecordSuccess
  <2>4. CASE RecordFailure(t)
    BY <2>0, <2>4, <1>0, GotoUnique, RetryUnique DEF RecordFailure
  <2>5. CASE DeadLetter(t)
    BY <2>0, <2>5, <1>0, RetryUnique DEF DeadLetter
  <2> QED BY <1>3, <2>1, <2>2, <2>3, <2>4, <2>5 DEF Deliver, WebhookStep
<1>4. ASSUME NEW t \in Tasks, Serve(t) \/ WorkerDies(t)
      PROVE  OneLiveTask'
  <2>0. Live(t)
    BY <1>4 DEF Serve, Dequeue, Return, WorkerDies, WorkerCrash, WorkerShutdown, Live, Running,
                Positions, ConvertSteps, WebhookSteps, ReturnSteps
  <2> QED BY <1>4, <2>0, <1>0, GotoUnique, RetryUnique
          DEF Serve, Dequeue, Return, WorkerDies, WorkerCrash, WorkerShutdown
<1>5. ASSUME NEW t \in Tasks, Expire(t)
      PROVE  OneLiveTask'
  BY <1>5 DEF Expire, LockExpire, OneLiveTask, Live, SameKey
<1>6. ASSUME NEW s \in Sweepers, Reconcile(s) \/ SweeperFails(s)
      PROVE  OneLiveTask'
  <2>0. sweep[s] \notin {"idle", "scan", "stale", "gaps"} => cur[s] \in Jobs
    BY SweeperAssumption DEF StateTypeOK, SweepTypeOK
  <2>1. CASE ExhaustHook(s) \/ EnqueueStale(s) \/ GapEnqueue(s)
    BY <2>0, <2>1, <1>0, EnqueueUnique
    DEF ExhaustHook, EnqueueStale, GapEnqueue, Kinds, StateTypeOK, SweepTypeOK
  <2>2. CASE UNCHANGED queueVars
    BY <2>2, FrameUnique
  <2> QED BY <1>6, <2>1, <2>2
          DEF Reconcile, SweepStep, SweeperFails, Tick, Scan, Pick, Exhaust, Requeue, GapScan,
              LoseLock, SweeperCrash
<1>7. CASE UNCHANGED vars
  BY <1>7, FrameUnique DEF vars
<1> QED BY <1>1, <1>2, <1>3, <1>4, <1>5, <1>6, <1>7 DEF Next

\* While unique locks outlive their tasks, the API, the workers, asynq's retries and
\* any number of sweepers together never have two live tasks of a kind for one job.
THEOREM UniqueTask ==
  ASSUME ~LockMayLapse
  PROVE  Spec => []OneLiveTask
<1>1. Init => OneLiveTask
  BY DEF Init, QueueInit, OneLiveTask, Live
<1>2. StateTypeOK /\ OneLiveTask /\ [Next]_vars => OneLiveTask'
  BY LockStep
<1> QED BY <1>1, <1>2, Typed, PTL DEF Spec

-----------------------------------------------------------------------------
\* The strengthening that makes NoWorkAfterDone inductive: conversion steps belong
\* to convert tasks, so that OneLiveTask tells two converting tasks apart.
WorkInv ==
  /\ \A t \in Tasks : pc[t] \in ConvertSteps => Kind(t) = "convert"
  /\ NoWorkAfterDone

\* While unique locks outlive their tasks, no worker converts, stores or marks a job
\* that is already done: only the one task of a job can make it done, and that step
\* takes it out of process().
THEOREM NoWastedWork ==
  ASSUME ~LockMayLapse
  PROVE  Spec => []NoWorkAfterDone
<1>1. Init => WorkInv
  BY DEF Init, QueueInit, WorkInv, NoWorkAfterDone, ConvertSteps
<1>2. StateTypeOK /\ OneLiveTask /\ WorkInv /\ [Next]_vars => WorkInv'
  <2> SUFFICES ASSUME StateTypeOK, OneLiveTask, WorkInv, [Next]_vars PROVE WorkInv'
    OBVIOUS
  <2>1. RowStep /\ \A u \in Tasks : PcMove(u)
    BY RowSteps, PcMoves
  <2>2. \A t \in Tasks : pc'[t] \in ConvertSteps => Kind(t) = "convert"
    BY <2>1 DEF WorkInv, PcMove
  <2>3. ASSUME NEW t \in Tasks, pc'[t] \in Working, status'[Job(t)] = "done" PROVE FALSE
    <3>1. pc[t] \in Working
      BY <2>1, <2>3 DEF PcMove
    <3>2. status[Job(t)] # "done"
      BY <3>1 DEF WorkInv, NoWorkAfterDone, Working
    <3>3. PICK u \in Tasks : DoMarkDone(u) /\ status'[Job(u)] = "done" /\ Job(u) = Job(t)
      BY <2>1, <2>3, <3>2, TaskFacts
      DEF RowStep, InsertJob, Apply, InsertOutput, StateTypeOK, RepoTypeOK
    <3>4. u = t
      <4>1. Kind(u) = "convert" /\ Kind(t) = "convert" /\ Live(u) /\ Live(t)
        BY <3>1, <3>3 DEF WorkInv, DoMarkDone, Working, ConvertSteps, Live
      <4> QED BY <4>1, <3>3 DEF OneLiveTask, SameKey
    <3>5. pc'[t] \notin Working
      BY <3>3, <3>4, GotoPc, FailPc DEF DoMarkDone, StateTypeOK, Working
    <3> QED BY <2>3, <3>5
  <2> QED BY <2>2, <2>3 DEF WorkInv, NoWorkAfterDone, Working
<1>3. WorkInv => NoWorkAfterDone
  BY DEF WorkInv
<1> QED BY <1>1, <1>2, <1>3, Typed, UniqueTask, PTL DEF Spec
=============================================================================
