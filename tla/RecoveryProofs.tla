--------------------------- MODULE RecoveryProofs ---------------------------
(***************************************************************************)
(* The accounts of the sweepers: how many sweeps can run, how many tasks   *)
(* they can push for a job and how many of them the recovery count shows,  *)
(* for any number of jobs, sweepers, recoveries and faults.                *)
(*                                                                         *)
(* A sweeper that has lost its session is a stray.  Each stray has cost    *)
(* one fault, and until its sweep ends that fault pays for the one task it *)
(* may still push for a job without looking at the current count, even if  *)
(* the session went before the scan was made.                              *)
(***************************************************************************)
EXTENDS SystemProofs, FiniteSetTheorems

-----------------------------------------------------------------------------
\* The sweeper is in the first loop of sweep().
Walking(s) == sweep[s] \notin {"idle", "scan", "gaps"}

\* It has found job j under the cap and is about to enqueue it.
Cleared(s, j) == sweep[s] = "enqueue" /\ cur[s] = j

\* It may still push a task for j in this walk, or in one that it has yet to start.
Ahead(s, j) == (Walking(s) /\ j \in todo[s]) \/ Cleared(s, j)
MayPush(s, j) == Ahead(s, j) \/ sweep[s] = "scan"

\* It has pushed a task for j that RequeueStale is still to count.
Owing(s, j) == sweep[s] \in {"requeue", "requeueAgain"} /\ cur[s] = j

\* The sweepers in a sweep, those that go on without the lock, those of them that may
\* push for j, and those that have yet to count a push for j.
Busy == {s \in Sweepers : sweep[s] # "idle"}
Strays == {s \in Sweepers : sweep[s] # "idle" /\ s \notin leader}
StraysAhead(j) == {s \in Sweepers : MayPush(s, j) /\ s \notin leader}
Debtors(j) == {s \in Sweepers : Owing(s, j)}

\* A sweeper's step is about its own entries and its own session.
OwnStep(s) ==
  \A u \in Sweepers \ {s} : /\ sweep'[u] = sweep[u] /\ cur'[u] = cur[u] /\ todo'[u] = todo[u]
                            /\ u \in leader' <=> u \in leader

-----------------------------------------------------------------------------
\* Two sets that agree except on x differ in size by what x contributes.
LEMMA SizeButOne ==
  ASSUME NEW S, NEW T, NEW x, IsFiniteSet(S), S \ {x} = T \ {x}
  PROVE  /\ IsFiniteSet(T) /\ Cardinality(S) \in Nat /\ Cardinality(T) \in Nat
         /\ Cardinality(T) = Cardinality(S) + (IF x \in T THEN 1 ELSE 0)
                                            - (IF x \in S THEN 1 ELSE 0)
<1>1. IsFiniteSet(S \ {x})
  BY FS_RemoveElement
<1>2. T = IF x \in T THEN (S \ {x}) \cup {x} ELSE S \ {x}
  OBVIOUS
<1>3. IsFiniteSet(T)
  BY <1>1, <1>2, FS_AddElement
<1>4. Cardinality(S \ {x}) = Cardinality(S) - (IF x \in S THEN 1 ELSE 0)
  BY FS_RemoveElement, FS_CardinalityType
<1>5. Cardinality(T \ {x}) = Cardinality(T) - (IF x \in T THEN 1 ELSE 0)
  BY <1>3, FS_RemoveElement, FS_CardinalityType
<1>6. Cardinality(S) \in Nat /\ Cardinality(T) \in Nat
  BY <1>3, FS_CardinalityType
<1> QED BY <1>3, <1>4, <1>5, <1>6

\* What the other processes leave alone: the sweepers, and the recovery count.
LEMMA Elsewhere ==
  ASSUME StateTypeOK, [Next]_vars, \A s \in Sweepers : ~Reconcile(s) /\ ~SweeperFails(s)
  PROVE  UNCHANGED sweepVars /\ recoveries' = recoveries /\ faults' >= faults
<1> USE DEF StateTypeOK, RepoTypeOK
<1>1. ASSUME NEW t \in Tasks, Convert(t)
      PROVE  recoveries' = recoveries /\ faults' >= faults
  <2>1. ASSUME NEW to \in {"active", "done", "failed"}, NEW from, NEW res,
               Transition(Job(t), to, from, res)
        PROVE  recoveries' = recoveries /\ faults' >= faults
    BY <2>1, TaskFacts DEF Transition, Apply, repoVars, NoFault, Fault
  <2> QED BY <1>1, <2>1
          DEF Convert, ConvertStep, Load, DoMarkActive, MarkActive, Process, DoAddOutput,
              AddOutput, InsertOutput, DoMarkDone, MarkDone, DoMarkFailed, MarkFailed, Notify,
              Enqueue, repoVars, NoFault, Fault
<1>2. ASSUME NEW t \in Tasks, Deliver(t) \/ Serve(t) \/ Expire(t) \/ WorkerDies(t)
      PROVE  recoveries' = recoveries /\ faults' >= faults
  BY <1>2 DEF Deliver, WebhookStep, Read, Post, RecordSuccess, RecordFailure, DeadLetter,
              RecordAttempt, MarkDeadLetter, Note, Serve, Dequeue, Return, Expire, LockExpire,
              WorkerDies, WorkerCrash, WorkerShutdown, repoVars, NoFault, Fault
<1>3. ASSUME NEW j \in Jobs, ApiStep(j) \/ ApiDies(j) \/ TimePasses(j)
      PROVE  recoveries' = recoveries /\ faults' >= faults
  BY <1>3 DEF ApiStep, SubmitJob, Create, InsertJob, EnqueueJob, Enqueue, ApiDies, ApiCrash,
              TimePasses, Age, repoVars, NoFault, Fault
<1>4. CASE UNCHANGED vars
  BY <1>4 DEF vars, repoVars
<1> QED BY <1>1, <1>2, <1>3, <1>4
        DEF Next, vars, ApiStep, ApiDies, TimePasses, Convert, Deliver, Serve, Expire, WorkerDies

-----------------------------------------------------------------------------
\* What keeps the sweepers apart: one session holds the lock, each stray has cost a
\* fault, and no sweeper has a job twice in a walk or walks over a missing row.
SweepInv ==
  /\ \A s, u \in leader : s = u
  /\ IsFiniteSet(Strays) /\ Cardinality(Strays) <= faults
  /\ \A s \in Sweepers : Walking(s) =>
       /\ cur[s] \notin todo[s]
       /\ \A j \in Jobs : j \in todo[s] \/ cur[s] = j => status[j] # "none"

\* A step of a sweeper is an OwnStep, takes at most one fault, and makes a stray only
\* of the leader, with a fault.
LEMMA OwnSteps ==
  ASSUME StateTypeOK, NEW s \in Sweepers, Reconcile(s) \/ SweeperFails(s)
  PROVE  /\ OwnStep(s)
         /\ NoFault \/ Fault
         /\ s \in Strays' => s \in Strays \/ Fault
         /\ leader' \in {leader, leader \ {s}} \/ (leader' = {s} /\ leader \subseteq {s})
<1> USE DEF StateTypeOK, SweepTypeOK, OwnStep, Strays
<1>1. CASE Tick(s) \/ Scan(s)
  BY <1>1 DEF Tick, Scan, NextJob, At
<1>2. CASE Pick(s)
  BY <1>2 DEF Pick, NextJob, At
<1>3. CASE Exhaust(s)
  BY <1>3 DEF Exhaust, NextJob, At, MarkFailed, Transition
<1>4. CASE ExhaustHook(s)
  BY <1>4 DEF ExhaustHook, NextJob, At, Enqueue
<1>5. CASE EnqueueStale(s)
  BY <1>5 DEF EnqueueStale, NextJob, At, Enqueue
<1>6. CASE Requeue(s)
  BY <1>6 DEF Requeue, NextJob, At, RequeueStale, Transition
<1>7. CASE GapScan(s)
  BY <1>7 DEF GapScan, At
<1>8. CASE GapEnqueue(s)
  BY <1>8 DEF GapEnqueue, At, Enqueue
<1>9. CASE SweeperFails(s)
  BY <1>9 DEF SweeperFails, LoseLock, SweeperCrash, At
<1> QED BY <1>1, <1>2, <1>3, <1>4, <1>5, <1>6, <1>7, <1>8, <1>9 DEF Reconcile, SweepStep

\* No step removes a row or takes a job out of done or failed.
LEMMA RowsStay ==
  ASSUME StateTypeOK, [Next]_vars, NEW j \in Jobs
  PROVE  /\ status[j] # "none" => status'[j] # "none"
         /\ status[j] \in Final => status'[j] = status[j]
         /\ recoveries'[j] >= recoveries[j]
<1>1. RowStep
  BY RowSteps
<1> QED BY <1>1, TaskFacts
        DEF RowStep, InsertJob, Apply, InsertOutput, InFlight, Final, StateTypeOK, RepoTypeOK

\* A sweeper's walk: the job it goes to leaves the list, and a new list has rows only.
LEMMA WalkOn ==
  ASSUME StateTypeOK, SweepInv, NEW s \in Sweepers, Reconcile(s) \/ SweeperFails(s), Walking(s)'
  PROVE  /\ cur'[s] \notin todo'[s]
         /\ \A j \in Jobs : j \in todo'[s] \/ cur'[s] = j => status[j] # "none"
<1> USE SweeperAssumption DEF StateTypeOK, SweepTypeOK, Walking
<1>1. CASE Tick(s) \/ Scan(s)
  BY <1>1 DEF Tick, Scan, NextJob, At, FindStale, SweepInv
<1>2. CASE Pick(s)
  BY <1>2 DEF Pick, NextJob, At, SweepInv
<1>3. CASE Exhaust(s) \/ ExhaustHook(s) \/ EnqueueStale(s) \/ Requeue(s)
  BY <1>3 DEF Exhaust, ExhaustHook, EnqueueStale, Requeue, NextJob, At, SweepInv
<1>4. CASE GapScan(s) \/ GapEnqueue(s)
  BY <1>4 DEF GapScan, GapEnqueue, At
<1>5. CASE SweeperFails(s)
  BY <1>5 DEF SweeperFails, LoseLock, SweeperCrash, At, SweepInv
<1> QED BY <1>1, <1>2, <1>3, <1>4, <1>5 DEF Reconcile, SweepStep

\* SweepInv holds in every reachable state.
LEMMA Sweeping == Spec => []SweepInv
<1>1. Init => SweepInv
  <2>1. Init => Strays = {} /\ leader = {} /\ faults = 0
    BY DEF Init, SweepInit, RepoInit, Strays
  <2>2. Init => \A s \in Sweepers : ~Walking(s)
    BY DEF Init, SweepInit, Walking
  <2> QED BY <2>1, <2>2, FS_EmptySet DEF SweepInv
<1>2. StateTypeOK /\ StateTypeOK' /\ SweepInv /\ [Next]_vars => SweepInv'
  <2> SUFFICES ASSUME StateTypeOK, StateTypeOK', SweepInv, [Next]_vars PROVE SweepInv'
    OBVIOUS
  <2>0. \A j \in Jobs : status[j] # "none" => status'[j] # "none"
    BY RowsStay
  <2>1. ASSUME NEW s \in Sweepers, Reconcile(s) \/ SweeperFails(s) PROVE SweepInv'
    <3>1. /\ OwnStep(s)
          /\ NoFault \/ Fault
          /\ s \in Strays' => s \in Strays \/ Fault
          /\ leader' \in {leader, leader \ {s}} \/ (leader' = {s} /\ leader \subseteq {s})
      BY <2>1, OwnSteps
    <3>2. \A u, v \in leader' : u = v
      BY <3>1 DEF SweepInv
    <3>3. Strays \ {s} = Strays' \ {s}
      BY <3>1 DEF OwnStep, Strays
    <3>4. IsFiniteSet(Strays) /\ Cardinality(Strays) <= faults
      BY DEF SweepInv
    <3>5. /\ IsFiniteSet(Strays') /\ Cardinality(Strays) \in Nat /\ Cardinality(Strays') \in Nat
          /\ Cardinality(Strays') = Cardinality(Strays) + (IF s \in Strays' THEN 1 ELSE 0)
                                                        - (IF s \in Strays THEN 1 ELSE 0)
      BY <3>3, <3>4, SizeButOne
    <3>6. Cardinality(Strays') <= faults'
      BY <3>1, <3>4, <3>5 DEF NoFault, Fault, StateTypeOK, RepoTypeOK
    <3>7. ASSUME NEW u \in Sweepers, Walking(u)'
          PROVE  /\ cur'[u] \notin todo'[u]
                 /\ \A j \in Jobs : j \in todo'[u] \/ cur'[u] = j => status'[j] # "none"
      <4>1. CASE u = s
        BY <2>0, <2>1, <3>7, <4>1, WalkOn
      <4>2. CASE u # s
        BY <2>0, <3>1, <3>7, <4>2 DEF OwnStep, SweepInv, Walking
      <4> QED BY <4>1, <4>2
    <3> QED BY <3>2, <3>5, <3>6, <3>7 DEF SweepInv
  <2>2. ASSUME \A s \in Sweepers : ~Reconcile(s) /\ ~SweeperFails(s) PROVE SweepInv'
    <3>1. UNCHANGED sweepVars /\ faults' >= faults
      BY <2>2, Elsewhere
    <3>2. Strays' = Strays /\ \A s \in Sweepers : Walking(s)' <=> Walking(s)
      BY <3>1 DEF Strays, Walking, sweepVars
    <3>3. Cardinality(Strays) \in Nat
      BY FS_CardinalityType DEF SweepInv
    <3> QED BY <2>0, <3>1, <3>2, <3>3 DEF SweepInv, sweepVars, StateTypeOK, RepoTypeOK
  <2> QED BY <2>1, <2>2
<1> QED BY <1>1, <1>2, Typed, PTL DEF Spec

\* OneSweepPerSession for any number of replicas: besides the leader only sweepers that
\* lost their session are in the middle of a sweep, one per fault.
THEOREM SweepsCounted == Spec => []OneSweepPerSession
<1>1. StateTypeOK /\ SweepInv => OneSweepPerSession
  <2> SUFFICES ASSUME StateTypeOK, SweepInv PROVE OneSweepPerSession
    OBVIOUS
  <2>1. IsFiniteSet(Strays) /\ Cardinality(Strays) \in Nat /\ Cardinality(Strays) <= faults
    BY FS_CardinalityType DEF SweepInv
  <2>2. CASE leader = {}
    BY <2>1, <2>2 DEF Strays, OneSweepPerSession, StateTypeOK, RepoTypeOK
  <2>3. ASSUME NEW l \in leader PROVE OneSweepPerSession
    <3>1. Strays \ {l} = Busy \ {l}
      BY <2>3 DEF Strays, Busy, SweepInv
    <3>2. /\ Cardinality(Busy) \in Nat
          /\ Cardinality(Busy) = Cardinality(Strays) + (IF l \in Busy THEN 1 ELSE 0)
                                                     - (IF l \in Strays THEN 1 ELSE 0)
      BY <2>1, <3>1, SizeButOne
    <3>3. Cardinality(Busy) <= 1 + faults
      BY <2>1, <3>2 DEF StateTypeOK, RepoTypeOK
    <3> QED BY <3>3 DEF OneSweepPerSession, Busy
  <2> QED BY <2>2, <2>3
<1> QED BY <1>1, Typed, Sweeping, PTL

-----------------------------------------------------------------------------
\* What sweeper s adds, for job j, to the tasks that the count may come to miss, to the
\* tasks that may come to be pushed, and to the pushes that are still to be counted.
Unseen(s, j) == IF s \in leader THEN IF Owing(s, j) THEN -1 ELSE 0
                ELSE IF MayPush(s, j) THEN 1 ELSE 0
Claim(s, j)  == IF s \in leader THEN IF Cleared(s, j) THEN 1 ELSE 0
                ELSE IF MayPush(s, j) THEN 1 ELSE 0
Debt(s, j)   == IF Owing(s, j) THEN 1 ELSE 0

\* The leader is done with a settled job.
LetGo(s, j) == s \in leader /\ status[j] \in Final /\ ~Ahead(s, j) /\ ~Owing(s, j)

\* The leader finds j under the cap.
Clears(s, j) == /\ s \in leader /\ Ahead(s, j) /\ ~Owing(s, j) /\ ~Cleared(s, j)
                /\ recoveries[j] < MaxRecoveries
                /\ Claim(s, j)' = 1 /\ UNCHANGED <<revived, faults>>

\* The entries of a sweeper's step in the three accounts of job j, and that it never
\* takes up a settled job afresh.
Entry(s, j) ==
  /\ LetGo(s, j)'
     \/ revived'[j] + Unseen(s, j)' + recoveries[j] + faults
          <= revived[j] + Unseen(s, j) + recoveries'[j] + faults'
  /\ Clears(s, j)
     \/ revived'[j] + Claim(s, j)' + faults <= revived[j] + Claim(s, j) + faults'
  /\ recoveries'[j] + Debt(s, j)' + revived[j] + faults
       <= recoveries[j] + Debt(s, j) + revived'[j] + faults'
  /\ s \in leader' /\ (Ahead(s, j) \/ Owing(s, j))'
     => status[j] \notin Final \/ (s \in leader /\ (Ahead(s, j) \/ Owing(s, j)))

\* A step that pushes and counts nothing for j, and neither clears j nor lets it go.
LEMMA IdleEntry ==
  ASSUME StateTypeOK, StateTypeOK', NEW s \in Sweepers, NEW j \in Jobs, NoFault \/ Fault,
         leader' = leader \/ (leader' = leader \ {s} /\ Fault),
         revived' = revived, recoveries'[j] = recoveries[j],
         Ahead(s, j)' => Ahead(s, j), MayPush(s, j)' => MayPush(s, j),
         Cleared(s, j)' => Cleared(s, j),
         Owing(s, j)' => Owing(s, j), Owing(s, j) => Owing(s, j)' \/ Fault,
         ~(MayPush(s, j) /\ Owing(s, j))
  PROVE  Entry(s, j)
<1>1. revived'[j] = revived[j] /\ revived[j] \in Nat /\ recoveries[j] \in Nat /\ faults \in Nat
  BY DEF StateTypeOK, SweepTypeOK, RepoTypeOK
<1>2. CASE NoFault
  BY <1>1, <1>2 DEF Entry, Unseen, Claim, Debt, NoFault, Fault
<1>3. CASE Fault
  BY <1>1, <1>3 DEF Entry, Unseen, Claim, Debt, Fault
<1> QED BY <1>2, <1>3

\* A tick makes a leader, which has nothing in hand yet.
LEMMA TickEntry ==
  ASSUME StateTypeOK, NEW s \in Sweepers, NEW j \in Jobs, Tick(s)
  PROVE  Entry(s, j)
<1> USE SweeperAssumption DEF StateTypeOK, SweepTypeOK, RepoTypeOK
<1>1. /\ revived'[j] = revived[j] /\ recoveries'[j] = recoveries[j]
      /\ revived[j] \in Nat /\ recoveries[j] \in Nat /\ faults \in Nat
      /\ faults' = faults /\ s \in leader'
  BY DEF Tick, repoVars, NoFault, MaxRevived
<1>2. ~Ahead(s, j) /\ ~MayPush(s, j) /\ ~Owing(s, j) /\ ~Cleared(s, j)
  BY DEF Tick, Ahead, MayPush, Owing, Cleared, Walking
<1>3. ~Owing(s, j)' /\ ~Cleared(s, j)' /\ ~Ahead(s, j)'
  BY DEF Tick, At, Ahead, Owing, Cleared, Walking
<1> QED BY <1>1, <1>2, <1>3 DEF Entry, Unseen, Claim, Debt

\* A scan takes up in-flight jobs only, and a stray's was accounted for beforehand.
LEMMA ScanEntry ==
  ASSUME StateTypeOK, NEW s \in Sweepers, NEW j \in Jobs, Scan(s)
  PROVE  Entry(s, j)
<1> USE SweeperAssumption DEF StateTypeOK, SweepTypeOK, RepoTypeOK
<1>1. /\ revived'[j] = revived[j] /\ recoveries'[j] = recoveries[j]
      /\ revived[j] \in Nat /\ recoveries[j] \in Nat /\ faults \in Nat /\ faults' \in Nat
      /\ faults' >= faults /\ leader' = leader
  BY DEF Scan, repoVars, NoFault, Fault, MaxRevived
<1>2. ~Ahead(s, j) /\ MayPush(s, j) /\ ~Owing(s, j) /\ ~Cleared(s, j)
  BY DEF Scan, Ahead, MayPush, Owing, Cleared, Walking
<1>3. ~Owing(s, j)' /\ ~Cleared(s, j)' /\ (Ahead(s, j)' => status[j] \notin Final)
  BY DEF Scan, NextJob, At, Ahead, Owing, Cleared, Walking, FindStale, Final
<1> QED BY <1>1, <1>2, <1>3 DEF Entry, Unseen, Claim, Debt

\* Going to the next job: the leader clears only jobs under the cap, a stray only moves
\* on within what it may still push.
LEMMA PickEntry ==
  ASSUME StateTypeOK, SweepInv, NEW s \in Sweepers, NEW j \in Jobs, Pick(s)
  PROVE  Entry(s, j)
<1> USE SweeperAssumption DEF StateTypeOK, SweepTypeOK, RepoTypeOK
<1>1. /\ revived' = revived /\ revived'[j] = revived[j] /\ recoveries'[j] = recoveries[j]
      /\ revived[j] \in Nat /\ recoveries[j] \in Nat /\ faults \in Nat /\ faults' \in Nat
      /\ faults' >= faults /\ leader' = leader
  BY DEF Pick, repoVars, NoFault, Fault, MaxRevived
<1>2. ~Owing(s, j) /\ ~Cleared(s, j) /\ ~Owing(s, j)'
  BY DEF Pick, NextJob, At, Owing, Cleared
<1>3. (Ahead(s, j)' => Ahead(s, j)) /\ (MayPush(s, j)' => Ahead(s, j))
  BY DEF Pick, NextJob, At, Ahead, MayPush, Cleared, Walking
<1>4. Cleared(s, j)' => recoveries[j] < MaxRecoveries /\ faults' = faults /\ Ahead(s, j)
  BY DEF Pick, NextJob, At, Ahead, Cleared, Walking, RecoveryCount, NoFault
<1> QED BY <1>1, <1>2, <1>3, <1>4 DEF Entry, Unseen, Claim, Debt, Clears, MayPush

\* A push that is acknowledged is owed to the count; one that is not has cost a fault.
LEMMA EnqueueEntry ==
  ASSUME StateTypeOK, SweepInv, NEW s \in Sweepers, NEW j \in Jobs, EnqueueStale(s),
         revived[j] < MaxRevived
  PROVE  Entry(s, j)
<1> USE SweeperAssumption DEF StateTypeOK, SweepTypeOK, RepoTypeOK
<1>0. /\ sweep[s] = "enqueue" /\ cur[s] \in Jobs /\ leader' = leader
      /\ recoveries'[j] = recoveries[j] /\ recoveries[j] \in Nat
      /\ revived[j] \in Nat /\ faults \in Nat
  BY DEF EnqueueStale, repoVars, MaxRevived
<1>1. PICK res \in EnqueueResults :
        /\ Enqueue("convert", cur[s], pc, res)
        /\ IF res = "ok" THEN At(s, "requeue", cur[s]) ELSE NextJob(s)
  BY DEF EnqueueStale
<1>2. todo' = todo /\ cur[s] \notin todo[s]
  BY <1>0 DEF EnqueueStale, SweepInv, Walking
<1>3. CASE j # cur[s]
  <2>1. revived'[j] = revived[j]
    BY <1>0, <1>3 DEF EnqueueStale
  <2>2. ~Owing(s, j) /\ ~Owing(s, j)' /\ ~Cleared(s, j) /\ ~Cleared(s, j)'
    BY <1>0, <1>1, <1>3 DEF Owing, Cleared, At, NextJob
  <2>3. (Ahead(s, j)' => Ahead(s, j)) /\ (MayPush(s, j)' => MayPush(s, j))
    BY <1>0, <1>1, <1>2, <2>2 DEF Ahead, MayPush, Walking, At, NextJob
  <2>4. faults' \in Nat /\ faults' >= faults
    BY <1>1, <1>0 DEF Enqueue, NoFault, Fault
  <2> QED BY <1>0, <2>1, <2>2, <2>3, <2>4 DEF Entry, Unseen, Claim, Debt
<1>4. CASE j = cur[s]
  <2>1. Cleared(s, j) /\ ~Owing(s, j) /\ Ahead(s, j) /\ MayPush(s, j)
    BY <1>0, <1>4 DEF Owing, Cleared, Ahead, MayPush
  <2>2. ~Cleared(s, j)' /\ ~Ahead(s, j)' /\ ~MayPush(s, j)' /\ (Owing(s, j)' <=> res = "ok")
    BY <1>0, <1>1, <1>2, <1>4 DEF Owing, Cleared, Ahead, MayPush, At, NextJob
  <2>3. res = "ok" => pc' # pc /\ faults' = faults
    BY <1>0, <1>1 DEF Enqueue, Push, Live, NoFault, QueueTypeOK, Tasks, Kinds
  <2>4. res = "dup" => pc' = pc /\ faults' = faults
    BY <1>1 DEF Enqueue, NoPush, NoFault
  <2>5. res = "err" => faults' = faults + 1
    BY <1>1 DEF Enqueue, Fault
  <2>6. revived'[j] = IF pc' # pc THEN revived[j] + 1 ELSE revived[j]
    BY <1>0, <1>4 DEF EnqueueStale, MaxRevived
  <2> QED BY <1>0, <1>1, <2>1, <2>2, <2>3, <2>4, <2>5, <2>6
          DEF Entry, Unseen, Claim, Debt, EnqueueResults
<1> QED BY <1>3, <1>4

\* A debt is settled by the count, by a fault, or dropped for a job that is settled.
LEMMA RequeueEntry ==
  ASSUME StateTypeOK, SweepInv, NEW s \in Sweepers, NEW j \in Jobs, Requeue(s)
  PROVE  Entry(s, j)
<1> USE SweeperAssumption DEF StateTypeOK, SweepTypeOK, RepoTypeOK
<1>0. /\ sweep[s] \in {"requeue", "requeueAgain"} /\ cur[s] \in Jobs /\ leader' = leader
      /\ revived'[j] = revived[j] /\ revived[j] \in Nat /\ recoveries[j] \in Nat
      /\ faults \in Nat /\ todo' = todo
  BY DEF Requeue, MaxRevived
<1>1. PICK res \in Results :
        /\ RequeueStale(cur[s], res)
        /\ IF res # "ok" /\ sweep[s] = "requeue"
           THEN At(s, "requeueAgain", cur[s]) ELSE NextJob(s)
  BY DEF Requeue
<1>2. cur[s] \notin todo[s] /\ status[cur[s]] # "none"
  BY <1>0 DEF SweepInv, Walking
<1>3. /\ ~Cleared(s, j) /\ ~Cleared(s, j)' /\ (Ahead(s, j)' => Ahead(s, j))
      /\ MayPush(s, j) <=> Ahead(s, j)
      /\ MayPush(s, j)' <=> Ahead(s, j)'
      /\ Owing(s, j)' => Owing(s, j)
      /\ Owing(s, j) <=> j = cur[s]
      /\ Owing(s, j) /\ ~Owing(s, j)' => res = "ok" \/ sweep[s] = "requeueAgain"
  BY <1>0, <1>1, <1>2 DEF Owing, Cleared, Ahead, MayPush, Walking, At, NextJob
<1>4. /\ recoveries'[j] \in Nat /\ faults' \in Nat
      /\ j # cur[s] => recoveries'[j] = recoveries[j] /\ faults' >= faults
      /\ j = cur[s] /\ res = "ok" => recoveries'[j] = recoveries[j] + 1 /\ faults' = faults
      /\ j = cur[s] /\ res = "illegal" =>
           /\ recoveries'[j] = recoveries[j] /\ faults' = faults
           /\ status[j] \notin InFlight /\ status'[j] = status[j]
      /\ j = cur[s] /\ res \in Broken =>
           /\ recoveries'[j] \in {recoveries[j], recoveries[j] + 1} /\ faults' = faults + 1
  BY <1>0, <1>1 DEF RequeueStale, Transition, Apply, repoVars, NoFault, Fault, Broken
<1>5. CASE j # cur[s]
  BY <1>0, <1>3, <1>4, <1>5 DEF Entry, Unseen, Claim, Debt
<1>6. CASE j = cur[s] /\ res \in {"ok"} \cup Broken
  <2>1. Owing(s, j) /\ ~Ahead(s, j) /\ ~Ahead(s, j)'
    BY <1>0, <1>2, <1>3, <1>6 DEF Ahead
  <2>2. res = "ok" => ~Owing(s, j)'
    BY <1>1, <1>0 DEF Owing, NextJob, At
  <2> QED BY <1>0, <1>3, <1>4, <1>6, <2>1, <2>2 DEF Entry, Unseen, Claim, Debt, Broken
<1>7. CASE j = cur[s] /\ res = "illegal"
  <2>1. Owing(s, j) /\ ~Ahead(s, j) /\ ~Ahead(s, j)'
    BY <1>0, <1>2, <1>3, <1>7 DEF Ahead
  <2>2. status'[j] \in Final
    BY <1>2, <1>4, <1>7 DEF Final, InFlight, Statuses
  <2> QED BY <1>0, <1>3, <1>4, <1>7, <2>1, <2>2 DEF Entry, Unseen, Claim, Debt, LetGo
<1> QED BY <1>1, <1>5, <1>6, <1>7 DEF Results

\* Every step of a sweeper makes an Entry.
LEMMA Entries ==
  ASSUME StateTypeOK, StateTypeOK', SweepInv, NEW s \in Sweepers, Reconcile(s) \/ SweeperFails(s),
         NEW j \in Jobs, revived[j] < MaxRevived
  PROVE  Entry(s, j)
<1> USE SweeperAssumption
<1>0. ~(MayPush(s, j) /\ Owing(s, j))
  BY DEF Ahead, MayPush, Owing, Cleared, Walking, SweepInv
<1>1. CASE Exhaust(s) \/ ExhaustHook(s) \/ GapScan(s) \/ GapEnqueue(s)
  <2>1. /\ leader' = leader /\ revived' = revived /\ ~Owing(s, j) /\ ~Owing(s, j)'
        /\ ~Cleared(s, j) /\ ~Cleared(s, j)' /\ (Ahead(s, j)' => Ahead(s, j))
        /\ MayPush(s, j)' => MayPush(s, j)
    BY <1>1 DEF Exhaust, ExhaustHook, GapScan, GapEnqueue, NextJob, At, Owing, Cleared, Ahead,
                MayPush, Walking, StateTypeOK, SweepTypeOK
  <2>2. recoveries'[j] = recoveries[j]
    BY <1>1 DEF Exhaust, ExhaustHook, GapScan, GapEnqueue, MarkFailed, Transition, Apply,
                repoVars, StateTypeOK, RepoTypeOK, SweepTypeOK
  <2> QED BY <1>0, <2>1, <2>2, OwnSteps, IdleEntry
<1>2. CASE SweeperFails(s)
  <2>1. /\ leader' = leader \ {s} /\ revived' = revived /\ Fault /\ recoveries' = recoveries
        /\ Ahead(s, j)' => Ahead(s, j)
        /\ MayPush(s, j)' => MayPush(s, j)
        /\ Cleared(s, j)' => Cleared(s, j)
        /\ Owing(s, j)' => Owing(s, j)
    BY <1>2 DEF SweeperFails, LoseLock, SweeperCrash, At, Owing, Cleared, Ahead, MayPush, Walking,
                repoVars, StateTypeOK, SweepTypeOK
  <2> QED BY <1>0, <2>1, IdleEntry
<1> QED BY <1>1, <1>2, TickEntry, ScanEntry, PickEntry, EnqueueEntry, RequeueEntry
        DEF Reconcile, SweepStep

-----------------------------------------------------------------------------
\* The leader's share of the accounts of job j: a push it has yet to count, and one it
\* is about to make.
LeaderOwes(j)  == IF \E s \in leader : Owing(s, j) THEN 1 ELSE 0
LeaderPushes(j) == IF \E s \in leader : Cleared(s, j) THEN 1 ELSE 0

\* A leader may still come to push for j.
Open(j) == status[j] \notin Final \/ \E s \in leader : Ahead(s, j) \/ Owing(s, j)

\* The sums over all sweepers change by the entries of the one that moves.
LEMMA Sums ==
  ASSUME SweepInv, SweepInv', NEW s \in Sweepers, OwnStep(s), NEW j \in Jobs,
         leader \subseteq Sweepers, leader' \subseteq Sweepers,
         IsFiniteSet(StraysAhead(j)), IsFiniteSet(Debtors(j))
  PROVE  /\ IsFiniteSet(StraysAhead(j)') /\ IsFiniteSet(Debtors(j)')
         /\ Cardinality(StraysAhead(j)) \in Nat /\ Cardinality(StraysAhead(j)') \in Nat
         /\ Cardinality(Debtors(j)) \in Nat /\ Cardinality(Debtors(j)') \in Nat
         /\ Cardinality(StraysAhead(j)') - LeaderOwes(j)' - Unseen(s, j)'
              = Cardinality(StraysAhead(j)) - LeaderOwes(j) - Unseen(s, j)
         /\ Cardinality(StraysAhead(j)') + LeaderPushes(j)' - Claim(s, j)'
              = Cardinality(StraysAhead(j)) + LeaderPushes(j) - Claim(s, j)
         /\ Cardinality(Debtors(j)') - Debt(s, j)' = Cardinality(Debtors(j)) - Debt(s, j)
<1>1. StraysAhead(j) \ {s} = StraysAhead(j)' \ {s}
  BY DEF StraysAhead, OwnStep, Ahead, MayPush, Cleared, Walking
<1>2. Debtors(j) \ {s} = Debtors(j)' \ {s}
  BY DEF Debtors, OwnStep, Owing
<1>3. /\ IsFiniteSet(StraysAhead(j)')
      /\ Cardinality(StraysAhead(j)) \in Nat /\ Cardinality(StraysAhead(j)') \in Nat
      /\ Cardinality(StraysAhead(j)')
           = Cardinality(StraysAhead(j)) + (IF s \in StraysAhead(j)' THEN 1 ELSE 0)
                                         - (IF s \in StraysAhead(j) THEN 1 ELSE 0)
  BY <1>1, SizeButOne
<1>4. /\ IsFiniteSet(Debtors(j)')
      /\ Cardinality(Debtors(j)) \in Nat /\ Cardinality(Debtors(j)') \in Nat
      /\ Cardinality(Debtors(j)') = Cardinality(Debtors(j)) + (IF s \in Debtors(j)' THEN 1 ELSE 0)
                                                            - (IF s \in Debtors(j) THEN 1 ELSE 0)
  BY <1>2, SizeButOne
<1>5. /\ s \in StraysAhead(j) <=> MayPush(s, j) /\ s \notin leader
      /\ s \in StraysAhead(j)' <=> MayPush(s, j)' /\ s \notin leader'
      /\ s \in Debtors(j) <=> Owing(s, j)
      /\ s \in Debtors(j)' <=> Owing(s, j)'
  BY DEF StraysAhead, Debtors
<1>6. /\ s \in leader => leader = {s}
      /\ s \in leader' => leader' = {s}
      /\ leader \ {s} = leader' \ {s}
  BY DEF SweepInv, OwnStep
<1>7. \A u \in leader \ {s} : (Owing(u, j)' <=> Owing(u, j)) /\ (Cleared(u, j)' <=> Cleared(u, j))
  BY DEF OwnStep, Owing, Cleared
<1>8. /\ s \in leader \cup leader' =>
           /\ LeaderOwes(j) = (IF s \in leader /\ Owing(s, j) THEN 1 ELSE 0)
           /\ LeaderOwes(j)' = (IF s \in leader' /\ Owing(s, j)' THEN 1 ELSE 0)
           /\ LeaderPushes(j) = (IF s \in leader /\ Cleared(s, j) THEN 1 ELSE 0)
           /\ LeaderPushes(j)' = (IF s \in leader' /\ Cleared(s, j)' THEN 1 ELSE 0)
      /\ s \notin leader \cup leader' =>
           LeaderOwes(j)' = LeaderOwes(j) /\ LeaderPushes(j)' = LeaderPushes(j)
  <2>1. CASE s \in leader \cup leader'
    <3>1. leader \subseteq {s} /\ leader' \subseteq {s}
      BY <1>6, <2>1
    <3> QED BY <2>1, <3>1 DEF LeaderOwes, LeaderPushes
  <2>2. CASE s \notin leader \cup leader'
    <3>1. leader' = leader /\ leader \ {s} = leader
      BY <1>6, <2>2
    <3> QED BY <1>7, <2>2, <3>1 DEF LeaderOwes, LeaderPushes
  <2> QED BY <2>1, <2>2
<1>9. LeaderOwes(j) \in Int /\ LeaderOwes(j)' \in Int
      /\ LeaderPushes(j) \in Int /\ LeaderPushes(j)' \in Int
  BY DEF LeaderOwes, LeaderPushes
<1>a. /\ Cardinality(StraysAhead(j)') - LeaderOwes(j)' - Unseen(s, j)'
           = Cardinality(StraysAhead(j)) - LeaderOwes(j) - Unseen(s, j)
      /\ Cardinality(StraysAhead(j)') + LeaderPushes(j)' - Claim(s, j)'
           = Cardinality(StraysAhead(j)) + LeaderPushes(j) - Claim(s, j)
  BY <1>3, <1>5, <1>8, <1>9 DEF Unseen, Claim
<1>b. Cardinality(Debtors(j)') - Debt(s, j)' = Cardinality(Debtors(j)) - Debt(s, j)
  BY <1>4, <1>5 DEF Debt
<1> QED BY <1>3, <1>4, <1>a, <1>b

\* No step opens a job that is closed: scans take up in-flight jobs only.
LEMMA StaysClosed ==
  ASSUME StateTypeOK, [Next]_vars, NEW s \in Sweepers, OwnStep(s), NEW j \in Jobs, Entry(s, j),
         leader' \subseteq Sweepers, Open(j)'
  PROVE  Open(j)
<1>1. status[j] \in Final => status'[j] \in Final
  BY RowsStay
<1>2. CASE status'[j] \notin Final
  BY <1>1, <1>2 DEF Open
<1>3. ASSUME NEW u \in leader', (Ahead(u, j) \/ Owing(u, j))' PROVE Open(j)
  <2>1. CASE u = s
    BY <1>3, <2>1 DEF Entry, Open
  <2>2. CASE u # s
    BY <1>3, <2>2 DEF OwnStep, Open, Ahead, Owing, Cleared, Walking
  <2> QED BY <2>1, <2>2
<1> QED BY <1>2, <1>3 DEF Open

-----------------------------------------------------------------------------
\* The accounts of a job.  While a leader may come to it, the recovery count and the
\* faults cover all its pushes but those in the hands of strays or still to be counted;
\* pushes made and pushes to come keep within the cap and the faults; and the count and
\* its debts keep within the pushes and the faults.
Covered(j) == revived[j] + Cardinality(StraysAhead(j)) - LeaderOwes(j) <= recoveries[j] + faults
Capped(j)  == revived[j] + Cardinality(StraysAhead(j)) + LeaderPushes(j) <= MaxRecoveries + faults
Counted(j) == recoveries[j] + Cardinality(Debtors(j)) <= revived[j] + faults

AccountInv ==
  \A j \in Jobs : /\ IsFiniteSet(StraysAhead(j)) /\ IsFiniteSet(Debtors(j))
                  /\ Open(j) => Covered(j)
                  /\ Capped(j)
                  /\ Counted(j)

\* The types of what the accounts add up.
LEMMA Amounts ==
  ASSUME StateTypeOK, NEW j \in Jobs
  PROVE  /\ revived[j] \in Nat /\ recoveries[j] \in Nat /\ faults \in Nat
         /\ MaxRecoveries \in Nat /\ MaxFaults \in Nat /\ faults <= MaxFaults
         /\ LeaderOwes(j) \in {0, 1} /\ LeaderPushes(j) \in {0, 1}
BY SweeperAssumption, JobsAssumption
   DEF StateTypeOK, RepoTypeOK, SweepTypeOK, MaxRevived, LeaderOwes, LeaderPushes

\* A sweeper's step keeps the books.
LEMMA BooksKept ==
  ASSUME StateTypeOK, StateTypeOK', SweepInv, SweepInv', [Next]_vars, AccountInv,
         NEW s \in Sweepers, Reconcile(s) \/ SweeperFails(s), NEW j \in Jobs
  PROVE  /\ IsFiniteSet(StraysAhead(j)') /\ IsFiniteSet(Debtors(j)')
         /\ Open(j)' => Covered(j)'
         /\ Capped(j)'
         /\ Counted(j)'
<1> DEFINE n == Cardinality(StraysAhead(j))
           d == Cardinality(Debtors(j))
<1>1. /\ IsFiniteSet(StraysAhead(j)) /\ IsFiniteSet(Debtors(j))
      /\ Open(j) => Covered(j)
      /\ Capped(j)
      /\ Counted(j)
  BY DEF AccountInv
<1>2. OwnStep(s)
  BY OwnSteps
<1>3. /\ leader \subseteq Sweepers /\ leader' \subseteq Sweepers
  BY DEF StateTypeOK, SweepTypeOK
<1>4. /\ IsFiniteSet(StraysAhead(j)') /\ IsFiniteSet(Debtors(j)')
      /\ n \in Nat /\ n' \in Nat /\ d \in Nat /\ d' \in Nat
      /\ n' - LeaderOwes(j)' - Unseen(s, j)' = n - LeaderOwes(j) - Unseen(s, j)
      /\ n' + LeaderPushes(j)' - Claim(s, j)' = n + LeaderPushes(j) - Claim(s, j)
      /\ d' - Debt(s, j)' = d - Debt(s, j)
  BY <1>1, <1>2, <1>3, Sums
<1>5. /\ revived[j] \in Nat /\ recoveries[j] \in Nat /\ faults \in Nat
      /\ MaxRecoveries \in Nat /\ MaxFaults \in Nat /\ faults <= MaxFaults
      /\ LeaderOwes(j) \in {0, 1} /\ LeaderPushes(j) \in {0, 1}
  BY Amounts
<1>6. /\ revived'[j] \in Nat /\ recoveries'[j] \in Nat /\ faults' \in Nat
      /\ LeaderOwes(j)' \in {0, 1} /\ LeaderPushes(j)' \in {0, 1}
  BY SweeperAssumption, JobsAssumption
     DEF StateTypeOK, RepoTypeOK, SweepTypeOK, MaxRevived, LeaderOwes, LeaderPushes
<1>7. /\ Unseen(s, j) \in Int /\ Unseen(s, j)' \in Int /\ Claim(s, j) \in Int
      /\ Claim(s, j)' \in Int /\ Debt(s, j) \in Int /\ Debt(s, j)' \in Int
  BY DEF Unseen, Claim, Debt
<1>8. revived[j] < MaxRevived
  BY <1>1, <1>4, <1>5 DEF Capped, MaxRevived
<1>9. Entry(s, j)
  BY <1>8, Entries
<1> HIDE DEF n, d
<1>a. Open(j)' => Covered(j)'
  <2>1. CASE LetGo(s, j)'
    BY <2>1 DEF LetGo, Open, SweepInv
  <2>2. CASE revived'[j] + Unseen(s, j)' + recoveries[j] + faults
               <= revived[j] + Unseen(s, j) + recoveries'[j] + faults'
    <3>1. Open(j)' => Open(j)
      BY <1>2, <1>3, <1>9, StaysClosed
    <3>2. Open(j) => revived[j] + n - LeaderOwes(j) <= recoveries[j] + faults
      BY <1>1 DEF Covered, n
    <3>3. Open(j) => revived'[j] + n' - LeaderOwes(j)' <= recoveries'[j] + faults'
      BY <1>4, <1>5, <1>6, <1>7, <2>2, <3>2
    <3> QED BY <3>1, <3>3 DEF Covered, n
  <2> QED BY <1>9, <2>1, <2>2 DEF Entry
<1>b. Capped(j)'
  <2>1. revived[j] + n + LeaderPushes(j) <= MaxRecoveries + faults
    BY <1>1 DEF Capped, n
  <2>2. CASE revived'[j] + Claim(s, j)' + faults <= revived[j] + Claim(s, j) + faults'
    <3>1. revived'[j] + n' + LeaderPushes(j)' <= MaxRecoveries + faults'
      BY <1>4, <1>5, <1>6, <1>7, <2>1, <2>2
    <3> QED BY <3>1 DEF Capped, n
  <2>3. CASE Clears(s, j)
    <3>1. leader = {s}
      BY <2>3 DEF Clears, SweepInv
    <3>2. Open(j) /\ LeaderOwes(j) = 0 /\ LeaderPushes(j) = 0 /\ Claim(s, j) = 0
      BY <2>3, <3>1 DEF Clears, Open, LeaderOwes, LeaderPushes, Claim
    <3>3. revived[j] + n - LeaderOwes(j) <= recoveries[j] + faults
      BY <1>1, <3>2 DEF Covered, n
    <3>4. /\ recoveries[j] < MaxRecoveries /\ Claim(s, j)' = 1
          /\ revived'[j] = revived[j] /\ faults' = faults
      BY <2>3 DEF Clears
    <3>5. revived'[j] + n' + LeaderPushes(j)' <= MaxRecoveries + faults'
      BY <1>4, <1>5, <1>6, <3>2, <3>3, <3>4
    <3> QED BY <3>5 DEF Capped, n
  <2> QED BY <1>9, <2>2, <2>3 DEF Entry
<1>c. Counted(j)'
  <2>1. recoveries[j] + d <= revived[j] + faults
    BY <1>1 DEF Counted, d
  <2>2. recoveries'[j] + Debt(s, j)' + revived[j] + faults
          <= recoveries[j] + Debt(s, j) + revived'[j] + faults'
    BY <1>9 DEF Entry
  <2>3. recoveries'[j] + d' <= revived'[j] + faults'
    BY <1>4, <1>5, <1>6, <1>7, <2>1, <2>2
  <2> QED BY <2>3 DEF Counted, d
<1> QED BY <1>4, <1>a, <1>b, <1>c

\* AccountInv holds in every reachable state.
LEMMA Accounting == Spec => []AccountInv
<1>1. Init => AccountInv
  <2> SUFFICES ASSUME Init, NEW j \in Jobs
               PROVE  /\ IsFiniteSet(StraysAhead(j)) /\ IsFiniteSet(Debtors(j))
                      /\ Covered(j) /\ Capped(j) /\ Counted(j)
    BY DEF AccountInv
  <2>1. StraysAhead(j) = {} /\ Debtors(j) = {} /\ leader = {}
    BY DEF Init, SweepInit, StraysAhead, Debtors, Ahead, MayPush, Owing, Walking, Cleared
  <2>2. revived[j] = 0 /\ recoveries[j] = 0 /\ faults = 0 /\ MaxRecoveries \in Nat
    BY SweeperAssumption DEF Init, SweepInit, RepoInit
  <2>3. LeaderOwes(j) = 0 /\ LeaderPushes(j) = 0
    BY <2>1 DEF LeaderOwes, LeaderPushes
  <2>4. IsFiniteSet({}) /\ Cardinality({}) = 0
    BY FS_EmptySet
  <2> QED BY <2>1, <2>2, <2>3, <2>4 DEF Covered, Capped, Counted
<1>2. StateTypeOK /\ StateTypeOK' /\ SweepInv /\ SweepInv' /\ AccountInv /\ [Next]_vars => AccountInv'
  <2> SUFFICES ASSUME StateTypeOK, StateTypeOK', SweepInv, SweepInv', AccountInv, [Next]_vars
               PROVE  AccountInv'
    OBVIOUS
  <2>1. ASSUME NEW s \in Sweepers, Reconcile(s) \/ SweeperFails(s) PROVE AccountInv'
    BY <2>1, BooksKept DEF AccountInv
  <2>2. ASSUME \A s \in Sweepers : ~Reconcile(s) /\ ~SweeperFails(s) PROVE AccountInv'
    <3>0. UNCHANGED sweepVars /\ recoveries' = recoveries /\ faults' >= faults
      BY <2>2, Elsewhere
    <3> SUFFICES ASSUME NEW j \in Jobs
                 PROVE  /\ IsFiniteSet(StraysAhead(j)') /\ IsFiniteSet(Debtors(j)')
                        /\ Open(j)' => Covered(j)'
                        /\ Capped(j)'
                        /\ Counted(j)'
      BY DEF AccountInv
    <3>1. /\ IsFiniteSet(StraysAhead(j)) /\ IsFiniteSet(Debtors(j))
          /\ Open(j) => Covered(j)
          /\ Capped(j)
          /\ Counted(j)
      BY DEF AccountInv
    <3>2. /\ StraysAhead(j)' = StraysAhead(j) /\ Debtors(j)' = Debtors(j)
          /\ LeaderOwes(j)' = LeaderOwes(j) /\ LeaderPushes(j)' = LeaderPushes(j)
      BY <3>0 DEF sweepVars, StraysAhead, Debtors, LeaderOwes, LeaderPushes, Ahead, MayPush,
                  Owing, Cleared, Walking
    <3>3. Open(j)' => Open(j)
      <4>1. status[j] \in Final => status'[j] \in Final
        BY RowsStay
      <4> QED BY <3>0, <4>1 DEF Open, sweepVars, Ahead, Owing, Cleared, Walking
    <3>4. /\ Cardinality(StraysAhead(j)) \in Nat /\ Cardinality(Debtors(j)) \in Nat
      BY <3>1, FS_CardinalityType
    <3>5. /\ revived[j] \in Nat /\ recoveries[j] \in Nat /\ faults \in Nat
          /\ MaxRecoveries \in Nat
          /\ LeaderOwes(j) \in {0, 1} /\ LeaderPushes(j) \in {0, 1}
      BY Amounts
    <3>6. revived' = revived /\ faults' \in Nat
      BY <3>0 DEF sweepVars, StateTypeOK, RepoTypeOK
    <3> QED BY <3>0, <3>1, <3>2, <3>3, <3>4, <3>5, <3>6 DEF Covered, Capped, Counted
  <2> QED BY <2>1, <2>2
<1> QED BY <1>1, <1>2, Typed, Sweeping, PTL DEF Spec

\* RecoveryBudget for any number of jobs, replicas and faults, whatever becomes of the
\* unique locks: the cap holds although the sweepers compare it with a count that lags.
THEOREM Budget == Spec => []RecoveryBudget
<1>1. StateTypeOK /\ AccountInv => RecoveryBudget
  <2> SUFFICES ASSUME StateTypeOK, AccountInv, NEW j \in Jobs
               PROVE  revived[j] <= MaxRecoveries + faults
    BY DEF RecoveryBudget
  <2>1. Cardinality(StraysAhead(j)) \in Nat
    BY FS_CardinalityType DEF AccountInv
  <2> QED BY <2>1, Amounts DEF AccountInv, Capped
<1> QED BY <1>1, Typed, Accounting, PTL

\* HonestCount for any number of jobs, replicas and faults: apart from one event per
\* fault, RequeueStale only counts tasks that are in the queue or were.
THEOREM Honest == Spec => []HonestCount
<1>1. StateTypeOK /\ AccountInv => HonestCount
  <2> SUFFICES ASSUME StateTypeOK, AccountInv, NEW j \in Jobs
               PROVE  recoveries[j] <= revived[j] + faults
    BY DEF HonestCount
  <2>1. Cardinality(Debtors(j)) \in Nat
    BY FS_CardinalityType DEF AccountInv
  <2> QED BY <2>1, Amounts DEF AccountInv, Counted
<1> QED BY <1>1, Typed, Accounting, PTL

-----------------------------------------------------------------------------
\* The sweeper is on the capped path of sweep(), and the count it read still stands.
GivingUp(s) == sweep[s] \in {"exhaust", "exhaustBlind", "exhaustHook"}
CapInv == \A s \in Sweepers : GivingUp(s) => recoveries[cur[s]] >= MaxRecoveries

\* ExhaustIsEarned for any number of jobs, replicas and faults: a job is not given up
\* on recoveries that never pushed a task, except for those that faults made up.
THEOREM Earned == Spec => []ExhaustIsEarned
<1>1. Init => CapInv
  BY DEF Init, SweepInit, CapInv, GivingUp
<1>2. StateTypeOK /\ StateTypeOK' /\ CapInv /\ [Next]_vars => CapInv'
  <2> SUFFICES ASSUME StateTypeOK, StateTypeOK', CapInv, [Next]_vars, NEW s \in Sweepers, GivingUp(s)'
               PROVE  recoveries'[cur'[s]] >= MaxRecoveries
    BY DEF CapInv
  <2>1. cur'[s] \in Jobs
    BY DEF StateTypeOK, SweepTypeOK, GivingUp
  <2>2. recoveries'[cur'[s]] >= recoveries[cur'[s]]
    BY <2>1, RowsStay
  <2>3. recoveries[cur'[s]] >= MaxRecoveries
    <3>1. CASE sweep'[s] = sweep[s] /\ cur'[s] = cur[s]
      BY <3>1 DEF CapInv, GivingUp
    <3>2. CASE Reconcile(s)
      <4>1. Pick(s) \/ Exhaust(s) \/ (sweep'[s] = sweep[s] /\ cur'[s] = cur[s])
        BY <3>2 DEF Reconcile, SweepStep, Tick, Scan, ExhaustHook, EnqueueStale, Requeue, GapScan,
                    GapEnqueue, NextJob, At, GivingUp, StateTypeOK, SweepTypeOK
      <4>2. CASE Pick(s)
        BY <2>1, <4>2, SweeperAssumption
           DEF Pick, NextJob, At, GivingUp, RecoveryCount, StateTypeOK, SweepTypeOK, RepoTypeOK
      <4>3. CASE Exhaust(s)
        BY <4>3 DEF Exhaust, NextJob, At, GivingUp, CapInv, StateTypeOK, SweepTypeOK
      <4> QED BY <3>1, <4>1, <4>2, <4>3
    <3>3. CASE SweeperFails(s)
      BY <3>1, <3>3 DEF SweeperFails, LoseLock, SweeperCrash, At, GivingUp, StateTypeOK, SweepTypeOK
    <3>4. ASSUME NEW u \in Sweepers, u # s, Reconcile(u) \/ SweeperFails(u)
          PROVE  sweep'[s] = sweep[s] /\ cur'[s] = cur[s]
      BY <3>4, OwnSteps DEF OwnStep
    <3>5. CASE \A u \in Sweepers : ~Reconcile(u) /\ ~SweeperFails(u)
      BY <3>1, <3>5, Elsewhere DEF sweepVars
    <3> QED BY <3>1, <3>2, <3>3, <3>4, <3>5
  <2> QED BY <2>1, <2>2, <2>3, SweeperAssumption DEF StateTypeOK, RepoTypeOK
<1>3. StateTypeOK /\ CapInv /\ HonestCount => ExhaustIsEarned
  <2> SUFFICES ASSUME StateTypeOK, CapInv, HonestCount, NEW s \in Sweepers, GivingUp(s)
               PROVE  revived[cur[s]] + faults >= MaxRecoveries
    BY DEF ExhaustIsEarned, GivingUp
  <2>1. cur[s] \in Jobs
    BY DEF StateTypeOK, SweepTypeOK, GivingUp
  <2> QED BY <2>1, Amounts DEF CapInv, HonestCount
<1> QED BY <1>1, <1>2, <1>3, Typed, Honest, PTL DEF Spec
=============================================================================
