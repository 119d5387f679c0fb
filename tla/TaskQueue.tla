------------------------------ MODULE TaskQueue ------------------------------
(***************************************************************************)
(* The Redis side: asynq tasks and their unique locks, as                  *)
(* internal/queue/queue.go and client.go set them up.  asynq itself is a   *)
(* library: what it does is modelled from the options the code passes to   *)
(* it and from the behaviour the code's comments and tests rely on         *)
(* (queue.go:421-440): a task is archived when its retries are used up or  *)
(* the handler says SkipRetry; the unique lock is released on success or   *)
(* when its TTL expires, never on archive.                                 *)
(*                                                                         *)
(* The five engine queues behave alike and are one kind, "convert"; the    *)
(* webhook queue is the other.  A task is a slot <<kind, job, n>>: Slots   *)
(* bounds how many tasks of one kind a job can have at the same time.      *)
(***************************************************************************)
EXTENDS JobRepo

CONSTANTS
  Slots,         \* task slots per kind and job
  MaxRetry,      \* MaxRetry of a task, per kind
  LockMayLapse   \* TRUE: a unique lock's TTL may run out under a live task

Kinds == {"convert", "webhook"}
Tasks == Kinds \X Jobs \X Slots

ASSUME QueueAssumption ==
  /\ MaxRetry \in [Kinds -> Nat]
  /\ LockMayLapse \in BOOLEAN

VARIABLES
  pc,       \* where a task is: "none", "pending", or its handler's position
  retried,  \* asynq's Retried counter of the task
  locked    \* the tasks that own the unique key of their kind and job

queueVars == <<pc, retried, locked>>

ConvertSteps == {"load", "markActive", "process", "addOutput", "markDone",
                 "notifyDone", "markFailed", "notifyFailed"}
WebhookSteps == {"read", "post", "recordOk", "recordErr", "deadLetter"}
ReturnSteps  == {"succeed", "drop"}
Positions    == ConvertSteps \cup WebhookSteps \cup ReturnSteps
PcValues     == {"none", "pending"} \cup Positions

Kind(t)    == t[1]
Job(t)     == t[2]
Live(t)    == pc[t] # "none"
Running(t) == pc[t] \in Positions

\* The unique key of a task is its type and payload, that is its kind and job.
SameKey(t, u)  == Kind(t) = Kind(u) /\ Job(t) = Job(u)
KeyHeld(k, j)  == \E t \in locked : Kind(t) = k /\ Job(t) = j

QueueInit ==
  /\ pc = [t \in Tasks |-> "none"]
  /\ retried = [t \in Tasks |-> 0]
  /\ locked = {}

-----------------------------------------------------------------------------
\* Faulty variant: a task without asynq.Unique is never refused.
PushNotUnique(k, j, npc) ==
  \E n \in Slots :
    LET t == <<k, j, n>>
    IN /\ ~Live(t)
       /\ pc' = [npc EXCEPT ![t] = "pending"]
       /\ retried' = [retried EXCEPT ![t] = 0]
       /\ locked' = locked \cup {t}

\* What each call does to pc (the caller may also move its own task), to
\* retried and to locked.  npc is pc with the caller's own step applied.
Push(k, j, npc) ==
  /\ ~KeyHeld(k, j)
  /\ \E n \in Slots :
       LET t == <<k, j, n>>
       IN /\ ~Live(t)
          /\ pc' = [npc EXCEPT ![t] = "pending"]
          /\ retried' = [retried EXCEPT ![t] = 0]
          /\ locked' = locked \cup {t}

NoPush(npc) == pc' = npc /\ UNCHANGED <<retried, locked>>

\* Client.Enqueue*: taken, refused as a duplicate, or broken with the task
\* possibly pushed.
Enqueue(k, j, npc, res) ==
  \/ res = "ok" /\ NoFault /\ Push(k, j, npc)
  \/ res = "dup" /\ NoFault /\ KeyHeld(k, j) /\ NoPush(npc)
  \/ res = "err" /\ Fault /\ (NoPush(npc) \/ Push(k, j, npc))

EnqueueResults == {"ok", "dup", "err"}

\* The handler returned nil: the task is deleted with the lock it owns.
Finish(t) ==
  /\ pc' = [pc EXCEPT ![t] = "none"]
  /\ retried' = [retried EXCEPT ![t] = 0]
  /\ locked' = locked \ {t}

\* SkipRetry or no retries left: archived, the lock stays until its TTL expires.
Archive(t) ==
  /\ pc' = [pc EXCEPT ![t] = "none"]
  /\ retried' = [retried EXCEPT ![t] = 0]
  /\ UNCHANGED locked

\* The handler returned an error: scheduled again after RetryDelayFunc, or
\* archived when Retried has reached MaxRetry.
Retry(t) ==
  IF retried[t] >= MaxRetry[Kind(t)]
  THEN Archive(t)
  ELSE /\ pc' = [pc EXCEPT ![t] = "pending"]
       /\ retried' = [retried EXCEPT ![t] = @ + 1]
       /\ UNCHANGED locked

Goto(t, step) ==
  /\ pc' = [pc EXCEPT ![t] = step]
  /\ UNCHANGED <<retried, locked>>

-----------------------------------------------------------------------------
\* A server takes a pending task (or one whose retry delay has passed) and calls
\* the handler registered for its type.
Dequeue(t) ==
  /\ pc[t] = "pending"
  /\ Goto(t, IF Kind(t) = "convert" THEN "load" ELSE "read")
  /\ UNCHANGED repoVars /\ NoFault

\* The handler's return value reaches asynq.
Return(t) ==
  /\ \/ pc[t] = "succeed" /\ Finish(t)
     \/ pc[t] = "drop" /\ Archive(t)
  /\ UNCHANGED repoVars /\ NoFault

\* The worker process dies: the task's lease runs out and asynq's recoverer
\* treats it as a failed attempt.
WorkerCrash(t) ==
  /\ Running(t)
  /\ Retry(t)
  /\ Fault /\ UNCHANGED repoVars

\* Graceful shutdown longer than ShutdownTimeout: pushed back, nothing counted.
WorkerShutdown(t) ==
  /\ Running(t)
  /\ Goto(t, "pending")
  /\ Fault /\ UNCHANGED repoVars

\* The TTL of a unique lock runs out.  The TTLs of queue.go are derived to
\* outlive every attempt and backoff of the task; they do not count the time a
\* task waits in the queue, which is what LockMayLapse = TRUE allows for.
LockExpire(t) ==
  /\ t \in locked
  /\ LockMayLapse \/ ~Live(t)
  /\ locked' = locked \ {t}
  /\ UNCHANGED <<pc, retried>> /\ UNCHANGED repoVars /\ NoFault

QueueTypeOK ==
  /\ pc \in [Tasks -> PcValues]
  /\ retried \in [Tasks -> Nat]
  /\ locked \subseteq Tasks
=============================================================================
