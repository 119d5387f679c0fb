---------------------------- MODULE ConvertWorker ----------------------------
(***************************************************************************)
(* The conversion handlers of internal/worker/worker.go.  The five         *)
(* handlers (image, document, html, audio, av) have the same control flow; *)
(* they differ in whether they re-parse the stored options (all but image) *)
(* and in which errors their classifier calls terminal.  Both differences  *)
(* are per job here: BadOpts and TimeoutTerminal.                          *)
(*                                                                         *)
(* A handler runs in steps: each step makes one call to Postgres, S3 or    *)
(* Redis and moves pc[t] by its result.  Steps of different tasks, of the  *)
(* sweepers and of the API interleave freely.                              *)
(***************************************************************************)
EXTENDS TaskQueue

CONSTANTS
  BadOpts,          \* jobs whose stored options the handler's strict parse refuses
  TimeoutTerminal   \* document and html jobs: a bare deadline error is terminal

ASSUME WorkerAssumption == BadOpts \subseteq Jobs /\ TimeoutTerminal \subseteq Jobs

VARIABLE objects    \* the jobs whose output object is stored in S3

WorkerInit == objects = {}

-----------------------------------------------------------------------------
\* The classifiers isTerminal, isDocumentTerminal, isHTMLTerminal,
\* isAudioTerminal and isAVTerminal, on the classes of error they tell apart:
\* "engine" is every error some list or sentinel recognises as hopeless (corrupt
\* input, no converter, missing input object, a guard's rejection, a timeout in a
\* cheap ffmpeg stage), "timeout" any other error wrapping DeadlineExceeded, and
\* "blip" everything else, an illegal transition included.
Terminal(j, err) == err = "engine" \/ (err = "timeout" /\ j \in TimeoutTerminal)

\* process() returned an error: mark the job failed, or let asynq retry.
Fail(t, err) == IF Terminal(Job(t), err) THEN Goto(t, "markFailed") ELSE Retry(t)

\* Get, then the strict parse of the stored options.
Load(t) ==
  /\ pc[t] = "load"
  /\ \/ NoFault /\ Goto(t, IF Job(t) \in BadOpts THEN "markFailed" ELSE "markActive")
     \/ Fault /\ Retry(t)
  /\ UNCHANGED repoVars /\ UNCHANGED objects

\* Faulty variant: the handler goes on when MarkActive refuses.
DoMarkActiveUnchecked(t) ==
  /\ pc[t] = "markActive"
  /\ \E res \in Results : MarkActive(Job(t), res)
  /\ Goto(t, "process")
  /\ UNCHANGED objects

\* Any error of MarkActive, a broken connection included, is SkipRetry.
DoMarkActive(t) ==
  /\ pc[t] = "markActive"
  /\ \E res \in Results :
       /\ MarkActive(Job(t), res)
       /\ Goto(t, IF res = "ok" THEN "process" ELSE "drop")
  /\ UNCHANGED objects

\* process() up to and including the upload: input lookup, download, duration
\* guard, engine, upload.  An upload that reports an error may have been stored.
Process(t) ==
  LET stored == objects \cup {Job(t)}
  IN /\ pc[t] = "process"
     /\ \/ NoFault /\ Goto(t, "addOutput") /\ objects' = stored
        \/ NoFault /\ Fail(t, "engine") /\ UNCHANGED objects
        \/ NoFault /\ Fail(t, "timeout") /\ objects' \in {objects, stored}
        \/ Fault /\ Fail(t, "blip") /\ objects' \in {objects, stored}
     /\ UNCHANGED repoVars

\* Faulty variant: an error of AddOutput is ignored.
DoAddOutputUnchecked(t) ==
  /\ pc[t] = "addOutput"
  /\ \E res \in Results : AddOutput(Job(t), res)
  /\ Goto(t, "markDone")
  /\ UNCHANGED objects

DoAddOutput(t) ==
  /\ pc[t] = "addOutput"
  /\ \E res \in Results :
       /\ AddOutput(Job(t), res)
       /\ IF res = "ok" THEN Goto(t, "markDone") ELSE Fail(t, res)
  /\ UNCHANGED objects

\* The last statement of process(): an illegal transition (the row was requeued
\* or failed meanwhile) is an error like any other.
DoMarkDone(t) ==
  /\ pc[t] = "markDone"
  /\ \E res \in Results :
       /\ MarkDone(Job(t), res)
       /\ IF res = "ok"
          THEN Goto(t, IF Job(t) \in Callback THEN "notifyDone" ELSE "succeed")
          ELSE Fail(t, res)
  /\ UNCHANGED objects

\* Faulty variant: whether the job has a callback_url is not asked.
DoMarkFailedAlwaysNotifies(t) ==
  /\ pc[t] = "markFailed"
  /\ \E res \in Results :
       /\ MarkFailed(Job(t), res)
       /\ Goto(t, IF res = "ok" THEN "notifyFailed" ELSE "drop")
  /\ UNCHANGED objects

\* The webhook is enqueued only when MarkFailed is known to have committed.
DoMarkFailed(t) ==
  /\ pc[t] = "markFailed"
  /\ \E res \in Results :
       /\ MarkFailed(Job(t), res)
       /\ Goto(t, IF res = "ok" /\ Job(t) \in Callback THEN "notifyFailed" ELSE "drop")
  /\ UNCHANGED objects

\* Best-effort EnqueueWebhookDeliver: its error is ignored.
Notify(t) ==
  /\ \E step \in {<<"notifyDone", "succeed">>, <<"notifyFailed", "drop">>} :
       /\ pc[t] = step[1]
       /\ \E res \in EnqueueResults :
            Enqueue("webhook", Job(t), [pc EXCEPT ![t] = step[2]], res)
  /\ UNCHANGED repoVars /\ UNCHANGED objects

ConvertStep(t) ==
  \/ Load(t) \/ DoMarkActive(t) \/ Process(t) \/ DoAddOutput(t)
  \/ DoMarkDone(t) \/ DoMarkFailed(t) \/ Notify(t)
=============================================================================
