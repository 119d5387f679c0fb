---------------------------- MODULE WebhookWorker ----------------------------
(***************************************************************************)
(* HandleWebhookDeliver of internal/worker/worker.go with the Deliverer of *)
(* internal/webhook/deliver.go, and the client behind callback_url.        *)
(*                                                                         *)
(* The guards on an unparseable payload and on an empty callback_url are   *)
(* left out: every enqueue site builds the payload itself and checks the   *)
(* callback first.  The signature is not part of this model.               *)
(***************************************************************************)
EXTENDS TaskQueue

VARIABLES
  body,   \* the status a webhook task read and is about to send
  heard   \* the statuses the client behind callback_url has received for a job

webhookVars == <<body, heard>>

WebhookInit ==
  /\ body = [t \in Tasks |-> "none"]
  /\ heard = [j \in Jobs |-> {}]

-----------------------------------------------------------------------------
\* Get, and for a done job Outputs and PresignGet: any error, or a done job with
\* no outputs, is returned before anything is sent or recorded.
Read(t) ==
  LET j == Job(t)
      noOutputs == status[j] = "done" /\ j \notin outputs
  IN /\ pc[t] = "read"
     /\ \/ /\ ~noOutputs /\ NoFault
           /\ Goto(t, "post")
           /\ body' = [body EXCEPT ![t] = status[j]]
        \/ /\ IF noOutputs THEN NoFault ELSE Fault
           /\ Retry(t)
           /\ UNCHANGED body
     /\ UNCHANGED repoVars /\ UNCHANGED heard

\* Deliver: 2xx; an error answer or a timeout after the client took the request;
\* or an error with nothing received.
Post(t) ==
  LET j == Job(t)
      received == [heard EXCEPT ![j] = @ \cup {body[t]}]
  IN /\ pc[t] = "post"
     /\ \/ Goto(t, "recordOk") /\ heard' = received
        \/ Goto(t, "recordErr") /\ heard' \in {heard, received}
     /\ body' = [body EXCEPT ![t] = "none"]
     /\ UNCHANGED repoVars /\ NoFault

\* RecordAttempt after a 2xx: its error is not looked at, the task succeeds.
RecordSuccess(t) ==
  /\ pc[t] = "recordOk"
  /\ \E res \in {"ok", "blip"} : RecordAttempt(Job(t), TRUE, res)
  /\ Goto(t, "succeed")
  /\ UNCHANGED webhookVars

\* RecordAttempt after a failed delivery: on the last attempt, and only when the
\* row is known to exist, it is flagged; otherwise the error goes to asynq.
RecordFailure(t) ==
  /\ pc[t] = "recordErr"
  /\ \E res \in {"ok", "blip"} :
       /\ RecordAttempt(Job(t), FALSE, res)
       /\ IF res = "ok" /\ retried[t] >= MaxRetry["webhook"]
          THEN Goto(t, "deadLetter")
          ELSE Retry(t)
  /\ UNCHANGED webhookVars

\* MarkDeadLetter, its error ignored; the delivery error then goes to asynq.
DeadLetter(t) ==
  /\ pc[t] = "deadLetter"
  /\ \E res \in {"ok", "blip"} : MarkDeadLetter(Job(t), res)
  /\ Retry(t)
  /\ UNCHANGED webhookVars

WebhookStep(t) ==
  \/ Read(t) \/ Post(t) \/ RecordSuccess(t) \/ RecordFailure(t) \/ DeadLetter(t)

WebhookTypeOK ==
  /\ body \in [Tasks -> Statuses]
  /\ heard \in [Jobs -> SUBSET Statuses]
=============================================================================
