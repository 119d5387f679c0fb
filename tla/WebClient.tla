------------------------------ MODULE WebClient ------------------------------
(***************************************************************************)
(* The web front end (frontend/src): one page of App in one browser, its   *)
(* localStorage, and the requests it has in flight to HttpApi.             *)
(*                                                                         *)
(* React runs the effects of a user event before any other task, so a user *)
(* event and its effects are one action here.  An update made after an     *)
(* await is rendered in a later task: until Flush, the interval and the    *)
(* requests of the old effect are still live.                              *)
(***************************************************************************)
EXTENDS HttpApi

CONSTANTS
  RawKeys,    \* what the key field may hold
  Trim,       \* String.prototype.trim on those
  EmptyField, \* the empty string
  NoKey,      \* what trim leaves of a blank field; no key in localStorage
  NoFile,     \* no file chosen
  DefaultTarget,
  NoJob, Idle, NoFetch, NoReply, NoError, \* null values
  Fetches     \* bound on the polls in flight

ASSUME PageAssumption ==
  /\ Keys \subseteq RawKeys
  /\ EmptyField \in RawKeys
  /\ NoKey \notin Keys
  /\ Trim \in [RawKeys -> Keys \cup {NoKey}]
  /\ \A k \in Keys : Trim[k] = k
  /\ Trim[EmptyField] = NoKey
  /\ NoFile \notin Files
  /\ DefaultTarget \in Targets
  /\ NoJob \notin Bodies \cup Jobs

VARIABLES
  apiKey, rememberApiKey, file, target, job, isSubmitting, error, \* useState
  stored,  \* localStorage['octoconv.apiKey']
  poller,  \* the interval of the polling effect: the key and job it closes over
  pending, \* a render with a new job is due, its effects have not run
  polls,   \* the getJob calls in flight that were not cancelled
  upload,  \* the createJob call in flight
  latest   \* history: the job the last submission was told it created

keyField == <<apiKey, rememberApiKey, stored>>
form == <<keyField, file, target>>
card == <<job, isSubmitting, error, latest>>
effect == <<poller, pending, polls>>
pageVars == <<form, card, effect, upload>>
vars == <<apiVars, pageVars>>

Headers == Keys \cup {NoKey} \* the key after "ApiKey "
Polls == [key : Headers, job_id : Jobs, reply : Replies \cup {NoReply}]
Uploads == [key : Keys, file : Files, target : Targets, reply : Replies \cup {NoReply}]
NoFetches == [f \in Fetches |-> NoFetch]
Messages == {"apiKey", "size", "wait", "message"}

-----------------------------------------------------------------------------
\* parseResponse: a success yields its body, anything else throws.
Succeeded(reply) == reply.code \in {200, 202}

\* describeError: the message of an ApiError by its status; every other error,
\* a rejected fetch included, shows its own message.
describeError(reply) ==
  CASE reply.code = 401 -> "apiKey"
    [] reply.code = 413 -> "size"
    [] reply.code = 429 -> "wait"
    [] OTHER -> "message"

\* The card: the status of the job on it, and whether it has a download link.
ShownStatus == IF job = NoJob THEN "none" ELSE job.status
DownloadLink == job # NoJob /\ job.download_url

canSubmit == Trim[apiKey] # NoKey /\ file # NoFile /\ ~isSubmitting

\* Faulty variant: the field is stored as it is.
SavedKeyUntrimmed(key, remember) == IF remember THEN key ELSE NoKey

\* The first effect: what localStorage holds for a key and the checkbox.
SavedKey(key, remember) == IF remember /\ Trim[key] # NoKey THEN Trim[key] ELSE NoKey

\* Faulty variant: polls while the status is one that api.ts:4 spells out.
ArmedWhileRunning(key, j) ==
  IF j = NoJob \/ j.status \notin {"queued", "running"} THEN Idle
  ELSE [key |-> Trim[key], job_id |-> j.job_id]

\* The second effect: the interval it arms, if any.
Armed(key, j) ==
  IF j = NoJob \/ j.status \in Settled THEN Idle ELSE [key |-> Trim[key], job_id |-> j.job_id]

\* Faulty variant: the cleanup stops the interval but not the calls in flight.
CancelledNever == polls

\* Its cleanup sets `cancelled` for every call its interval has made; the callback
\* of a cancelled call does nothing on any answer, so the call is forgotten.
Cancelled == NoFetches

\* Cleanup and setup for the next [apiKey, job].
RunPollEffect ==
  /\ polls' = Cancelled
  /\ poller' = Armed(apiKey', job')
  /\ pending' = FALSE

-----------------------------------------------------------------------------
\* The page is opened again: main renders App, whose state starts from localStorage
\* and whose first effect writes the same key back.  Calls in flight are abandoned.
Load ==
  /\ apiKey' = IF stored = NoKey THEN EmptyField ELSE stored
  /\ rememberApiKey' = (stored # NoKey)
  /\ file' = NoFile /\ target' = DefaultTarget
  /\ job' = NoJob /\ isSubmitting' = FALSE /\ error' = NoError /\ latest' = NoJob
  /\ stored' = SavedKey(apiKey', rememberApiKey')
  /\ poller' = Idle /\ pending' = FALSE
  /\ polls' = NoFetches /\ upload' = NoFetch
  /\ UNCHANGED apiVars

\* Faulty variant: the polling effect depends on [job] only.
SetApiKeyNoRearm(k) ==
  /\ k # apiKey
  /\ apiKey' = k
  /\ stored' = SavedKey(k, rememberApiKey)
  /\ UNCHANGED <<rememberApiKey, file, target, card, effect, upload, apiVars>>

\* A change of the key field, its effects included.
SetApiKey(k) ==
  /\ k # apiKey
  /\ apiKey' = k
  /\ stored' = SavedKey(k, rememberApiKey)
  /\ UNCHANGED <<rememberApiKey, file, target, card, upload, apiVars>>
  /\ RunPollEffect

\* Faulty variant: the storage effect depends on [apiKey] only.
SetRememberLater(on) ==
  /\ on # rememberApiKey
  /\ rememberApiKey' = on
  /\ UNCHANGED <<apiKey, stored, file, target, card, effect, upload, apiVars>>

SetRememberApiKey(on) ==
  /\ on # rememberApiKey
  /\ rememberApiKey' = on
  /\ stored' = SavedKey(apiKey, on)
  /\ UNCHANGED <<apiKey, file, target, card, effect, upload, apiVars>>

SetFile(f) ==
  /\ f # file /\ file' = f
  /\ UNCHANGED <<keyField, target, card, effect, upload, apiVars>>

SetTarget(t) ==
  /\ t # target /\ target' = t
  /\ UNCHANGED <<keyField, file, card, effect, upload, apiVars>>

\* handleSubmit up to its await.  The button is disabled unless canSubmit, so the
\* branch without a file is never taken.
HandleSubmit ==
  /\ canSubmit
  /\ isSubmitting' = TRUE /\ error' = NoError /\ job' = NoJob /\ latest' = NoJob
  /\ upload' = [key |-> Trim[apiKey], file |-> file, target |-> target, reply |-> NoReply]
  /\ UNCHANGED <<form, apiVars>>
  /\ RunPollEffect

\* Faulty variant: setIsSubmitting(false) in the try instead of the finally.
SubmitAnsweredNoFinally ==
  /\ upload # NoFetch /\ upload.reply # NoReply
  /\ \/ /\ Succeeded(upload.reply)
        /\ job' = upload.reply.body /\ latest' = upload.reply.body.job_id
        /\ pending' = TRUE /\ isSubmitting' = FALSE /\ UNCHANGED error
     \/ /\ ~Succeeded(upload.reply)
        /\ error' = describeError(upload.reply)
        /\ UNCHANGED <<job, latest, pending, isSubmitting>>
  /\ upload' = NoFetch
  /\ UNCHANGED <<form, poller, polls, apiVars>>

\* handleSubmit after its await.
SubmitAnswered ==
  /\ upload # NoFetch /\ upload.reply # NoReply
  /\ \/ /\ Succeeded(upload.reply)
        /\ job' = upload.reply.body /\ latest' = upload.reply.body.job_id
        /\ pending' = TRUE /\ UNCHANGED error
     \/ /\ ~Succeeded(upload.reply)
        /\ error' = describeError(upload.reply) /\ UNCHANGED <<job, latest, pending>>
  /\ isSubmitting' = FALSE
  /\ upload' = NoFetch
  /\ UNCHANGED <<form, poller, polls, apiVars>>

\* The interval fires, whether or not earlier polls have been answered.
PollTick(f) ==
  /\ poller # Idle /\ polls[f] = NoFetch
  /\ polls' = [polls EXCEPT ![f] = [key |-> poller.key, job_id |-> poller.job_id,
                                    reply |-> NoReply]]
  /\ UNCHANGED <<form, card, poller, pending, upload, apiVars>>

\* Faulty variant: an error of a poll is taken for the failure of the job.
PollAnsweredGivesUp(f) ==
  /\ polls[f] # NoFetch /\ polls[f].reply # NoReply
  /\ polls' = [polls EXCEPT ![f] = NoFetch]
  /\ pending' = TRUE
  /\ \/ /\ Succeeded(polls[f].reply)
        /\ job' = polls[f].reply.body /\ error' = NoError
     \/ /\ ~Succeeded(polls[f].reply) /\ job # NoJob
        /\ job' = [job EXCEPT !.status = "failed"] /\ error' = describeError(polls[f].reply)
  /\ UNCHANGED <<form, isSubmitting, latest, poller, upload, apiVars>>

\* The callback after getJob, of a call whose effect was not cleaned up meanwhile.
PollAnswered(f) ==
  /\ polls[f] # NoFetch /\ polls[f].reply # NoReply
  /\ polls' = [polls EXCEPT ![f] = NoFetch]
  /\ \/ /\ Succeeded(polls[f].reply)
        /\ job' = polls[f].reply.body /\ error' = NoError /\ pending' = TRUE
     \/ /\ ~Succeeded(polls[f].reply)
        /\ error' = describeError(polls[f].reply) /\ UNCHANGED <<job, pending>>
  /\ UNCHANGED <<form, isSubmitting, latest, poller, upload, apiVars>>

\* React renders the new state and runs the polling effect again; a job object is
\* always a new one, so the effect runs even if nothing in it changed.
Flush ==
  /\ pending
  /\ UNCHANGED <<form, card, upload, apiVars>>
  /\ RunPollEffect

-----------------------------------------------------------------------------
\* createJob: the API serves the POST.  If the enqueue fails after the insert, the
\* client is told 500 and the job exists all the same.
ServeSubmit ==
  /\ upload # NoFetch /\ upload.reply = NoReply
  /\ \/ /\ \E r \in CreateErrors(upload.key, upload.file, upload.target) :
             upload' = [upload EXCEPT !.reply = r]
        /\ UNCHANGED apiVars
     \/ /\ \E r \in Refusals : upload' = [upload EXCEPT !.reply = r]
        /\ Fault /\ UNCHANGED <<phase, result, owned, activeKeys>>
     \/ \E j \in Jobs :
          /\ Insert(upload.key, upload.file, upload.target, j)
          /\ \/ upload' = [upload EXCEPT !.reply = Created(j)] /\ UNCHANGED faults
             \/ upload' = [upload EXCEPT !.reply = Reply(500, NoBody)] /\ Fault
  /\ UNCHANGED <<form, card, effect>>

\* getJob: the API serves the GET.
ServePoll(f) ==
  /\ polls[f] # NoFetch /\ polls[f].reply = NoReply
  /\ \/ /\ \E r \in GetReplies(polls[f].key, polls[f].job_id) :
             polls' = [polls EXCEPT ![f].reply = r]
        /\ UNCHANGED apiVars
     \/ /\ \E r \in Refusals : polls' = [polls EXCEPT ![f].reply = r]
        /\ Fault /\ UNCHANGED <<phase, result, owned, activeKeys>>
  /\ UNCHANGED <<form, card, poller, pending, upload>>

\* A request or its reply is lost, or the reply is cut short: fetch rejects.
Lost == Reply(0, NoBody)

LoseSubmit ==
  /\ upload # NoFetch /\ upload.reply # Lost /\ Fault
  /\ upload' = [upload EXCEPT !.reply = Lost]
  /\ UNCHANGED <<phase, result, owned, activeKeys, form, card, effect>>

LosePoll(f) ==
  /\ polls[f] # NoFetch /\ polls[f].reply # Lost /\ Fault
  /\ polls' = [polls EXCEPT ![f].reply = Lost]
  /\ UNCHANGED <<phase, result, owned, activeKeys, form, card, poller, pending, upload>>

Behind(j) == (Publish(j) \/ Finish(j)) /\ UNCHANGED pageVars
Revoke(k) == RevokeKey(k) /\ UNCHANGED pageVars
-----------------------------------------------------------------------------
Init ==
  /\ ApiInit
  /\ apiKey = EmptyField /\ rememberApiKey = FALSE /\ stored = NoKey
  /\ file = NoFile /\ target = DefaultTarget
  /\ job = NoJob /\ isSubmitting = FALSE /\ error = NoError
  /\ poller = Idle /\ pending = FALSE
  /\ polls = NoFetches /\ upload = NoFetch
  /\ latest = NoJob

User ==
  \/ Load \/ HandleSubmit
  \/ \E k \in RawKeys : SetApiKey(k)
  \/ \E on \in BOOLEAN : SetRememberApiKey(on)
  \/ \E f \in Files \cup {NoFile} : SetFile(f)
  \/ \E t \in Targets : SetTarget(t)

Page == SubmitAnswered \/ Flush \/ \E f \in Fetches : PollTick(f) \/ PollAnswered(f)

Network ==
  \/ ServeSubmit \/ LoseSubmit
  \/ \E f \in Fetches : ServePoll(f) \/ LosePoll(f)

Next ==
  \/ User \/ Page \/ Network
  \/ \E j \in Jobs : Behind(j)
  \/ \E k \in Keys : Revoke(k)

Spec == Init /\ [][Next]_vars

\* The browser runs its tasks and its interval, every request is served or
\* rejected, and the pipeline settles its jobs (System!SettlesEveryJob).  The
\* user, revocations and faults owe nothing.
Fairness ==
  /\ WF_vars(Flush) /\ WF_vars(ServeSubmit \/ SubmitAnswered)
  /\ WF_vars(\E f \in Fetches : PollTick(f))
  /\ \A f \in Fetches : WF_vars(ServePoll(f) \/ PollAnswered(f))
  /\ \A j \in Jobs : WF_vars(Finish(j) /\ UNCHANGED pageVars)

FairSpec == Spec /\ Fairness

-----------------------------------------------------------------------------
\* The page, localStorage and the calls in flight have their types; only trimmed keys
\* are stored and sent.
TypeOK ==
  /\ ApiTypeOK
  /\ apiKey \in RawKeys /\ rememberApiKey \in BOOLEAN /\ stored \in Keys \cup {NoKey}
  /\ file \in Files \cup {NoFile} /\ target \in Targets
  /\ job \in Bodies \cup {NoJob} /\ latest \in Jobs \cup {NoJob}
  /\ error \in Messages \cup {NoError}
  /\ poller \in [key : Headers, job_id : Jobs] \cup {Idle} /\ pending \in BOOLEAN
  /\ polls \in [Fetches -> Polls \cup {NoFetch}]
  /\ upload \in Uploads \cup {NoFetch}
  /\ isSubmitting \in BOOLEAN

\* The card shows the job of the last submission: no late answer to a poll for an
\* earlier job replaces it (the `cancelled` flag, App.tsx:67-85).
ShowsLatestJob == job # NoJob => job.job_id = latest

\* What the card calls done or failed is so, and it has a download link exactly when
\* the job is done and its result exists (App.tsx:175-195): an error, a lost answer or
\* an answer out of order never shows a verdict the API did not give.
ShownVerdictIsTrue ==
  /\ ShownStatus \in Settled => phase[job.job_id] = ShownStatus
  /\ DownloadLink <=> ShownStatus = "done"
  /\ DownloadLink => job.job_id \in result

\* Once effects have run, an answer that can still reach the card is one about the
\* job on it, asked for with the key now in the field, and there is none after a
\* verdict: the deps of the effect are complete (App.tsx:62-86).
LivePollsAreCurrent ==
  ~pending => \A f \in Fetches :
    polls[f] # NoFetch =>
      /\ ShownStatus \in {"queued", "active"}
      /\ polls[f].job_id = job.job_id /\ polls[f].key = Trim[apiKey]

\* A verdict stays on the card until the user submits again or reloads, once the
\* effects of the render that brought it have run.
VerdictStays ==
  [][~pending /\ ShownStatus \in Settled => job' \in {job, NoJob}]_vars

\* Reloading the page gives back the key exactly if the box was ticked, whatever was
\* typed and ticked before in whichever order (App.tsx:38-41 and 53-60).
ReloadKeepsKey ==
  [][Load => /\ Trim[apiKey'] = IF rememberApiKey THEN Trim[apiKey] ELSE NoKey
             /\ rememberApiKey' = (Trim[apiKey'] # NoKey)]_vars

\* The button comes back after every submission, whatever its outcome (finally,
\* App.tsx:104-106).
SubmitReturns == isSubmitting ~> ~isSubmitting

\* README.md:266-268: the page polls until the job is finished.  If it goes on showing
\* a job and the key in the field may read it, and the user leaves that key alone, the
\* verdict reaches the card and stays, past errors and reordered answers.
VerdictReachesPage ==
  \A j \in Jobs :
    /\ <>[](/\ job # NoJob /\ job.job_id = j
            /\ Trim[apiKey] \in activeKeys /\ j \in owned[Owner[Trim[apiKey]]])
    /\ <>[][apiKey' = apiKey]_vars
    => <>[](ShownStatus \in Settled)
=============================================================================
