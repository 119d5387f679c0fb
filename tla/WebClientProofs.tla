--------------------------- MODULE WebClientProofs ---------------------------
(***************************************************************************)
(* Theorems about the web page for any number of jobs, clients, keys and   *)
(* files, any number of polls in flight and any number of faults.          *)
(***************************************************************************)
EXTENDS WebClient, TLAPS

-----------------------------------------------------------------------------
\* The API behind the page.

\* Only accepted jobs have an owner, and only a job with a result is done.
ApiInv ==
  /\ \A c \in Clients : \A j \in owned[c] : phase[j] # "absent"
  /\ \A j \in Jobs : phase[j] = "done" => j \in result

\* Everything a step can do to the API's state.
ApiStep ==
  \/ UNCHANGED <<phase, result, owned, activeKeys>> /\ (Fault \/ UNCHANGED faults)
  \/ \E k \in Keys : RevokeKey(k)
  \/ \E k, f, t : \E j \in Jobs : Insert(k, f, t, j) /\ (Fault \/ UNCHANGED faults)
  \/ \E j \in Jobs : Publish(j) \/ Finish(j)

\* Every step of the page and of its surroundings is an ApiStep.
LEMMA ApiSteps ==
  ASSUME [Next]_vars
  PROVE  ApiStep
<1>1. CASE User \/ Page
  BY <1>1 DEF ApiStep, User, Page, Load, HandleSubmit, SetApiKey, SetRememberApiKey, SetFile,
              SetTarget, SubmitAnswered, Flush, PollTick, PollAnswered, apiVars
<1>2. CASE Network
  <2>1. CASE ServeSubmit
    BY <2>1 DEF ApiStep, ServeSubmit, apiVars
  <2>2. CASE LoseSubmit \/ \E f \in Fetches : ServePoll(f) \/ LosePoll(f)
    BY <2>2 DEF ApiStep, LoseSubmit, ServePoll, LosePoll, apiVars
  <2> QED BY <1>2, <2>1, <2>2 DEF Network
<1>3. CASE (\E j \in Jobs : Behind(j)) \/ (\E k \in Keys : Revoke(k))
  BY <1>3 DEF ApiStep, Behind, Revoke
<1>4. CASE UNCHANGED vars
  BY <1>4 DEF ApiStep, vars, apiVars
<1> QED BY <1>1, <1>2, <1>3, <1>4 DEF Next

\* Verdicts are final and results are never taken back.
VerdictsKept ==
  \A j \in Jobs : /\ phase[j] \in Settled => phase'[j] = phase[j]
                  /\ j \in result => j \in result'

\* An ApiStep keeps the API's types and ApiInv, and takes no verdict back.
LEMMA ApiKept ==
  ASSUME ApiTypeOK, ApiInv, ApiStep
  PROVE  ApiTypeOK' /\ ApiInv' /\ VerdictsKept
<1> USE ApiAssumption DEF ApiTypeOK, ApiInv, VerdictsKept, Settled
<1>1. CASE UNCHANGED <<phase, result, owned, activeKeys>> /\ (Fault \/ UNCHANGED faults)
  BY <1>1 DEF Fault
<1>2. CASE \E k \in Keys : RevokeKey(k)
  BY <1>2 DEF RevokeKey, Fault
<1>3. ASSUME NEW k, NEW f, NEW t, NEW j \in Jobs, Insert(k, f, t, j), Fault \/ UNCHANGED faults
      PROVE  ApiTypeOK' /\ ApiInv' /\ VerdictsKept
  <2>1. k \in Keys /\ Owner[k] \in Clients
    BY <1>3 DEF Insert, Authorized
  <2>2. /\ phase[j] = "absent" /\ phase' = [phase EXCEPT ![j] = "pending"]
        /\ owned' = [owned EXCEPT ![Owner[k]] = @ \cup {j}]
        /\ UNCHANGED <<result, activeKeys>>
    BY <1>3 DEF Insert, Backend!Accept
  <2> QED BY <1>3, <2>1, <2>2 DEF Fault
<1>4. ASSUME NEW j \in Jobs, Publish(j) \/ Finish(j)
      PROVE  ApiTypeOK' /\ ApiInv' /\ VerdictsKept
  BY <1>4 DEF Publish, Finish, Backend!Publish, Backend!Succeed, Backend!GiveUp
<1> QED BY <1>1, <1>2, <1>3, <1>4 DEF ApiStep

\* ApiInv and the API's types hold throughout.
LEMMA ApiSound == Spec => [](ApiTypeOK /\ ApiInv)
<1>1. Init => ApiTypeOK /\ ApiInv
  BY ApiAssumption DEF Init, ApiInit, Backend!Init, ApiTypeOK, ApiInv
<1>2. ApiTypeOK /\ ApiInv /\ [Next]_vars => (ApiTypeOK /\ ApiInv)'
  BY ApiSteps, ApiKept
<1> QED BY <1>1, <1>2, PTL DEF Spec

-----------------------------------------------------------------------------
\* Types.

\* What a form, a localStorage entry and a card may hold.
FormTypeOK ==
  /\ apiKey \in RawKeys /\ rememberApiKey \in BOOLEAN /\ stored \in Keys \cup {NoKey}
  /\ file \in Files \cup {NoFile} /\ target \in Targets
CardTypeOK ==
  /\ job \in Bodies \cup {NoJob} /\ latest \in Jobs \cup {NoJob}
  /\ error \in Messages \cup {NoError} /\ isSubmitting \in BOOLEAN
EffectTypeOK ==
  /\ poller \in [key : Headers, job_id : Jobs] \cup {Idle} /\ pending \in BOOLEAN
  /\ polls \in [Fetches -> Polls \cup {NoFetch}]
UploadTypeOK == upload \in Uploads \cup {NoFetch}

\* TypeOK is the conjunction of its parts, before and after a step.
LEMMA TypeParts ==
  /\ TypeOK <=> ApiTypeOK /\ FormTypeOK /\ CardTypeOK /\ EffectTypeOK /\ UploadTypeOK
  /\ TypeOK' <=> ApiTypeOK' /\ FormTypeOK' /\ CardTypeOK' /\ EffectTypeOK' /\ UploadTypeOK'
BY DEF TypeOK, FormTypeOK, CardTypeOK, EffectTypeOK, UploadTypeOK

\* A part that a step leaves alone keeps its type.
LEMMA FrameTyped ==
  /\ ApiTypeOK /\ UNCHANGED apiVars => ApiTypeOK'
  /\ FormTypeOK /\ UNCHANGED form => FormTypeOK'
  /\ CardTypeOK /\ UNCHANGED card => CardTypeOK'
  /\ EffectTypeOK /\ UNCHANGED effect => EffectTypeOK'
  /\ UploadTypeOK /\ UNCHANGED upload => UploadTypeOK'
BY DEF ApiTypeOK, apiVars, FormTypeOK, form, keyField, CardTypeOK, card, EffectTypeOK, effect,
       UploadTypeOK

\* The polling effect keeps its type when it runs.
LEMMA EffectTyped ==
  ASSUME FormTypeOK', CardTypeOK', RunPollEffect
  PROVE  EffectTypeOK'
<1>1. poller' \in [key : Headers, job_id : Jobs] \cup {Idle}
  BY PageAssumption
  DEF RunPollEffect, Armed, FormTypeOK, CardTypeOK, Bodies, Headers
<1>2. polls' \in [Fetches -> Polls \cup {NoFetch}] /\ pending' \in BOOLEAN
  BY DEF RunPollEffect, Cancelled, NoFetches
<1> QED BY <1>1, <1>2 DEF EffectTypeOK

\* Every answer of the API is one of Replies.
LEMMA ReplyTyped ==
  ASSUME ApiTypeOK, ApiInv, NEW k, NEW j \in Jobs
  PROVE  /\ Refusals \subseteq Replies /\ Lost \in Replies
         /\ \A f, t : CreateErrors(k, f, t) \subseteq Replies
         /\ Created(j) \in Replies /\ Reply(500, NoBody) \in Replies
         /\ GetReplies(k, j) \subseteq Replies
<1>1. ASSUME NEW c \in ErrorCodes PROVE Reply(c, NoBody) \in Replies
  BY DEF Reply, Replies
<1>2. ASSUME NEW s \in Statuses, NEW u \in BOOLEAN, NEW c \in {200, 202}
      PROVE  Reply(c, [job_id |-> j, status |-> s, download_url |-> u]) \in Replies
  BY DEF Reply, Replies, Bodies
<1>3. ASSUME NEW r \in JobReplies(j), phase[j] # "absent" PROVE r \in Replies
  <2>1. PICK s \in Statuses :
          r = Reply(200, [job_id |-> j, status |-> s, download_url |-> s = "done" /\ j \in result])
    BY <1>3 DEF JobReplies, ApiTypeOK, Statuses
  <2> QED BY <1>2, <2>1
<1>4. GetReplies(k, j) \subseteq Replies
  <2>1. Authorized(k) => Owner[k] \in Clients
    BY ApiAssumption DEF Authorized, ApiTypeOK
  <2>2. Reply(401, NoBody) \in Replies /\ Reply(404, NoBody) \in Replies
    BY <1>1 DEF ErrorCodes
  <2> QED BY <1>3, <2>1, <2>2 DEF GetReplies, ApiInv
<1>5. Created(j) \in Replies
  BY <1>2 DEF Created, Statuses
<1> QED BY <1>1, <1>4, <1>5 DEF Refusals, Lost, CreateErrors, ErrorCodes

-----------------------------------------------------------------------------
\* What the user does keeps the types.
LEMMA UserTyped ==
  ASSUME TypeOK, User
  PROVE  TypeOK'
<1> USE TypeParts, FrameTyped
<1>0. \A k \in RawKeys, on \in BOOLEAN : SavedKey(k, on) \in Keys \cup {NoKey}
  BY PageAssumption DEF SavedKey
<1>1. CASE Load
  <2>1. FormTypeOK'
    BY <1>0, <1>1, PageAssumption DEF Load, FormTypeOK
  <2>2. CardTypeOK' /\ EffectTypeOK' /\ UploadTypeOK'
    BY <1>1 DEF Load, CardTypeOK, EffectTypeOK, UploadTypeOK, NoFetches
  <2> QED BY <1>1, <2>1, <2>2 DEF Load
<1>2. CASE HandleSubmit
  <2>1. CardTypeOK'
    BY <1>2 DEF HandleSubmit, CardTypeOK
  <2>2. upload' \in Uploads
    BY <1>2, PageAssumption DEF HandleSubmit, canSubmit, FormTypeOK, Uploads
  <2> QED BY <1>2, <2>1, <2>2, EffectTyped DEF HandleSubmit, UploadTypeOK
<1>3. ASSUME NEW k \in RawKeys, SetApiKey(k) PROVE TypeOK'
  <2>1. FormTypeOK'
    BY <1>0, <1>3 DEF SetApiKey, FormTypeOK
  <2> QED BY <1>3, <2>1, EffectTyped DEF SetApiKey
<1>4. ASSUME NEW on \in BOOLEAN, SetRememberApiKey(on) PROVE TypeOK'
  <2>1. FormTypeOK'
    BY <1>0, <1>4 DEF SetRememberApiKey, FormTypeOK
  <2> QED BY <1>4, <2>1 DEF SetRememberApiKey
<1>5. ASSUME NEW f \in Files \cup {NoFile}, SetFile(f) PROVE TypeOK'
  <2>1. FormTypeOK'
    BY <1>5 DEF SetFile, FormTypeOK, keyField
  <2> QED BY <1>5, <2>1 DEF SetFile
<1>6. ASSUME NEW t \in Targets, SetTarget(t) PROVE TypeOK'
  <2>1. FormTypeOK'
    BY <1>6 DEF SetTarget, FormTypeOK, keyField
  <2> QED BY <1>6, <2>1 DEF SetTarget
<1> QED BY <1>1, <1>2, <1>3, <1>4, <1>5, <1>6 DEF User

\* An answer that was a success has a job in its body; any other has a message.
LEMMA ReplyBody ==
  ASSUME NEW r \in Replies
  PROVE  /\ Succeeded(r) => r.body \in Bodies
         /\ describeError(r) \in Messages
BY DEF Replies, Succeeded, ErrorCodes, describeError, Messages

\* What the page does after an await or a timer keeps the types.
LEMMA PageTyped ==
  ASSUME TypeOK, Page
  PROVE  TypeOK'
<1> USE TypeParts, FrameTyped
<1>1. CASE SubmitAnswered
  <2>1. upload.reply \in Replies
    BY <1>1 DEF SubmitAnswered, UploadTypeOK, Uploads
  <2>2. CardTypeOK'
    BY <1>1, <2>1, ReplyBody DEF SubmitAnswered, CardTypeOK, Bodies
  <2>3. EffectTypeOK' /\ UploadTypeOK'
    BY <1>1 DEF SubmitAnswered, EffectTypeOK, UploadTypeOK
  <2> QED BY <1>1, <2>2, <2>3 DEF SubmitAnswered
<1>2. CASE Flush
  BY <1>2, EffectTyped DEF Flush
<1>3. ASSUME NEW f \in Fetches, PollTick(f) PROVE TypeOK'
  <2>1. [key |-> poller.key, job_id |-> poller.job_id, reply |-> NoReply] \in Polls
    BY <1>3 DEF PollTick, EffectTypeOK, Polls
  <2>2. EffectTypeOK'
    BY <1>3, <2>1 DEF PollTick, EffectTypeOK
  <2> QED BY <1>3, <2>2 DEF PollTick
<1>4. ASSUME NEW f \in Fetches, PollAnswered(f) PROVE TypeOK'
  <2>1. polls[f].reply \in Replies
    BY <1>4 DEF PollAnswered, EffectTypeOK, Polls
  <2>2. CardTypeOK'
    BY <1>4, <2>1, ReplyBody DEF PollAnswered, CardTypeOK
  <2>3. EffectTypeOK'
    BY <1>4 DEF PollAnswered, EffectTypeOK
  <2> QED BY <1>4, <2>2, <2>3 DEF PollAnswered
<1> QED BY <1>1, <1>2, <1>3, <1>4 DEF Page

\* What the network and the API do keeps the types.
LEMMA NetworkTyped ==
  ASSUME TypeOK, ApiInv, ApiTypeOK', Network
  PROVE  TypeOK'
<1> USE TypeParts, FrameTyped
<1>1. ASSUME NEW r \in Replies, upload # NoFetch, upload' = [upload EXCEPT !.reply = r]
      PROVE  UploadTypeOK'
  BY <1>1 DEF UploadTypeOK, Uploads
<1>2. ASSUME NEW f \in Fetches, NEW r \in Replies, polls[f] # NoFetch,
             polls' = [polls EXCEPT ![f].reply = r], UNCHANGED <<poller, pending>>
      PROVE  EffectTypeOK'
  <2>1. polls[f] \in Polls
    BY <1>2 DEF EffectTypeOK
  <2>2. [polls[f] EXCEPT !.reply = r] \in Polls
    BY <2>1 DEF Polls
  <2> QED BY <1>2, <2>2 DEF EffectTypeOK
<1>3. Refusals \subseteq Replies /\ Lost \in Replies /\ Reply(500, NoBody) \in Replies
  BY DEF Refusals, Lost, Reply, Replies, ErrorCodes
<1>4. CASE ServeSubmit
  <2>1. \A k, f, t : CreateErrors(k, f, t) \subseteq Replies
    BY DEF CreateErrors, Reply, Replies, ErrorCodes
  <2>2. \A j \in Jobs : Created(j) \in Replies
    BY ReplyTyped
  <2> QED BY <1>1, <1>3, <1>4, <2>1, <2>2 DEF ServeSubmit
<1>5. CASE LoseSubmit
  BY <1>1, <1>3, <1>5 DEF LoseSubmit
<1>6. ASSUME NEW f \in Fetches, ServePoll(f) PROVE TypeOK'
  <2>1. polls[f].job_id \in Jobs
    BY <1>6 DEF ServePoll, EffectTypeOK, Polls
  <2>2. GetReplies(polls[f].key, polls[f].job_id) \subseteq Replies
    BY <2>1, ReplyTyped
  <2> QED BY <1>2, <1>3, <1>6, <2>2 DEF ServePoll
<1>7. ASSUME NEW f \in Fetches, LosePoll(f) PROVE TypeOK'
  BY <1>2, <1>3, <1>7 DEF LosePoll
<1> QED BY <1>4, <1>5, <1>6, <1>7 DEF Network

\* TypeOK for any instance: the page never stores or sends an untrimmed key, and every
\* answer it is given is one parseResponse and describeError know.
THEOREM Typing == Spec => []TypeOK
<1>1. Init => TypeOK
  <2> SUFFICES ASSUME Init PROVE TypeOK
    OBVIOUS
  <2>1. ApiTypeOK
    BY ApiAssumption DEF Init, ApiInit, Backend!Init, ApiTypeOK
  <2>2. FormTypeOK
    BY PageAssumption DEF Init, FormTypeOK
  <2>3. CardTypeOK /\ UploadTypeOK
    BY DEF Init, CardTypeOK, UploadTypeOK
  <2>4. EffectTypeOK
    BY DEF Init, EffectTypeOK, NoFetches
  <2> QED BY <2>1, <2>2, <2>3, <2>4, TypeParts
<1>2. TypeOK /\ ApiTypeOK' /\ ApiInv /\ [Next]_vars => TypeOK'
  <2> SUFFICES ASSUME TypeOK, ApiTypeOK', ApiInv, [Next]_vars PROVE TypeOK'
    OBVIOUS
  <2>1. CASE UNCHANGED pageVars
    BY <2>1, TypeParts, FrameTyped DEF pageVars
  <2> QED BY <2>1, UserTyped, PageTyped, NetworkTyped DEF Next, Behind, Revoke, vars
<1> QED BY <1>1, <1>2, ApiSound, PTL DEF Spec

-----------------------------------------------------------------------------
\* The storage effect: localStorage always holds what the field and the box say.
StoredInv == stored = SavedKey(apiKey, rememberApiKey)

\* The storage effect has run before anything else can happen.
LEMMA Storing == Spec => []StoredInv
<1>1. Init => StoredInv
  BY DEF Init, StoredInv, SavedKey
<1>2. TypeOK /\ StoredInv /\ [Next]_vars => StoredInv'
  <2> SUFFICES ASSUME TypeOK, StoredInv, [Next]_vars PROVE StoredInv'
    OBVIOUS
  <2>1. CASE UNCHANGED keyField
    BY <2>1 DEF StoredInv, SavedKey, keyField
  <2>2. CASE User
    BY <2>1, <2>2 DEF User, Load, HandleSubmit, SetApiKey, SetRememberApiKey, SetFile, SetTarget,
                      form, StoredInv, SavedKey
  <2>3. CASE Page
    BY <2>1, <2>3 DEF Page, SubmitAnswered, Flush, PollTick, PollAnswered, form
  <2>4. CASE Network
    BY <2>1, <2>4 DEF Network, ServeSubmit, LoseSubmit, ServePoll, LosePoll, form
  <2> QED BY <2>1, <2>2, <2>3, <2>4 DEF Next, Behind, Revoke, vars, pageVars, form
<1> QED BY <1>1, <1>2, Typing, PTL DEF Spec

\* ReloadKeepsKey for any keys: after a reload the field holds the key exactly if the
\* box was ticked when the page was left.
THEOREM ReloadKept == Spec => ReloadKeepsKey
<1>1. TypeOK /\ StoredInv /\ [Next]_vars
        => [Load => /\ Trim[apiKey'] = IF rememberApiKey THEN Trim[apiKey] ELSE NoKey
                    /\ rememberApiKey' = (Trim[apiKey'] # NoKey)]_vars
  <2> SUFFICES ASSUME TypeOK, StoredInv, Load
               PROVE  /\ Trim[apiKey'] = IF rememberApiKey THEN Trim[apiKey] ELSE NoKey
                      /\ rememberApiKey' = (Trim[apiKey'] # NoKey)
    OBVIOUS
  <2>1. stored = IF rememberApiKey THEN Trim[apiKey] ELSE NoKey
    BY DEF StoredInv, SavedKey
  <2>2. Trim[apiKey'] = stored
    BY PageAssumption DEF Load, TypeOK
  <2> QED BY <2>1, <2>2 DEF Load
<1> QED BY <1>1, Typing, Storing, PTL DEF Spec, ReloadKeepsKey

-----------------------------------------------------------------------------
\* What a body, an answer to a poll and an answer to a submission say of a job is so,
\* when the jobs are in the phases ph.
TrueBody(b, ph) ==
  /\ b.status \in Settled => ph[b.job_id] = b.status
  /\ b.download_url <=> b.status = "done"
TruePoll(p, ph) ==
  p # NoFetch /\ p.reply # NoReply /\ Succeeded(p.reply)
  => p.reply.body.job_id = p.job_id /\ TrueBody(p.reply.body, ph)
TrueUpload(u, ph) ==
  u # NoFetch /\ u.reply # NoReply /\ Succeeded(u.reply) => TrueBody(u.reply.body, ph)

\* Every answer on its way to the page, and the one on the card, is true; the answer to
\* a poll is about the job that was asked for.
ReplyInv ==
  /\ job # NoJob => TrueBody(job, phase)
  /\ TrueUpload(upload, phase)
  /\ \A f \in Fetches : TruePoll(polls[f], phase)

\* The answer of handleGetJob is true when it is given.
LEMMA GetIsTrue ==
  ASSUME ApiTypeOK, ApiInv, NEW k, NEW j \in Jobs, NEW r \in GetReplies(k, j), Succeeded(r)
  PROVE  r.body.job_id = j /\ TrueBody(r.body, phase)
<1>1. r \in JobReplies(j)
  BY DEF GetReplies, Reply, Succeeded
<1>2. PICK s \in (IF phase[j] = "pending" THEN {"queued", "active"} ELSE {phase[j]}) :
        r = Reply(200, [job_id |-> j, status |-> s, download_url |-> s = "done" /\ j \in result])
  BY <1>1 DEF JobReplies
<1>3. /\ r.body.job_id = j /\ r.body.status = s
      /\ r.body.download_url = (s = "done" /\ j \in result)
  BY <1>2 DEF Reply
<1>4. s = "done" => j \in result
  BY <1>2 DEF ApiInv
<1>5. s \in Settled => phase[j] = s
  BY <1>2 DEF Settled
<1> QED BY <1>3, <1>4, <1>5 DEF TrueBody

\* What was true of a job stays true, since verdicts are final.
LEMMA TruthKept ==
  ASSUME TypeOK, ReplyInv, VerdictsKept
  PROVE  /\ job # NoJob => TrueBody(job, phase')
         /\ TrueUpload(upload, phase')
         /\ \A f \in Fetches : TruePoll(polls[f], phase')
<1>1. ASSUME NEW b \in Bodies, TrueBody(b, phase) PROVE TrueBody(b, phase')
  <2>1. b.job_id \in Jobs
    BY DEF Bodies
  <2> QED BY <1>1, <2>1 DEF TrueBody, VerdictsKept
<1>2. job # NoJob => TrueBody(job, phase')
  BY <1>1 DEF ReplyInv, TypeOK
<1>3. TrueUpload(upload, phase')
  <2>1. upload # NoFetch /\ upload.reply # NoReply => upload.reply \in Replies
    BY DEF TypeOK, Uploads
  <2> QED BY <1>1, <2>1, ReplyBody DEF ReplyInv, TrueUpload
<1>4. ASSUME NEW f \in Fetches PROVE TruePoll(polls[f], phase')
  <2>1. polls[f] # NoFetch /\ polls[f].reply # NoReply => polls[f].reply \in Replies
    BY DEF TypeOK, Polls
  <2> QED BY <1>1, <2>1, ReplyBody DEF ReplyInv, TruePoll
<1> QED BY <1>2, <1>3, <1>4

\* No lost, late or failed answer tells the page something false.
LEMMA TrueReplies == Spec => []ReplyInv
<1>1. Init => ReplyInv
  BY DEF Init, ReplyInv, TrueUpload, TruePoll, NoFetches
<1>2. TypeOK /\ ApiInv /\ ReplyInv /\ [Next]_vars => ReplyInv'
  <2> SUFFICES ASSUME TypeOK, ApiInv, ReplyInv, [Next]_vars PROVE ReplyInv'
    OBVIOUS
  <2>1. VerdictsKept /\ ApiTypeOK
    BY ApiSteps, ApiKept DEF TypeOK
  <2>2. /\ job # NoJob => TrueBody(job, phase')
        /\ TrueUpload(upload, phase')
        /\ \A f \in Fetches : TruePoll(polls[f], phase')
    BY <2>1, TruthKept
  <2>3. TrueUpload(NoFetch, phase') /\ TruePoll(NoFetch, phase')
    BY DEF TrueUpload, TruePoll
  <2>4. CASE UNCHANGED <<job, upload, polls>>
    BY <2>2, <2>4 DEF ReplyInv
  <2>5. ASSUME job' \in {job, NoJob}, upload' \in {upload, NoFetch} \/ upload'.reply = NoReply,
               polls' \in {polls, NoFetches}
        PROVE  ReplyInv'
    BY <2>2, <2>3, <2>5 DEF ReplyInv, NoFetches, TrueUpload
  <2>6. CASE User \/ Flush
    BY <2>4, <2>5, <2>6
    DEF User, Load, HandleSubmit, SetApiKey, SetRememberApiKey, SetFile, SetTarget, Flush,
        RunPollEffect, Cancelled, card, effect
  <2>7. CASE SubmitAnswered
    BY <2>2, <2>3, <2>7 DEF SubmitAnswered, ReplyInv, TrueUpload
  <2>8. ASSUME NEW f \in Fetches, PollTick(f) PROVE ReplyInv'
    <3>1. polls' = [polls EXCEPT ![f] = [key |-> poller.key, job_id |-> poller.job_id,
                                         reply |-> NoReply]]
      BY <2>8 DEF PollTick
    <3>2. TruePoll([key |-> poller.key, job_id |-> poller.job_id, reply |-> NoReply], phase')
      BY DEF TruePoll
    <3>3. \A g \in Fetches : TruePoll(polls'[g], phase')
      BY <2>2, <3>1, <3>2 DEF TypeOK
    <3> QED BY <2>2, <2>8, <3>3 DEF PollTick, ReplyInv, card
  <2>9. ASSUME NEW f \in Fetches, PollAnswered(f) PROVE ReplyInv'
    <3>1. \A g \in Fetches : TruePoll(polls'[g], phase')
      BY <2>2, <2>3, <2>9 DEF PollAnswered, TypeOK
    <3>2. Succeeded(polls[f].reply) => TrueBody(polls[f].reply.body, phase')
      BY <2>2, <2>9 DEF PollAnswered, TruePoll
    <3> QED BY <2>2, <2>9, <3>1, <3>2 DEF PollAnswered, ReplyInv
  <2>10. CASE ServeSubmit \/ LoseSubmit
    <3>1. upload \in Uploads
      BY <2>10 DEF ServeSubmit, LoseSubmit, TypeOK
    <3>2. ASSUME NEW r, ~Succeeded(r), upload' = [upload EXCEPT !.reply = r]
          PROVE  TrueUpload(upload', phase')
      BY <3>1, <3>2 DEF TrueUpload, Uploads
    <3>3. ASSUME NEW j \in Jobs, upload' = [upload EXCEPT !.reply = Created(j)]
          PROVE  TrueUpload(upload', phase')
      BY <3>1, <3>3 DEF TrueUpload, Uploads, Created, Reply, TrueBody, Settled
    <3>4. /\ ~Succeeded(Lost) /\ ~Succeeded(Reply(500, NoBody))
          /\ \A r \in Refusals : ~Succeeded(r)
          /\ \A k, f, t : \A r \in CreateErrors(k, f, t) : ~Succeeded(r)
      BY DEF Succeeded, Lost, Refusals, CreateErrors, Reply
    <3>5. TrueUpload(upload', phase')
      BY <2>10, <3>2, <3>3, <3>4 DEF ServeSubmit, LoseSubmit
    <3> QED BY <2>2, <2>10, <3>5 DEF ServeSubmit, LoseSubmit, ReplyInv, card, effect
  <2>11. ASSUME NEW f \in Fetches, ServePoll(f) \/ LosePoll(f) PROVE ReplyInv'
    <3>1. polls[f] \in Polls
      BY <2>11 DEF ServePoll, LosePoll, TypeOK
    <3>2. PICK r : /\ polls' = [polls EXCEPT ![f].reply = r]
                   /\ Succeeded(r) => r \in GetReplies(polls[f].key, polls[f].job_id)
      BY <2>11 DEF ServePoll, LosePoll, Succeeded, Lost, Refusals, Reply
    <3>3. Succeeded(r) => r.body.job_id = polls[f].job_id /\ TrueBody(r.body, phase)
      BY <2>1, <3>1, <3>2, GetIsTrue DEF Polls
    <3>4. UNCHANGED phase /\ UNCHANGED <<job, upload>>
      BY <2>11 DEF ServePoll, LosePoll, apiVars, card
    <3>5. polls'[f].reply = r /\ polls'[f].job_id = polls[f].job_id
      BY <3>1, <3>2 DEF TypeOK, Polls
    <3>6. \A g \in Fetches : TruePoll(polls'[g], phase')
      BY <2>2, <3>2, <3>3, <3>4, <3>5 DEF TypeOK, TruePoll
    <3> QED BY <2>2, <3>4, <3>6 DEF ReplyInv
  <2> QED BY <2>4, <2>6, <2>7, <2>8, <2>9, <2>10, <2>11
          DEF Next, Page, Network, Behind, Revoke, vars, pageVars, card, effect
<1> QED BY <1>1, <1>2, Typing, ApiSound, PTL DEF Spec

\* ShownVerdictIsTrue for any instance: the card shows done or failed only if the job is,
\* and a download link exactly with a result.
THEOREM TrueVerdictsShown == Spec => []ShownVerdictIsTrue
<1>1. TypeOK /\ ApiInv /\ ReplyInv => ShownVerdictIsTrue
  <2> SUFFICES ASSUME TypeOK, ApiInv, ReplyInv PROVE ShownVerdictIsTrue
    OBVIOUS
  <2>1. CASE job = NoJob
    BY <2>1 DEF ShownVerdictIsTrue, ShownStatus, DownloadLink, Settled
  <2>2. CASE job # NoJob
    <3>1. job \in Bodies /\ job.job_id \in Jobs
      BY <2>2 DEF TypeOK, Bodies
    <3>2. ShownStatus = job.status /\ (DownloadLink <=> job.download_url)
      BY <2>2 DEF ShownStatus, DownloadLink
    <3>3. TrueBody(job, phase)
      BY <2>2 DEF ReplyInv
    <3> QED BY <3>1, <3>2, <3>3 DEF TrueBody, ShownVerdictIsTrue, ApiInv, Settled
  <2> QED BY <2>1, <2>2
<1> QED BY <1>1, Typing, ApiSound, TrueReplies, PTL

-----------------------------------------------------------------------------
\* The polling effect: the card shows the job of the last submission, there is nothing
\* to poll during an upload, the interval is the one the last render armed, and every
\* call in flight was made by that interval.  Between an answer and the next render the
\* interval may still poll a job that is settled, never another one.
PollInv ==
  /\ job # NoJob => job.job_id = latest
  /\ pending => job # NoJob
  /\ upload # NoFetch => job = NoJob
  /\ poller # Idle => /\ job # NoJob /\ poller.job_id = job.job_id
                      /\ poller.key = Trim[apiKey]
  /\ ~pending => poller = Armed(apiKey, job)
  /\ \A f \in Fetches : polls[f] # NoFetch =>
       /\ poller # Idle
       /\ polls[f].job_id = poller.job_id /\ polls[f].key = poller.key

\* Running the effect establishes what PollInv says of the interval and the calls.
LEMMA EffectRuns ==
  ASSUME RunPollEffect,
         (job # NoJob => job.job_id = latest)',
         (upload # NoFetch => job = NoJob)'
  PROVE  PollInv'
<1>1. ~pending' /\ poller' = Armed(apiKey', job') /\ \A f \in Fetches : polls'[f] = NoFetch
  BY DEF RunPollEffect, Cancelled, NoFetches
<1>2. (poller # Idle => /\ job # NoJob /\ poller.job_id = job.job_id
                        /\ poller.key = Trim[apiKey])'
  BY <1>1 DEF Armed
<1> QED BY <1>1, <1>2 DEF PollInv

\* The cleanup of the effect and its dependencies are enough for PollInv, whatever
\* order answers, keystrokes and submissions come in.
LEMMA Polling == Spec => []PollInv
<1>1. Init => PollInv
  BY DEF Init, PollInv, Armed, NoFetches
<1>2. TypeOK /\ ReplyInv /\ PollInv /\ [Next]_vars => PollInv'
  <2> SUFFICES ASSUME TypeOK, ReplyInv, PollInv, [Next]_vars PROVE PollInv'
    OBVIOUS
  <2>1. CASE UNCHANGED <<apiKey, job, latest, upload, effect>>
    BY <2>1 DEF PollInv, effect, Armed
  <2>2. CASE Load
    BY <2>2 DEF Load, PollInv, Armed, NoFetches
  <2>3. CASE HandleSubmit
    BY <2>3, EffectRuns DEF HandleSubmit
  <2>4. CASE (\E k \in RawKeys : SetApiKey(k)) \/ Flush
    BY <2>4, EffectRuns DEF SetApiKey, Flush, card, PollInv
  <2>5. CASE \/ \E on \in BOOLEAN : SetRememberApiKey(on)
             \/ \E f \in Files \cup {NoFile} : SetFile(f)
             \/ \E t \in Targets : SetTarget(t)
    BY <2>1, <2>5 DEF SetRememberApiKey, SetFile, SetTarget, card, keyField
  <2>6. CASE SubmitAnswered
    <3>1. job = NoJob /\ poller = Idle /\ ~pending /\ \A f \in Fetches : polls[f] = NoFetch
      BY <2>6 DEF SubmitAnswered, PollInv
    <3>2. CASE Succeeded(upload.reply)
      <4>1. upload.reply.body \in Bodies /\ pending'
        BY <2>6, <3>2, ReplyBody DEF SubmitAnswered, TypeOK, Uploads
      <4> QED BY <2>6, <3>1, <3>2, <4>1, PageAssumption
              DEF SubmitAnswered, PollInv, form, keyField
    <3>3. CASE ~Succeeded(upload.reply)
      BY <2>6, <3>1, <3>3 DEF SubmitAnswered, PollInv, Armed, form, keyField
    <3> QED BY <3>2, <3>3
  <2>7. ASSUME NEW f \in Fetches, PollTick(f) PROVE PollInv'
    <3>1. /\ polls' = [polls EXCEPT ![f] = [key |-> poller.key, job_id |-> poller.job_id,
                                            reply |-> NoReply]]
          /\ poller # Idle /\ UNCHANGED <<apiKey, job, latest, poller, pending, upload>>
      BY <2>7 DEF PollTick, form, keyField, card
    <3>2. \A g \in Fetches : polls'[g] # NoFetch =>
            polls'[g].job_id = poller.job_id /\ polls'[g].key = poller.key
      BY <3>1 DEF PollInv, TypeOK
    <3> QED BY <3>1, <3>2 DEF PollInv, Armed
  <2>8. ASSUME NEW f \in Fetches, PollAnswered(f) PROVE PollInv'
    <3>1. /\ polls' = [polls EXCEPT ![f] = NoFetch]
          /\ UNCHANGED <<apiKey, latest, poller, upload>>
      BY <2>8 DEF PollAnswered, form, keyField
    <3>2. \A g \in Fetches : polls'[g] # NoFetch =>
            /\ poller # Idle
            /\ polls'[g].job_id = poller.job_id /\ polls'[g].key = poller.key
      BY <3>1 DEF PollInv, TypeOK
    <3>3. /\ polls[f] # NoFetch /\ poller # Idle /\ polls[f].job_id = poller.job_id
          /\ job # NoJob /\ poller.job_id = job.job_id /\ upload = NoFetch
      BY <2>8 DEF PollAnswered, PollInv
    <3>4. CASE Succeeded(polls[f].reply)
      <4>1. /\ job' = polls[f].reply.body /\ pending'
            /\ polls[f].reply \in Replies /\ polls[f].reply # NoReply
        BY <2>8, <3>4 DEF PollAnswered, TypeOK, Polls
      <4>2. job' \in Bodies /\ job' # NoJob
        BY <3>4, <4>1, ReplyBody, PageAssumption
      <4>3. job'.job_id = job.job_id
        BY <3>3, <3>4, <4>1 DEF ReplyInv, TruePoll
      <4> QED BY <3>1, <3>2, <3>3, <4>1, <4>2, <4>3 DEF PollInv
    <3>5. CASE ~Succeeded(polls[f].reply)
      BY <2>8, <3>1, <3>2, <3>5 DEF PollAnswered, PollInv, Armed
    <3> QED BY <3>4, <3>5
  <2>9. CASE ServeSubmit \/ LoseSubmit
    BY <2>9 DEF ServeSubmit, LoseSubmit, PollInv, Armed, form, keyField, card, effect
  <2>10. ASSUME NEW f \in Fetches, ServePoll(f) \/ LosePoll(f) PROVE PollInv'
    <3>1. polls[f] \in Polls
      BY <2>10 DEF ServePoll, LosePoll, TypeOK
    <3>2. PICK r : polls' = [polls EXCEPT ![f].reply = r]
      BY <2>10 DEF ServePoll, LosePoll
    <3>3. \A g \in Fetches : polls'[g] # NoFetch =>
            /\ poller # Idle
            /\ polls'[g].job_id = poller.job_id /\ polls'[g].key = poller.key
      <4>1. polls'[f].job_id = polls[f].job_id /\ polls'[f].key = polls[f].key /\ polls[f] # NoFetch
        BY <2>10, <3>1, <3>2 DEF TypeOK, Polls, ServePoll, LosePoll
      <4> QED BY <3>2, <4>1 DEF PollInv, TypeOK
    <3>4. UNCHANGED <<apiKey, job, latest, poller, pending, upload>>
      BY <2>10 DEF ServePoll, LosePoll, form, keyField, card
    <3> QED BY <3>3, <3>4 DEF PollInv, Armed
  <2> QED BY <2>1, <2>2, <2>3, <2>4, <2>5, <2>6, <2>7, <2>8, <2>9, <2>10
          DEF Next, User, Page, Network, Behind, Revoke, vars, pageVars, form, keyField, card
<1> QED BY <1>1, <1>2, Typing, TrueReplies, PTL DEF Spec

\* ShowsLatestJob for any instance: no late answer to a poll of an earlier job replaces
\* the job on the card.
THEOREM LatestShown == Spec => []ShowsLatestJob
<1>1. PollInv => ShowsLatestJob
  BY DEF PollInv, ShowsLatestJob
<1> QED BY <1>1, Polling, PTL

\* LivePollsAreCurrent for any instance: once effects have run, only answers about the
\* job on the card, asked for with the key in the field, can still reach it.
THEOREM PollsCurrent == Spec => []LivePollsAreCurrent
<1>1. TypeOK /\ PollInv => LivePollsAreCurrent
  BY DEF PollInv, TypeOK, LivePollsAreCurrent, Armed, ShownStatus, Bodies, Statuses, Settled
<1> QED BY <1>1, Typing, Polling, PTL

\* VerdictStays for any instance: a rendered verdict leaves the card only when the user
\* submits again or reloads.
THEOREM VerdictsStay == Spec => VerdictStays
<1>1. TypeOK /\ PollInv /\ [Next]_vars
        => [~pending /\ ShownStatus \in Settled => job' \in {job, NoJob}]_vars
  <2> SUFFICES ASSUME TypeOK, PollInv, [Next]_vars, ~pending, ShownStatus \in Settled
               PROVE  job' \in {job, NoJob}
    OBVIOUS
  <2>1. job # NoJob /\ job.status \in Settled
    BY DEF ShownStatus, Settled
  <2>2. upload = NoFetch /\ poller = Idle /\ \A f \in Fetches : polls[f] = NoFetch
    BY <2>1 DEF PollInv, Armed
  <2>3. CASE User
    BY <2>3 DEF User, Load, HandleSubmit, SetApiKey, SetRememberApiKey, SetFile, SetTarget, card
  <2>4. CASE Page
    BY <2>2, <2>4 DEF Page, SubmitAnswered, Flush, PollTick, PollAnswered, card
  <2>5. CASE Network
    BY <2>5 DEF Network, ServeSubmit, LoseSubmit, ServePoll, LosePoll, card
  <2> QED BY <2>3, <2>4, <2>5 DEF Next, Behind, Revoke, vars, pageVars, card
<1> QED BY <1>1, Typing, Polling, PTL DEF Spec, VerdictStays
=============================================================================
