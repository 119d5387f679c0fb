------------------------------- MODULE Presets -------------------------------
(***************************************************************************)
(* The versions of one preset name (internal/presets/repo.go) under        *)
(* concurrent Create, Update and Deactivate calls, and the two resolutions *)
(* handleCreateJob makes around an upload.  Postgres runs at READ          *)
(* COMMITTED: a statement sees what was committed when it started, FOR     *)
(* UPDATE locks the rows it saw one by one, waits for a row that another   *)
(* transaction has and then tests its WHERE clause again, and the unique   *)
(* index on (owner, name, version) refuses a second row.                   *)
(***************************************************************************)
EXTENDS FiniteSetsExt

CONSTANTS
  System,     \* scope system
  Callers,    \* the clients; each owns a user scope
  Admins,     \* concurrent calls of the repository
  Creators,   \* the Admins that may call Create
  Requests,   \* concurrent POST /v1/jobs with preset=<name>
  CallerOf,   \* the client of each request
  MaxVersion, \* bound on the versions of a name
  NoPreset

Owners == {System} \cup Callers
Versions == 1..MaxVersion

ASSUME PresetsAssumption ==
  /\ System \notin Callers
  /\ Creators \subseteq Admins
  /\ CallerOf \in [Requests -> Callers]
  /\ MaxVersion \in Nat
  /\ NoPreset \notin Owners \X Versions

VARIABLES
  rows, \* rows[o][v]: "none", "active" or "retired" (is_active = false)
  call, \* the statement each Admin is at, the versions it is about and the rows it locked
  pc,   \* handleCreateJob: "resolve", "recheck", "insert", "created" or "refused"
  seen  \* the row each request resolved

vars == <<rows, call, pc, seen>>

NoCall == [at |-> "idle", owner |-> System, versions |-> {}, held |-> {}]
Stages == {"idle", "snapshot", "insert", "update", "deactivate"}
At(a, stage, o, vs, locked) ==
  call' = [call EXCEPT ![a] = [at |-> stage, owner |-> o, versions |-> vs, held |-> locked]]
Return(a) == call' = [call EXCEPT ![a] = NoCall]

Active(o) == {v \in Versions : rows[o][v] = "active"}
Taken(o) == {v \in Versions : rows[o][v] # "none"}

\* COALESCE(MAX(version), 0) + 1 over all rows, active or not.
NextVersion(o) == IF Taken(o) = {} THEN 1 ELSE Max(Taken(o)) + 1

\* The row is locked by a transaction that has not committed.
Locked(o, v) == \E a \in Admins : call[a].owner = o /\ v \in call[a].held

-----------------------------------------------------------------------------
\* Create: the check for an active version ...
CreateCheck(a, o) ==
  /\ call[a].at = "idle" /\ a \in Creators
  /\ IF Active(o) = {} THEN At(a, "snapshot", o, {}, {}) ELSE UNCHANGED call
  /\ UNCHANGED <<rows, pc, seen>>

\* ... then INSERT ... SELECT MAX(version) + 1, which reads ...
CreateSnapshot(a) ==
  /\ call[a].at = "snapshot"
  /\ NextVersion(call[a].owner) <= MaxVersion
  /\ At(a, "insert", call[a].owner, {NextVersion(call[a].owner)}, {})
  /\ UNCHANGED <<rows, pc, seen>>

\* Faulty variant: ON CONFLICT DO UPDATE.
CreateInsertUpsert(a) ==
  /\ call[a].at = "insert"
  /\ \E v \in call[a].versions : rows' = [rows EXCEPT ![call[a].owner][v] = "active"]
  /\ Return(a)
  /\ UNCHANGED <<pc, seen>>

\* ... and writes, unless the index refuses the row (ErrAlreadyExists).
CreateInsert(a) ==
  LET o == call[a].owner
  IN  /\ call[a].at = "insert"
      /\ \E v \in call[a].versions :
           rows' = IF v \in Taken(o) THEN rows ELSE [rows EXCEPT ![o][v] = "active"]
      /\ Return(a)
      /\ UNCHANGED <<pc, seen>>

\* Update and Deactivate: SELECT ... FOR UPDATE finds the active rows.  Without one the
\* answer is ErrNotFound.
SelectForUpdate(a, o, stage) ==
  /\ call[a].at = "idle"
  /\ IF Active(o) # {} THEN At(a, stage, o, Active(o), {}) ELSE UNCHANGED call
  /\ UNCHANGED <<rows, pc, seen>>

\* Faulty variant: the row is not tested again once its lock is free.
LockRowUnchecked(a) ==
  /\ call[a].at \in {"update", "deactivate"}
  /\ \E v \in call[a].versions :
       /\ ~Locked(call[a].owner, v)
       /\ At(a, call[a].at, call[a].owner, call[a].versions \ {v}, call[a].held \cup {v})
  /\ UNCHANGED <<rows, pc, seen>>

\* It locks them one by one, in no particular order, keeps the ones it has while it waits
\* for the next, and drops a row that is no longer active once it gets it.  If no row is
\* left the answer is ErrNotFound.
LockRow(a) ==
  LET o == call[a].owner
  IN  /\ call[a].at \in {"update", "deactivate"}
      /\ \E v \in call[a].versions :
           LET rest == call[a].versions \ {v}
               held == call[a].held \cup ({v} \cap Active(o))
           IN  /\ ~Locked(o, v)
               /\ IF rest = {} /\ held = {} THEN Return(a) ELSE At(a, call[a].at, o, rest, held)
      /\ UNCHANGED <<rows, pc, seen>>

\* Update commits: the first row the SELECT returned, in no particular order, is
\* retired and its next version inserted, or the index refuses that and everything is
\* rolled back.
UpdateCommit(a) ==
  LET o == call[a].owner
  IN  /\ call[a].at = "update" /\ call[a].versions = {}
      /\ \E v \in call[a].held :
           /\ v < MaxVersion
           /\ rows' = IF v + 1 \in Taken(o) THEN rows
                      ELSE [rows EXCEPT ![o][v] = "retired", ![o][v + 1] = "active"]
      /\ Return(a)
      /\ UNCHANGED <<pc, seen>>

DeactivateCommit(a) ==
  /\ call[a].at = "deactivate" /\ call[a].versions = {}
  /\ \E v \in call[a].held : rows' = [rows EXCEPT ![call[a].owner][v] = "retired"]
  /\ Return(a)
  /\ UNCHANGED <<pc, seen>>

\* The connection or the process is lost, or Postgres breaks a cycle of waiting
\* transactions: the transaction is rolled back.
Abort(a) ==
  /\ call[a].at # "idle"
  /\ Return(a)
  /\ UNCHANGED <<rows, pc, seen>>

-----------------------------------------------------------------------------
\* Resolve: a user preset shadows a system preset, the highest version wins.
Resolve(c) ==
  IF Active(c) # {} THEN <<c, Max(Active(c))>>
  ELSE IF Active(System) # {} THEN <<System, Max(Active(System))>>
  ELSE NoPreset

\* Faulty variant: ErrNotFound is not an early return.
ResolvePresetUnchecked(r) ==
  /\ pc[r] = "resolve"
  /\ seen' = [seen EXCEPT ![r] = Resolve(CallerOf[r])]
  /\ pc' = [pc EXCEPT ![r] = "recheck"]
  /\ UNCHANGED <<rows, call>>

\* handleCreateJob resolves the preset, then validates and uploads.
ResolvePreset(r) ==
  /\ pc[r] = "resolve"
  /\ seen' = [seen EXCEPT ![r] = Resolve(CallerOf[r])]
  /\ pc' = [pc EXCEPT ![r] = IF seen'[r] = NoPreset THEN "refused" ELSE "recheck"]
  /\ UNCHANGED <<rows, call>>

\* Faulty variant: any active preset of the name will do.
RecheckPresetByName(r) ==
  /\ pc[r] = "recheck"
  /\ pc' = [pc EXCEPT ![r] = IF Resolve(CallerOf[r]) # NoPreset THEN "insert" ELSE "refused"]
  /\ UNCHANGED <<rows, call, seen>>

\* Before the insert it resolves again and refuses any other row.
RecheckPreset(r) ==
  /\ pc[r] = "recheck"
  /\ pc' = [pc EXCEPT ![r] = IF Resolve(CallerOf[r]) = seen[r] THEN "insert" ELSE "refused"]
  /\ UNCHANGED <<rows, call, seen>>

InsertJob(r) ==
  /\ pc[r] = "insert"
  /\ pc' = [pc EXCEPT ![r] = "created"]
  /\ UNCHANGED <<rows, call, seen>>

-----------------------------------------------------------------------------
Init ==
  /\ rows = [o \in Owners |-> [v \in Versions |-> "none"]]
  /\ call = [a \in Admins |-> NoCall]
  /\ pc = [r \in Requests |-> "resolve"]
  /\ seen = [r \in Requests |-> NoPreset]

Create(a) == (\E o \in Owners : CreateCheck(a, o)) \/ CreateSnapshot(a) \/ CreateInsert(a)

Update(a) == (\E o \in Owners : SelectForUpdate(a, o, "update")) \/ UpdateCommit(a)

Deactivate(a) ==
  (\E o \in Owners : SelectForUpdate(a, o, "deactivate")) \/ DeactivateCommit(a)

SubmitWithPreset(r) == ResolvePreset(r) \/ RecheckPreset(r) \/ InsertJob(r)

Next ==
  \/ \E a \in Admins : Create(a) \/ Update(a) \/ Deactivate(a) \/ LockRow(a) \/ Abort(a)
  \/ \E r \in Requests : SubmitWithPreset(r)

Spec == Init /\ [][Next]_vars

-----------------------------------------------------------------------------
\* Rows, calls and requests have their types, a call that locked or waits for rows does
\* so for rows that exist, and a request past its first resolution has seen a row.
TypeOK ==
  /\ rows \in [Owners -> [Versions -> {"none", "active", "retired"}]]
  /\ call \in [Admins -> [at : Stages, owner : Owners, versions : SUBSET Versions,
                       held : SUBSET Versions]]
  /\ pc \in [Requests -> {"resolve", "recheck", "insert", "created", "refused"}]
  /\ seen \in [Requests -> (Owners \X Versions) \cup {NoPreset}]
  /\ \A a \in Admins : call[a].at \in {"update", "deactivate"}
                          => call[a].versions \cup call[a].held \subseteq Taken(call[a].owner)
  /\ \A r \in Requests : pc[r] \in {"recheck", "insert", "created"} => seen[r] # NoPreset

\* D-04, versions are immutable: whatever calls race, a row only goes from active to
\* retired, a retired version never comes back, and a new row takes the version after
\* the highest one (repo.go:25-30 and 132-136).
VersionsOnlyGrow ==
  [][\A o \in Owners, v \in Versions :
       \/ rows'[o][v] = rows[o][v]
       \/ rows[o][v] = "active" /\ rows'[o][v] = "retired"
       \/ rows[o][v] = "none" /\ rows'[o][v] = "active" /\ v = NextVersion(o)]_vars

\* A name that has no active version before the step has one after it only if a Create
\* inserts it in this step.
RevivedByCreate ==
  \A o \in Owners :
    Active(o) = {} /\ Active(o)' # {}
    => \E a \in Admins : call[a].at = "insert" /\ call[a].owner = o /\ call'[a].at = "idle"

\* A deactivated name comes back only through Create: an Update that was waiting for
\* the row while it was deactivated does not bring it back (repo.go:150-159).
OnlyCreateRevives == [][RevivedByCreate]_vars

\* The version a request resolved has been retired.
Retired(r) == \E o \in Owners, v \in Versions : seen[r] = <<o, v>> /\ rows[o][v] = "retired"

\* T-18 Pitfall 8: once the version a request resolved is retired during its upload, the
\* request never creates a job, however often the name is bumped, deactivated or revived
\* before the upload is done and resolved again (handlers.go:573-595).
RetiredIsNeverUsed ==
  \A r \in Requests : [](pc[r] = "recheck" /\ Retired(r) => [](pc[r] # "created"))

\* D-04 (18-CONTEXT.md:23): at most one active version per scope, client and name, which
\* "holds for all writes that go through Repo" (18-01-PLAN.md:229).
OneActiveVersion == \A o \in Owners : \A v, w \in Active(o) : v = w
=============================================================================
