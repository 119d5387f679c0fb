---------------------------- MODULE PresetsProofs ----------------------------
(***************************************************************************)
(* Theorems about presets for any number of clients, concurrent calls and  *)
(* requests and any bound on the versions.                                 *)
(***************************************************************************)
EXTENDS Presets, WellFoundedInduction, TLAPS

-----------------------------------------------------------------------------
\* The highest of a non-empty set of versions exists, so MAX(version) and
\* ORDER BY version DESC LIMIT 1 mean what they say.
LEMMA MaxVersions ==
  ASSUME NEW S, S \subseteq Versions, S # {}
  PROVE  Max(S) \in S /\ \A w \in S : w <= Max(S)
<1> DEFINE T == {MaxVersion - v : v \in S}
           R == OpToRel(<, Nat)
<1>1. T \subseteq Nat /\ T # {}
  <2>1. \A v \in S : MaxVersion - v \in Nat
    BY PresetsAssumption DEF Versions
  <2>2. PICK v \in S : TRUE
    OBVIOUS
  <2>3. MaxVersion - v \in T
    OBVIOUS
  <2> QED BY <2>1, <2>3
<1>2. PICK x \in T : \A y \in T : ~(<<y, x>> \in R)
  <2> HIDE DEF T
  <2> QED BY <1>1, NatLessThanWellFounded, WFMin
<1>3. PICK v \in S : x = MaxVersion - v
  BY DEF T
<1>4. ASSUME NEW w \in S PROVE w <= v
  <2>1. MaxVersion - w \in T
    OBVIOUS
  <2>2. ~(<<MaxVersion - w, x>> \in R)
    BY <1>2, <2>1
  <2>3. MaxVersion - w \in Nat /\ x \in Nat
    BY <1>1, <2>1
  <2>4. ~(MaxVersion - w < x)
    BY <2>2, <2>3 DEF OpToRel
  <2> QED BY <2>4, <1>3, PresetsAssumption DEF Versions
<1> QED BY <1>3, <1>4, PresetsAssumption DEF Max, Versions

\* Rows that exist or are active are rows.
LEMMA RowSets ==
  ASSUME NEW o
  PROVE  /\ Active(o) \subseteq Taken(o) /\ Taken(o) \subseteq Versions
         /\ Active(o)' \subseteq Taken(o)' /\ Taken(o)' \subseteq Versions
BY DEF Active, Taken

\* What Resolve returns is an active row, of the client or, if it has none, of the
\* system scope.
LEMMA Resolved ==
  ASSUME NEW c \in Callers, Resolve(c) # NoPreset
  PROVE  \/ /\ Resolve(c) = <<c, Max(Active(c))>>
            /\ Max(Active(c)) \in Active(c)
         \/ /\ Resolve(c) = <<System, Max(Active(System))>>
            /\ Max(Active(System)) \in Active(System) /\ Active(c) = {}
BY MaxVersions, RowSets DEF Resolve

\* The next version is one more than any that exists.
LEMMA NextVersionFacts ==
  ASSUME NEW o
  PROVE  /\ NextVersion(o) \in Nat \ {0}
         /\ (NextVersion(o) = 1 /\ Taken(o) = {}) \/ NextVersion(o) - 1 \in Taken(o)
         /\ \A w \in Taken(o) : w < NextVersion(o)
<1>1. CASE Taken(o) = {}
  BY <1>1 DEF NextVersion
<1>2. CASE Taken(o) # {}
  <2>1. Max(Taken(o)) \in Taken(o) /\ \A w \in Taken(o) : w <= Max(Taken(o))
    BY <1>2, MaxVersions, RowSets
  <2>2. NextVersion(o) = Max(Taken(o)) + 1
    BY <1>2 DEF NextVersion
  <2>3. Taken(o) \subseteq Nat \ {0}
    BY PresetsAssumption DEF Taken, Versions
  <2> QED BY <2>1, <2>2, <2>3
<1> QED BY <1>1, <1>2

-----------------------------------------------------------------------------
\* The stages at which a call has rows of a scope in hand.
RowStages == {"update", "deactivate"}

\* The calls that TypeOK allows.
Calls == [at : Stages, owner : Owners, versions : SUBSET Versions, held : SUBSET Versions]

\* A call that goes on, or returns, with rows that exist keeps the types, provided that
\* no row vanishes.
LEMMA AtTyped ==
  ASSUME TypeOK, NEW a \in Admins, NEW stage \in Stages, NEW o \in Owners,
         NEW vs \in SUBSET Versions, NEW locked \in SUBSET Versions,
         stage \in RowStages => vs \cup locked \subseteq Taken(o),
         At(a, stage, o, vs, locked) \/ Return(a) \/ UNCHANGED call,
         rows' \in [Owners -> [Versions -> {"none", "active", "retired"}]],
         \A p \in Owners : Taken(p) \subseteq Taken(p)',
         UNCHANGED <<pc, seen>>
  PROVE  TypeOK'
<1>1. call' \in [Admins -> Calls]
  <2>0. call \in [Admins -> Calls]
    BY DEF TypeOK, Calls
  <2>1. CASE At(a, stage, o, vs, locked)
    <3>1. [at |-> stage, owner |-> o, versions |-> vs, held |-> locked] \in Calls
      BY DEF Calls
    <3> QED BY <2>0, <2>1, <3>1 DEF At
  <2>2. CASE Return(a)
    <3>1. NoCall \in Calls
      BY DEF Calls, NoCall, Stages, Owners
    <3> QED BY <2>0, <2>2, <3>1 DEF Return
  <2>3. CASE UNCHANGED call
    BY <2>0, <2>3
  <2> QED BY <2>1, <2>2, <2>3
<1>2. ASSUME NEW b \in Admins, call'[b].at \in RowStages
      PROVE  (call[b].versions \cup call[b].held \subseteq Taken(call[b].owner))'
  <2>1. CASE call'[b] = call[b]
    <3>1. call[b].versions \cup call[b].held \subseteq Taken(call[b].owner)
      BY <1>2, <2>1 DEF TypeOK, RowStages
    <3>2. call[b].owner \in Owners
      BY DEF TypeOK
    <3> QED BY <2>1, <3>1, <3>2
  <2>2. CASE b = a /\ At(a, stage, o, vs, locked)
    BY <1>2, <2>2 DEF TypeOK, At
  <2>3. CASE b = a /\ Return(a)
    BY <1>2, <2>3 DEF TypeOK, Return, NoCall, RowStages
  <2> QED BY <2>1, <2>2, <2>3 DEF TypeOK, At, Return
<1> QED BY <1>1, <1>2 DEF TypeOK, RowStages, Calls

\* The calls of the repository keep the types.
LEMMA AdminTyped ==
  ASSUME TypeOK, NEW a \in Admins, Create(a) \/ Update(a) \/ Deactivate(a) \/ LockRow(a) \/ Abort(a)
  PROVE  TypeOK'
<1>0. /\ call[a].owner \in Owners /\ call[a].versions \in SUBSET Versions
      /\ call[a].held \in SUBSET Versions /\ call[a].at \in Stages
      /\ System \in Owners /\ {} \in SUBSET Versions
      /\ call[a].at \in RowStages
           => call[a].versions \cup call[a].held \subseteq Taken(call[a].owner)
      /\ rows \in [Owners -> [Versions -> {"none", "active", "retired"}]]
  BY DEF TypeOK, Owners, RowStages
<1>1. \A o : Active(o) \subseteq Taken(o) /\ Taken(o) \in SUBSET Versions
  BY RowSets
<1>2. UNCHANGED rows => /\ rows' \in [Owners -> [Versions -> {"none", "active", "retired"}]]
                        /\ \A p \in Owners : Taken(p) \subseteq Taken(p)'
  BY <1>0 DEF Taken
<1>3. CASE \E o \in Owners : CreateCheck(a, o)
  BY <1>0, <1>2, <1>3, AtTyped DEF CreateCheck, RowStages, Stages
<1>4. CASE CreateSnapshot(a)
  <2>1. NextVersion(call[a].owner) \in Versions
    BY <1>4, NextVersionFacts, PresetsAssumption DEF CreateSnapshot, Versions
  <2>2. {NextVersion(call[a].owner)} \in SUBSET Versions
    BY <2>1
  <2> QED BY <1>0, <1>2, <1>4, <2>2, AtTyped DEF CreateSnapshot, RowStages, Stages
<1>5. CASE CreateInsert(a)
  <2>1. /\ rows' \in [Owners -> [Versions -> {"none", "active", "retired"}]]
        /\ \A p \in Owners : Taken(p) \subseteq Taken(p)'
    BY <1>0, <1>5 DEF CreateInsert, Taken
  <2> QED BY <1>0, <1>5, <2>1, AtTyped DEF CreateInsert, RowStages, Stages
<1>6. ASSUME NEW o \in Owners, NEW stage \in RowStages, SelectForUpdate(a, o, stage)
      PROVE  TypeOK'
  <2>1. Active(o) \in SUBSET Versions /\ Active(o) \cup {} \subseteq Taken(o)
    BY <1>1
  <2>2. stage \in Stages
    BY DEF Stages, RowStages
  <2> QED BY <1>0, <1>2, <1>6, <2>1, <2>2, AtTyped DEF SelectForUpdate
<1>7. CASE LockRow(a)
  <2> DEFINE rest(v) == call[a].versions \ {v}
             held(v) == call[a].held \cup ({v} \cap Active(call[a].owner))
  <2>1. PICK v \in call[a].versions :
          Return(a) \/ At(a, call[a].at, call[a].owner, rest(v), held(v))
    BY <1>7 DEF LockRow
  <2>2. rest(v) \in SUBSET Versions /\ held(v) \in SUBSET Versions
    BY <1>0
  <2>3. call[a].at \in RowStages /\ UNCHANGED <<rows, pc, seen>>
    BY <1>7 DEF LockRow, RowStages
  <2>4. rest(v) \cup held(v) \subseteq Taken(call[a].owner)
    BY <1>0, <1>1, <2>3
  <2> HIDE DEF rest, held
  <2> QED BY <1>0, <1>2, <2>1, <2>2, <2>3, <2>4, AtTyped
<1>8. CASE UpdateCommit(a)
  <2>1. /\ rows' \in [Owners -> [Versions -> {"none", "active", "retired"}]]
        /\ \A p \in Owners : Taken(p) \subseteq Taken(p)'
    <3> DEFINE o == call[a].owner
    <3>1. PICK v \in call[a].held :
            /\ v < MaxVersion
            /\ rows' = IF v + 1 \in Taken(o) THEN rows
                       ELSE [rows EXCEPT ![o][v] = "retired", ![o][v + 1] = "active"]
      BY <1>8 DEF UpdateCommit
    <3>2. o \in Owners /\ v \in Versions /\ v + 1 \in Versions
      BY <1>0, <3>1, PresetsAssumption DEF Versions
    <3>3. CASE rows' = rows
      BY <1>2, <3>3
    <3>4. CASE rows' = [rows EXCEPT ![o][v] = "retired", ![o][v + 1] = "active"]
      BY <1>0, <3>2, <3>4 DEF Taken
    <3> QED BY <3>1, <3>3, <3>4
  <2> QED BY <1>0, <1>8, <2>1, AtTyped DEF UpdateCommit, RowStages, Stages
<1>9. CASE DeactivateCommit(a)
  <2>1. /\ rows' \in [Owners -> [Versions -> {"none", "active", "retired"}]]
        /\ \A p \in Owners : Taken(p) \subseteq Taken(p)'
    BY <1>0, <1>9 DEF DeactivateCommit, Taken
  <2> QED BY <1>0, <1>9, <2>1, AtTyped DEF DeactivateCommit, RowStages, Stages
<1>10. CASE Abort(a)
  BY <1>0, <1>2, <1>10, AtTyped DEF Abort, RowStages, Stages
<1> QED BY <1>3, <1>4, <1>5, <1>6, <1>7, <1>8, <1>9, <1>10
        DEF Create, Update, Deactivate, RowStages

\* A job submission with a preset keeps the types: past its first resolution it has
\* seen a row.
LEMMA RequestTyped ==
  ASSUME TypeOK, NEW r \in Requests, SubmitWithPreset(r)
  PROVE  TypeOK'
<1> USE DEF TypeOK
<1>0. CallerOf[r] \in Callers
  BY PresetsAssumption
<1>1. Resolve(CallerOf[r]) \in (Owners \X Versions) \cup {NoPreset}
  BY <1>0, Resolved, RowSets DEF Owners
<1>2. CASE ResolvePreset(r)
  BY <1>1, <1>2 DEF ResolvePreset, Taken
<1>3. CASE RecheckPreset(r)
  BY <1>3 DEF RecheckPreset, Taken
<1>4. CASE InsertJob(r)
  BY <1>4 DEF InsertJob, Taken
<1> QED BY <1>2, <1>3, <1>4 DEF SubmitWithPreset

\* Rows, calls and requests keep their types (TypeOK), whatever calls race.
THEOREM Typing == Spec => []TypeOK
<1>1. Init => TypeOK
  BY DEF Init, TypeOK, NoCall, Stages, Owners
<1>2. TypeOK /\ [Next]_vars => TypeOK'
  <2>1. TypeOK /\ UNCHANGED vars => TypeOK'
    BY DEF TypeOK, vars, Taken
  <2> QED BY <2>1, AdminTyped, RequestTyped DEF Next
<1> QED BY <1>1, <1>2, PTL DEF Spec

-----------------------------------------------------------------------------
\* A locked row is active, and no two calls have locked the same row.
LockInv ==
  /\ \A a \in Admins : call[a].held \subseteq Active(call[a].owner)
  /\ \A a, b \in Admins :
       call[a].owner = call[b].owner /\ call[a].held \cap call[b].held # {} => a = b

\* What a step must do to keep LockInv: only a's call moves, it takes only active rows
\* that are free, and only rows it has locked and gives back stop being active.
LEMMA LockStep ==
  ASSUME TypeOK, LockInv, NEW a \in Admins,
         \A b \in Admins : b # a => call'[b] = call[b],
         (call[a].held \subseteq Active(call[a].owner))',
         \A v \in call'[a].held, b \in Admins :
           b # a => ~(call[b].owner = call'[a].owner /\ v \in call[b].held),
         \A o \in Owners : \A v \in Active(o) :
           v \in Active(o)' \/ (call[a].owner = o /\ v \in call[a].held)
  PROVE  LockInv'
<1>1. ASSUME NEW b \in Admins
      PROVE  (call[b].held \subseteq Active(call[b].owner))'
  <2>1. CASE b = a
    BY <2>1
  <2>2. CASE b # a
    <3>1. call'[b] = call[b]
      BY <2>2
    <3>2. call[b].held \subseteq Active(call[b].owner) /\ call[b].owner \in Owners
      BY DEF LockInv, TypeOK
    <3>3. \A v \in call[b].held : ~(call[a].owner = call[b].owner /\ v \in call[a].held)
      BY <2>2 DEF LockInv
    <3> QED BY <3>1, <3>2, <3>3
  <2> QED BY <2>1, <2>2
<1>2. ASSUME NEW b \in Admins, NEW c \in Admins, b # c, (call[b].owner = call[c].owner)'
      PROVE  (call[b].held \cap call[c].held = {})'
  <2>1. CASE b # a /\ c # a
    BY <1>2, <2>1 DEF LockInv
  <2>2. CASE b = a
    BY <1>2, <2>2
  <2>3. CASE c = a
    BY <1>2, <2>3
  <2> QED BY <2>1, <2>2, <2>3
<1> QED BY <1>1, <1>2 DEF LockInv

\* SELECT ... FOR UPDATE excludes other calls until the transaction ends.
LEMMA Locking == Spec => []LockInv
<1>1. Init => LockInv
  BY DEF Init, LockInv, NoCall
<1>2. TypeOK /\ LockInv /\ [Next]_vars => LockInv'
  <2> SUFFICES ASSUME TypeOK, LockInv, [Next]_vars PROVE LockInv'
    OBVIOUS
  <2>1. ASSUME NEW a \in Admins,
               Create(a) \/ Update(a) \/ Deactivate(a) \/ LockRow(a) \/ Abort(a)
        PROVE  LockInv'
    <3> USE DEF TypeOK, At, Return, NoCall
    <3>1. \A b \in Admins : b # a => call'[b] = call[b]
      BY <2>1 DEF Create, Update, Deactivate, Abort, CreateCheck, CreateSnapshot, CreateInsert,
                  SelectForUpdate, LockRow, UpdateCommit, DeactivateCommit
    <3>2. CASE CreateInsert(a)
      <4>1. call'[a].held = {}
        BY <3>2 DEF CreateInsert
      <4>2. PICK v \in call[a].versions :
              rows' = IF v \in Taken(call[a].owner) THEN rows
                      ELSE [rows EXCEPT ![call[a].owner][v] = "active"]
        BY <3>2 DEF CreateInsert
      <4>3. \A o \in Owners : Active(o) \subseteq Active(o)'
        BY <4>2 DEF Active
      <4> QED BY <3>1, <4>1, <4>3, LockStep
    <3>3. CASE /\ UNCHANGED rows
               /\ UNCHANGED call \/ call'[a].held = {}
      <4>1. \A o \in Owners : Active(o)' = Active(o)
        BY <3>3 DEF Active
      <4>2. CASE UNCHANGED call
        BY <4>1, <4>2 DEF LockInv
      <4>3. CASE call'[a].held = {}
        BY <3>1, <4>1, <4>3, LockStep
      <4> QED BY <3>3, <4>2, <4>3
    <3>4. CASE LockRow(a)
      <4>1. PICK v \in call[a].versions :
              /\ ~Locked(call[a].owner, v)
              /\ \/ call'[a].held = {}
                 \/ /\ call'[a].held = call[a].held \cup ({v} \cap Active(call[a].owner))
                    /\ call'[a].owner = call[a].owner
        BY <3>4 DEF LockRow
      <4>2. UNCHANGED rows
        BY <3>4 DEF LockRow
      <4>3. \A o : Active(o)' = Active(o)
        BY <4>2 DEF Active
      <4>4. CASE call'[a].held = {}
        BY <3>3, <4>2, <4>4
      <4>5. CASE /\ call'[a].held = call[a].held \cup ({v} \cap Active(call[a].owner))
                 /\ call'[a].owner = call[a].owner
        <5>1. \A b \in Admins : ~(call[b].owner = call[a].owner /\ v \in call[b].held)
          BY <4>1 DEF Locked
        <5>2. \A w \in call[a].held, b \in Admins :
                b # a => ~(call[b].owner = call[a].owner /\ w \in call[b].held)
          BY DEF LockInv
        <5>3. call[a].held \subseteq Active(call[a].owner)
          BY DEF LockInv
        <5>4. (call[a].held \subseteq Active(call[a].owner))'
          BY <4>2, <4>5, <5>3 DEF Active
        <5>5. \A w \in call'[a].held, b \in Admins :
                b # a => ~(call[b].owner = call'[a].owner /\ w \in call[b].held)
          BY <4>5, <5>1, <5>2
        <5> QED BY <3>1, <4>3, <5>4, <5>5, LockStep
      <4> QED BY <4>1, <4>4, <4>5
    <3>5. CASE UpdateCommit(a)
      <4>1. \A o \in Owners : \A v \in Active(o) :
              v \in Active(o)' \/ (call[a].owner = o /\ v \in call[a].held)
        <5>1. PICK v \in call[a].held :
                rows' = IF v + 1 \in Taken(call[a].owner) THEN rows
                        ELSE [rows EXCEPT ![call[a].owner][v] = "retired",
                                          ![call[a].owner][v + 1] = "active"]
          BY <3>5 DEF UpdateCommit
        <5>2. v \in Nat /\ call[a].owner \in Owners
          BY PresetsAssumption DEF Versions
        <5>3. ASSUME NEW o \in Owners, NEW w \in Versions, rows[o][w] = "active"
              PROVE  rows'[o][w] = "active" \/ (call[a].owner = o /\ w = v)
          BY <5>1, <5>2, <5>3
        <5> QED BY <5>3 DEF Active
      <4>2. call'[a].held = {}
        BY <3>5 DEF UpdateCommit
      <4> QED BY <3>1, <4>1, <4>2, LockStep
    <3>6. CASE DeactivateCommit(a)
      BY <3>1, <3>6, LockStep DEF DeactivateCommit, Active
    <3>7. CASE \E o \in Owners : CreateCheck(a, o)
      BY <3>3, <3>7 DEF CreateCheck
    <3>8. CASE CreateSnapshot(a) \/ Abort(a)
      BY <3>3, <3>8 DEF CreateSnapshot, Abort
    <3>9. ASSUME NEW o \in Owners, NEW stage, SelectForUpdate(a, o, stage)
          PROVE  LockInv'
      BY <3>3, <3>9 DEF SelectForUpdate
    <3> QED BY <2>1, <3>2, <3>4, <3>5, <3>6, <3>7, <3>8, <3>9 DEF Create, Update, Deactivate
  <2>2. CASE UNCHANGED <<rows, call>>
    BY <2>2 DEF LockInv, Active
  <2>3. ASSUME NEW r \in Requests, SubmitWithPreset(r)
        PROVE  UNCHANGED <<rows, call>>
    BY <2>3 DEF SubmitWithPreset, ResolvePreset, RecheckPreset, InsertJob
  <2> QED BY <2>1, <2>2, <2>3 DEF Next, vars
<1> QED BY <1>1, <1>2, Typing, PTL DEF Spec

-----------------------------------------------------------------------------
\* The versions of a name have no gap, and a Create about to insert a version has seen
\* all the versions below it.
GrowInv ==
  /\ \A o \in Owners : \A v \in Taken(o), w \in Versions : w <= v => w \in Taken(o)
  /\ \A a \in Admins : call[a].at = "insert" =>
       \A v \in call[a].versions, w \in Versions : w < v => w \in Taken(call[a].owner)

\* The row a step may insert: a version not taken, above one of a scope without gaps.
NewRow(o, v) ==
  /\ o \in Owners /\ v \in Versions \ Taken(o)
  /\ \A w \in Versions : w < v => w \in Taken(o)

\* Everything a step can do to the rows.
RowStep ==
  \/ UNCHANGED rows
  \/ \E a \in Admins, o \in Owners, v \in Versions :
       /\ call[a].at = "insert" /\ call'[a] = NoCall
       /\ call[a].owner = o /\ NewRow(o, v)
       /\ rows' = [rows EXCEPT ![o][v] = "active"]
  \/ \E o \in Owners, v \in Versions :
       /\ rows[o][v] = "active" /\ NewRow(o, v + 1)
       /\ rows' = [rows EXCEPT ![o][v] = "retired", ![o][v + 1] = "active"]
  \/ \E o \in Owners, v \in Versions :
       /\ rows[o][v] = "active"
       /\ rows' = [rows EXCEPT ![o][v] = "retired"]

\* A step inserts a new row, bumps an active one or retires one, or leaves the rows.
LEMMA RowSteps ==
  ASSUME TypeOK, LockInv, GrowInv, [Next]_vars
  PROVE  RowStep
<1>1. ASSUME NEW a \in Admins, CreateInsert(a) PROVE RowStep
  <2>1. PICK v \in call[a].versions :
          rows' = IF v \in Taken(call[a].owner) THEN rows
                  ELSE [rows EXCEPT ![call[a].owner][v] = "active"]
    BY <1>1 DEF CreateInsert
  <2>2. /\ v \in Versions /\ call[a].owner \in Owners
        /\ call[a].at = "insert" /\ call'[a] = NoCall
    BY <1>1 DEF TypeOK, CreateInsert, Return
  <2>3. v \notin Taken(call[a].owner) => NewRow(call[a].owner, v)
    BY <2>2 DEF NewRow, GrowInv
  <2> QED BY <2>1, <2>2, <2>3 DEF RowStep
<1>2. ASSUME NEW a \in Admins, UpdateCommit(a) PROVE RowStep
  <2>1. PICK v \in call[a].held :
          /\ v < MaxVersion
          /\ rows' = IF v + 1 \in Taken(call[a].owner) THEN rows
                     ELSE [rows EXCEPT ![call[a].owner][v] = "retired",
                                       ![call[a].owner][v + 1] = "active"]
    BY <1>2 DEF UpdateCommit
  <2>2. v \in Versions /\ call[a].owner \in Owners /\ v \in Active(call[a].owner)
    BY <1>2 DEF TypeOK, LockInv, UpdateCommit
  <2>3. rows[call[a].owner][v] = "active" /\ v \in Taken(call[a].owner)
    BY <2>2 DEF Active, Taken
  <2>4. v + 1 \notin Taken(call[a].owner) => NewRow(call[a].owner, v + 1)
    BY <2>1, <2>2, <2>3, PresetsAssumption DEF NewRow, GrowInv, Versions
  <2> QED BY <2>1, <2>2, <2>3, <2>4 DEF RowStep
<1>3. ASSUME NEW a \in Admins, DeactivateCommit(a) PROVE RowStep
  <2>1. PICK v \in call[a].held : rows' = [rows EXCEPT ![call[a].owner][v] = "retired"]
    BY <1>3 DEF DeactivateCommit
  <2>2. v \in Versions /\ call[a].owner \in Owners /\ v \in Active(call[a].owner)
    BY <1>3 DEF TypeOK, LockInv, DeactivateCommit
  <2> QED BY <2>1, <2>2 DEF RowStep, Active
<1> QED BY <1>1, <1>2, <1>3
        DEF RowStep, Next, vars, Create, CreateCheck, CreateSnapshot, Update, Deactivate, Abort,
            SelectForUpdate, LockRow, SubmitWithPreset, ResolvePreset, RecheckPreset, InsertJob

\* The rows of a step that inserts a new one have no gap, and none vanishes.
LEMMA RowStepTaken ==
  ASSUME TypeOK, GrowInv, RowStep, NEW o \in Owners
  PROVE  /\ Taken(o) \subseteq Taken(o)'
         /\ \A v \in Taken(o)', w \in Versions : w <= v => w \in Taken(o)'
<1>0. ASSUME NEW w \in Versions
      PROVE  /\ rows[o][w] # "none" => rows'[o][w] # "none"
             /\ rows'[o][w] # "none" => rows[o][w] # "none" \/ NewRow(o, w)
  <2> USE DEF TypeOK
  <2>1. CASE UNCHANGED rows
    BY <2>1
  <2>2. ASSUME NEW p \in Owners, NEW v \in Versions, NewRow(p, v),
               rows' = [rows EXCEPT ![p][v] = "active"]
        PROVE  <1>0!2
    BY <2>2
  <2>3. ASSUME NEW p \in Owners, NEW v \in Versions, NewRow(p, v + 1),
               rows' = [rows EXCEPT ![p][v] = "retired", ![p][v + 1] = "active"],
               rows[p][v] = "active"
        PROVE  <1>0!2
    BY <2>3
  <2>4. ASSUME NEW p \in Owners, NEW v \in Versions, rows[p][v] = "active",
               rows' = [rows EXCEPT ![p][v] = "retired"]
        PROVE  <1>0!2
    BY <2>4
  <2> QED BY <2>1, <2>2, <2>3, <2>4 DEF RowStep
<1>1. ASSUME NEW v \in Taken(o)' \ Taken(o)
      PROVE  \A w \in Versions : w < v => w \in Taken(o)
  BY <1>0, <1>1 DEF NewRow, Taken
<1>2. Taken(o) \subseteq Taken(o)'
  BY <1>0 DEF Taken
<1>3. ASSUME NEW v \in Taken(o)', NEW w \in Versions, w <= v
      PROVE  w \in Taken(o)'
  <2>1. CASE v \in Taken(o)
    BY <1>2, <1>3, <2>1 DEF GrowInv
  <2>2. CASE v \notin Taken(o)
    <3>1. w = v \/ w < v
      BY <1>3, PresetsAssumption, RowSets DEF Versions
    <3> QED BY <1>1, <1>2, <1>3, <2>2, <3>1
  <2> QED BY <2>1, <2>2
<1> QED BY <1>2, <1>3

\* The versions of every name stay without gaps.
LEMMA Growing == Spec => []GrowInv
<1>1. Init => GrowInv
  BY DEF Init, GrowInv, Taken, NoCall
<1>2. TypeOK /\ LockInv /\ GrowInv /\ [Next]_vars => GrowInv'
  <2> SUFFICES ASSUME TypeOK, LockInv, GrowInv, [Next]_vars PROVE GrowInv'
    OBVIOUS
  <2>1. \A o \in Owners : /\ Taken(o) \subseteq Taken(o)'
                          /\ \A v \in Taken(o)', w \in Versions : w <= v => w \in Taken(o)'
    BY RowSteps, RowStepTaken
  <2>2. ASSUME NEW a \in Admins, call'[a].at = "insert"
        PROVE  \/ call'[a] = call[a]
               \/ /\ call'[a].owner = call[a].owner /\ call[a].owner \in Owners
                  /\ call'[a].versions = {NextVersion(call[a].owner)}
    BY <2>2 DEF TypeOK, Next, vars, Create, CreateCheck, CreateSnapshot, CreateInsert, Update,
                Deactivate, Abort, SelectForUpdate, LockRow, UpdateCommit, DeactivateCommit,
                SubmitWithPreset, ResolvePreset, RecheckPreset, InsertJob, At, Return, NoCall
  <2>3. ASSUME NEW a \in Admins, call'[a].at = "insert",
               NEW v \in call'[a].versions, NEW w \in Versions, w < v
        PROVE  w \in Taken(call[a].owner)'
    <3>1. call[a].owner \in Owners
      BY DEF TypeOK
    <3>2. CASE call'[a] = call[a]
      BY <2>1, <2>3, <3>1, <3>2 DEF GrowInv
    <3>3. CASE /\ call'[a].owner = call[a].owner
               /\ call'[a].versions = {NextVersion(call[a].owner)}
      <4> DEFINE n == NextVersion(call[a].owner)
      <4>1. v = n /\ n \in Nat \ {0}
        BY <2>3, <3>3, NextVersionFacts
      <4>2. n - 1 \in Taken(call[a].owner)
        BY <2>3, <4>1, NextVersionFacts, PresetsAssumption DEF Versions
      <4>3. w <= n - 1
        BY <2>3, <4>1, PresetsAssumption DEF Versions
      <4> QED BY <2>1, <3>1, <3>3, <4>2, <4>3 DEF GrowInv
    <3> QED BY <2>2, <2>3, <3>2, <3>3
  <2> QED BY <2>1, <2>3 DEF GrowInv
<1> QED BY <1>1, <1>2, Typing, Locking, PTL DEF Spec

\* A new row of a scope without gaps takes the version after the highest one.
LEMMA NewRowIsNext ==
  ASSUME GrowInv, NEW o \in Owners, NEW v \in Versions, NewRow(o, v)
  PROVE  v = NextVersion(o)
<1> DEFINE n == NextVersion(o)
<1>1. v \in Nat \ {0} /\ n \in Nat \ {0} /\ n >= 1
  BY NextVersionFacts, PresetsAssumption DEF Versions
<1>2. ~(n < v)
  <2>1. n < v => n \in Versions
    BY <1>1, PresetsAssumption DEF Versions
  <2>2. n < v => n \in Taken(o)
    BY <2>1 DEF NewRow
  <2>3. ~(n < n)
    BY <1>1
  <2> QED BY <2>2, <2>3, NextVersionFacts
<1>3. ~(v < n)
  <2>1. CASE n = 1
    BY <1>1, <2>1
  <2>2. CASE n - 1 \in Taken(o)
    <3>1. n - 1 \in Versions /\ v \notin Taken(o)
      BY <2>2, RowSets DEF NewRow
    <3>2. ~(v <= n - 1)
      BY <2>2, <3>1 DEF GrowInv
    <3> QED BY <1>1, <3>2
  <2> QED BY <2>1, <2>2, NextVersionFacts
<1> QED BY <1>1, <1>2, <1>3

-----------------------------------------------------------------------------
\* What a step can make of a row.
RowMove(o, w) ==
  \/ rows'[o][w] = rows[o][w]
  \/ rows[o][w] = "active" /\ rows'[o][w] = "retired"
  \/ rows[o][w] = "none" /\ rows'[o][w] = "active" /\ w = NextVersion(o)

\* A row stays, is retired, or is new and takes the version after the highest one.
LEMMA RowMoves ==
  ASSUME TypeOK, LockInv, GrowInv, [Next]_vars, NEW o \in Owners, NEW w \in Versions
  PROVE  RowMove(o, w)
<1> USE DEF TypeOK
<1>1. RowStep /\ (NewRow(o, w) => rows[o][w] = "none" /\ w = NextVersion(o))
  BY RowSteps, NewRowIsNext DEF NewRow, Taken
<1>2. ASSUME NEW p \in Owners, NEW v \in Versions, NewRow(p, v),
             rows' = [rows EXCEPT ![p][v] = "active"], rows'[o][w] # rows[o][w]
      PROVE  rows[o][w] = "none" /\ rows'[o][w] = "active" /\ w = NextVersion(o)
  BY <1>1, <1>2
<1>3. ASSUME NEW p \in Owners, NEW v \in Versions, rows[p][v] = "active", NewRow(p, v + 1),
             rows' = [rows EXCEPT ![p][v] = "retired", ![p][v + 1] = "active"],
             rows'[o][w] # rows[o][w]
      PROVE  \/ rows[o][w] = "active" /\ rows'[o][w] = "retired"
             \/ rows[o][w] = "none" /\ rows'[o][w] = "active" /\ w = NextVersion(o)
  BY <1>1, <1>3
<1>4. ASSUME NEW p \in Owners, NEW v \in Versions, rows[p][v] = "active",
             rows' = [rows EXCEPT ![p][v] = "retired"], rows'[o][w] # rows[o][w]
      PROVE  rows[o][w] = "active" /\ rows'[o][w] = "retired"
  BY <1>4
<1> QED BY <1>1, <1>2, <1>3, <1>4 DEF RowStep, RowMove

\* A retired version never comes back.
LEMMA RetiredStays ==
  ASSUME TypeOK, LockInv, GrowInv, [Next]_vars, NEW o \in Owners, NEW w \in Versions,
         rows[o][w] = "retired"
  PROVE  rows'[o][w] = "retired"
BY RowMoves DEF RowMove

\* VersionsOnlyGrow for any number of racing calls: a row only ever goes from active to
\* retired, and a new row takes the version after the highest one.
THEOREM Immutability == Spec => VersionsOnlyGrow
<1>1. TypeOK /\ LockInv /\ GrowInv /\ [Next]_vars
        => [\A o \in Owners, v \in Versions :
              \/ rows'[o][v] = rows[o][v]
              \/ rows[o][v] = "active" /\ rows'[o][v] = "retired"
              \/ rows[o][v] = "none" /\ rows'[o][v] = "active" /\ v = NextVersion(o)]_vars
  BY RowMoves DEF RowMove
<1> QED BY <1>1, Typing, Locking, Growing, PTL DEF Spec, VersionsOnlyGrow

\* OnlyCreateRevives for any number of racing calls: a name without an active version
\* gets one only in the step in which a Create inserts it.
THEOREM Revival == Spec => OnlyCreateRevives
<1>1. TypeOK /\ LockInv /\ GrowInv /\ [Next]_vars => [RevivedByCreate]_vars
  <2> SUFFICES ASSUME TypeOK, LockInv, GrowInv, [Next]_vars, NEW o \in Owners,
                      Active(o) = {}, Active(o)' # {}
               PROVE  \E a \in Admins : /\ call[a].at = "insert" /\ call[a].owner = o
                                        /\ call'[a].at = "idle"
    BY DEF RevivedByCreate
  <2> USE DEF TypeOK
  <2>1. PICK w \in Versions : rows'[o][w] = "active" /\ rows[o][w] # "active"
    BY DEF Active
  <2>2. \A v \in Versions : rows[o][v] # "active"
    BY DEF Active
  <2>3. RowStep
    BY RowSteps
  <2>4. ASSUME NEW p \in Owners, NEW v \in Versions, rows[p][v] = "active", NewRow(p, v + 1),
               rows' = [rows EXCEPT ![p][v] = "retired", ![p][v + 1] = "active"]
        PROVE  FALSE
    BY <2>1, <2>2, <2>4
  <2>5. ASSUME NEW p \in Owners, NEW v \in Versions,
               rows' = [rows EXCEPT ![p][v] = "retired"]
        PROVE  FALSE
    BY <2>1, <2>5
  <2>6. ASSUME NEW p \in Owners, NEW v \in Versions,
               rows' = [rows EXCEPT ![p][v] = "active"]
        PROVE  p = o
    BY <2>1, <2>6
  <2>7. ASSUME NEW a \in Admins, call'[a] = NoCall PROVE call'[a].at = "idle"
    BY <2>7 DEF NoCall
  <2>8. rows' # rows
    BY <2>1
  <2>9. ASSUME NEW a \in Admins, NEW p \in Owners, NEW v \in Versions,
               call[a].at = "insert", call'[a] = NoCall, call[a].owner = p,
               rows' = [rows EXCEPT ![p][v] = "active"]
        PROVE  /\ call[a].at = "insert" /\ call[a].owner = o
               /\ call'[a].at = "idle"
    BY <2>6, <2>7, <2>9
  <2> QED BY <2>3, <2>4, <2>5, <2>8, <2>9 DEF RowStep
<1> QED BY <1>1, Typing, Locking, Growing, PTL DEF Spec, OnlyCreateRevives

\* A request whose version was retired during the upload: it is still to be resolved
\* again, or refused.
Late(r) == pc[r] = "refused" \/ (pc[r] = "recheck" /\ Retired(r))

\* Late is for ever: a retired version stays retired, and the second resolution returns
\* an active one.
LEMMA LateStays ==
  ASSUME TypeOK, LockInv, GrowInv, [Next]_vars, NEW r \in Requests, Late(r)
  PROVE  Late(r)'
<1>1. CASE UNCHANGED <<pc, seen>>
  <2>1. Retired(r) => Retired(r)'
    BY <1>1, RetiredStays DEF Retired
  <2> QED BY <1>1, <2>1 DEF Late
<1>2. ASSUME NEW q \in Requests, SubmitWithPreset(q) PROVE Late(r)'
  <2>1. UNCHANGED rows
    BY <1>2 DEF SubmitWithPreset, ResolvePreset, RecheckPreset, InsertJob
  <2>2. CASE q # r
    <3>1. pc'[r] = pc[r] /\ seen'[r] = seen[r]
      BY <1>2, <2>2 DEF TypeOK, SubmitWithPreset, ResolvePreset, RecheckPreset, InsertJob
    <3> QED BY <2>1, <3>1 DEF Late, Retired
  <2>3. CASE q = r
    <3>1. pc[r] = "recheck" /\ Retired(r) /\ RecheckPreset(r)
      BY <1>2, <2>3 DEF Late, SubmitWithPreset, ResolvePreset, RecheckPreset, InsertJob
    <3>2. seen[r] # NoPreset /\ CallerOf[r] \in Callers
      BY <3>1, PresetsAssumption DEF TypeOK
    <3>3. ASSUME NEW o, NEW v \in Active(o), seen[r] = <<o, v>> PROVE FALSE
      BY <3>1, <3>3 DEF Retired, Active
    <3>4. Resolve(CallerOf[r]) # seen[r]
      BY <3>2, <3>3, Resolved
    <3> QED BY <3>1, <3>4 DEF TypeOK, RecheckPreset, Late
  <2> QED BY <2>2, <2>3
<1>3. ASSUME NEW a \in Admins,
             Create(a) \/ Update(a) \/ Deactivate(a) \/ LockRow(a) \/ Abort(a)
      PROVE  UNCHANGED <<pc, seen>>
  BY <1>3 DEF Create, CreateCheck, CreateSnapshot, CreateInsert, Update, Deactivate, Abort,
              SelectForUpdate, LockRow, UpdateCommit, DeactivateCommit
<1> QED BY <1>1, <1>2, <1>3 DEF Next, vars

\* RetiredIsNeverUsed for any number of requests and racing calls: a request whose version
\* is retired while it uploads creates no job.
THEOREM FreshPresets == Spec => RetiredIsNeverUsed
<1> SUFFICES ASSUME NEW r \in Requests
             PROVE  Spec => [](pc[r] = "recheck" /\ Retired(r) => [](pc[r] # "created"))
  BY DEF RetiredIsNeverUsed
<1>1. TypeOK /\ LockInv /\ GrowInv /\ Late(r) /\ [Next]_vars => Late(r)'
  BY LateStays
<1>2. pc[r] = "recheck" /\ Retired(r) => Late(r)
  BY DEF Late
<1>3. Late(r) => pc[r] # "created"
  BY DEF Late
<1> QED BY <1>1, <1>2, <1>3, Typing, Locking, Growing, PTL DEF Spec

-----------------------------------------------------------------------------
\* A Create past its check finds the name still without an active version.
CreateInv ==
  \A a \in Admins : call[a].at \in {"snapshot", "insert"} =>
    a \in Creators /\ Active(call[a].owner) = {}

\* OneActiveVersion (D-04) does hold as long as no two calls of Create overlap: updates,
\* deactivations and aborts alone never leave two active versions.
THEOREM OneActiveIfCreatesAreSerial ==
  ASSUME \A a, b \in Creators : a = b
  PROVE  Spec => []OneActiveVersion
<1>1. Init => OneActiveVersion /\ CreateInv
  BY DEF Init, OneActiveVersion, CreateInv, Active, NoCall
<1>2. /\ TypeOK /\ LockInv /\ GrowInv /\ OneActiveVersion /\ CreateInv /\ [Next]_vars
      => (OneActiveVersion /\ CreateInv)'
  <2> SUFFICES ASSUME TypeOK, LockInv, GrowInv, OneActiveVersion, CreateInv, [Next]_vars
               PROVE  (OneActiveVersion /\ CreateInv)'
    OBVIOUS
  <2> USE DEF TypeOK
  <2>1. ASSUME NEW a \in Admins, call'[a].at \in {"snapshot", "insert"}
        PROVE  \/ /\ call[a].at \in {"snapshot", "insert"} /\ call'[a].owner = call[a].owner
               \/ /\ a \in Creators /\ call'[a].owner \in Owners
                  /\ Active(call'[a].owner) = {} /\ UNCHANGED rows
    <3> USE DEF At, Return, NoCall
    <3>1. CASE call'[a] = call[a]
      BY <2>1, <3>1
    <3>2. CASE \E o \in Owners : CreateCheck(a, o)
      BY <2>1, <3>2 DEF CreateCheck
    <3>3. CASE CreateSnapshot(a)
      BY <3>3 DEF CreateSnapshot
    <3>4. CASE CreateInsert(a) \/ Update(a) \/ Deactivate(a) \/ LockRow(a) \/ Abort(a)
      BY <2>1, <3>4
      DEF CreateInsert, Update, Deactivate, Abort, SelectForUpdate, LockRow, UpdateCommit,
          DeactivateCommit
    <3>5. ASSUME NEW b \in Admins, b # a,
                 Create(b) \/ Update(b) \/ Deactivate(b) \/ LockRow(b) \/ Abort(b)
          PROVE  call'[a] = call[a]
      BY <3>5 DEF Create, CreateCheck, CreateSnapshot, CreateInsert, Update, Deactivate, Abort,
                  SelectForUpdate, LockRow, UpdateCommit, DeactivateCommit
    <3>6. ASSUME NEW q \in Requests, SubmitWithPreset(q) PROVE call' = call
      BY <3>6 DEF SubmitWithPreset, ResolvePreset, RecheckPreset, InsertJob
    <3> QED BY <3>1, <3>2, <3>3, <3>4, <3>5, <3>6 DEF Next, vars, Create
  <2>2. ASSUME NEW p \in Owners, NEW v \in Versions, Active(p) = {},
               rows' = [rows EXCEPT ![p][v] = "active"]
        PROVE  \A o \in Owners : Active(o)' = IF o = p THEN {v} ELSE Active(o)
    BY <2>2 DEF Active
  <2>3. ASSUME NEW p \in Owners, NEW v \in Versions, rows[p][v] = "active", NewRow(p, v + 1),
               rows' = [rows EXCEPT ![p][v] = "retired", ![p][v + 1] = "active"]
        PROVE  \A o \in Owners : Active(o)' = IF o = p THEN {v + 1} ELSE Active(o)
    <3>1. \A w \in Versions : rows[p][w] = "active" => w = v
      BY <2>3 DEF OneActiveVersion, Active
    <3>2. v + 1 \in Versions /\ v + 1 # v
      BY <2>3, PresetsAssumption DEF NewRow, Versions
    <3> QED BY <2>3, <3>1, <3>2 DEF Active
  <2>4. ASSUME NEW p \in Owners, NEW v \in Versions,
               rows' = [rows EXCEPT ![p][v] = "retired"]
        PROVE  \A o \in Owners : Active(o)' \subseteq Active(o)
    BY <2>4 DEF Active
  <2>5. RowStep
    BY RowSteps
  <2>6. CASE \A o \in Owners : Active(o)' \subseteq Active(o)
    BY <2>1, <2>6 DEF OneActiveVersion, CreateInv
  <2>7. CASE \E a \in Admins, o \in Owners, v \in Versions :
               /\ call[a].at = "insert" /\ call'[a] = NoCall /\ call[a].owner = o
               /\ rows' = [rows EXCEPT ![o][v] = "active"]
    <3>1. PICK a \in Admins, p \in Owners, v \in Versions :
            /\ call[a].at = "insert" /\ call'[a] = NoCall /\ call[a].owner = p
            /\ rows' = [rows EXCEPT ![p][v] = "active"]
      BY <2>7
    <3>2. a \in Creators /\ Active(p) = {}
      BY <3>1 DEF CreateInv
    <3>3. \A o \in Owners : Active(o)' = IF o = p THEN {v} ELSE Active(o)
      BY <2>2, <3>1, <3>2
    <3>4. OneActiveVersion'
      BY <3>3 DEF OneActiveVersion
    <3>5. ASSUME NEW b \in Admins, call'[b].at \in {"snapshot", "insert"}
          PROVE  b \in Creators /\ Active(call[b].owner)' = {}
      <4>1. b \in Creators
        BY <2>1, <3>5 DEF CreateInv
      <4>2. b = a
        BY <3>2, <4>1
      <4> QED BY <3>1, <3>5, <4>2 DEF NoCall
    <3> QED BY <3>4, <3>5 DEF CreateInv
  <2>8. CASE \E o \in Owners, v \in Versions :
               /\ rows[o][v] = "active" /\ NewRow(o, v + 1)
               /\ rows' = [rows EXCEPT ![o][v] = "retired", ![o][v + 1] = "active"]
    <3>1. PICK p \in Owners, v \in Versions :
            /\ rows[p][v] = "active" /\ NewRow(p, v + 1)
            /\ rows' = [rows EXCEPT ![p][v] = "retired", ![p][v + 1] = "active"]
      BY <2>8
    <3>2. \A o \in Owners : Active(o)' = IF o = p THEN {v + 1} ELSE Active(o)
      BY <2>3, <3>1
    <3>3. Active(p) # {} /\ rows' # rows
      BY <3>1 DEF Active
    <3>4. OneActiveVersion'
      BY <3>2 DEF OneActiveVersion
    <3>5. CreateInv'
      BY <2>1, <3>2, <3>3 DEF CreateInv
    <3> QED BY <3>4, <3>5
  <2>9. CASE UNCHANGED rows
    BY <2>6, <2>9 DEF Active
  <2> QED BY <2>4, <2>5, <2>6, <2>7, <2>8, <2>9 DEF RowStep
<1> QED BY <1>1, <1>2, Typing, Locking, Growing, PTL DEF Spec
=============================================================================
