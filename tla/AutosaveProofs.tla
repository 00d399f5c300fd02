---------------------------- MODULE AutosaveProofs ----------------------------
(***************************************************************************)
(* Proofs about the autosave documents and the browsers that save them,    *)
(* for every number of devices, handlers, edits and faults.                *)
(***************************************************************************)
EXTENDS Autosave, FiniteSetTheorems, WellFoundedInduction, TLAPS

-----------------------------------------------------------------------------
(* The inductive invariant, part by part.                                  *)

\* Nothing is stored, or a document with an id and a revision.
Shaped(d) == d = Absent \/ (d.id > 0 /\ d.rev > 0)

\* Every state a row ever had.
Known == log \cup astray

\* A new id can be found for the next document.
IdsAreBounded == \E n \in Nat : \A entry \in log : entry.id <= n

(* The log is what the documents were: none is ahead of the current one,   *)
(* which is among them, and a document that goes astray had been made.     *)
LogIsThePast ==
  /\ \A entry \in log : entry.id > 0 /\ entry.rev > 0
  /\ \A entry \in astray : \E old \in log : old.id = entry.id
  /\ ~Astray => \A entry \in log : entry.id = doc.id => entry.rev <= doc.rev
  /\ doc # Absent => \E entry \in Known : Bare(entry) = doc

HistoryGoesWithTheRow == doc = Absent => history = {}

(* A copy of the document that a handler may commit.  If it is not the     *)
(* current state, the revision that replaced it is still in the history,   *)
(* so that the unique key stops the commit, unless MaxUnnamed revisions    *)
(* and one more were made since.                                           *)
Guarded(copy) ==
  /\ copy.rev <= doc.rev
  /\ copy.rev = doc.rev => copy = doc
  /\ copy.rev < doc.rev /\ ~Outlived(copy) => Taken(copy.rev + 1)

CopiesAreGuarded ==
  \A r \in Requests : Busy(r, "loaded") =>
    LET copy == req[r].copy IN
    /\ copy = Absent => req[r].op = "push"
    /\ copy # Absent /\ req[r].op = "push" => req[r].base = copy.rev
    /\ copy # Absent => \E entry \in Known : Bare(entry) = copy
    /\ copy # Absent /\ copy.id = doc.id /\ ~Astray => Guarded(copy)

(* What a device edits is told by its base revision.                       *)
Derived(rev, basis) == basis.rev = rev /\ (rev > 0 => basis.id > 0)

BasesAreTold ==
  /\ Shaped(doc)
  /\ \A d \in Devices : /\ Derived(local[d].rev, local[d].basis)
                        /\ Derived(saving[d].rev, saving[d].basis)
                        /\ Shaped(loading[d])
  /\ \A r \in Requests : ~Busy(r, "idle") =>
       /\ Shaped(req[r].copy)
       /\ req[r].op = "push" => Derived(req[r].base, req[r].basis)

StoreInv ==
  /\ TypeOK /\ IdsAreBounded /\ LogIsThePast /\ HistoryGoesWithTheRow
  /\ CopiesAreGuarded /\ BasesAreTold
  /\ HistoryIsTrue /\ NoBlindOverwrite

(* Only pushes are waited for, and what one that was answered with a       *)
(* revision sent is known.                                                 *)
AnswersAreTrue ==
  \A r \in Requests : ~Busy(r, "idle") =>
    /\ req[r].waiting => req[r].op = "push"
    /\ Busy(r, "saved") /\ req[r].op = "push" => \E entry \in Known : entry.data = req[r].data

(* While no older answer can replace a device's last edit, every answer it *)
(* waits for is about that edit, and only the server makes it clean.       *)
Held(d) ==
  last[d] # 0 /\ ~raced[d] =>
    /\ local[d].data = last[d]
    /\ loading[d] = Absent
    /\ \A r \in Requests : Awaits(d, r) => req[r].data = last[d]
    /\ ~local[d].dirty => \E entry \in Known : entry.data = last[d]

LastIsHeld == \A d \in Devices : Held(d)

Pursued(d) == local[d].dirty => timer[d] \/ flush[d] \/ Pushing(d) \/ failure[d] \/ ~online[d]

ClientInv == StoreInv /\ AnswersAreTrue /\ LastIsHeld /\ DirtyIsPursued

-----------------------------------------------------------------------------
(* Types.                                                                  *)

Docs    == [id : Nat, rev : Nat, data : Nat]
Bases   == [id : Nat, rev : Nat]
Request == [stage : Stages, op : Ops, device : Devices, data : Nat, base : Nat,
            basis : Bases, waiting : BOOLEAN, copy : Docs]

LEMMA AbsentType == Absent \in Docs
  BY DEF Absent, Docs

LEMMA BasisType ==
  ASSUME NEW d \in Docs
  PROVE  Basis(d) \in Bases
  BY DEF Basis, Docs, Bases

\* A slot is idle or holds a request.
LEMMA RequestType ==
  ASSUME TypeOK, NEW r \in Requests
  PROVE  req[r] = Idle \/ req[r] \in Request
  BY DEF TypeOK, Request, Docs, Bases

LEMMA BusyType ==
  ASSUME TypeOK, NEW r \in Requests, ~Busy(r, "idle")
  PROVE  req[r] \in Request
  BY RequestType DEF Busy, Idle

LEMMA SendType ==
  ASSUME TypeOK, NEW r \in Requests, NEW op \in Ops, NEW d \in Devices,
         NEW data \in Nat, NEW base \in Nat, NEW basis \in Bases,
         Send(r, op, d, data, base, basis)
  PROVE  req' \in [Requests -> {Idle} \cup Request] /\ sent' \in 0 .. MaxSent
<1>1. [stage |-> "sent", op |-> op, device |-> d, data |-> data, base |-> base,
       basis |-> basis, waiting |-> op = "push", copy |-> Absent] \in Request
  BY AbsentType DEF Request, Stages
<1>2. req \in [Requests -> {Idle} \cup Request]
  BY DEF TypeOK, Request, Docs, Bases
<1>3. sent' \in 0 .. MaxSent
  BY StoreAssumption DEF Send, TypeOK
<1> QED  BY <1>1, <1>2, <1>3 DEF Send

LEMMA AnswerType ==
  ASSUME TypeOK, NEW r \in Requests, req[r] \in Request, NEW stage \in Stages, NEW d \in Docs,
         Answer(r, stage, d)
  PROVE  req' \in [Requests -> {Idle} \cup Request]
<1>1. [req[r] EXCEPT !.stage = stage, !.copy = d] \in Request
  BY DEF Request
<1>2. req \in [Requests -> {Idle} \cup Request]
  BY DEF TypeOK, Request, Docs, Bases
<1> QED  BY <1>1, <1>2 DEF Answer

LEMMA FailType ==
  ASSUME TypeOK, NEW r \in Requests, req[r] \in Request, Fail(r)
  PROVE  req' \in [Requests -> {Idle} \cup Request]
  BY AnswerType, AbsentType DEF Fail, Stages

LEMMA LeftType ==
  ASSUME NEW request \in Request
  PROVE  Left(request) \in {Idle} \cup Request
<1>1. [request EXCEPT !.waiting = FALSE] \in Request
  BY DEF Request
<1> QED  BY <1>1 DEF Left

(* A maximum of numbers that have a bound.                                 *)
LEMMA LeastNumber ==
  ASSUME NEW S \in SUBSET Nat, S # {}
  PROVE  \E n \in S : \A m \in S : n <= m
<1> DEFINE upTo(n) == 1 .. n
           below == {upTo(n) : n \in S}
<1>1. \A n \in S : upTo(n) \in FiniteSubsetsOf(Nat)
  <2> SUFFICES ASSUME NEW n \in S PROVE upTo(n) \in FiniteSubsetsOf(Nat)
    OBVIOUS
  <2>1. n \in Int /\ upTo(n) \subseteq Nat
    OBVIOUS
  <2>2. IsFiniteSet(upTo(n))
    BY <2>1, FS_Interval
  <2> QED  BY <2>1, <2>2 DEF FiniteSubsetsOf
<1>2. below \subseteq FiniteSubsetsOf(Nat) /\ below # {}
  BY <1>1
<1>3. \E x \in below : \A y \in below : <<y, x>> \notin StrictSubsetOrdering(Nat)
  BY <1>2, FS_StrictSubsetOrderingWellFounded, WFMin
<1>4. PICK n \in S : \A m \in S : <<upTo(m), upTo(n)>> \notin StrictSubsetOrdering(Nat)
  BY <1>3
<1>5. SUFFICES ASSUME NEW m \in S, m < n PROVE FALSE
  BY <1>4
<1>6. n \in upTo(n) /\ n \notin upTo(m) /\ upTo(m) \subseteq upTo(n) /\ upTo(n) \subseteq Nat
  BY <1>5
<1>7. <<upTo(m), upTo(n)>> \in StrictSubsetOrdering(Nat)
  BY <1>6 DEF StrictSubsetOrdering
<1> QED  BY <1>4, <1>5, <1>7

LEMMA MaxOfBounded ==
  ASSUME NEW S \in SUBSET Nat, S # {}, NEW bound \in Nat, \A x \in S : x <= bound
  PROVE  Max(S) \in S /\ \A x \in S : x <= Max(S)
<1> DEFINE above == {n \in Nat : \A x \in S : x <= n}
<1>1. above \subseteq Nat /\ above # {}
  OBVIOUS
<1>2. PICK top \in above : \A n \in above : top <= n
  BY <1>1, LeastNumber
<1>3. top \in S
  <2> SUFFICES ASSUME top \notin S PROVE FALSE
    OBVIOUS
  <2>1. PICK s \in S : TRUE
    OBVIOUS
  <2>2. \A x \in S : x <= top - 1
    OBVIOUS
  <2>3. top - 1 \in above
    BY <2>1, <2>2
  <2> QED  BY <1>2, <2>3
<1>4. \E x \in S : \A y \in S : x >= y
  BY <1>3
<1>5. Max(S) \in S /\ \A y \in S : Max(S) >= y
  BY <1>4 DEF Max
<1> QED  BY <1>5

\* The id of a new document is the next after those in the log.
NewId == Max({entry.id : entry \in log} \cup {0}) + 1

LEMMA NewIdIsNew ==
  ASSUME TypeOK, IdsAreBounded
  PROVE  /\ NewId \in Nat /\ NewId > 0
         /\ \A entry \in log : entry.id < NewId
<1> DEFINE ids == {entry.id : entry \in log} \cup {0}
<1>1. ids \in SUBSET Nat /\ ids # {}
  BY DEF TypeOK
<1>2. PICK n \in Nat : \A entry \in log : entry.id <= n
  BY DEF IdsAreBounded
<1>3. \A x \in ids : x <= n
  BY <1>2
<1>4. Max(ids) \in ids /\ \A x \in ids : x <= Max(ids)
  BY <1>1, <1>3, MaxOfBounded
<1>5. Max(ids) \in Nat /\ \A entry \in log : entry.id \in Nat /\ entry.id <= Max(ids)
  BY <1>1, <1>4
<1>6. NewId = Max(ids) + 1
  BY DEF NewId
<1> HIDE DEF ids
<1> QED  BY <1>5, <1>6

LEMMA KeptIsHistory ==
  ASSUME NEW c
  PROVE  Kept(c) \subseteq history
  BY DEF Kept

LEMMA SameDocument ==
  ASSUME NEW x \in Docs, NEW y \in Docs, x.id = y.id, x.rev = y.rev, x.data = y.data
  PROVE  x = y
  BY DEF Docs

LEMMA Rewritten ==
  ASSUME NEW copy \in Docs, NEW rev \in Nat, NEW data \in Nat
  PROVE  [copy EXCEPT !.rev = rev, !.data = data] = [id |-> copy.id, rev |-> rev, data |-> data]
<1> DEFINE x == [copy EXCEPT !.rev = rev, !.data = data]
           y == [id |-> copy.id, rev |-> rev, data |-> data]
<1>1. x \in Docs
  BY DEF Docs
<1>2. y \in Docs
  BY DEF Docs
<1>3. x.id = y.id /\ x.rev = y.rev /\ x.data = y.data
  BY DEF Docs
<1> HIDE DEF x, y
<1>4. x = y
  BY <1>1, <1>2, <1>3, SameDocument
<1> QED  BY <1>4 DEF x, y

\* What a save or a restore makes of the copy that was loaded.
LEMMA NextRevision ==
  ASSUME NEW copy \in Docs, NEW data \in Nat
  PROVE  [copy EXCEPT !.rev = @ + 1, !.data = data]
           = [id |-> copy.id, rev |-> copy.rev + 1, data |-> data]
<1>1. copy.rev + 1 \in Nat
  BY DEF Docs
<1> QED  BY <1>1, Rewritten

\* The revision that a save or a restore adds, and the row that it leaves: what
\* it did not change stays as the row has it.
NextOf(copy, data) == [id |-> copy.id, rev |-> copy.rev + 1, data |-> data]
RowOf(copy, data) ==
  [id |-> copy.id, rev |-> copy.rev + 1, data |-> IF data = copy.data THEN doc.data ELSE data]

LEMMA ReplaceFails ==
  ASSUME NEW r \in Requests, req[r].copy \in Docs, NEW data \in Nat, NEW basis, NEW kept,
         Replace(r, data, basis, kept),
         doc.id # req[r].copy.id \/ Taken(req[r].copy.rev + 1)
  PROVE  Fail(r) /\ UNCHANGED <<doc, history, log, astray>>
<1> DEFINE new == [req[r].copy EXCEPT !.rev = @ + 1, !.data = data]
<1>1. new.rev = req[r].copy.rev + 1
  BY NextRevision
<1> QED  BY <1>1 DEF Replace

LEMMA ReplaceCommits ==
  ASSUME NEW r \in Requests, req[r].copy \in Docs, doc \in Docs, NEW data \in Nat, NEW basis,
         NEW kept, Replace(r, data, basis, kept),
         ~(doc.id # req[r].copy.id \/ Taken(req[r].copy.rev + 1))
  PROVE  LET copy == req[r].copy IN
         /\ doc' = RowOf(copy, data)
         /\ history' = kept \cup {Snapshot(NextOf(copy, data))}
         /\ Record(Entry(RowOf(copy, data), basis), Outlived(copy))
         /\ Answer(r, "saved", NextOf(copy, data))
<1> DEFINE copy == req[r].copy
           new == [copy EXCEPT !.rev = @ + 1, !.data = data]
           value == IF data = copy.data THEN doc.data ELSE data
           row == [new EXCEPT !.data = value]
<1>1. new = NextOf(copy, data)
  BY NextRevision DEF NextOf
<1>2. row = RowOf(copy, data)
  <2> HIDE DEF new, value
  <2>1. row = [id |-> copy.id, rev |-> copy.rev + 1, data |-> value]
    BY <1>1 DEF NextOf
  <2> QED  BY <2>1 DEF RowOf, value
<1>3. new.rev = copy.rev + 1
  BY <1>1 DEF NextOf
<1>4. doc' = row /\ history' = kept \cup {Snapshot(new)}
      /\ Record(Entry(row, basis), Outlived(copy)) /\ Answer(r, "saved", new)
  BY <1>3 DEF Replace
<1> QED  BY <1>1, <1>2, <1>4

\* The parts of the type invariant, for the actions that change few of them.
StoreTypes ==
  /\ doc \in Docs
  /\ history \subseteq [rev : Nat, data : Nat, named : BOOLEAN]
  /\ log \subseteq [id : Nat, rev : Nat, data : Nat, basis : Bases]
  /\ astray \subseteq [id : Nat, rev : Nat, data : Nat, basis : Bases]
RequestTypes ==
  /\ req \in [Requests -> {Idle} \cup Request]
  /\ sent \in 0 .. MaxSent
ClientTypes ==
  /\ local \in [Devices -> [data : Nat, rev : Nat, dirty : BOOLEAN, basis : Bases]]
  /\ saving \in [Devices -> [data : 0 .. MaxEdits, rev : Nat, basis : Bases]]
  /\ timer \in [Devices -> BOOLEAN] /\ flush \in [Devices -> BOOLEAN]
  /\ online \in [Devices -> BOOLEAN] /\ failure \in [Devices -> BOOLEAN]
  /\ loading \in [Devices -> Docs]
  /\ edits \in 0 .. MaxEdits /\ faults \in 0 .. MaxFaults
  /\ last \in [Devices -> 0 .. MaxEdits]
  /\ raced \in [Devices -> BOOLEAN]

LEMMA TypeParts == TypeOK <=> StoreTypes /\ RequestTypes /\ ClientTypes
  BY DEF TypeOK, StoreTypes, RequestTypes, ClientTypes, Docs, Bases, Request

LEMMA TypePartsNext == TypeOK' <=> StoreTypes' /\ RequestTypes' /\ ClientTypes'
  BY DEF TypeOK, StoreTypes, RequestTypes, ClientTypes, Docs, Bases, Request

LEMMA SendTypes ==
  ASSUME TypeOK, NEW r \in Requests, NEW op \in Ops, NEW d \in Devices,
         NEW data \in Nat, NEW base \in Nat, NEW basis \in Bases,
         Send(r, op, d, data, base, basis)
  PROVE  RequestTypes'
  BY SendType DEF RequestTypes

LEMMA TypeInit == Init => TypeOK /\ IdsAreBounded
<1> SUFFICES ASSUME Init PROVE TypeOK /\ IdsAreBounded
  OBVIOUS
<1> USE DEF Init, StoreInit
<1>1. StoreTypes /\ IdsAreBounded
  BY AbsentType DEF StoreTypes, IdsAreBounded
<1>2. RequestTypes
  BY StoreAssumption DEF RequestTypes
<1>3. ClientTypes
  BY BoundsAssumption, AbsentType DEF ClientTypes, NoCopy, NoBasis, NotSaving, Bases
<1> QED  BY <1>1, <1>2, <1>3, TypeParts

(* What the handlers do: the clients' variables are left alone.            *)
LEMMA HandleTypes ==
  ASSUME TypeOK, IdsAreBounded, NEW r \in Requests, Handle(r)
  PROVE  StoreTypes' /\ RequestTypes' /\ IdsAreBounded'
<1> USE TypeParts
<1>0. doc \in Docs /\ Absent \in Docs
  BY AbsentType DEF StoreTypes
<1>a. ~Busy(r, "idle") /\ req[r] \in Request
  BY BusyType DEF Handle, PushLoad, TargetLoad, Create, Save, Restore, Label, Delete, Busy
<1>b. req[r].copy \in Docs /\ req[r].basis \in Bases /\ req[r].data \in Nat
  BY <1>a DEF Request
<1>1. CASE PushLoad(r)
  <2>1. CASE Conflicts(r)
    BY <1>0, <1>a, <1>1, <2>1, AnswerType DEF PushLoad, Stages, RequestTypes, StoreTypes, IdsAreBounded
  <2>2. CASE ~Conflicts(r)
    <3>1. [req[r] EXCEPT !.stage = "loaded", !.copy = doc] \in Request
      BY <1>0, <1>a DEF Request, Stages
    <3>2. req' = [req EXCEPT ![r] = [req[r] EXCEPT !.stage = "loaded", !.copy = doc]]
      BY <1>1, <2>2 DEF PushLoad, RequestTypes
    <3> QED  BY <1>1, <3>1, <3>2 DEF PushLoad, RequestTypes, StoreTypes, IdsAreBounded
  <2> QED  BY <2>1, <2>2
<1>2. CASE TargetLoad(r)
  <2>1. CASE doc = Absent
    BY <1>0, <1>a, <1>2, <2>1, FailType DEF TargetLoad, RequestTypes, StoreTypes, IdsAreBounded
  <2>2. CASE doc # Absent
    <3>1. PICK h \in history :
            req' = [req EXCEPT ![r].stage = "loaded", ![r].copy = doc,
                               ![r].data = h.data, ![r].base = h.rev]
      BY <1>2, <2>2 DEF TargetLoad
    <3>2. h.data \in Nat /\ h.rev \in Nat
      BY DEF StoreTypes
    <3>3. [req[r] EXCEPT !.stage = "loaded", !.copy = doc, !.data = h.data, !.base = h.rev] \in Request
      BY <1>0, <1>a, <3>2 DEF Request, Stages
    <3>4. req' = [req EXCEPT ![r] =
                    [req[r] EXCEPT !.stage = "loaded", !.copy = doc, !.data = h.data, !.base = h.rev]]
      BY <3>1 DEF RequestTypes
    <3> QED  BY <1>2, <3>3, <3>4 DEF TargetLoad, RequestTypes, StoreTypes, IdsAreBounded
  <2> QED  BY <2>1, <2>2
<1>3. CASE Create(r)
  <2>1. CASE doc # Absent
    BY <1>0, <1>a, <1>3, <2>1, FailType DEF Create, RequestTypes, StoreTypes, IdsAreBounded
  <2>2. CASE doc = Absent
    <3>1. doc' = [id |-> NewId, rev |-> 1, data |-> req[r].data]
      BY <1>3, <2>2 DEF Create, NewId
    <3>2. doc' \in Docs /\ doc'.id = NewId /\ NewId \in Nat
      BY <1>b, <3>1, NewIdIsNew DEF Docs
    <3>3. history' = {Snapshot(doc')} /\ log' = log \cup {Entry(doc', req[r].basis)}
          /\ astray' = astray /\ Answer(r, "saved", doc') /\ sent' = sent
      BY <1>3, <2>2 DEF Create
    <3>4. StoreTypes'
      BY <1>b, <3>2, <3>3 DEF StoreTypes, Snapshot, Entry, Docs
    <3>5. IdsAreBounded'
      <4>1. \A entry \in log' : entry.id <= NewId
        BY <3>2, <3>3, NewIdIsNew DEF Entry, StoreTypes
      <4> QED  BY <3>2, <4>1 DEF IdsAreBounded
    <3>6. RequestTypes'
      BY <1>a, <3>2, <3>3, AnswerType DEF RequestTypes, Stages
    <3> QED  BY <3>4, <3>5, <3>6
  <2> QED  BY <2>1, <2>2
<1>4. ASSUME NEW data \in Nat, NEW basis \in Bases, NEW kept, kept \subseteq history,
             Replace(r, data, basis, kept), sent' = sent
      PROVE  StoreTypes' /\ RequestTypes' /\ IdsAreBounded'
  <2> DEFINE new == NextOf(req[r].copy, data)
             row == RowOf(req[r].copy, data)
  <2>1. CASE doc.id # req[r].copy.id \/ Taken(req[r].copy.rev + 1)
    <3>1. Fail(r) /\ UNCHANGED <<doc, history, log, astray>>
      BY <1>b, <1>4, <2>1, ReplaceFails
    <3> QED  BY <1>0, <1>a, <1>4, <3>1, FailType DEF RequestTypes, StoreTypes, IdsAreBounded
  <2>2. CASE ~(doc.id # req[r].copy.id \/ Taken(req[r].copy.rev + 1))
    <3>1. new \in Docs /\ row \in Docs
      BY <1>0, <1>b, <1>4 DEF NextOf, RowOf, Docs
    <3>2. doc' = row /\ history' = kept \cup {Snapshot(new)} /\ Answer(r, "saved", new)
          /\ Record(Entry(row, basis), Outlived(req[r].copy))
      BY <1>0, <1>b, <1>4, <2>2, ReplaceCommits
    <3>3. Snapshot(new) \in [rev : Nat, data : Nat, named : BOOLEAN]
      BY <3>1 DEF Snapshot, Docs
    <3>4. Entry(row, basis) \in [id : Nat, rev : Nat, data : Nat, basis : Bases]
      BY <1>4, <3>1 DEF Entry, Docs
    <3> HIDE DEF new, row
    <3>5. /\ log' = log \/ log' = log \cup {Entry(row, basis)}
          /\ astray' = astray \/ astray' = astray \cup {Entry(row, basis)}
      BY <3>2 DEF Record
    <3>6. StoreTypes'
      BY <1>4, <3>1, <3>2, <3>3, <3>4, <3>5 DEF StoreTypes
    <3>7. IdsAreBounded'
      <4>1. PICK n \in Nat : \A entry \in log : entry.id <= n
        BY DEF IdsAreBounded
      <4>2. PICK m \in Nat : m >= n /\ m >= row.id
        <5>1. row.id \in Nat
          BY <3>1 DEF Docs
        <5>2. n >= row.id \/ row.id >= n
          BY <5>1
        <5> QED  BY <5>1, <5>2
      <4>3. \A entry \in log : entry.id \in Nat
        BY DEF StoreTypes
      <4>4. \A entry \in log' : entry.id <= m
        BY <3>1, <3>5, <4>1, <4>2, <4>3 DEF Entry, Docs
      <4> QED  BY <4>4 DEF IdsAreBounded
    <3>8. RequestTypes'
      BY <1>a, <1>4, <3>1, <3>2, AnswerType DEF RequestTypes, Stages
    <3> QED  BY <3>6, <3>7, <3>8
  <2> QED  BY <2>1, <2>2
<1>5. CASE Save(r)
  <2>1. PICK c \in Cutoffs : Replace(r, req[r].data, req[r].basis, Kept(c))
    BY <1>5 DEF Save
  <2>2. Kept(c) \subseteq history /\ sent' = sent
    BY <1>5, KeptIsHistory DEF Save
  <2> QED  BY <1>b, <1>4, <2>1, <2>2
<1>6. CASE Restore(r)
  BY <1>b, <1>4, <1>6, BasisType DEF Restore
<1>7. CASE Label(r)
  <2>1. CASE doc.id # req[r].copy.id \/ ~Taken(req[r].base)
    BY <1>0, <1>a, <1>7, <2>1, FailType DEF Label, RequestTypes, StoreTypes, IdsAreBounded
  <2>2. CASE ~(doc.id # req[r].copy.id \/ ~Taken(req[r].base))
    <3>1. PICK named \in BOOLEAN :
            /\ history' = {IF h.rev = req[r].base THEN [h EXCEPT !.named = named] ELSE h
                              : h \in history}
            /\ Answer(r, "saved", doc)
      BY <1>7, <2>2 DEF Label
    <3>2. \A h \in history : [h EXCEPT !.named = named] \in [rev : Nat, data : Nat, named : BOOLEAN]
      BY DEF StoreTypes
    <3>3. StoreTypes'
      BY <1>7, <3>1, <3>2 DEF Label, StoreTypes
    <3> QED  BY <1>0, <1>a, <1>7, <3>1, <3>3, AnswerType DEF Label, RequestTypes, IdsAreBounded, Stages
  <2> QED  BY <2>1, <2>2
<1>8. CASE Delete(r)
  <2>1. CASE doc.id # req[r].copy.id
    BY <1>0, <1>a, <1>8, <2>1, AnswerType, AbsentType DEF Delete, RequestTypes, StoreTypes, IdsAreBounded, Stages
  <2>2. CASE doc.id = req[r].copy.id
    <3>1. Answer(r, "saved", Absent) /\ doc' = Absent /\ history' = {} /\ log' = log /\ astray' = astray /\ sent' = sent
      BY <1>8, <2>2 DEF Delete
    <3> QED  BY <1>0, <1>a, <3>1, AnswerType, AbsentType DEF RequestTypes, StoreTypes, IdsAreBounded, Stages
  <2> QED  BY <2>1, <2>2
<1> QED  BY <1>1, <1>2, <1>3, <1>5, <1>6, <1>7, <1>8 DEF Handle

LEMMA DisturbedType ==
  ASSUME ClientTypes, Disturbed
  PROVE  faults' \in 0 .. MaxFaults
  BY BoundsAssumption DEF ClientTypes, Disturbed

LEMMA PushOrSkipTypes ==
  ASSUME TypeOK, NEW d \in Devices, PushOrSkip(d)
  PROVE  RequestTypes'
<1> USE TypeParts
<1>1. CASE local[d].dirty /\ online[d]
  <2>1. PICK r \in Requests : Send(r, "push", d, local[d].data, local[d].rev, local[d].basis)
    BY <1>1 DEF PushOrSkip
  <2>2. local[d].data \in Nat /\ local[d].rev \in Nat /\ local[d].basis \in Bases
    BY DEF ClientTypes
  <2>3. "push" \in Ops
    BY DEF Ops
  <2> QED  BY <2>1, <2>2, <2>3, SendTypes
<1>2. CASE ~(local[d].dirty /\ online[d])
  BY <1>2 DEF PushOrSkip, RequestTypes
<1> QED  BY <1>1, <1>2

LEMMA CopyType ==
  ASSUME NEW data \in Nat, NEW c \in Docs, NEW dirty \in BOOLEAN
  PROVE  [data |-> data, rev |-> c.rev, dirty |-> dirty, basis |-> Basis(c)]
           \in [data : Nat, rev : Nat, dirty : BOOLEAN, basis : Bases]
  BY BasisType DEF Docs

(* What the browsers do.                                                   *)
LEMMA ClientStepTypes ==
  ASSUME TypeOK, NEW d \in Devices, Client(d)
  PROVE  TypeOK' /\ UNCHANGED <<doc, history, log, astray>>
<1> USE TypeParts, TypePartsNext
<1>0. Absent \in Docs /\ NoBasis \in Bases /\ 0 \in 0 .. MaxEdits
  BY AbsentType, BoundsAssumption DEF NoBasis, Bases
<1>a. UNCHANGED <<doc, history, log, astray>> => StoreTypes'
  BY DEF StoreTypes
<1>b. UNCHANGED <<req, sent>> => RequestTypes'
  BY DEF RequestTypes
<1>c. NotSaving \in [data : 0 .. MaxEdits, rev : Nat, basis : Bases]
  BY <1>0 DEF NotSaving
<1>1. CASE EditRead(d)
  <2>1. [data |-> edits', rev |-> local[d].rev, basis |-> local[d].basis]
          \in [data : 0 .. MaxEdits, rev : Nat, basis : Bases] /\ edits' \in 0 .. MaxEdits
    BY <1>1, BoundsAssumption DEF EditRead, ClientTypes
  <2>2. ClientTypes'
    BY <1>1, <2>1 DEF EditRead, ClientTypes
  <2> QED  BY <1>1, <1>a, <1>b, <2>2 DEF EditRead, storeVars
<1>2. CASE EditWrite(d)
  <2>1. [data |-> saving[d].data, rev |-> saving[d].rev, dirty |-> TRUE, basis |-> saving[d].basis]
          \in [data : Nat, rev : Nat, dirty : BOOLEAN, basis : Bases]
    BY DEF ClientTypes
  <2>2. ClientTypes'
    <3>1. local' \in [Devices -> [data : Nat, rev : Nat, dirty : BOOLEAN, basis : Bases]]
      BY <1>2, <2>1 DEF EditWrite, ClientTypes
    <3>2. raced' \in [Devices -> BOOLEAN]
      BY <1>2 DEF EditWrite, ClientTypes, Pushing
    <3>3. saving' \in [Devices -> [data : 0 .. MaxEdits, rev : Nat, basis : Bases]]
      BY <1>2, <1>c DEF EditWrite, ClientTypes
    <3> QED  BY <1>2, <3>1, <3>2, <3>3 DEF EditWrite, ClientTypes
  <2> QED  BY <1>2, <1>a, <1>b, <2>2 DEF EditWrite, storeVars
<1>3. CASE TimerFires(d)
  <2>1. RequestTypes'
    BY <1>3, PushOrSkipTypes DEF TimerFires
  <2> QED  BY <1>3, <1>a, <2>1 DEF TimerFires, ClientTypes
<1>4. CASE FlushPending(d)
  <2>1. RequestTypes'
    BY <1>4, PushOrSkipTypes DEF FlushPending
  <2> QED  BY <1>4, <1>a, <2>1 DEF FlushPending, ClientTypes
<1>5. ASSUME NEW r \in Requests, PushSaved(d, r)
      PROVE  TypeOK' /\ UNCHANGED <<doc, history, log, astray>>
  <2>1. req[r] \in Request
    BY <1>5, BusyType DEF PushSaved, Awaits
  <2>2. [data |-> req[r].data, rev |-> req[r].copy.rev, dirty |-> FALSE, basis |-> Basis(req[r].copy)]
          \in [data : Nat, rev : Nat, dirty : BOOLEAN, basis : Bases]
    BY <2>1, CopyType DEF Request
  <2>3. RequestTypes'
    BY <1>5 DEF PushSaved, Freed, RequestTypes
  <2>4. ClientTypes'
    BY <1>5, <2>2 DEF PushSaved, ClientTypes
  <2> QED  BY <1>5, <1>a, <2>3, <2>4 DEF PushSaved
<1>6. ASSUME NEW r \in Requests, PushRefused(d, r)
      PROVE  TypeOK' /\ UNCHANGED <<doc, history, log, astray>>
  <2>1. req[r] \in Request
    BY <1>6, BusyType DEF PushRefused, Awaits
  <2>2. Left(req[r]) \in {Idle} \cup Request
    BY <2>1, LeftType
  <2>3. RequestTypes'
    BY <1>6, <2>2 DEF PushRefused, RequestTypes
  <2> QED  BY <1>6, <1>a, <2>3 DEF PushRefused, ClientTypes
<1>7. CASE LoadStart(d)
  BY <1>7, <1>a, <1>b DEF LoadStart, storeVars, ClientTypes, StoreTypes
<1>8. CASE LoadAnswer(d)
  <2>1. [data |-> loading[d].data, rev |-> loading[d].rev, dirty |-> FALSE, basis |-> Basis(loading[d])]
          \in [data : Nat, rev : Nat, dirty : BOOLEAN, basis : Bases]
    <3>1. loading[d] \in Docs /\ loading[d].data \in Nat
      BY DEF ClientTypes, Docs
    <3> QED  BY <3>1, CopyType
  <2>2. ClientTypes'
    BY <1>0, <1>8, <2>1 DEF LoadAnswer, ClientTypes
  <2> QED  BY <1>8, <1>a, <1>b, <2>2 DEF LoadAnswer, storeVars
<1>9. CASE Forget(d)
  <2>1. NoCopy \in [data : Nat, rev : Nat, dirty : BOOLEAN, basis : Bases]
    BY <1>0 DEF NoCopy
  <2>2. ClientTypes'
    BY <1>0, <1>9, <2>1, DisturbedType DEF Forget, ClientTypes
  <2> QED  BY <1>9, <1>a, <1>b, <2>2 DEF Forget, storeVars
<1>10. CASE GoOffline(d)
  <2>1. ClientTypes'
    BY <1>10, DisturbedType DEF GoOffline, ClientTypes
  <2> QED  BY <1>10, <1>a, <1>b, <2>1 DEF GoOffline, storeVars
<1>11. CASE GoOnline(d)
  BY <1>11, <1>a, <1>b DEF GoOnline, storeVars, ClientTypes
<1>12. CASE Reload(d)
  <2>1. \A r \in Requests : (IF Awaits(d, r) THEN Left(req[r]) ELSE req[r]) \in {Idle} \cup Request
    BY BusyType, LeftType DEF Awaits, RequestTypes
  <2>2. RequestTypes'
    BY <1>12, <2>1 DEF Reload, RequestTypes
  <2>3. ClientTypes'
    BY <1>0, <1>c, <1>12, DisturbedType DEF Reload, ClientTypes
  <2> QED  BY <1>12, <1>a, <2>2, <2>3 DEF Reload
<1>13. CASE Manage(d)
  <2>1. PICK r \in Requests, op \in Ops : Send(r, op, d, 0, 0, NoBasis)
    BY <1>13 DEF Manage
  <2>2. RequestTypes'
    BY <1>0, <2>1, SendTypes
  <2> QED  BY <1>13, <1>a, <2>2 DEF Manage, clientVars, ClientTypes
<1> QED  BY <1>1, <1>2, <1>3, <1>4, <1>5, <1>6, <1>7, <1>8, <1>9, <1>10, <1>11, <1>12, <1>13 DEF Client

LEMMA TypeStep == TypeOK /\ IdsAreBounded /\ [Next]_vars => TypeOK' /\ IdsAreBounded'
<1> SUFFICES ASSUME TypeOK, IdsAreBounded, [Next]_vars PROVE TypeOK' /\ IdsAreBounded'
  OBVIOUS
<1>1. CASE \E d \in Devices : Client(d)
  <2>1. TypeOK' /\ UNCHANGED log
    BY <1>1, ClientStepTypes
  <2> QED  BY <2>1 DEF IdsAreBounded
<1>2. ASSUME NEW r \in Requests, Server(r) PROVE TypeOK' /\ IdsAreBounded'
  <2>1. StoreTypes' /\ RequestTypes' /\ IdsAreBounded'
    BY <1>2, HandleTypes DEF Server
  <2>2. ClientTypes'
    BY <1>2, TypeParts, TypePartsNext DEF Server, clientVars, ClientTypes
  <2> QED  BY <2>1, <2>2, TypeParts, TypePartsNext
<1>3. ASSUME NEW r \in Requests, Break(r) PROVE TypeOK' /\ IdsAreBounded'
  <2>1. ~Busy(r, "idle") /\ Fail(r) /\ Disturbed
    BY <1>3 DEF Break, Drop, Busy
  <2>2. RequestTypes'
    BY <1>3, <2>1, BusyType, FailType, TypeParts, TypePartsNext DEF Break, Drop, RequestTypes
  <2>3. ClientTypes'
    BY <1>3, <2>1, DisturbedType, TypeParts, TypePartsNext DEF Break, ClientTypes
  <2> QED  BY <1>3, <2>2, <2>3, TypeParts, TypePartsNext DEF Break, Drop, StoreTypes, IdsAreBounded
<1>4. CASE UNCHANGED vars
  BY <1>4, TypeParts, TypePartsNext DEF vars, storeVars, clientVars, StoreTypes, RequestTypes, ClientTypes, IdsAreBounded
<1> QED  BY <1>1, <1>2, <1>3, <1>4 DEF Next

(* Every variable keeps its type, in the store and on the devices.         *)
THEOREM TypeCorrect == Spec => []TypeOK
<1>1. Spec => [](TypeOK /\ IdsAreBounded)
  BY TypeInit, TypeStep, PTL DEF Spec
<1> QED  BY <1>1, PTL

-----------------------------------------------------------------------------
(* The store: what each step does to the handlers.                         *)

Ended == {"saved", "conflict", "failed"}

\* A handler that ends commits no more, and all others are as before.
LEMMA AnswerEffect ==
  ASSUME TypeOK, NEW r \in Requests, ~Busy(r, "idle"), NEW stage \in Ended, NEW d \in Docs,
         Answer(r, stage, d)
  PROVE  /\ \A q \in Requests : q # r => req'[q] = req[q]
         /\ req'[r] = Idle \/ req'[r] = [req[r] EXCEPT !.stage = stage, !.copy = d]
         /\ req'[r].stage \notin {"sent", "loaded"}
         /\ req[r] \in Request
<1>1. req[r] \in Request
  BY BusyType
<1>2. req \in [Requests -> {Idle} \cup Request]
  BY TypeParts DEF RequestTypes
<1>3. req'[r] = Idle \/ req'[r] = [req[r] EXCEPT !.stage = stage, !.copy = d]
  BY <1>2 DEF Answer
<1>4. req'[r].stage \notin {"sent", "loaded"}
  <2>1. CASE req'[r] = Idle
    BY <2>1 DEF Idle
  <2>2. CASE req'[r] = [req[r] EXCEPT !.stage = stage, !.copy = d]
    <3>1. req'[r].stage = stage
      BY <1>1, <2>2 DEF Request
    <3> QED  BY <3>1 DEF Ended
  <2> QED  BY <1>3, <2>1, <2>2
<1>5. \A q \in Requests : q # r => req'[q] = req[q]
  BY <1>2 DEF Answer
<1> QED  BY <1>1, <1>3, <1>4, <1>5

LEMMA SendEffect ==
  ASSUME TypeOK, NEW r \in Requests, NEW op, NEW d, NEW data, NEW base,
         NEW basis, Send(r, op, d, data, base, basis)
  PROVE  /\ \A q \in Requests : q # r => req'[q] = req[q]
         /\ req'[r] = [stage |-> "sent", op |-> op, device |-> d, data |-> data, base |-> base,
                       basis |-> basis, waiting |-> op = "push", copy |-> Absent]
<1>1. req \in [Requests -> {Idle} \cup Request]
  BY TypeParts DEF RequestTypes
<1> QED  BY <1>1 DEF Send

\* The document that a copy is of was made, under an id of its own.
LEMMA CopyIsOfADocument ==
  ASSUME StoreInv, NEW r \in Requests, Busy(r, "loaded"), req[r].copy # Absent
  PROVE  /\ req[r] \in Request /\ req[r].copy \in Docs /\ doc \in Docs
         /\ req[r].copy.id \in Nat /\ req[r].copy.id > 0
         /\ req[r].copy.rev \in Nat /\ req[r].copy.rev > 0
         /\ \E entry \in log : entry.id = req[r].copy.id
<1>1. req[r] \in Request /\ ~Busy(r, "idle")
  BY BusyType DEF StoreInv, Busy
<1>2. req[r].copy \in Docs /\ doc \in Docs
  BY <1>1, TypeParts DEF StoreInv, StoreTypes, Request
<1>3. Shaped(req[r].copy)
  BY <1>1 DEF StoreInv, BasesAreTold
<1>4. PICK entry \in Known : Bare(entry) = req[r].copy
  BY DEF StoreInv, CopiesAreGuarded
<1>5. entry.id = req[r].copy.id
  BY <1>4 DEF Bare
<1>6. \E old \in log : old.id = req[r].copy.id
  BY <1>5 DEF Known, StoreInv, LogIsThePast
<1> QED  BY <1>1, <1>2, <1>3, <1>6 DEF Shaped, Docs

\* The row, and whether it has gone astray.
LEMMA RowIsLogged ==
  ASSUME StoreInv
  PROVE  /\ doc \in Docs /\ doc.id \in Nat /\ doc.rev \in Nat
         /\ doc # Absent => \E entry \in log : entry.id = doc.id
         /\ ~Astray /\ doc # Absent => \E entry \in log : Bare(entry) = doc
         /\ Astray => doc # Absent /\ doc.id > 0
<1>1. doc \in Docs /\ doc.id \in Nat /\ doc.rev \in Nat
  BY TypeParts DEF StoreInv, StoreTypes, Docs
<1>2. ASSUME doc # Absent
      PROVE  /\ \E entry \in log : entry.id = doc.id
             /\ ~Astray => \E entry \in log : Bare(entry) = doc
  <2>1. PICK entry \in Known : Bare(entry) = doc
    BY <1>2 DEF StoreInv, LogIsThePast
  <2>2. entry.id = doc.id
    BY <2>1 DEF Bare
  <2>3. entry \in log \/ (entry \in astray /\ Astray)
    BY <2>2 DEF Known, Astray
  <2>4. entry \in astray => \E old \in log : old.id = doc.id
    BY <2>2 DEF StoreInv, LogIsThePast
  <2> QED  BY <2>1, <2>2, <2>3, <2>4
<1>3. ASSUME Astray PROVE doc # Absent /\ doc.id > 0
  <2>1. PICK entry \in astray : entry.id = doc.id
    BY <1>3 DEF Astray
  <2>2. doc.id > 0
    BY <2>1 DEF StoreInv, LogIsThePast
  <2> QED  BY <2>2 DEF Absent
<1> QED  BY <1>1, <1>2, <1>3

\* A commit that the unique key lets through, while the copy is guarded, is
\* from the current state.
LEMMA CopyIsCurrent ==
  ASSUME StoreInv, NEW r \in Requests, Busy(r, "loaded"), req[r].copy # Absent,
         doc.id = req[r].copy.id, ~Taken(req[r].copy.rev + 1),
         ~Astray, ~Outlived(req[r].copy)
  PROVE  req[r].copy = doc /\ doc # Absent
<1>1. req[r].copy \in Docs /\ doc \in Docs /\ req[r].copy.id > 0
  BY CopyIsOfADocument
<1>2. Guarded(req[r].copy)
  BY DEF StoreInv, CopiesAreGuarded
<1>3. req[r].copy.rev \in Nat /\ doc.rev \in Nat
  BY <1>1 DEF Docs
<1> QED  BY <1>1, <1>2, <1>3 DEF Guarded, Absent

\* No revision of the history is ahead of the row.
LEMMA HistoryIsBehind ==
  ASSUME StoreInv, ~Astray, NEW h \in history
  PROVE  h.rev \in Nat /\ h.rev > 0 /\ h.rev <= doc.rev /\ doc.rev \in Nat
<1>1. PICK entry \in log : Bare(entry) = [id |-> doc.id, rev |-> h.rev, data |-> h.data]
  BY DEF StoreInv, HistoryIsTrue
<1>2. entry.id = doc.id /\ entry.rev = h.rev
  BY <1>1 DEF Bare
<1>3. doc.rev \in Nat /\ h.rev \in Nat
  BY TypeParts DEF StoreInv, StoreTypes, Docs
<1> QED  BY <1>2, <1>3 DEF StoreInv, LogIsThePast

(* Pruning spares the revision that guards another handler's copy: it is   *)
(* not too old, and fewer than MaxUnnamed revisions came after it.         *)
LEMMA GuardIsKept ==
  ASSUME StoreInv, ~Astray, NEW q \in Requests, Busy(q, "loaded"),
         req[q].copy # Absent, req[q].copy.id = doc.id, req[q].copy.rev < doc.rev,
         doc.rev <= req[q].copy.rev + MaxUnnamed,
         NEW c \in Cutoffs
  PROVE  \E h \in Kept(c) : h.rev = req[q].copy.rev + 1
<1>1. req[q].copy \in Docs /\ req[q].copy.rev > 0 /\ doc \in Docs /\ req[q].copy.rev \in Nat
  BY CopyIsOfADocument
<1>a. MaxUnnamed \in Nat /\ doc.rev \in Nat
  BY <1>1, StoreAssumption DEF Docs
<1>2. PICK h \in history : h.rev = req[q].copy.rev + 1
  <2>1. ~Outlived(req[q].copy)
    BY <1>1, <1>a DEF Outlived
  <2> QED  BY <2>1 DEF StoreInv, CopiesAreGuarded, Guarded, Taken
<1>3. c <= h.rev /\ c \in Nat
  BY <1>1, <1>a, <1>2 DEF Cutoffs, Docs
<1> DEFINE young == {g \in history : g.named \/ g.rev >= c}
           unnamed == {g \in young : ~g.named}
           above == {i \in unnamed : i.rev > h.rev}
<1>4. h \in young
  BY <1>1, <1>2, <1>3
<1>5. CASE h.named
  BY <1>2, <1>4, <1>5 DEF Kept
<1>6. CASE ~h.named
  <2>1. doc.rev \in Nat /\ h.rev \in Nat /\ h.rev <= doc.rev
    BY HistoryIsBehind
  <2> DEFINE room == (h.rev + 1) .. doc.rev
             f == [i \in above |-> i.rev]
  <2>2. IsFiniteSet(room) /\ Cardinality(room) <= doc.rev - h.rev
    <3>1. h.rev + 1 \in Int /\ doc.rev \in Int
      BY <2>1
    <3>2. /\ IsFiniteSet(room)
          /\ Cardinality(room) = IF h.rev + 1 > doc.rev THEN 0 ELSE doc.rev - (h.rev + 1) + 1
      BY <3>1, FS_Interval
    <3> QED  BY <2>1, <3>2
  <2>3. f \in [above -> room]
    <3>1. \A i \in above : i.rev \in room
      BY <2>1, HistoryIsBehind
    <3> QED  BY <3>1
  <2>4. \A i, j \in above : f[i] = f[j] => i = j
    BY DEF StoreInv, HistoryIsTrue
  <2>5. f \in Injection(above, room)
    BY <2>3, <2>4 DEF Injection, IsInjective
  <2>6. IsFiniteSet(above) /\ Cardinality(above) <= Cardinality(room)
    BY <2>2, <2>5, FS_Injection
  <2>7. Cardinality(above) < MaxUnnamed
    <3>1. Cardinality(above) \in Nat /\ Cardinality(room) \in Nat
      BY <2>2, <2>6, FS_CardinalityType
    <3>2. doc.rev - h.rev < MaxUnnamed
      BY <1>1, <1>a, <1>2, <2>1
    <3> QED  BY <1>a, <2>1, <2>2, <2>6, <3>1, <3>2
  <2>8. h \in Kept(c)
    BY <1>4, <1>6, <2>7 DEF Kept
  <2> QED  BY <1>2, <2>8
<1> QED  BY <1>5, <1>6

-----------------------------------------------------------------------------
(* The store: the invariant.                                               *)

\* A request that ends, or was answered, keeps what it was derived from.
LEMMA AnsweredBases ==
  ASSUME BasesAreTold, NEW r \in Requests, ~Busy(r, "idle"), req[r] \in Request, NEW stage \in Ended, NEW d \in Docs,
         Shaped(d), Shaped(doc'), UNCHANGED <<local, saving, loading>>,
         \A q \in Requests : q # r => req'[q] = req[q],
         req'[r] = Idle \/ req'[r] = [req[r] EXCEPT !.stage = stage, !.copy = d]
  PROVE  BasesAreTold'
<1>1. ASSUME NEW q \in Requests, req'[q].stage # "idle"
      PROVE  Shaped(req'[q].copy) /\ (req'[q].op = "push" => Derived(req'[q].base, req'[q].basis))
  <2>1. CASE q # r
    BY <1>1, <2>1 DEF BasesAreTold, Busy
  <2>2. CASE q = r
    <3>1. req'[r] = [req[r] EXCEPT !.stage = stage, !.copy = d]
      BY <1>1, <2>2 DEF Idle
    <3>2. req'[r].copy = d /\ req'[r].op = req[r].op /\ req'[r].base = req[r].base
          /\ req'[r].basis = req[r].basis
      BY <3>1 DEF Request
    <3> QED  BY <2>2, <3>2 DEF BasesAreTold
  <2> QED  BY <2>1, <2>2
<1>2. \A d2 \in Devices : /\ Derived(local'[d2].rev, local'[d2].basis)
                          /\ Derived(saving'[d2].rev, saving'[d2].basis)
                          /\ Shaped(loading'[d2])
  BY DEF BasesAreTold
<1> QED  BY <1>1, <1>2 DEF BasesAreTold, Busy, Shaped, Derived

LEMMA StoredIsSame ==
  ASSUME StoreInv, UNCHANGED <<doc, history, log, astray>>
  PROVE  LogIsThePast' /\ HistoryGoesWithTheRow' /\ HistoryIsTrue' /\ NoBlindOverwrite'
<1>1. LogIsThePast'
  BY DEF StoreInv, LogIsThePast, Known, Astray
<1>2. HistoryGoesWithTheRow'
  BY DEF StoreInv, HistoryGoesWithTheRow
<1>3. HistoryIsTrue'
  BY DEF StoreInv, HistoryIsTrue, Astray
<1>4. NoBlindOverwrite'
  BY DEF StoreInv, NoBlindOverwrite
<1> QED  BY <1>1, <1>2, <1>3, <1>4

LEMMA EndStep ==
  ASSUME StoreInv, TypeOK', IdsAreBounded', NEW r \in Requests, ~Busy(r, "idle"),
         NEW stage \in Ended, NEW d \in Docs,
         Shaped(d), Answer(r, stage, d), UNCHANGED <<doc, history, log, astray, sent, local, saving, loading>>
  PROVE  StoreInv'
<1>1. /\ \A q \in Requests : q # r => req'[q] = req[q]
      /\ req'[r] = Idle \/ req'[r] = [req[r] EXCEPT !.stage = stage, !.copy = d]
      /\ req'[r].stage \notin {"sent", "loaded"}
      /\ req[r] \in Request
  BY AnswerEffect DEF StoreInv
<1>2. LogIsThePast' /\ HistoryGoesWithTheRow' /\ HistoryIsTrue' /\ NoBlindOverwrite'
  BY StoredIsSame
<1>3. CopiesAreGuarded'
  BY <1>1 DEF StoreInv, CopiesAreGuarded, Guarded, Outlived, Astray, Known, Busy, Taken
<1>4. BasesAreTold'
  BY <1>1, AnsweredBases DEF StoreInv, BasesAreTold
<1> QED  BY <1>2, <1>3, <1>4 DEF StoreInv

LEMMA FailStep ==
  ASSUME StoreInv, TypeOK', IdsAreBounded', NEW r \in Requests, ~Busy(r, "idle"), Fail(r),
         UNCHANGED <<doc, history, log, astray, sent, local, saving, loading>>
  PROVE  StoreInv'
  BY EndStep, AbsentType DEF Fail, Ended, Shaped

\* What every commit of a save or a restore leaves alone.
LEMMA CommitKeeps ==
  ASSUME StoreInv, UNCHANGED <<local, saving, loading>>,
         NEW r \in Requests, Busy(r, "loaded"), req[r].copy # Absent,
         NEW data \in Nat, NEW kept \in SUBSET history,
         ~Taken(req[r].copy.rev + 1), doc.id = req[r].copy.id,
         doc' = RowOf(req[r].copy, data),
         history' = kept \cup {Snapshot(NextOf(req[r].copy, data))},
         Answer(r, "saved", NextOf(req[r].copy, data))
  PROVE  /\ doc'.id = doc.id /\ doc' # Absent /\ doc'.rev = req[r].copy.rev + 1
         /\ \A g, h \in history' : g.rev = h.rev => g = h
         /\ BasesAreTold'
         /\ \A q \in Requests : req'[q].stage = "loaded" =>
              q # r /\ req'[q] = req[q] /\ Busy(q, "loaded")
<1> DEFINE new == NextOf(req[r].copy, data)
<1>0. ~Busy(r, "idle") /\ "saved" \in Ended
  BY DEF Busy, Ended
<1>1. /\ req[r].copy \in Docs /\ doc \in Docs
      /\ req[r].copy.id \in Nat /\ req[r].copy.id > 0
      /\ req[r].copy.rev \in Nat /\ req[r].copy.rev > 0
  BY CopyIsOfADocument
<1>2. doc'.id = doc.id /\ doc'.rev = req[r].copy.rev + 1 /\ doc' # Absent /\ Shaped(doc')
  BY <1>1 DEF RowOf, Shaped, Absent
<1>3. new \in Docs /\ Shaped(new) /\ Snapshot(new).rev = req[r].copy.rev + 1
  BY <1>1 DEF NextOf, Docs, Shaped, Snapshot
<1> HIDE DEF new
<1>4. ASSUME NEW g \in history', NEW h \in history', g.rev = h.rev PROVE g = h
  <2>1. \A i \in kept : i.rev # Snapshot(new).rev
    BY <1>3 DEF Taken
  <2>2. \A i, j \in kept : i.rev = j.rev => i = j
    BY DEF StoreInv, HistoryIsTrue
  <2>3. \A i \in history' : i \in kept \/ i = Snapshot(new)
    BY DEF new
  <2> QED  BY <1>4, <2>1, <2>2, <2>3
<1>5. /\ \A q \in Requests : q # r => req'[q] = req[q]
      /\ req'[r] = Idle \/ req'[r] = [req[r] EXCEPT !.stage = "saved", !.copy = new]
      /\ req'[r].stage \notin {"sent", "loaded"}
      /\ req[r] \in Request
  <2>1. TypeOK /\ Answer(r, "saved", new)
    BY DEF StoreInv, new
  <2> QED  BY <1>0, <1>3, <2>1, AnswerEffect
<1>6. BasesAreTold'
  <2>1. BasesAreTold
    BY DEF StoreInv
  <2> QED  BY <1>0, <1>2, <1>3, <1>5, <2>1, AnsweredBases
<1>7. \A q \in Requests : req'[q].stage = "loaded" => q # r /\ req'[q] = req[q] /\ Busy(q, "loaded")
  BY <1>5 DEF Busy
<1> QED  BY <1>2, <1>4, <1>6, <1>7

(* A commit that its guard did not stop for it had outlived it, or one to  *)
(* a document that went astray before.                                     *)
LEMMA StrayStep ==
  ASSUME StoreInv, TypeOK', IdsAreBounded', UNCHANGED <<local, saving, loading>>,
         NEW r \in Requests, Busy(r, "loaded"), req[r].copy # Absent,
         NEW data \in Nat, NEW basis, NEW kept \in SUBSET history,
         ~Taken(req[r].copy.rev + 1), doc.id = req[r].copy.id,
         doc' = RowOf(req[r].copy, data),
         history' = kept \cup {Snapshot(NextOf(req[r].copy, data))},
         Answer(r, "saved", NextOf(req[r].copy, data)),
         astray' = astray \cup {Entry(RowOf(req[r].copy, data), basis)}, log' = log
  PROVE  StoreInv'
<1> DEFINE entry == Entry(doc', basis)
<1>1. /\ doc'.id = doc.id /\ doc' # Absent
      /\ \A g, h \in history' : g.rev = h.rev => g = h
      /\ BasesAreTold'
      /\ \A q \in Requests : req'[q].stage = "loaded" =>
           q # r /\ req'[q] = req[q] /\ Busy(q, "loaded")
  BY CommitKeeps
<1>2. entry.id = doc'.id /\ Bare(entry) = doc' /\ entry \in astray'
  BY DEF RowOf, Entry, Bare
<1> HIDE DEF entry
<1>3. Astray' /\ Known \subseteq Known'
  BY <1>2 DEF Astray, Known
<1>4. LogIsThePast'
  <2>1. \E old \in log : old.id = doc'.id
    BY <1>1, CopyIsOfADocument
  <2>2. \A e \in astray' : \E old \in log' : old.id = e.id
    BY <1>2, <2>1 DEF StoreInv, LogIsThePast, entry
  <2>3. \E e \in Known' : Bare(e) = doc'
    BY <1>2 DEF Known
  <2>4. \A e \in log' : e.id > 0 /\ e.rev > 0
    BY DEF StoreInv, LogIsThePast
  <2> QED  BY <1>3, <2>2, <2>3, <2>4 DEF LogIsThePast
<1>5. HistoryGoesWithTheRow'
  BY <1>1 DEF HistoryGoesWithTheRow
<1>6. HistoryIsTrue'
  BY <1>1, <1>3 DEF HistoryIsTrue
<1>7. NoBlindOverwrite'
  BY DEF StoreInv, NoBlindOverwrite
<1>8. CopiesAreGuarded'
  <2> SUFFICES ASSUME NEW q \in Requests, Busy(q, "loaded")'
               PROVE  LET copy == req'[q].copy IN
                      /\ copy = Absent => req'[q].op = "push"
                      /\ copy # Absent /\ req'[q].op = "push" => req'[q].base = copy.rev
                      /\ copy # Absent => \E e \in Known' : Bare(e) = copy
    BY <1>3 DEF CopiesAreGuarded
  <2>1. req'[q] = req[q] /\ Busy(q, "loaded")
    BY <1>1 DEF Busy
  <2> QED  BY <1>3, <2>1 DEF StoreInv, CopiesAreGuarded
<1> QED  BY <1>1, <1>4, <1>5, <1>6, <1>7, <1>8 DEF StoreInv

(* A save or a restore from the current state replaces it by the next      *)
(* revision; every other copy is still guarded by the history it keeps.    *)
LEMMA SucceedStep ==
  ASSUME StoreInv, TypeOK', IdsAreBounded', UNCHANGED <<local, saving, loading>>,
         NEW r \in Requests, Busy(r, "loaded"), req[r].copy # Absent,
         NEW data \in Nat, NEW basis, NEW kept \in SUBSET history,
         ~Taken(req[r].copy.rev + 1), ~Astray, req[r].copy = doc,
         doc' = RowOf(req[r].copy, data),
         history' = kept \cup {Snapshot(NextOf(req[r].copy, data))},
         Answer(r, "saved", NextOf(req[r].copy, data)),
         log' = log \cup {Entry(RowOf(req[r].copy, data), basis)}, astray' = astray,
         \A q \in Requests :
           Busy(q, "loaded") /\ req[q].copy # Absent /\ req[q].copy.id = doc.id
           /\ req[q].copy.rev < doc.rev /\ doc.rev <= req[q].copy.rev + MaxUnnamed
             => \E h \in kept : h.rev = req[q].copy.rev + 1,
         basis = [id |-> doc.id, rev |-> doc.rev] \/ basis.id \notin {doc.id, 0}
  PROVE  StoreInv'
<1> DEFINE entry == Entry(doc', basis)
           snapshot == [rev |-> doc.rev + 1, data |-> data, named |-> FALSE]
<1>1. /\ doc'.id = doc.id /\ doc' # Absent
      /\ \A g, h \in history' : g.rev = h.rev => g = h
      /\ BasesAreTold'
      /\ \A q \in Requests : req'[q].stage = "loaded" =>
           q # r /\ req'[q] = req[q] /\ Busy(q, "loaded")
  BY CommitKeeps
<1>2. doc \in Docs /\ doc.id \in Nat /\ doc.rev \in Nat /\ doc.id > 0 /\ doc.rev > 0
  BY CopyIsOfADocument
<1>3. doc' = [id |-> doc.id, rev |-> doc.rev + 1, data |-> data]
  BY <1>2 DEF RowOf, Docs
<1>4. history' = kept \cup {snapshot}
  BY DEF NextOf, Snapshot
<1>5. /\ entry = [id |-> doc.id, rev |-> doc.rev + 1, data |-> data, basis |-> basis]
      /\ Bare(entry) = doc' /\ log' = log \cup {entry}
  BY <1>3 DEF Entry, Bare
<1> HIDE DEF entry
<1>6. ~Astray' /\ Known \subseteq Known'
  BY <1>1, <1>5 DEF Astray, Known
<1>7. LogIsThePast'
  <2>1. \A e \in log' : e.id > 0 /\ e.rev > 0
    BY <1>2, <1>5 DEF StoreInv, LogIsThePast
  <2>2. \A e \in astray' : \E old \in log' : old.id = e.id
    BY <1>5 DEF StoreInv, LogIsThePast
  <2>3. \A e \in log' : e.id = doc'.id => e.rev <= doc'.rev
    <3>1. \A e \in log : e.rev \in Nat
      BY TypeParts DEF StoreInv, StoreTypes
    <3> QED  BY <1>2, <1>3, <1>5, <3>1 DEF StoreInv, LogIsThePast
  <2>4. \E e \in Known' : Bare(e) = doc'
    BY <1>5 DEF Known
  <2> QED  BY <2>1, <2>2, <2>3, <2>4 DEF LogIsThePast
<1>8. HistoryGoesWithTheRow'
  BY <1>1 DEF HistoryGoesWithTheRow
<1>9. HistoryIsTrue'
  <2>1. \E h \in history' : h.rev = doc'.rev /\ h.data = doc'.data
    <3>1. snapshot \in history' /\ snapshot.rev = doc'.rev /\ snapshot.data = doc'.data
      BY <1>3, <1>4
    <3> QED  BY <3>1
  <2>2. ASSUME NEW h \in history'
        PROVE  [id |-> doc'.id, rev |-> h.rev, data |-> h.data] \in {Bare(e) : e \in log'}
    <3>1. CASE h \in kept
      <4>1. [id |-> doc.id, rev |-> h.rev, data |-> h.data] \in {Bare(e) : e \in log}
        BY <3>1 DEF StoreInv, HistoryIsTrue
      <4> QED  BY <1>1, <1>5, <4>1
    <3>2. CASE h = snapshot
      <4>1. [id |-> doc'.id, rev |-> h.rev, data |-> h.data] = Bare(entry)
        BY <1>3, <1>5, <3>2
      <4> QED  BY <1>5, <4>1
    <3> QED  BY <1>4, <2>2, <3>1, <3>2
  <2> QED  BY <1>1, <2>1, <2>2 DEF HistoryIsTrue
<1>10. NoBlindOverwrite'
  <2>1. entry.basis = [id |-> entry.id, rev |-> entry.rev - 1] \/ entry.basis.id \notin {entry.id, 0}
    BY <1>2, <1>5
  <2> QED  BY <1>5, <2>1 DEF StoreInv, NoBlindOverwrite
<1>11. CopiesAreGuarded'
  <2> SUFFICES ASSUME NEW q \in Requests, Busy(q, "loaded")'
               PROVE  /\ req'[q].copy = Absent => req'[q].op = "push"
                      /\ req'[q].copy # Absent /\ req'[q].op = "push" => req'[q].base = req'[q].copy.rev
                      /\ req'[q].copy # Absent => \E e \in Known' : Bare(e) = req'[q].copy
                      /\ req'[q].copy # Absent /\ req'[q].copy.id = doc'.id => Guarded(req[q].copy)'
    BY DEF CopiesAreGuarded
  <2>1. req'[q] = req[q] /\ Busy(q, "loaded")
    BY <1>1 DEF Busy
  <2>2. ASSUME req[q].copy # Absent, req[q].copy.id = doc.id
        PROVE  /\ req[q].copy.rev <= doc.rev
               /\ doc.rev <= req[q].copy.rev + MaxUnnamed =>
                    \E h \in history' : h.rev = req[q].copy.rev + 1
    <3>1. Guarded(req[q].copy) /\ req[q].copy.rev \in Nat
      BY <2>1, <2>2, CopyIsOfADocument DEF StoreInv, CopiesAreGuarded
    <3>2. CASE req[q].copy.rev = doc.rev
      <4>1. snapshot \in history' /\ snapshot.rev = req[q].copy.rev + 1
        BY <1>4, <3>2
      <4> QED  BY <1>2, <3>1, <3>2, <4>1
    <3>3. CASE req[q].copy.rev < doc.rev
      BY <1>2, <1>4, <2>1, <2>2, <3>1, <3>3
    <3> QED  BY <1>2, <3>1, <3>2, <3>3 DEF Guarded
  <2>3. ASSUME req[q].copy # Absent, req[q].copy.id = doc.id
        PROVE  Guarded(req[q].copy)'
    <3>1. req[q].copy.rev \in Nat /\ MaxUnnamed \in Nat
      BY <2>1, <2>3, CopyIsOfADocument, StoreAssumption
    <3>2. req[q].copy.rev <= doc'.rev /\ req[q].copy.rev # doc'.rev
      BY <1>2, <1>3, <2>2, <2>3, <3>1
    <3>3. ~Outlived(req[q].copy)' => doc.rev <= req[q].copy.rev + MaxUnnamed
      BY <1>2, <1>3, <2>1, <3>1 DEF Outlived
    <3>4. ~Outlived(req[q].copy)' => Taken(req[q].copy.rev + 1)'
      BY <2>1, <2>2, <2>3, <3>3 DEF Taken
    <3> QED  BY <2>1, <3>2, <3>4 DEF Guarded
  <2>4. /\ req[q].copy = Absent => req[q].op = "push"
        /\ req[q].copy # Absent /\ req[q].op = "push" => req[q].base = req[q].copy.rev
        /\ req[q].copy # Absent => \E e \in Known : Bare(e) = req[q].copy
    BY <2>1 DEF StoreInv, CopiesAreGuarded
  <2> QED  BY <1>1, <1>6, <2>1, <2>3, <2>4
<1> QED  BY <1>1, <1>7, <1>8, <1>9, <1>10, <1>11 DEF StoreInv

(* A handler that saves or restores fails, or makes the next revision, or  *)
(* has outlived the guard of its copy.                                     *)
LEMMA CommitStep ==
  ASSUME StoreInv, TypeOK', IdsAreBounded', UNCHANGED <<sent, local, saving, loading>>,
         NEW r \in Requests, Busy(r, "loaded"), req[r].copy # Absent,
         NEW data \in Nat, NEW basis \in Bases, NEW kept \in SUBSET history,
         Replace(r, data, basis, kept),
         \A q \in Requests :
           ~Astray /\ Busy(q, "loaded") /\ req[q].copy # Absent /\ req[q].copy.id = doc.id
           /\ req[q].copy.rev < doc.rev /\ doc.rev <= req[q].copy.rev + MaxUnnamed
             => \E h \in kept : h.rev = req[q].copy.rev + 1,
         req[r].copy.rev = doc.rev =>
           basis = [id |-> doc.id, rev |-> doc.rev] \/ basis.id \notin {doc.id, 0}
  PROVE  StoreInv'
<1>0. req[r].copy \in Docs /\ doc \in Docs /\ ~Busy(r, "idle")
  BY CopyIsOfADocument DEF Busy
<1>1. CASE doc.id # req[r].copy.id \/ Taken(req[r].copy.rev + 1)
  <2>1. Fail(r) /\ UNCHANGED <<doc, history, log, astray>>
    BY <1>0, <1>1, ReplaceFails
  <2> QED  BY <1>0, <2>1, FailStep
<1>2. CASE ~(doc.id # req[r].copy.id \/ Taken(req[r].copy.rev + 1))
  <2>1. /\ doc' = RowOf(req[r].copy, data)
        /\ history' = kept \cup {Snapshot(NextOf(req[r].copy, data))}
        /\ Record(Entry(RowOf(req[r].copy, data), basis), Outlived(req[r].copy))
        /\ Answer(r, "saved", NextOf(req[r].copy, data))
    BY <1>0, <1>2, ReplaceCommits
  <2>2. CASE Astray \/ Outlived(req[r].copy)
    <3>1. astray' = astray \cup {Entry(RowOf(req[r].copy, data), basis)} /\ log' = log
      BY <2>1, <2>2 DEF Record
    <3> QED  BY <1>2, <2>1, <3>1, StrayStep
  <2>3. CASE ~Astray /\ ~Outlived(req[r].copy)
    <3>1. log' = log \cup {Entry(RowOf(req[r].copy, data), basis)} /\ astray' = astray
      BY <2>1, <2>3 DEF Record
    <3>2. req[r].copy = doc
      BY <1>2, <2>3, CopyIsCurrent
    <3> QED  BY <1>2, <2>1, <2>3, <3>1, <3>2, SucceedStep
  <2> QED  BY <2>2, <2>3
<1> QED  BY <1>1, <1>2

\* A handler loads the document: the copy it holds is the current one.
LEMMA LoadStep ==
  ASSUME StoreInv, TypeOK', IdsAreBounded',
         UNCHANGED <<doc, history, log, astray, sent, local, saving, loading>>,
         NEW r \in Requests, Busy(r, "sent"),
         \A q \in Requests : q # r => req'[q] = req[q],
         req'[r].stage = "loaded", req'[r].copy = doc, req'[r].op = req[r].op,
         req'[r].basis = req[r].basis,
         req[r].op # "push" => doc # Absent,
         req[r].op = "push" => req'[r].base = req[r].base,
         req[r].op = "push" /\ doc # Absent => req[r].base = doc.rev
  PROVE  StoreInv'
<1>0. req[r].stage = "sent"
  BY DEF Busy
<1>1. LogIsThePast' /\ HistoryGoesWithTheRow' /\ HistoryIsTrue' /\ NoBlindOverwrite'
  BY StoredIsSame
<1>2. CopiesAreGuarded'
  <2> SUFFICES ASSUME NEW q \in Requests, Busy(q, "loaded")'
               PROVE  LET copy == req'[q].copy IN
                      /\ copy = Absent => req'[q].op = "push"
                      /\ copy # Absent /\ req'[q].op = "push" => req'[q].base = copy.rev
                      /\ copy # Absent => \E e \in Known : Bare(e) = copy
                      /\ copy # Absent /\ copy.id = doc.id /\ ~Astray => Guarded(copy)
    BY DEF CopiesAreGuarded, Known, Astray, Guarded, Outlived, Taken
  <2>1. CASE q = r
    <3>1. doc # Absent => \E e \in Known : Bare(e) = doc
      BY DEF StoreInv, LogIsThePast
    <3>2. Guarded(doc)
      BY RowIsLogged DEF Guarded
    <3> QED  BY <2>1, <3>1, <3>2
  <2>2. CASE q # r
    BY <2>2 DEF StoreInv, CopiesAreGuarded, Busy
  <2> QED  BY <2>1, <2>2
<1>3. BasesAreTold'
  <2>1. Shaped(doc) /\ (req[r].op = "push" => Derived(req[r].base, req[r].basis))
    BY <1>0 DEF StoreInv, BasesAreTold, Busy
  <2>2. ASSUME NEW q \in Requests, req'[q].stage # "idle"
        PROVE  Shaped(req'[q].copy) /\ (req'[q].op = "push" => Derived(req'[q].base, req'[q].basis))
    <3>1. CASE q = r
      BY <2>1, <3>1
    <3>2. CASE q # r
      BY <2>2, <3>2 DEF StoreInv, BasesAreTold, Busy
    <3> QED  BY <3>1, <3>2
  <2> QED  BY <2>2 DEF StoreInv, BasesAreTold, Busy, Shaped, Derived
<1> QED  BY <1>1, <1>2, <1>3 DEF StoreInv

\* The document is created again under a new id, so that no copy is of it.
LEMMA CreateStep ==
  ASSUME StoreInv, TypeOK', IdsAreBounded', UNCHANGED <<local, saving, loading>>,
         NEW r \in Requests, Create(r)
  PROVE  StoreInv'
<1>0. TypeOK /\ IdsAreBounded /\ ~Busy(r, "idle") /\ sent' = sent
  BY DEF StoreInv, Busy, Create
<1>1. CASE doc # Absent
  BY <1>0, <1>1, FailStep DEF Create
<1>2. CASE doc = Absent
  <2>1. doc' = [id |-> NewId, rev |-> 1, data |-> req[r].data]
    BY <1>2 DEF Create, NewId
  <2>2. history' = {Snapshot(doc')} /\ log' = log \cup {Entry(doc', req[r].basis)}
        /\ astray' = astray /\ Answer(r, "saved", doc')
    BY <1>2 DEF Create
  <2>3. NewId \in Nat /\ NewId > 0 /\ \A e \in log : e.id < NewId
    BY <1>0, NewIdIsNew
  <2>4. doc' \in Docs /\ Shaped(doc') /\ doc' # Absent /\ doc'.id = NewId /\ doc'.rev = 1
    BY <2>1, <2>3, TypePartsNext DEF StoreTypes, Shaped, Absent
  <2>5. \A e \in log : e.id # doc'.id
    <3>1. \A e \in log : e.id \in Nat
      BY <1>0, TypeParts DEF StoreTypes
    <3> QED  BY <2>3, <2>4, <3>1
  <2> DEFINE entry == Entry(doc', req[r].basis)
  <2>6. Bare(entry) = doc' /\ entry.id = NewId /\ entry.rev = 1
    BY <2>1 DEF Entry, Bare
  <2>7. Snapshot(doc').rev = 1 /\ Snapshot(doc').data = doc'.data
    BY <2>1 DEF Snapshot
  <2> HIDE DEF entry
  <2>8. /\ \A q \in Requests : q # r => req'[q] = req[q]
        /\ req'[r] = Idle \/ req'[r] = [req[r] EXCEPT !.stage = "saved", !.copy = doc']
        /\ req'[r].stage \notin {"sent", "loaded"}
        /\ req[r] \in Request
    <3>1. "saved" \in Ended
      BY DEF Ended
    <3> QED  BY <1>0, <2>2, <2>4, <3>1, AnswerEffect
  <2>9. ~Astray' /\ Known \subseteq Known'
    <3>1. \A e \in astray : e.id # doc'.id
      BY <2>5 DEF StoreInv, LogIsThePast
    <3> QED  BY <2>2, <3>1 DEF Astray, Known
  <2>10. LogIsThePast'
    <3>1. \A e \in log' : e.id > 0 /\ e.rev > 0
      BY <2>2, <2>3, <2>6 DEF StoreInv, LogIsThePast, entry
    <3>2. \A e \in log' : e.id = doc'.id => e.rev <= doc'.rev
      BY <2>2, <2>4, <2>5, <2>6 DEF entry
    <3>3. \E e \in Known' : Bare(e) = doc'
      BY <2>2, <2>6 DEF entry, Known
    <3>4. \A e \in astray' : \E old \in log' : old.id = e.id
      BY <2>2 DEF StoreInv, LogIsThePast
    <3> QED  BY <3>1, <3>2, <3>3, <3>4 DEF LogIsThePast
  <2>11. HistoryGoesWithTheRow'
    BY <2>4 DEF HistoryGoesWithTheRow
  <2>12. HistoryIsTrue'
    <3>1. Snapshot(doc') \in history' /\ \A h \in history' : h = Snapshot(doc')
      BY <2>2
    <3>2. [id |-> doc'.id, rev |-> Snapshot(doc').rev, data |-> Snapshot(doc').data] = Bare(entry)
      BY <2>1, <2>4, <2>6, <2>7
    <3>3. Bare(entry) \in {Bare(e) : e \in log'}
      BY <2>2 DEF entry
    <3>4. \A h \in history' : [id |-> doc'.id, rev |-> h.rev, data |-> h.data] \in {Bare(e) : e \in log'}
      BY <3>1, <3>2, <3>3
    <3>5. \E h \in history' : h.rev = doc'.rev /\ h.data = doc'.data
      BY <2>4, <2>7, <3>1
    <3> QED  BY <3>1, <3>4, <3>5 DEF HistoryIsTrue
  <2>13. NoBlindOverwrite'
    BY <2>2, <2>6 DEF StoreInv, NoBlindOverwrite, entry
  <2>14. CopiesAreGuarded'
    <3> SUFFICES ASSUME NEW q \in Requests, Busy(q, "loaded")'
                 PROVE  LET copy == req'[q].copy IN
                        /\ copy = Absent => req'[q].op = "push"
                        /\ copy # Absent /\ req'[q].op = "push" => req'[q].base = copy.rev
                        /\ copy # Absent => \E e \in Known' : Bare(e) = copy
                        /\ copy # Absent => copy.id # doc'.id
      BY DEF CopiesAreGuarded
    <3>1. req'[q] = req[q] /\ Busy(q, "loaded")
      BY <2>8 DEF Busy
    <3>2. req[q].copy # Absent => req[q].copy.id # doc'.id
      BY <2>5, <3>1, CopyIsOfADocument
    <3> QED  BY <2>9, <3>1, <3>2 DEF StoreInv, CopiesAreGuarded
  <2>15. BasesAreTold'
    BY <1>0, <2>4, <2>8, AnsweredBases DEF StoreInv, Ended
  <2> QED  BY <2>10, <2>11, <2>12, <2>13, <2>14, <2>15 DEF StoreInv
<1> QED  BY <1>1, <1>2

\* Naming a revision changes neither its number nor its content.
LEMMA LabelStep ==
  ASSUME StoreInv, TypeOK', IdsAreBounded', UNCHANGED <<local, saving, loading>>,
         NEW r \in Requests, Label(r)
  PROVE  StoreInv'
<1>0. TypeOK /\ ~Busy(r, "idle") /\ UNCHANGED <<doc, log, astray, sent>>
  BY DEF StoreInv, Busy, Label
<1>1. CASE doc.id # req[r].copy.id \/ ~Taken(req[r].base)
  BY <1>0, <1>1, FailStep DEF Label
<1>2. CASE ~(doc.id # req[r].copy.id \/ ~Taken(req[r].base))
  <2> DEFINE name(h, named) == IF h.rev = req[r].base THEN [h EXCEPT !.named = named] ELSE h
  <2>1. PICK named \in BOOLEAN :
          history' = {name(h, named) : h \in history} /\ Answer(r, "saved", doc)
    BY <1>2 DEF Label
  <2>2. \A h \in history : name(h, named).rev = h.rev /\ name(h, named).data = h.data
    BY <1>0, TypeParts DEF StoreTypes
  <2> HIDE DEF name
  <2>3. doc \in Docs /\ Shaped(doc) /\ Shaped(doc')
    BY <1>0, TypeParts DEF StoreTypes, StoreInv, BasesAreTold, Shaped
  <2>4. /\ \A q \in Requests : q # r => req'[q] = req[q]
        /\ req'[r] = Idle \/ req'[r] = [req[r] EXCEPT !.stage = "saved", !.copy = doc]
        /\ req'[r].stage \notin {"sent", "loaded"}
        /\ req[r] \in Request
    <3>1. "saved" \in Ended
      BY DEF Ended
    <3> QED  BY <1>0, <2>1, <2>3, <3>1, AnswerEffect
  <2>5. Astray' = Astray /\ Known' = Known
    BY <1>0 DEF Astray, Known
  <2>6. LogIsThePast' /\ NoBlindOverwrite'
    BY <1>0, <2>5 DEF StoreInv, LogIsThePast, NoBlindOverwrite
  <2>7. HistoryGoesWithTheRow'
    BY <1>0, <2>1 DEF StoreInv, HistoryGoesWithTheRow
  <2>8. HistoryIsTrue'
    <3>1. ~Astray /\ doc' # Absent => \E h \in history' : h.rev = doc'.rev /\ h.data = doc'.data
      BY <1>0, <2>1, <2>2 DEF StoreInv, HistoryIsTrue
    <3>2. ~Astray => \A h \in history' : [id |-> doc'.id, rev |-> h.rev, data |-> h.data] \in {Bare(e) : e \in log'}
      BY <1>0, <2>1, <2>2 DEF StoreInv, HistoryIsTrue
    <3>3. \A g, h \in history' : g.rev = h.rev => g = h
      BY <2>1, <2>2 DEF StoreInv, HistoryIsTrue
    <3> QED  BY <2>5, <3>1, <3>2, <3>3 DEF HistoryIsTrue
  <2>9. CopiesAreGuarded'
    <3>1. \A rev : (\E h \in history : h.rev = rev) => \E h \in history' : h.rev = rev
      BY <2>1, <2>2
    <3>2. \A q \in Requests : req'[q].stage = "loaded" => req'[q] = req[q] /\ Busy(q, "loaded")
      BY <2>4 DEF Busy
    <3>3. \A copy : Guarded(copy) => Guarded(copy)'
      BY <1>0, <3>1 DEF Guarded, Outlived, Taken
    <3> QED  BY <1>0, <2>5, <3>2, <3>3 DEF StoreInv, CopiesAreGuarded, Busy
  <2>10. BasesAreTold'
    BY <1>0, <2>3, <2>4, AnsweredBases DEF StoreInv, Ended
  <2> QED  BY <2>6, <2>7, <2>8, <2>9, <2>10 DEF StoreInv
<1> QED  BY <1>1, <1>2

LEMMA DeleteStep ==
  ASSUME StoreInv, TypeOK', IdsAreBounded', UNCHANGED <<local, saving, loading>>,
         NEW r \in Requests, Delete(r)
  PROVE  StoreInv'
<1>0. TypeOK /\ ~Busy(r, "idle") /\ UNCHANGED <<log, astray, sent>>
  BY DEF StoreInv, Busy, Delete
<1>1. CASE doc.id # req[r].copy.id
  BY <1>0, <1>1, EndStep, AbsentType DEF Delete, Ended, Shaped
<1>2. CASE doc.id = req[r].copy.id
  <2>1. Answer(r, "saved", Absent) /\ doc' = Absent /\ history' = {}
    BY <1>2 DEF Delete
  <2>2. doc \in Docs /\ Shaped(doc) /\ Shaped(doc') /\ doc'.id = 0 /\ doc'.rev = 0
    BY <1>0, <2>1, TypeParts DEF StoreTypes, StoreInv, BasesAreTold, Shaped, Absent
  <2>3. /\ \A q \in Requests : q # r => req'[q] = req[q]
        /\ req'[r] = Idle \/ req'[r] = [req[r] EXCEPT !.stage = "saved", !.copy = Absent]
        /\ req'[r].stage \notin {"sent", "loaded"}
        /\ req[r] \in Request
    <3>1. "saved" \in Ended
      BY DEF Ended
    <3> QED  BY <1>0, <2>1, <3>1, AnswerEffect, AbsentType
  <2>4. Known' = Known /\ ~Astray'
    <3>1. \A e \in log : e.id # 0
      BY DEF StoreInv, LogIsThePast
    <3> QED  BY <1>0, <2>2, <3>1 DEF Known, Astray, StoreInv, LogIsThePast
  <2>5. LogIsThePast'
    BY <1>0, <2>1, <2>2 DEF StoreInv, LogIsThePast
  <2>6. NoBlindOverwrite' /\ HistoryGoesWithTheRow' /\ HistoryIsTrue'
    BY <1>0, <2>1 DEF StoreInv, NoBlindOverwrite, HistoryGoesWithTheRow, HistoryIsTrue
  <2>8. CopiesAreGuarded'
    <3>1. \A q \in Requests : req'[q].stage = "loaded" => req'[q] = req[q] /\ Busy(q, "loaded")
      BY <2>3 DEF Busy
    <3>2. \A q \in Requests : Busy(q, "loaded") /\ req[q].copy # Absent => req[q].copy.id # doc'.id
      BY <2>2, CopyIsOfADocument
    <3> QED  BY <2>4, <3>1, <3>2 DEF StoreInv, CopiesAreGuarded, Busy
  <2>7. BasesAreTold'
    <3>1. Absent \in Docs /\ Shaped(Absent)
      BY AbsentType DEF Shaped
    <3> QED  BY <1>0, <2>2, <2>3, <3>1, AnsweredBases DEF StoreInv, Ended
  <2> QED  BY <2>5, <2>6, <2>7, <2>8 DEF StoreInv
<1> QED  BY <1>1, <1>2

\* A push that commits was made from the revision it replaces.
LEMMA SaveStep ==
  ASSUME StoreInv, TypeOK', IdsAreBounded', UNCHANGED <<local, saving, loading>>,
         NEW r \in Requests, Save(r)
  PROVE  StoreInv'
<1>1. Busy(r, "loaded") /\ req[r].op = "push" /\ req[r].copy # Absent /\ sent' = sent
      /\ ~Busy(r, "idle")
  BY DEF Save, Busy
<1>2. PICK c \in Cutoffs : Replace(r, req[r].data, req[r].basis, Kept(c))
  BY DEF Save
<1>3. req[r] \in Request /\ Kept(c) \in SUBSET history
  BY <1>1, BusyType, KeptIsHistory DEF StoreInv
<1>4. req[r].data \in Nat /\ req[r].basis \in Bases /\ req[r].copy \in Docs
  BY <1>3 DEF Request
<1>5. \A q \in Requests :
        ~Astray /\ Busy(q, "loaded") /\ req[q].copy # Absent /\ req[q].copy.id = doc.id
        /\ req[q].copy.rev < doc.rev /\ doc.rev <= req[q].copy.rev + MaxUnnamed
          => \E h \in Kept(c) : h.rev = req[q].copy.rev + 1
  BY <1>2, GuardIsKept
<1>6. ASSUME req[r].copy.rev = doc.rev
      PROVE  req[r].basis = [id |-> doc.id, rev |-> doc.rev] \/ req[r].basis.id \notin {doc.id, 0}
  <2>1. req[r].base = req[r].copy.rev
    BY <1>1 DEF StoreInv, CopiesAreGuarded
  <2>2. Derived(req[r].base, req[r].basis) /\ Shaped(req[r].copy)
    BY <1>1 DEF StoreInv, BasesAreTold
  <2>3. req[r].basis.rev = doc.rev /\ req[r].basis.id > 0
    BY <1>1, <1>6, <2>1, <2>2 DEF Derived, Shaped
  <2>4. req[r].basis = [id |-> req[r].basis.id, rev |-> req[r].basis.rev]
    BY <1>4 DEF Bases
  <2> QED  BY <1>4, <2>3, <2>4 DEF Bases
<1> QED  BY <1>1, <1>2, <1>3, <1>4, <1>5, <1>6, CommitStep

\* A restored revision is made from the copy that was loaded.
LEMMA RestoreStep ==
  ASSUME StoreInv, TypeOK', IdsAreBounded', UNCHANGED <<local, saving, loading>>,
         NEW r \in Requests, Restore(r)
  PROVE  StoreInv'
<1>1. Busy(r, "loaded") /\ req[r].op = "restore" /\ sent' = sent /\ ~Busy(r, "idle")
      /\ Replace(r, req[r].data, Basis(req[r].copy), history)
  BY DEF Restore, Busy
<1>2. req[r] \in Request /\ req[r].copy # Absent
  BY <1>1, BusyType DEF StoreInv, CopiesAreGuarded
<1>3. req[r].data \in Nat /\ req[r].copy \in Docs /\ Basis(req[r].copy) \in Bases
  BY <1>2, BasisType DEF Request
<1>4. ASSUME NEW q \in Requests, ~Astray, Busy(q, "loaded"), req[q].copy # Absent,
             req[q].copy.id = doc.id, req[q].copy.rev < doc.rev,
             doc.rev <= req[q].copy.rev + MaxUnnamed
      PROVE  \E h \in history : h.rev = req[q].copy.rev + 1
  <2>1. req[q].copy.rev \in Nat /\ doc.rev \in Nat /\ MaxUnnamed \in Nat
    BY <1>4, CopyIsOfADocument, RowIsLogged, StoreAssumption
  <2>2. ~Outlived(req[q].copy)
    BY <1>4, <2>1 DEF Outlived
  <2> QED  BY <1>4, <2>2 DEF StoreInv, CopiesAreGuarded, Guarded, Taken
<1>5. req[r].copy.rev = doc.rev =>
        \/ Basis(req[r].copy) = [id |-> doc.id, rev |-> doc.rev]
        \/ Basis(req[r].copy).id \notin {doc.id, 0}
  BY <1>1, <1>2 DEF Basis, StoreInv, BasesAreTold, Shaped
<1>6. history \in SUBSET history
  OBVIOUS
<1> QED  BY <1>1, <1>2, <1>3, <1>4, <1>5, <1>6, CommitStep

LEMMA HandleStep ==
  ASSUME StoreInv, TypeOK', IdsAreBounded', UNCHANGED <<local, saving, loading>>,
         NEW r \in Requests, Handle(r)
  PROVE  StoreInv'
<1>1. CASE PushLoad(r)
  <2>1. Busy(r, "sent") /\ req[r].op = "push" /\ ~Busy(r, "idle") /\ UNCHANGED <<doc, history, log, astray, sent>>
    BY <1>1 DEF PushLoad, Busy
  <2>2. CASE Conflicts(r)
    <3>1. Answer(r, "conflict", Absent)
      BY <1>1, <2>2 DEF PushLoad
    <3> QED  BY <2>1, <3>1, EndStep, AbsentType DEF Ended, Shaped
  <2>3. CASE ~Conflicts(r)
    <3>1. req' = [req EXCEPT ![r].stage = "loaded", ![r].copy = doc]
      BY <1>1, <2>3 DEF PushLoad
    <3>2. req \in [Requests -> {Idle} \cup Request] /\ req[r] \in Request
      BY <2>1, BusyType, TypeParts DEF StoreInv, RequestTypes, Busy
    <3>3. \A q \in Requests : q # r => req'[q] = req[q]
      BY <3>1, <3>2
    <3>4. req'[r].stage = "loaded" /\ req'[r].copy = doc /\ req'[r].op = req[r].op
          /\ req'[r].basis = req[r].basis /\ req'[r].base = req[r].base
      BY <3>1, <3>2 DEF Request
    <3>5. doc # Absent => req[r].base = doc.rev
      BY <2>3 DEF Conflicts
    <3> QED  BY <2>1, <3>3, <3>4, <3>5, LoadStep
  <2> QED  BY <2>2, <2>3
<1>2. CASE TargetLoad(r)
  <2>1. Busy(r, "sent") /\ req[r].op # "push" /\ ~Busy(r, "idle") /\ UNCHANGED <<doc, history, log, astray, sent>>
    BY <1>2 DEF TargetLoad, Busy
  <2>2. CASE doc = Absent
    BY <1>2, <2>1, <2>2, FailStep DEF TargetLoad
  <2>3. CASE doc # Absent
    <3>1. PICK h \in history :
            req' = [req EXCEPT ![r].stage = "loaded", ![r].copy = doc,
                               ![r].data = h.data, ![r].base = h.rev]
      BY <1>2, <2>3 DEF TargetLoad
    <3>2. req \in [Requests -> {Idle} \cup Request] /\ req[r] \in Request
      BY <2>1, BusyType, TypeParts DEF StoreInv, RequestTypes, Busy
    <3>3. \A q \in Requests : q # r => req'[q] = req[q]
      BY <3>1, <3>2
    <3>4. req'[r].stage = "loaded" /\ req'[r].copy = doc /\ req'[r].op = req[r].op
          /\ req'[r].basis = req[r].basis
      BY <3>1, <3>2 DEF Request
    <3> QED  BY <2>1, <2>3, <3>3, <3>4, LoadStep
  <2> QED  BY <2>2, <2>3
<1> QED  BY <1>1, <1>2, CreateStep, SaveStep, RestoreStep, LabelStep, DeleteStep DEF Handle

\* What the browsers do touches requests, their own copies and nothing stored.
LEMMA ClientKeepsStore ==
  ASSUME StoreInv, TypeOK', IdsAreBounded', UNCHANGED <<doc, history, log, astray>>,
         BasesAreTold',
         \A q \in Requests : req'[q].stage = "loaded" =>
           /\ req[q].stage = "loaded" /\ req'[q].copy = req[q].copy
           /\ req'[q].op = req[q].op /\ req'[q].base = req[q].base
  PROVE  StoreInv'
<1>1. LogIsThePast' /\ HistoryGoesWithTheRow' /\ HistoryIsTrue' /\ NoBlindOverwrite'
  BY StoredIsSame
<1>2. CopiesAreGuarded'
  BY DEF StoreInv, CopiesAreGuarded, Guarded, Outlived, Known, Astray, Busy, Taken
<1> QED  BY <1>1, <1>2 DEF StoreInv

LEMMA SendStep ==
  ASSUME StoreInv, TypeOK', IdsAreBounded', UNCHANGED <<doc, history, log, astray, local, saving, loading>>,
         NEW r \in Requests, NEW op, NEW d, NEW data, NEW base, NEW basis,
         Send(r, op, d, data, base, basis),
         op = "push" => Derived(base, basis)
  PROVE  StoreInv'
<1>1. /\ \A q \in Requests : q # r => req'[q] = req[q]
      /\ req'[r] = [stage |-> "sent", op |-> op, device |-> d, data |-> data, base |-> base,
                    basis |-> basis, waiting |-> op = "push", copy |-> Absent]
  BY SendEffect DEF StoreInv
<1>2. ASSUME NEW q \in Requests, req'[q].stage # "idle"
      PROVE  Shaped(req'[q].copy) /\ (req'[q].op = "push" => Derived(req'[q].base, req'[q].basis))
  <2>1. CASE q = r
    BY <1>1, <2>1 DEF Shaped
  <2>2. CASE q # r
    BY <1>1, <1>2, <2>2 DEF StoreInv, BasesAreTold, Busy
  <2> QED  BY <2>1, <2>2
<1>3. BasesAreTold'
  BY <1>2 DEF StoreInv, BasesAreTold, Busy, Shaped, Derived
<1>4. \A q \in Requests : req'[q].stage = "loaded" => req'[q] = req[q]
  BY <1>1
<1> QED  BY <1>3, <1>4, ClientKeepsStore

\* A device that stops waiting leaves the handler at its work.
LEMMA LeaveStep ==
  ASSUME StoreInv, TypeOK', IdsAreBounded', UNCHANGED <<doc, history, log, astray, sent>>,
         \A d \in Devices : /\ Derived(local'[d].rev, local'[d].basis)
                            /\ Derived(saving'[d].rev, saving'[d].basis)
                            /\ Shaped(loading'[d]),
         \A q \in Requests :
           \/ req'[q] = req[q]
           \/ req[q] \in Request /\ req'[q] = Left(req[q])
           \/ req[q].stage = "saved" /\ req'[q] = Idle
  PROVE  StoreInv'
<1>1. ASSUME NEW q \in Requests
      PROVE  /\ req'[q].stage \in {"sent", "loaded"} <=> req[q].stage \in {"sent", "loaded"}
             /\ req'[q].stage # "idle" =>
                  /\ req[q].stage # "idle" /\ req'[q].stage = req[q].stage
                  /\ req'[q].copy = req[q].copy /\ req'[q].op = req[q].op
                  /\ req'[q].base = req[q].base /\ req'[q].basis = req[q].basis
  <2>1. CASE req'[q] = req[q]
    BY <2>1
  <2>2. CASE req[q].stage = "saved" /\ req'[q] = Idle
    BY <2>2 DEF Idle
  <2>3. CASE req[q] \in Request /\ req'[q] = Left(req[q])
    <3>1. CASE req[q].stage \in {"sent", "loaded"}
      <4>1. req'[q] = [req[q] EXCEPT !.waiting = FALSE]
        BY <2>3, <3>1 DEF Left
      <4> QED  BY <2>3, <3>1, <4>1 DEF Request
    <3>2. CASE req[q].stage \notin {"sent", "loaded"}
      BY <2>3, <3>2 DEF Left, Idle
    <3> QED  BY <3>1, <3>2
  <2> QED  BY <2>1, <2>2, <2>3
<1>2. \A q \in Requests : req'[q].stage # "idle" =>
        Shaped(req'[q].copy) /\ (req'[q].op = "push" => Derived(req'[q].base, req'[q].basis))
  BY <1>1 DEF StoreInv, BasesAreTold, Busy
<1>3. BasesAreTold'
  BY <1>2 DEF StoreInv, BasesAreTold, Busy, Shaped, Derived
<1> QED  BY <1>1, <1>3, ClientKeepsStore

LEMMA CopyIsDerived ==
  ASSUME NEW c \in Docs, Shaped(c)
  PROVE  Derived(c.rev, Basis(c))
  BY DEF Shaped, Derived, Basis, Absent, Docs

LEMMA ClientStep ==
  ASSUME StoreInv, TypeOK', IdsAreBounded', NEW d \in Devices, Client(d)
  PROVE  StoreInv'
<1>0. TypeOK /\ UNCHANGED <<doc, history, log, astray>>
  BY ClientStepTypes DEF StoreInv
<1>a. \A e \in Devices : /\ Derived(local[e].rev, local[e].basis)
                         /\ Derived(saving[e].rev, saving[e].basis)
                         /\ Shaped(loading[e])
  BY DEF StoreInv, BasesAreTold
<1>b. Derived(NotSaving.rev, NotSaving.basis) /\ Derived(NoCopy.rev, NoCopy.basis) /\ Shaped(Absent)
      /\ Shaped(doc)
  BY DEF Derived, NotSaving, NoCopy, NoBasis, Shaped, StoreInv, BasesAreTold
<1>c. /\ local \in [Devices -> [data : Nat, rev : Nat, dirty : BOOLEAN, basis : Bases]]
      /\ saving \in [Devices -> [data : 0 .. MaxEdits, rev : Nat, basis : Bases]]
      /\ loading \in [Devices -> Docs] /\ req \in [Requests -> {Idle} \cup Request]
  BY <1>0, TypeParts DEF ClientTypes, RequestTypes
<1>1. CASE EditRead(d)
  <2>1. \A e \in Devices : Derived(saving'[e].rev, saving'[e].basis)
    BY <1>1, <1>a, <1>c DEF EditRead
  <2> QED  BY <1>0, <1>1, <1>a, <2>1, LeaveStep DEF EditRead, storeVars
<1>2. CASE EditWrite(d)
  <2>1. \A e \in Devices : Derived(saving'[e].rev, saving'[e].basis)
    BY <1>2, <1>a, <1>b, <1>c DEF EditWrite
  <2>2. \A e \in Devices : Derived(local'[e].rev, local'[e].basis)
    BY <1>2, <1>a, <1>c DEF EditWrite
  <2> QED  BY <1>0, <1>2, <1>a, <2>1, <2>2, LeaveStep DEF EditWrite, storeVars
<1>3. ASSUME PushOrSkip(d), UNCHANGED <<local, saving, loading>>
      PROVE  StoreInv'
  <2>1. CASE local[d].dirty /\ online[d]
    <3>1. PICK r \in Requests : Send(r, "push", d, local[d].data, local[d].rev, local[d].basis)
      BY <1>3, <2>1 DEF PushOrSkip
    <3> QED  BY <1>0, <1>3, <1>a, <3>1, SendStep
  <2>2. CASE ~(local[d].dirty /\ online[d])
    <3>1. UNCHANGED <<req, sent>>
      BY <1>3, <2>2 DEF PushOrSkip
    <3> QED  BY <1>0, <1>3, <1>a, <3>1, LeaveStep
  <2> QED  BY <2>1, <2>2
<1>4. CASE TimerFires(d) \/ FlushPending(d)
  BY <1>3, <1>4 DEF TimerFires, FlushPending
<1>5. ASSUME NEW r \in Requests, PushSaved(d, r) PROVE StoreInv'
  <2>1. ~Busy(r, "idle") /\ req[r].stage = "saved"
    BY <1>5 DEF PushSaved, Awaits, Busy
  <2>2. req[r].copy \in Docs /\ Shaped(req[r].copy)
    BY <1>0, <2>1, BusyType DEF Request, StoreInv, BasesAreTold
  <2>3. Derived(req[r].copy.rev, Basis(req[r].copy))
    BY <2>2, CopyIsDerived
  <2>4. \A e \in Devices : Derived(local'[e].rev, local'[e].basis)
    BY <1>5, <1>a, <1>c, <2>3 DEF PushSaved
  <2>5. \A q \in Requests : req'[q] = req[q] \/ (req[q].stage = "saved" /\ req'[q] = Idle)
    BY <1>5, <1>c, <2>1 DEF PushSaved, Freed
  <2> QED  BY <1>0, <1>5, <1>a, <2>4, <2>5, LeaveStep DEF PushSaved
<1>6. ASSUME NEW r \in Requests, PushRefused(d, r) PROVE StoreInv'
  <2>1. req[r] \in Request
    BY <1>0, <1>6, BusyType DEF PushRefused, Awaits
  <2>2. \A q \in Requests : req'[q] = req[q] \/ (req[q] \in Request /\ req'[q] = Left(req[q]))
    BY <1>6, <1>c, <2>1 DEF PushRefused
  <2> QED  BY <1>0, <1>6, <1>a, <2>2, LeaveStep DEF PushRefused
<1>7. CASE LoadStart(d)
  <2>1. \A e \in Devices : Shaped(loading'[e])
    BY <1>7, <1>a, <1>b, <1>c DEF LoadStart
  <2> QED  BY <1>0, <1>7, <1>a, <2>1, LeaveStep DEF LoadStart, storeVars
<1>8. CASE LoadAnswer(d)
  <2>1. \A e \in Devices : Shaped(loading'[e])
    BY <1>8, <1>a, <1>b, <1>c DEF LoadAnswer
  <2>2. Derived(loading[d].rev, Basis(loading[d]))
    BY <1>a, <1>c, CopyIsDerived
  <2>3. \A e \in Devices : Derived(local'[e].rev, local'[e].basis)
    BY <1>8, <1>a, <1>c, <2>2 DEF LoadAnswer
  <2> QED  BY <1>0, <1>8, <1>a, <2>1, <2>3, LeaveStep DEF LoadAnswer, storeVars
<1>9. CASE Forget(d)
  <2>1. \A e \in Devices : Derived(local'[e].rev, local'[e].basis)
    BY <1>9, <1>a, <1>b, <1>c DEF Forget
  <2> QED  BY <1>0, <1>9, <1>a, <2>1, LeaveStep DEF Forget, storeVars
<1>10. CASE GoOffline(d) \/ GoOnline(d)
  BY <1>0, <1>10, <1>a, LeaveStep DEF GoOffline, GoOnline, storeVars
<1>11. CASE Reload(d)
  <2>1. \A e \in Devices : Shaped(loading'[e]) /\ Derived(saving'[e].rev, saving'[e].basis)
    BY <1>11, <1>a, <1>b, <1>c DEF Reload
  <2>2. \A q \in Requests : req'[q] = req[q] \/ (req[q] \in Request /\ req'[q] = Left(req[q]))
    BY <1>0, <1>11, BusyType DEF Reload, Awaits
  <2> QED  BY <1>0, <1>11, <1>a, <2>1, <2>2, LeaveStep DEF Reload
<1>12. CASE Manage(d)
  <2>1. PICK r \in Requests, op \in Ops \ {"push"} : Send(r, op, d, 0, 0, NoBasis)
    BY <1>12 DEF Manage
  <2> QED  BY <1>0, <1>12, <2>1, SendStep DEF Manage, clientVars
<1> QED  BY <1>1, <1>2, <1>4, <1>5, <1>6, <1>7, <1>8, <1>9, <1>10, <1>11, <1>12 DEF Client

LEMMA InitStore == Init => StoreInv
<1> SUFFICES ASSUME Init PROVE StoreInv
  OBVIOUS
<1>0. TypeOK /\ IdsAreBounded
  BY TypeInit
<1>1. doc = Absent /\ history = {} /\ log = {} /\ astray = {} /\ req = [r \in Requests |-> Idle] /\ sent = 0
  BY DEF Init, StoreInit
<1>2. \A r \in Requests : req[r].stage = "idle"
  BY <1>1 DEF Idle
<1>3. LogIsThePast /\ HistoryGoesWithTheRow /\ HistoryIsTrue /\ NoBlindOverwrite
  BY <1>1 DEF LogIsThePast, Known, Astray, HistoryGoesWithTheRow, HistoryIsTrue, NoBlindOverwrite
<1>4. CopiesAreGuarded
  BY <1>2 DEF CopiesAreGuarded, Busy
<1>5. BasesAreTold
  BY <1>1, <1>2 DEF BasesAreTold, Busy, Init, NoCopy, NotSaving, NoBasis, Shaped, Derived
<1> QED  BY <1>0, <1>3, <1>4, <1>5 DEF StoreInv

LEMMA StoreStep == StoreInv /\ [Next]_vars => StoreInv'
<1> SUFFICES ASSUME StoreInv, [Next]_vars PROVE StoreInv'
  OBVIOUS
<1>0. TypeOK' /\ IdsAreBounded'
  BY TypeStep DEF StoreInv
<1>1. CASE \E d \in Devices : Client(d)
  BY <1>0, <1>1, ClientStep
<1>2. CASE \E r \in Requests : Server(r)
  BY <1>0, <1>2, HandleStep DEF Server, clientVars
<1>3. CASE \E r \in Requests : Break(r)
  <2>1. PICK r \in Requests : Break(r)
    BY <1>3
  <2>2. ~Busy(r, "idle") /\ Fail(r) /\ UNCHANGED <<doc, history, log, astray, sent, local, saving, loading>>
    BY <2>1 DEF Break, Drop, Busy
  <2> QED  BY <1>0, <2>2, FailStep
<1>4. CASE UNCHANGED vars
  BY <1>0, <1>4, LeaveStep DEF vars, storeVars, clientVars, StoreInv, BasesAreTold
<1> QED  BY <1>1, <1>2, <1>3, <1>4 DEF Next

LEMMA StoreInvariance == Spec => []StoreInv
  BY InitStore, StoreStep, PTL DEF Spec

(* Each row of the history is a state the document had, no revision is     *)
(* there twice, and the current one is among them, whatever handlers       *)
(* interleave and whatever is pruned, named or restored meanwhile.         *)
THEOREM HistoryTellsTheTruth == Spec => []HistoryIsTrue
  BY StoreInvariance, PTL DEF StoreInv

(* A revision is made from the revision before it: what one device saved   *)
(* is replaced only by content derived from it.                            *)
THEOREM NothingIsOverwrittenBlindly == Spec => []NoBlindOverwrite
  BY StoreInvariance, PTL DEF StoreInv

-----------------------------------------------------------------------------
(* The store implements a register of numbered revisions.                  *)

\* The register that the row is, until it goes astray.
Row == IF Astray THEN Absent ELSE doc

\* What a step did to the register and the log, among what it allows.
Unmoved  == UNCHANGED <<Row, log>>
Created  == /\ Row = Absent /\ Row' = doc' /\ doc' # Absent /\ doc'.rev = 1
            /\ \A entry \in log : entry.id # doc'.id
            /\ \E basis \in Bases : log' = log \cup {Entry(doc', basis)}
Replaced == /\ Row = doc /\ doc # Absent /\ Row' = doc'
            /\ \E data \in Nat : doc' = [id |-> doc.id, rev |-> doc.rev + 1, data |-> data]
            /\ \E basis \in Bases : log' = log \cup {Entry(doc', basis)}
Dropped  == Row = doc /\ doc # Absent /\ Row' = Absent /\ log' = log

\* A commit makes the next revision, or the register ends with it.
LEMMA ReplaceMoves ==
  ASSUME StoreInv, NEW r \in Requests, Busy(r, "loaded"), req[r].copy # Absent,
         NEW data \in Nat, NEW basis \in Bases, NEW kept, Replace(r, data, basis, kept)
  PROVE  Unmoved \/ Replaced \/ Dropped
<1>0. req[r].copy \in Docs /\ doc \in Docs /\ req[r].copy.id > 0
  BY CopyIsOfADocument
<1>1. CASE doc.id # req[r].copy.id \/ Taken(req[r].copy.rev + 1)
  <2>1. UNCHANGED <<doc, history, log, astray>>
    BY <1>0, <1>1, ReplaceFails
  <2> QED  BY <2>1 DEF Unmoved, Row, Astray
<1>2. CASE ~(doc.id # req[r].copy.id \/ Taken(req[r].copy.rev + 1))
  <2> DEFINE row == RowOf(req[r].copy, data)
  <2>1. doc' = row /\ Record(Entry(row, basis), Outlived(req[r].copy))
    BY <1>0, <1>2, ReplaceCommits
  <2>2. row.id = doc.id /\ doc # Absent
    BY <1>0, <1>2 DEF RowOf, Absent
  <2>3. CASE Astray \/ Outlived(req[r].copy)
    <3>1. astray' = astray \cup {Entry(row, basis)} /\ log' = log
      BY <2>1, <2>3 DEF Record
    <3>2. Entry(row, basis).id = row.id
      BY DEF Entry
    <3> HIDE DEF row
    <3>3. Astray'
      BY <2>1, <3>1, <3>2 DEF Astray
    <3> QED  BY <2>2, <3>1, <3>3 DEF Unmoved, Dropped, Row
  <2>4. CASE ~Astray /\ ~Outlived(req[r].copy)
    <3>1. log' = log \cup {Entry(row, basis)} /\ astray' = astray
      BY <2>1, <2>4 DEF Record
    <3>2. req[r].copy = doc
      BY <1>2, <2>4, CopyIsCurrent
    <3>3. doc' = [id |-> doc.id, rev |-> doc.rev + 1, data |-> data]
      BY <1>0, <2>1, <3>2 DEF RowOf
    <3>4. Row = doc /\ Row' = doc'
      BY <2>1, <2>2, <2>4, <3>1 DEF Row, Astray
    <3> QED  BY <2>1, <2>2, <3>1, <3>3, <3>4 DEF Replaced
  <2> QED  BY <2>3, <2>4
<1> QED  BY <1>1, <1>2

LEMMA HandleMoves ==
  ASSUME StoreInv, NEW r \in Requests, Handle(r)
  PROVE  Unmoved \/ Created \/ Replaced \/ Dropped
<1>0. ~Busy(r, "idle") /\ req[r] \in Request
  BY BusyType DEF StoreInv, Handle, PushLoad, TargetLoad, Create, Save, Restore, Label, Delete, Busy
<1>a. req[r].data \in Nat /\ req[r].basis \in Bases /\ req[r].copy \in Docs
      /\ Basis(req[r].copy) \in Bases
  BY <1>0, BasisType DEF Request
<1>b. \A entry \in astray : \E old \in log : old.id = entry.id
  BY DEF StoreInv, LogIsThePast
<1>1. CASE PushLoad(r) \/ TargetLoad(r) \/ Label(r)
  BY <1>1 DEF PushLoad, TargetLoad, Label, Unmoved, Row, Astray
<1>2. CASE Create(r)
  <2>1. CASE doc # Absent
    BY <1>2, <2>1 DEF Create, Unmoved, Row, Astray
  <2>2. CASE doc = Absent
    <3>1. doc' = [id |-> NewId, rev |-> 1, data |-> req[r].data]
          /\ log' = log \cup {Entry(doc', req[r].basis)} /\ astray' = astray
      BY <1>2, <2>2 DEF Create, NewId
    <3>2. NewId > 0 /\ \A entry \in log : entry.id < NewId
      BY NewIdIsNew DEF StoreInv
    <3>3. \A entry \in log : entry.id \in Nat
      BY TypeParts DEF StoreInv, StoreTypes
    <3>4. /\ \A entry \in log : entry.id # doc'.id
          /\ doc' # Absent /\ doc'.rev = 1
      BY <3>1, <3>2, <3>3 DEF Absent
    <3>5. ~Astray'
      BY <1>b, <3>1, <3>4 DEF Astray
    <3>6. Row = Absent /\ Row' = doc'
      BY <2>2, <3>5 DEF Row
    <3> QED  BY <1>a, <3>1, <3>4, <3>6 DEF Created
  <2> QED  BY <2>1, <2>2
<1>3. CASE Save(r)
  <2>1. PICK c \in Cutoffs : Replace(r, req[r].data, req[r].basis, Kept(c))
    BY <1>3 DEF Save
  <2> QED  BY <1>3, <1>a, <2>1, ReplaceMoves DEF Save
<1>4. CASE Restore(r)
  <2>1. req[r].copy # Absent
    BY <1>4 DEF Restore, StoreInv, CopiesAreGuarded
  <2> QED  BY <1>4, <1>a, <2>1, ReplaceMoves DEF Restore
<1>5. CASE Delete(r)
  <2>1. CASE doc.id # req[r].copy.id
    BY <1>5, <2>1 DEF Delete, Unmoved, Row, Astray
  <2>2. CASE doc.id = req[r].copy.id
    <3>1. doc' = Absent /\ log' = log
      BY <1>5, <2>2 DEF Delete
    <3>2. doc # Absent
      <4>1. req[r].copy # Absent /\ Shaped(req[r].copy)
        BY <1>0, <1>5 DEF Delete, StoreInv, CopiesAreGuarded, BasesAreTold
      <4> QED  BY <2>2, <4>1 DEF Shaped, Absent
    <3>3. Row' = Absent
      BY <3>1 DEF Row
    <3> QED  BY <3>1, <3>2, <3>3 DEF Unmoved, Dropped, Row
  <2> QED  BY <2>1, <2>2
<1> QED  BY <1>1, <1>2, <1>3, <1>4, <1>5 DEF Handle

LEMMA Moves ==
  ASSUME StoreInv, [Next]_vars
  PROVE  Unmoved \/ Created \/ Replaced \/ Dropped
<1>1. CASE \E d \in Devices : Client(d)
  BY <1>1, ClientStepTypes DEF StoreInv, Unmoved, Row, Astray
<1>2. CASE \E r \in Requests : Server(r)
  BY <1>2, HandleMoves DEF Server
<1>3. CASE \E r \in Requests : Break(r)
  BY <1>3 DEF Break, Drop, Unmoved, Row, Astray
<1>4. CASE UNCHANGED vars
  BY <1>4 DEF vars, storeVars, Unmoved, Row, Astray
<1> QED  BY <1>1, <1>2, <1>3, <1>4 DEF Next

\* The contents that the register is taken to have accepted.
LEMMA EntryAccepts ==
  ASSUME NEW d \in Docs, NEW basis
  PROVE  Bare(Entry(d, basis)) = d
<1>1. Bare(Entry(d, basis)) = [id |-> d.id, rev |-> d.rev, data |-> d.data]
  BY DEF Bare, Entry
<1>2. [id |-> d.id, rev |-> d.rev, data |-> d.data] \in Docs
  BY DEF Docs
<1> QED  BY <1>1, <1>2, SameDocument

LEMMA RegisterInit == Init => Promise!Init
  BY DEF Init, StoreInit, Promise!Init, Astray

LEMMA RegisterStep ==
  ASSUME StoreInv, TypeOK', [Next]_vars
  PROVE  [Promise!Next]_<<IF Astray THEN Absent ELSE doc, {Bare(entry) : entry \in log}>>
<1> DEFINE accepted == {Bare(entry) : entry \in log}
<1>0. doc \in Docs /\ doc' \in Docs
  BY TypeParts, TypePartsNext DEF StoreInv, StoreTypes
<1>1. ASSUME NEW basis \in Bases, log' = log \cup {Entry(doc', basis)}
      PROVE  accepted' = accepted \cup {doc'}
  <2>1. accepted' = {Bare(entry) : entry \in log \cup {Entry(doc', basis)}}
    BY <1>1
  <2>2. Bare(Entry(doc', basis)) = doc'
    BY <1>0, EntryAccepts
  <2> QED  BY <2>1, <2>2
<1>2. [Promise!Next]_<<Row, accepted>>
  <2>1. CASE Unmoved
    BY <2>1 DEF Unmoved
  <2>2. CASE Created
    <3>1. \A old \in accepted : old.id # doc'.id
      BY <2>2 DEF Created, Bare
    <3>2. accepted' = accepted \cup {doc'}
      BY <1>1, <2>2 DEF Created
    <3>3. Promise!Create
      BY <2>2, <3>1, <3>2 DEF Promise!Create, Created, Row
    <3> QED  BY <3>3 DEF Promise!Next
  <2>3. CASE Replaced
    <3>1. PICK data \in Nat : doc' = [id |-> doc.id, rev |-> doc.rev + 1, data |-> data]
      BY <2>3 DEF Replaced
    <3>2. doc' = [doc EXCEPT !.rev = @ + 1, !.data = doc'.data]
      <4>1. doc'.data = data
        BY <3>1
      <4>2. [doc EXCEPT !.rev = @ + 1, !.data = data] = [id |-> doc.id, rev |-> doc.rev + 1, data |-> data]
        BY <1>0, NextRevision
      <4> QED  BY <3>1, <4>1, <4>2
    <3>3. accepted' = accepted \cup {doc'}
      BY <1>1, <2>3 DEF Replaced
    <3>4. Row # Absent /\ Row' = [Row EXCEPT !.rev = @ + 1, !.data = Row'.data]
          /\ accepted' = accepted \cup {Row'}
      BY <2>3, <3>2, <3>3 DEF Replaced
    <3>5. Promise!Replace
      BY <3>4 DEF Promise!Replace, Row
    <3> QED  BY <3>5 DEF Promise!Next
  <2>4. CASE Dropped
    <3>1. Promise!Delete
      BY <2>4 DEF Promise!Delete, Dropped, Row
    <3> QED  BY <3>1 DEF Promise!Next
  <2> QED  BY <2>1, <2>2, <2>3, <2>4, Moves
<1> QED  BY <1>2 DEF Row

(* The store is a register of numbered revisions, although each handler    *)
(* loads the document in one step and saves it in another, until a handler *)
(* outlives the guard of its copy.                                         *)
THEOREM StoreIsARegister == Spec => Register
<1>1. StoreInv /\ TypeOK' /\ [Next]_vars
        => [Promise!Next]_<<IF Astray THEN Absent ELSE doc, {Bare(entry) : entry \in log}>>
  BY RegisterStep
<1> QED  BY <1>1, RegisterInit, StoreInvariance, TypeCorrect, PTL DEF Spec, Register, Promise!Spec

-----------------------------------------------------------------------------
(* The devices: no edit is lost, none is forgotten.                        *)

\* What a handler does to its request: who waits for it goes on waiting, for
\* the content that was sent, and a push is told "saved" when it is logged.
LEMMA AnswerKeeps ==
  ASSUME TypeOK, NEW r \in Requests, req[r] \in Request, NEW stage \in Ended, NEW d \in Docs,
         Answer(r, stage, d)
  PROVE  /\ \A q \in Requests : q # r => req'[q] = req[q]
         /\ req[r].waiting => req'[r].stage # "idle"
         /\ req'[r].stage # "idle" =>
              /\ req'[r].waiting = req[r].waiting /\ req'[r].op = req[r].op
              /\ req'[r].device = req[r].device /\ req'[r].data = req[r].data
              /\ req'[r].stage = stage
<1>1. req \in [Requests -> {Idle} \cup Request]
  BY TypeParts DEF RequestTypes
<1>2. \A q \in Requests : q # r => req'[q] = req[q]
  BY <1>1 DEF Answer
<1>3. req'[r] = IF req[r].waiting THEN [req[r] EXCEPT !.stage = stage, !.copy = d] ELSE Idle
  BY <1>1 DEF Answer
<1>4. CASE req[r].waiting
  <2>1. req'[r] = [req[r] EXCEPT !.stage = stage, !.copy = d]
    BY <1>3, <1>4
  <2>2. req'[r].waiting = req[r].waiting /\ req'[r].op = req[r].op
        /\ req'[r].device = req[r].device /\ req'[r].data = req[r].data /\ req'[r].stage = stage
    BY <2>1 DEF Request
  <2>3. stage # "idle"
    BY DEF Ended
  <2> QED  BY <1>2, <2>2, <2>3
<1>5. CASE ~req[r].waiting
  BY <1>2, <1>3, <1>5 DEF Idle
<1> QED  BY <1>4, <1>5

\* A handler's request after its step.
Served(r) ==
  /\ \A q \in Requests : q # r => req'[q] = req[q]
  /\ req[r].waiting => req'[r].stage # "idle"
  /\ req'[r].stage # "idle" =>
       /\ req'[r].waiting = req[r].waiting /\ req'[r].op = req[r].op
       /\ req'[r].device = req[r].device
       /\ req[r].op = "push" => req'[r].data = req[r].data
       /\ req'[r].stage = "saved" /\ req[r].op = "push" =>
            \E entry \in Known' : entry.data = req[r].data

LEMMA FailServes ==
  ASSUME TypeOK, NEW r \in Requests, req[r] \in Request, Fail(r)
  PROVE  Served(r)
<1>1. "failed" \in Ended
  BY DEF Ended
<1> QED  BY <1>1, AnswerKeeps, AbsentType DEF Fail, Served

LEMMA LoadServes ==
  ASSUME TypeOK, NEW r \in Requests, req[r] \in Request, NEW new \in Request,
         req' = [req EXCEPT ![r] = new], new.stage = "loaded",
         new.waiting = req[r].waiting, new.op = req[r].op, new.device = req[r].device,
         req[r].op = "push" => new.data = req[r].data
  PROVE  Served(r)
<1>1. req \in [Requests -> {Idle} \cup Request]
  BY TypeParts DEF RequestTypes
<1> QED  BY <1>1 DEF Served

\* What a push sent is known once it is answered with a revision: the row holds
\* it now, or the handler's copy did and the row keeps what followed.
LEMMA ReplaceServes ==
  ASSUME StoreInv, NEW r \in Requests, Busy(r, "loaded"), req[r].copy # Absent,
         NEW data \in Nat, NEW basis \in Bases, NEW kept, Replace(r, data, basis, kept),
         req[r].op = "push" => data = req[r].data
  PROVE  Served(r)
<1>0. TypeOK /\ req[r] \in Request /\ req[r].copy \in Docs /\ doc \in Docs
  BY CopyIsOfADocument DEF StoreInv
<1>1. CASE doc.id # req[r].copy.id \/ Taken(req[r].copy.rev + 1)
  BY <1>0, <1>1, ReplaceFails, FailServes
<1>2. CASE ~(doc.id # req[r].copy.id \/ Taken(req[r].copy.rev + 1))
  <2> DEFINE row == RowOf(req[r].copy, data)
             new == NextOf(req[r].copy, data)
  <2>1. Record(Entry(row, basis), Outlived(req[r].copy)) /\ Answer(r, "saved", new)
    BY <1>0, <1>2, ReplaceCommits
  <2>2. new \in Docs /\ "saved" \in Ended
    BY <1>0 DEF Docs, NextOf, Ended
  <2>3. CASE data = req[r].copy.data
    <3>1. PICK entry \in Known : Bare(entry) = req[r].copy
      BY DEF StoreInv, CopiesAreGuarded
    <3>2. entry.data = data
      BY <2>3, <3>1 DEF Bare
    <3>3. entry \in Known'
      BY <2>1, <3>1 DEF Record, Known
    <3>4. \E e \in Known' : e.data = data
      BY <3>2, <3>3
    <3> HIDE DEF new
    <3> QED  BY <1>0, <2>1, <2>2, <3>4, AnswerKeeps DEF Served
  <2>4. CASE data # req[r].copy.data
    <3>1. Entry(row, basis).data = data
      BY <2>4 DEF RowOf, Entry
    <3> HIDE DEF row, new
    <3>2. Entry(row, basis) \in Known'
      BY <2>1 DEF Record, Known
    <3>3. \E e \in Known' : e.data = data
      BY <3>1, <3>2
    <3> QED  BY <1>0, <2>1, <2>2, <3>3, AnswerKeeps DEF Served
  <2> QED  BY <2>3, <2>4
<1> QED  BY <1>1, <1>2

LEMMA HandleServes ==
  ASSUME StoreInv, NEW r \in Requests, Handle(r)
  PROVE  Served(r) /\ req[r] \in Request /\ ~Busy(r, "idle")
<1>0. ~Busy(r, "idle") /\ req[r] \in Request /\ TypeOK
  BY BusyType DEF StoreInv, Handle, PushLoad, TargetLoad, Create, Save, Restore, Label, Delete, Busy
<1>a. /\ req[r].data \in Nat /\ req[r].basis \in Bases /\ req[r].copy \in Docs
      /\ Basis(req[r].copy) \in Bases /\ doc \in Docs /\ doc' \in Docs
      /\ req \in [Requests -> {Idle} \cup Request] /\ "saved" \in Ended /\ "conflict" \in Ended
  <2>1. StoreTypes'
    BY <1>0, HandleTypes DEF StoreInv
  <2> QED  BY <1>0, <2>1, BasisType, TypeParts DEF Request, StoreTypes, RequestTypes, Ended
<1>1. CASE PushLoad(r)
  <2>1. CASE Conflicts(r)
    <3>1. Answer(r, "conflict", Absent)
      BY <1>1, <2>1 DEF PushLoad
    <3>2. /\ \A q \in Requests : q # r => req'[q] = req[q]
          /\ req[r].waiting => req'[r].stage # "idle"
          /\ req'[r].stage # "idle" =>
               /\ req'[r].waiting = req[r].waiting /\ req'[r].op = req[r].op
               /\ req'[r].device = req[r].device /\ req'[r].data = req[r].data
               /\ req'[r].stage = "conflict"
      BY <1>0, <1>a, <3>1, AbsentType, AnswerKeeps
    <3> QED  BY <1>0, <3>2 DEF Served
  <2>2. CASE ~Conflicts(r)
    <3> DEFINE new == [req[r] EXCEPT !.stage = "loaded", !.copy = doc]
    <3>1. req' = [req EXCEPT ![r] = new]
      BY <1>1, <1>a, <2>2 DEF PushLoad
    <3>2. new \in Request /\ new.stage = "loaded" /\ new.waiting = req[r].waiting
          /\ new.op = req[r].op /\ new.device = req[r].device /\ new.data = req[r].data
      BY <1>0, <1>a DEF Request, Stages
    <3> HIDE DEF new
    <3> QED  BY <1>0, <3>1, <3>2, LoadServes
  <2> QED  BY <2>1, <2>2
<1>2. CASE TargetLoad(r)
  <2>1. CASE doc = Absent
    BY <1>0, <1>2, <2>1, FailServes DEF TargetLoad
  <2>2. CASE doc # Absent
    <3>1. PICK h \in history :
            req' = [req EXCEPT ![r].stage = "loaded", ![r].copy = doc,
                               ![r].data = h.data, ![r].base = h.rev]
      BY <1>2, <2>2 DEF TargetLoad
    <3> DEFINE new == [req[r] EXCEPT !.stage = "loaded", !.copy = doc, !.data = h.data, !.base = h.rev]
    <3>2. h.data \in Nat /\ h.rev \in Nat
      BY <1>0, TypeParts DEF StoreTypes
    <3>3. req' = [req EXCEPT ![r] = new]
      BY <1>a, <3>1
    <3>4. new \in Request /\ new.stage = "loaded" /\ new.waiting = req[r].waiting
          /\ new.op = req[r].op /\ new.device = req[r].device
      BY <1>0, <1>a, <3>2 DEF Request, Stages
    <3>5. req[r].op # "push"
      BY <1>2 DEF TargetLoad
    <3> HIDE DEF new
    <3> QED  BY <1>0, <3>3, <3>4, <3>5, LoadServes
  <2> QED  BY <2>1, <2>2
<1>3. CASE Create(r)
  <2>1. CASE doc # Absent
    BY <1>0, <1>3, <2>1, FailServes DEF Create
  <2>2. CASE doc = Absent
    <3>1. doc' = [id |-> NewId, rev |-> 1, data |-> req[r].data]
          /\ log' = log \cup {Entry(doc', req[r].basis)} /\ Answer(r, "saved", doc')
      BY <1>3, <2>2 DEF Create, NewId
    <3>2. Entry(doc', req[r].basis).data = req[r].data
      BY <3>1 DEF Entry
    <3>3. \E entry \in Known' : entry.data = req[r].data
      BY <3>1, <3>2 DEF Known
    <3> QED  BY <1>0, <1>a, <3>1, <3>3, AnswerKeeps DEF Served
  <2> QED  BY <2>1, <2>2
<1>4. CASE Save(r)
  <2>1. PICK c \in Cutoffs : Replace(r, req[r].data, req[r].basis, Kept(c))
    BY <1>4 DEF Save
  <2>2. Busy(r, "loaded") /\ req[r].copy # Absent
    BY <1>4 DEF Save
  <2> QED  BY <1>0, <1>a, <2>1, <2>2, ReplaceServes
<1>5. CASE Restore(r)
  <2>1. req[r].copy # Absent
    BY <1>5 DEF Restore, StoreInv, CopiesAreGuarded
  <2>2. Busy(r, "loaded") /\ req[r].op # "push"
        /\ Replace(r, req[r].data, Basis(req[r].copy), history)
    BY <1>5 DEF Restore
  <2> QED  BY <1>0, <1>a, <2>1, <2>2, ReplaceServes
<1>6. CASE Label(r)
  <2>1. CASE Fail(r)
    BY <1>0, <2>1, FailServes
  <2>2. CASE Answer(r, "saved", doc)
    BY <1>0, <1>6, <1>a, <2>2, AnswerKeeps DEF Served, Label
  <2> QED  BY <1>6, <2>1, <2>2 DEF Label
<1>7. CASE Delete(r)
  BY <1>0, <1>7, <1>a, AnswerKeeps, AbsentType DEF Served, Delete
<1> QED  BY <1>0, <1>1, <1>2, <1>3, <1>4, <1>5, <1>6, <1>7 DEF Handle

\* What a handler or a browser did is remembered.
LEMMA KnownGrows ==
  ASSUME StoreInv, [Next]_vars
  PROVE  Known \subseteq Known'
<1>1. CASE \E d \in Devices : Client(d)
  BY <1>1, ClientStepTypes DEF StoreInv, Known
<1>2. ASSUME NEW r \in Requests, Handle(r) PROVE Known \subseteq Known'
  <2>1. CASE PushLoad(r) \/ TargetLoad(r) \/ Label(r) \/ Delete(r)
    BY <2>1 DEF PushLoad, TargetLoad, Label, Delete, Known
  <2>2. CASE Create(r)
    BY <2>2 DEF Create, Known
  <2>3. ASSUME NEW data, NEW basis, NEW kept, Replace(r, data, basis, kept)
        PROVE  Known \subseteq Known'
    BY <2>3 DEF Replace, Record, Known
  <2>4. CASE Save(r) \/ Restore(r)
    BY <2>3, <2>4 DEF Save, Restore
  <2> QED  BY <1>2, <2>1, <2>2, <2>4 DEF Handle
<1>3. CASE \E r \in Requests : Server(r)
  BY <1>2, <1>3 DEF Server
<1>4. CASE \E r \in Requests : Break(r)
  BY <1>4 DEF Break, Drop, Known
<1>5. CASE UNCHANGED vars
  BY <1>5 DEF vars, storeVars, Known
<1> QED  BY <1>1, <1>3, <1>4, <1>5 DEF Next

-----------------------------------------------------------------------------
\* What a device knows is as it was.
SameDevice(e) ==
  /\ local'[e] = local[e] /\ timer'[e] = timer[e] /\ flush'[e] = flush[e]
  /\ online'[e] = online[e] /\ loading'[e] = loading[e] /\ failure'[e] = failure[e]
  /\ last'[e] = last[e] /\ raced'[e] = raced[e]

\* It waits for no new answer, and goes on waiting if it was.
SameWait(e) ==
  /\ \A r \in Requests : Awaits(e, r)' => Awaits(e, r) /\ req'[r].data = req[r].data
  /\ Pushing(e) => Pushing(e)'

LEMMA OthersKeep ==
  ASSUME NEW e \in Devices, SameDevice(e), SameWait(e), Known \subseteq Known', Held(e), Pursued(e)
  PROVE  Held(e)' /\ Pursued(e)'
<1>1. Held(e)'
  BY DEF Held, SameDevice, SameWait
<1>2. Pursued(e)'
  BY DEF Pursued, SameDevice, SameWait
<1> QED  BY <1>1, <1>2

LEMMA ServerKeeps ==
  ASSUME ClientInv, NEW r \in Requests, Served(r), ~Busy(r, "idle"), Known \subseteq Known',
         \A e \in Devices : SameDevice(e)
  PROVE  AnswersAreTrue' /\ LastIsHeld' /\ DirtyIsPursued'
<1>1. req[r].waiting => req[r].op = "push"
  BY DEF ClientInv, AnswersAreTrue
<1>2. AnswersAreTrue'
  <2> SUFFICES ASSUME NEW q \in Requests, req'[q].stage # "idle"
               PROVE  /\ req'[q].waiting => req'[q].op = "push"
                      /\ req'[q].stage = "saved" /\ req'[q].op = "push" =>
                           \E entry \in Known' : entry.data = req'[q].data
    BY DEF AnswersAreTrue, Busy
  <2>1. CASE q # r
    BY <2>1 DEF ClientInv, AnswersAreTrue, Busy, Served
  <2>2. CASE q = r
    BY <1>1, <2>2 DEF Served
  <2> QED  BY <2>1, <2>2
<1>3. ASSUME NEW e \in Devices
      PROVE  SameWait(e)
  <2>1. ASSUME NEW q \in Requests, Awaits(e, q)'
        PROVE  Awaits(e, q) /\ req'[q].data = req[q].data
    <3>1. CASE q # r
      BY <2>1, <3>1 DEF Served, Awaits, Busy
    <3>2. CASE q = r
      BY <1>1, <2>1, <3>2 DEF Served, Awaits, Busy
    <3> QED  BY <3>1, <3>2
  <2>2. ASSUME NEW q \in Requests, Awaits(e, q)
        PROVE  Awaits(e, q)'
    <3>1. CASE q # r
      BY <2>2, <3>1 DEF Served, Awaits, Busy
    <3>2. CASE q = r
      BY <2>2, <3>2 DEF Served, Awaits, Busy
    <3> QED  BY <3>1, <3>2
  <2>3. Pushing(e) => Pushing(e)'
    BY <2>2 DEF Pushing
  <2> QED  BY <2>1, <2>3 DEF SameWait
<1>4. \A e \in Devices : Held(e)' /\ Pursued(e)'
  BY <1>3, OthersKeep DEF ClientInv, LastIsHeld, DirtyIsPursued, Pursued
<1> QED  BY <1>2, <1>4 DEF LastIsHeld, DirtyIsPursued, Pursued

\* A push that leaves a device is about the copy it holds.
LEMMA SendWaits ==
  ASSUME ClientInv, NEW r \in Requests, NEW op \in Ops, NEW d \in Devices,
         NEW data, NEW base, NEW basis,
         Send(r, op, d, data, base, basis), UNCHANGED Known
  PROVE  /\ AnswersAreTrue'
         /\ \A e \in Devices, q \in Requests :
              q # r => (Awaits(e, q)' <=> Awaits(e, q)) /\ req'[q].data = req[q].data
         /\ \A e \in Devices : Awaits(e, r)' <=> (e = d /\ op = "push")
         /\ req'[r].data = data
<1>1. req \in [Requests -> {Idle} \cup Request]
  BY TypeParts DEF RequestTypes, ClientInv, StoreInv
<1>2. /\ req'[r].stage = "sent" /\ req'[r].op = op /\ req'[r].device = d
      /\ req'[r].data = data /\ req'[r].waiting = (op = "push")
  BY <1>1 DEF Send
<1>3. \A q \in Requests : q # r => req'[q] = req[q]
  BY <1>1 DEF Send
<1>4. AnswersAreTrue'
  <2> SUFFICES ASSUME NEW q \in Requests, req'[q].stage # "idle"
               PROVE  /\ req'[q].waiting => req'[q].op = "push"
                      /\ req'[q].stage = "saved" /\ req'[q].op = "push" =>
                           \E entry \in Known' : entry.data = req'[q].data
    BY DEF AnswersAreTrue, Busy
  <2>1. CASE q # r
    BY <1>3, <2>1 DEF ClientInv, AnswersAreTrue, Busy
  <2>2. CASE q = r
    BY <1>2, <2>2
  <2> QED  BY <2>1, <2>2
<1>5. \A e \in Devices, q \in Requests :
        q # r => (Awaits(e, q)' <=> Awaits(e, q)) /\ req'[q].data = req[q].data
  BY <1>3 DEF Awaits, Busy
<1>6. \A e \in Devices : Awaits(e, r)' <=> (e = d /\ op = "push")
  BY <1>2 DEF Awaits, Busy
<1> QED  BY <1>2, <1>4, <1>5, <1>6

LEMMA PushKeeps ==
  ASSUME ClientInv, NEW d \in Devices, PushOrSkip(d), UNCHANGED <<Known, local, last, raced, loading, online>>
  PROVE  /\ AnswersAreTrue' /\ Held(d)'
         /\ local[d].dirty => Pushing(d)' \/ ~online[d]
         /\ \A e \in Devices : e # d => SameWait(e)
         /\ Pushing(d) => Pushing(d)'
<1>0. Held(d)
  BY DEF ClientInv, LastIsHeld
<1>1. CASE local[d].dirty /\ online[d]
  <2>1. PICK r \in Requests : Send(r, "push", d, local[d].data, local[d].rev, local[d].basis)
    BY <1>1 DEF PushOrSkip
  <2>2. "push" \in Ops
    BY DEF Ops
  <2>3. /\ AnswersAreTrue'
        /\ \A e \in Devices, q \in Requests :
             q # r => (Awaits(e, q)' <=> Awaits(e, q)) /\ req'[q].data = req[q].data
        /\ \A e \in Devices : Awaits(e, r)' <=> e = d
        /\ req'[r].data = local[d].data
    BY <2>1, <2>2, SendWaits
  <2>4. Held(d)'
    BY <1>0, <2>3 DEF Held
  <2>5. Pushing(d)'
    BY <2>3 DEF Pushing
  <2>6. ASSUME NEW e \in Devices, e # d
        PROVE  SameWait(e)
    <3>1. ~Awaits(e, r)
      BY <2>1 DEF Send, Awaits
    <3> QED  BY <2>3, <2>6, <3>1 DEF SameWait, Pushing
  <2> QED  BY <2>3, <2>4, <2>5, <2>6
<1>2. CASE ~(local[d].dirty /\ online[d])
  <2>1. UNCHANGED req
    BY <1>2 DEF PushOrSkip
  <2>2. AnswersAreTrue'
    BY <2>1 DEF ClientInv, AnswersAreTrue, Busy
  <2>3. Held(d)'
    BY <1>0, <2>1 DEF Held, Awaits, Busy
  <2>4. \A e \in Devices : SameWait(e)
    BY <2>1 DEF SameWait, Pushing, Awaits, Busy
  <2> QED  BY <1>2, <2>2, <2>3, <2>4 DEF SameWait
<1> QED  BY <1>1, <1>2

\* Answers that a device stops waiting for concern no other device.
LEMMA ReleaseKeeps ==
  ASSUME ClientInv, NEW d \in Devices, UNCHANGED Known,
         \A q \in Requests :
           \/ req'[q] = req[q]
           \/ Awaits(d, q) /\ (req'[q] = Idle \/ req'[q] = Left(req[q]))
  PROVE  /\ AnswersAreTrue'
         /\ \A e \in Devices : e # d => SameWait(e)
         /\ \A q \in Requests : Awaits(d, q)' => Awaits(d, q) /\ req'[q] = req[q]
<1>1. ASSUME NEW q \in Requests, req'[q] # req[q]
      PROVE  /\ Awaits(d, q)
             /\ \/ req'[q] = Idle
                \/ /\ req'[q].stage \in {"sent", "loaded"} /\ ~req'[q].waiting
                   /\ req'[q].device = d
  <2>1. Awaits(d, q) /\ (req'[q] = Idle \/ req'[q] = Left(req[q]))
    BY <1>1
  <2>2. req[q] \in Request
    BY <2>1, BusyType DEF Awaits, ClientInv, StoreInv
  <2>3. CASE req[q].stage \in {"sent", "loaded"}
    <3>1. Left(req[q]) = [req[q] EXCEPT !.waiting = FALSE]
      BY <2>3 DEF Left
    <3>2. /\ Left(req[q]).stage = req[q].stage /\ ~Left(req[q]).waiting
          /\ Left(req[q]).device = req[q].device
      BY <2>2, <3>1 DEF Request
    <3> QED  BY <2>1, <2>3, <3>2 DEF Awaits
  <2>4. CASE req[q].stage \notin {"sent", "loaded"}
    BY <2>1, <2>4 DEF Left
  <2> QED  BY <2>3, <2>4
<1>2. AnswersAreTrue'
  <2> SUFFICES ASSUME NEW q \in Requests, req'[q].stage # "idle"
               PROVE  /\ req'[q].waiting => req'[q].op = "push"
                      /\ req'[q].stage = "saved" /\ req'[q].op = "push" =>
                           \E entry \in Known' : entry.data = req'[q].data
    BY DEF AnswersAreTrue, Busy
  <2>1. CASE req'[q] = req[q]
    BY <2>1 DEF ClientInv, AnswersAreTrue, Busy
  <2>2. CASE req'[q] # req[q]
    BY <1>1, <2>2 DEF Idle
  <2> QED  BY <2>1, <2>2
<1>3. \A q \in Requests : Awaits(d, q)' => Awaits(d, q) /\ req'[q] = req[q]
  BY <1>1 DEF Awaits, Busy, Idle
<1>4. ASSUME NEW e \in Devices, e # d
      PROVE  SameWait(e)
  <2>1. \A q \in Requests : Awaits(e, q) => req'[q] = req[q]
    BY <1>1, <1>4 DEF Awaits
  <2>2. \A q \in Requests : Awaits(e, q)' => req'[q] = req[q]
    BY <1>1, <1>4 DEF Awaits, Busy, Idle
  <2> QED  BY <2>1, <2>2 DEF SameWait, Pushing, Awaits, Busy
<1> QED  BY <1>2, <1>3, <1>4

\* The actions of a device that send and receive nothing.
LEMMA AloneKeeps ==
  ASSUME ClientInv, NEW d \in Devices, UNCHANGED <<Known, req>>
  PROVE  /\ AnswersAreTrue'
         /\ \A e \in Devices : SameWait(e)
         /\ \A q \in Requests : Awaits(d, q)' <=> Awaits(d, q)
         /\ Pushing(d)' <=> Pushing(d)
<1>1. AnswersAreTrue'
  BY DEF ClientInv, AnswersAreTrue, Busy
<1> QED  BY <1>1 DEF SameWait, Pushing, Awaits, Busy

LEMMA DeviceKeeps ==
  ASSUME ClientInv, NEW d \in Devices, Client(d), UNCHANGED Known
  PROVE  /\ AnswersAreTrue' /\ Held(d)' /\ Pursued(d)'
         /\ \A e \in Devices : e # d => SameWait(e) /\ SameDevice(e)
<1>0. /\ Held(d) /\ Pursued(d) /\ ClientTypes
      /\ req \in [Requests -> {Idle} \cup Request]
  BY TypeParts DEF ClientInv, LastIsHeld, DirtyIsPursued, Pursued, StoreInv, RequestTypes
<1>1. CASE EditRead(d)
  <2>1. UNCHANGED req
    BY <1>1 DEF EditRead, storeVars
  <2>2. \A e \in Devices : SameDevice(e)
    BY <1>1 DEF EditRead, SameDevice
  <2> QED  BY <1>0, <2>1, <2>2, AloneKeeps, OthersKeep
<1>2. CASE EditWrite(d)
  <2>1. UNCHANGED req
    BY <1>2 DEF EditWrite, storeVars
  <2>2. \A e \in Devices : e # d => SameDevice(e)
    BY <1>0, <1>2 DEF EditWrite, SameDevice, ClientTypes
  <2>3. /\ local'[d].data = saving[d].data /\ local'[d].dirty /\ timer'[d]
        /\ last'[d] = saving[d].data /\ (raced'[d] <=> Pushing(d) \/ loading[d] # Absent)
        /\ loading' = loading
    BY <1>0, <1>2 DEF EditWrite, ClientTypes
  <2>4. Held(d)'
    BY <2>1, <2>3, AloneKeeps DEF Held, Pushing
  <2>5. Pursued(d)'
    BY <2>3 DEF Pursued
  <2> QED  BY <2>1, <2>2, <2>4, <2>5, AloneKeeps
<1>3. CASE TimerFires(d)
  <2>1. /\ AnswersAreTrue' /\ Held(d)'
        /\ local[d].dirty => Pushing(d)' \/ ~online[d]
        /\ \A e \in Devices : e # d => SameWait(e)
    BY <1>3, PushKeeps DEF TimerFires
  <2>2. \A e \in Devices : e # d => SameDevice(e)
    BY <1>0, <1>3 DEF TimerFires, SameDevice, ClientTypes
  <2>3. Pursued(d)'
    BY <1>3, <2>1 DEF Pursued, TimerFires
  <2> QED  BY <2>1, <2>2, <2>3
<1>4. CASE FlushPending(d)
  <2>1. /\ AnswersAreTrue' /\ Held(d)'
        /\ local[d].dirty => Pushing(d)' \/ ~online[d]
        /\ \A e \in Devices : e # d => SameWait(e)
    BY <1>4, PushKeeps DEF FlushPending
  <2>2. \A e \in Devices : e # d => SameDevice(e)
    BY <1>0, <1>4 DEF FlushPending, SameDevice, ClientTypes
  <2>3. Pursued(d)'
    BY <1>4, <2>1 DEF Pursued, FlushPending
  <2> QED  BY <2>1, <2>2, <2>3
<1>5. ASSUME NEW r \in Requests, PushSaved(d, r)
      PROVE  /\ AnswersAreTrue' /\ Held(d)' /\ Pursued(d)'
             /\ \A e \in Devices : e # d => SameWait(e) /\ SameDevice(e)
  <2>1. Awaits(d, r) /\ \A q \in Requests : req'[q] = req[q] \/ (q = r /\ req'[q] = Idle)
    BY <1>0, <1>5 DEF PushSaved, Freed
  <2>2. /\ AnswersAreTrue'
        /\ \A e \in Devices : e # d => SameWait(e)
        /\ \A q \in Requests : Awaits(d, q)' => Awaits(d, q) /\ req'[q] = req[q]
    BY <2>1, ReleaseKeeps
  <2>3. \A e \in Devices : e # d => SameDevice(e)
    BY <1>0, <1>5 DEF PushSaved, SameDevice, ClientTypes
  <2>4. local'[d].data = req[r].data /\ ~local'[d].dirty
        /\ UNCHANGED <<last, raced, loading>>
    BY <1>0, <1>5 DEF PushSaved, ClientTypes
  <2>5. \E entry \in Known : entry.data = req[r].data
    BY <1>5 DEF PushSaved, Awaits, ClientInv, AnswersAreTrue
  <2>6. Held(d)'
    BY <1>0, <2>1, <2>2, <2>4, <2>5 DEF Held
  <2>7. Pursued(d)'
    BY <2>4 DEF Pursued
  <2> QED  BY <2>2, <2>3, <2>6, <2>7
<1>6. ASSUME NEW r \in Requests, PushRefused(d, r)
      PROVE  /\ AnswersAreTrue' /\ Held(d)' /\ Pursued(d)'
             /\ \A e \in Devices : e # d => SameWait(e) /\ SameDevice(e)
  <2>1. Awaits(d, r) /\ \A q \in Requests : req'[q] = req[q] \/ (q = r /\ req'[q] = Left(req[q]))
    BY <1>0, <1>6 DEF PushRefused
  <2>2. /\ AnswersAreTrue'
        /\ \A e \in Devices : e # d => SameWait(e)
        /\ \A q \in Requests : Awaits(d, q)' => Awaits(d, q) /\ req'[q] = req[q]
    BY <2>1, ReleaseKeeps
  <2>3. \A e \in Devices : e # d => SameDevice(e)
    BY <1>0, <1>6 DEF PushRefused, SameDevice, ClientTypes
  <2>4. failure'[d] /\ UNCHANGED <<local, last, raced, loading>>
    BY <1>0, <1>6 DEF PushRefused, ClientTypes
  <2>6. Held(d)'
    BY <1>0, <2>2, <2>4 DEF Held
  <2>7. Pursued(d)'
    BY <2>4 DEF Pursued
  <2> QED  BY <2>2, <2>3, <2>6, <2>7
<1>7. CASE LoadStart(d)
  <2>1. UNCHANGED <<req, local, last, raced, timer, flush, online, failure>>
    BY <1>7 DEF LoadStart, storeVars
  <2>2. \A e \in Devices : e # d => SameDevice(e)
    BY <1>0, <1>7 DEF LoadStart, SameDevice, ClientTypes
  <2>3. last[d] = 0 \/ raced[d]
    BY <1>0, <1>7 DEF LoadStart, HasCopy, NoCopy, Held
  <2>4. Held(d)'
    BY <2>1, <2>3 DEF Held
  <2>5. Pursued(d)'
    BY <1>0, <2>1, AloneKeeps DEF Pursued
  <2> QED  BY <2>1, <2>2, <2>4, <2>5, AloneKeeps
<1>8. CASE LoadAnswer(d)
  <2>1. UNCHANGED <<req, last, raced, timer, flush, online, failure>>
    BY <1>8 DEF LoadAnswer, storeVars
  <2>2. \A e \in Devices : e # d => SameDevice(e)
    BY <1>0, <1>8 DEF LoadAnswer, SameDevice, ClientTypes
  <2>3. last[d] = 0 \/ raced[d]
    BY <1>0, <1>8 DEF LoadAnswer, Held
  <2>4. Held(d)'
    BY <2>1, <2>3 DEF Held
  <2>5. local'[d] = local[d] \/ ~local'[d].dirty
    BY <1>0, <1>8 DEF LoadAnswer, ClientTypes
  <2>6. Pursued(d)'
    BY <1>0, <2>1, <2>5, AloneKeeps DEF Pursued
  <2> QED  BY <2>1, <2>2, <2>4, <2>6, AloneKeeps
<1>9. CASE Forget(d)
  <2>1. UNCHANGED <<req, raced, timer, flush, online, failure>>
    BY <1>9 DEF Forget, storeVars
  <2>2. \A e \in Devices : e # d => SameDevice(e)
    BY <1>0, <1>9 DEF Forget, SameDevice, ClientTypes
  <2>3. last'[d] = 0 /\ ~local'[d].dirty
    BY <1>0, <1>9 DEF Forget, ClientTypes, NoCopy
  <2>4. Held(d)' /\ Pursued(d)'
    BY <2>3 DEF Held, Pursued
  <2> QED  BY <2>1, <2>2, <2>4, AloneKeeps
<1>10. CASE GoOffline(d)
  <2>1. UNCHANGED <<req, local, last, raced, timer, flush, loading, failure>>
    BY <1>10 DEF GoOffline, storeVars
  <2>2. \A e \in Devices : e # d => SameDevice(e)
    BY <1>0, <1>10 DEF GoOffline, SameDevice, ClientTypes
  <2>3. ~online'[d]
    BY <1>0, <1>10 DEF GoOffline, ClientTypes
  <2>4. Held(d)'
    BY <1>0, <2>1, AloneKeeps DEF Held
  <2>5. Pursued(d)'
    BY <2>3 DEF Pursued
  <2> QED  BY <2>1, <2>2, <2>4, <2>5, AloneKeeps
<1>11. CASE GoOnline(d)
  <2>1. UNCHANGED <<req, local, last, raced, timer, loading, failure>>
    BY <1>11 DEF GoOnline, storeVars
  <2>2. \A e \in Devices : e # d => SameDevice(e)
    BY <1>0, <1>11 DEF GoOnline, SameDevice, ClientTypes
  <2>3. flush'[d]
    BY <1>0, <1>11 DEF GoOnline, ClientTypes
  <2>4. Held(d)'
    BY <1>0, <2>1, AloneKeeps DEF Held
  <2>5. Pursued(d)'
    BY <2>3 DEF Pursued
  <2> QED  BY <2>1, <2>2, <2>4, <2>5, AloneKeeps
<1>12. CASE Reload(d)
  <2>1. \A q \in Requests : req'[q] = req[q] \/ (Awaits(d, q) /\ req'[q] = Left(req[q]))
    BY <1>12 DEF Reload
  <2>2. /\ AnswersAreTrue'
        /\ \A e \in Devices : e # d => SameWait(e)
        /\ \A q \in Requests : Awaits(d, q)' => Awaits(d, q) /\ req'[q] = req[q]
    BY <2>1, ReleaseKeeps
  <2>3. \A e \in Devices : e # d => SameDevice(e)
    BY <1>0, <1>12 DEF Reload, SameDevice, ClientTypes
  <2>4. flush'[d] /\ loading'[d] = Absent /\ UNCHANGED <<local, last, raced>>
    BY <1>0, <1>12 DEF Reload, ClientTypes
  <2>5. Held(d)'
    BY <1>0, <2>2, <2>4 DEF Held
  <2>6. Pursued(d)'
    BY <2>4 DEF Pursued
  <2> QED  BY <2>2, <2>3, <2>5, <2>6
<1>13. CASE Manage(d)
  <2>1. PICK r \in Requests, op \in Ops \ {"push"} : Send(r, op, d, 0, 0, NoBasis)
    BY <1>13 DEF Manage
  <2>2. /\ AnswersAreTrue'
        /\ \A e \in Devices, q \in Requests :
             q # r => (Awaits(e, q)' <=> Awaits(e, q)) /\ req'[q].data = req[q].data
        /\ \A e \in Devices : ~Awaits(e, r)'
    BY <2>1, SendWaits
  <2>3. \A e \in Devices : SameDevice(e)
    BY <1>13 DEF Manage, clientVars, SameDevice
  <2>4. \A e \in Devices : ~Awaits(e, r)
    BY <2>1 DEF Send, Awaits
  <2>5. \A e \in Devices : SameWait(e)
    BY <2>2, <2>4 DEF SameWait, Pushing
  <2> QED  BY <1>0, <2>2, <2>3, <2>5, OthersKeep
<1> QED  BY <1>1, <1>2, <1>3, <1>4, <1>5, <1>6, <1>7, <1>8, <1>9, <1>10, <1>11, <1>12, <1>13
         DEF Client

LEMMA ClientInvInit == Init => ClientInv
<1> SUFFICES ASSUME Init PROVE AnswersAreTrue /\ LastIsHeld /\ DirtyIsPursued
  BY InitStore DEF ClientInv
<1> QED  BY DEF Init, StoreInit, AnswersAreTrue, LastIsHeld, Held, DirtyIsPursued, NoCopy, Busy, Idle

LEMMA ClientInvStep == ClientInv /\ StoreInv' /\ [Next]_vars => ClientInv'
<1> SUFFICES ASSUME ClientInv, StoreInv', [Next]_vars
             PROVE  AnswersAreTrue' /\ LastIsHeld' /\ DirtyIsPursued'
  BY DEF ClientInv
<1>0. Known \subseteq Known' /\ StoreInv /\ TypeOK
  BY KnownGrows DEF ClientInv, StoreInv
<1>1. CASE \E d \in Devices : Client(d)
  <2>1. PICK d \in Devices : Client(d)
    BY <1>1
  <2>2. UNCHANGED Known
    BY <1>0, <2>1, ClientStepTypes DEF Known
  <2>3. /\ AnswersAreTrue' /\ Held(d)' /\ Pursued(d)'
        /\ \A e \in Devices : e # d => SameWait(e) /\ SameDevice(e)
    BY <2>1, <2>2, DeviceKeeps
  <2>4. \A e \in Devices : Held(e)' /\ Pursued(e)'
    BY <1>0, <2>3, OthersKeep DEF ClientInv, LastIsHeld, DirtyIsPursued, Pursued
  <2> QED  BY <2>3, <2>4 DEF LastIsHeld, DirtyIsPursued, Pursued
<1>2. CASE \E r \in Requests : Server(r)
  <2>1. PICK r \in Requests : Server(r)
    BY <1>2
  <2>2. Served(r) /\ ~Busy(r, "idle")
    BY <1>0, <2>1, HandleServes DEF Server
  <2>3. \A e \in Devices : SameDevice(e)
    BY <2>1 DEF Server, clientVars, SameDevice
  <2> QED  BY <1>0, <2>2, <2>3, ServerKeeps
<1>3. CASE \E r \in Requests : Break(r)
  <2>1. PICK r \in Requests : Break(r)
    BY <1>3
  <2>2. ~Busy(r, "idle")
    BY <2>1 DEF Break, Drop, Busy
  <2>3. Served(r)
    BY <1>0, <2>1, <2>2, BusyType, FailServes DEF Break, Drop
  <2>4. \A e \in Devices : SameDevice(e)
    BY <2>1 DEF Break, SameDevice
  <2> QED  BY <1>0, <2>2, <2>3, <2>4, ServerKeeps
<1>4. CASE UNCHANGED vars
  BY <1>4 DEF vars, storeVars, clientVars, ClientInv, AnswersAreTrue, LastIsHeld, Held,
              Known, DirtyIsPursued, Pushing, Awaits, Busy
<1> QED  BY <1>1, <1>2, <1>3, <1>4 DEF Next

(* The last edit of a device is still there to be pushed, or the server    *)
(* has taken it, unless it was written while an older push or load was     *)
(* waiting for its answer: that answer replaces it and marks it clean.     *)
THEOREM EditsAreKept == Spec => []KeptUntilAccepted
<1>1. ClientInv => KeptUntilAccepted
  BY DEF ClientInv, LastIsHeld, Held, Known, KeptUntilAccepted
<1> QED  BY <1>1, ClientInvInit, ClientInvStep, StoreInvariance, PTL DEF Spec

(* A copy with edits the server has not accepted is never forgotten: some- *)
(* thing that will push it is pending, or its push is under way, or the    *)
(* failure is on record for the History tab and the next start.            *)
THEOREM EditsArePursued == Spec => []DirtyIsPursued
<1>1. ClientInv => DirtyIsPursued
  BY DEF ClientInv
<1> QED  BY <1>1, ClientInvInit, ClientInvStep, StoreInvariance, PTL DEF Spec
=============================================================================
