------------------------------ MODULE Autosave ------------------------------
(***************************************************************************)
(* The browser's autosave (web lib/autosave/store.ts, db.ts) on several     *)
(* devices of one person, over the document store.                         *)
(*                                                                         *)
(* An edit is written to IndexedDB at once and pushed after a debounce.    *)
(* Every access to IndexedDB is an await: a save reads the local copy and  *)
(* writes it in two steps, and a push writes back what it had read when it *)
(* was sent.  The content of a document is the number of the edit it was   *)
(* last saved by; each edit replaces the whole document.                   *)
(***************************************************************************)
EXTENDS DocumentStore

CONSTANTS
  MaxEdits,     \* bound: edits made in a behaviour
  MaxFaults     \* bound: disturbances (a reload, a network that fails, a copy forgotten)

ASSUME BoundsAssumption == MaxEdits \in Nat /\ MaxFaults \in Nat

VARIABLES
  local,     \* each device's copy, or NoCopy
  saving,    \* a saveDocument that has read the copy and not yet written it
  timer,     \* is a debounce running
  flush,     \* must flushPending run: at start-up and on reconnect
  online,
  loading,   \* what a loadDocument that found no copy is being sent, or Absent
  failure,   \* the entry of the sync-queue store
  edits,     \* edits made so far
  faults,    \* disturbances so far
  last,      \* the last edit a device wrote
  raced      \* was it written while an older answer could still replace it

clientVars ==
  <<local, saving, timer, flush, online, loading, failure, edits, faults, last, raced>>
vars == <<storeVars, clientVars>>

NoBasis == [id |-> 0, rev |-> 0]
NoCopy  == [data |-> 0, rev |-> 0, dirty |-> FALSE, basis |-> NoBasis]
HasCopy(d) == local[d] # NoCopy
NotSaving == [data |-> 0, rev |-> 0, basis |-> NoBasis]

Init ==
  /\ StoreInit
  /\ local   = [d \in Devices |-> NoCopy]
  /\ saving  = [d \in Devices |-> NotSaving]
  /\ timer   = [d \in Devices |-> FALSE]
  /\ flush   = [d \in Devices |-> FALSE]
  /\ online  = [d \in Devices |-> TRUE]
  /\ loading = [d \in Devices |-> Absent]
  /\ failure = [d \in Devices |-> FALSE]
  /\ edits   = 0
  /\ faults  = 0
  /\ last    = [d \in Devices |-> 0]
  /\ raced   = [d \in Devices |-> FALSE]

Disturbed == faults < MaxFaults /\ faults' = faults + 1

Awaits(d, r) == ~Busy(r, "idle") /\ req[r].device = d /\ req[r].waiting
Pushing(d) == \E r \in Requests : Awaits(d, r)

Freed(r) == [req EXCEPT ![r] = Idle]
\* The device no longer waits; the handler, if one is at work, goes on.
Left(request) ==
  IF request.stage \in {"sent", "loaded"} THEN [request EXCEPT !.waiting = FALSE] ELSE Idle

----------------------------------------------------------------------------
(***************************************************************************)
(* saveDocument                                                            *)
(***************************************************************************)
EditRead(d) ==
  /\ saving[d] = NotSaving
  /\ edits < MaxEdits
  /\ edits' = edits + 1
  /\ saving' = [saving EXCEPT ![d] = [data |-> edits', rev |-> local[d].rev,
                                      basis |-> local[d].basis]]
  /\ UNCHANGED <<storeVars, local, timer, flush, online, loading, failure, last, faults, raced>>

EditWrite(d) ==
  /\ saving[d] # NotSaving
  /\ local'  = [local EXCEPT ![d] = [data |-> saving[d].data, rev |-> saving[d].rev,
                                     dirty |-> TRUE, basis |-> saving[d].basis]]
  /\ saving' = [saving EXCEPT ![d] = NotSaving]
  /\ timer'  = [timer EXCEPT ![d] = TRUE]
  /\ last'   = [last EXCEPT ![d] = saving[d].data]
  /\ raced'  = [raced EXCEPT ![d] = Pushing(d) \/ loading[d] # Absent]
  /\ UNCHANGED <<storeVars, flush, online, loading, failure, edits, faults>>

(***************************************************************************)
(* pushDocument, from the debounce or from flushPending                    *)
(***************************************************************************)
PushOrSkip(d) ==
  IF local[d].dirty /\ online[d]
  THEN \E r \in Requests :
         Send(r, "push", d, local[d].data, local[d].rev, local[d].basis)
  ELSE UNCHANGED <<req, sent>>

TimerFires(d) ==
  /\ timer[d]
  /\ timer' = [timer EXCEPT ![d] = FALSE]
  /\ PushOrSkip(d)
  /\ UNCHANGED <<doc, history, log, astray, local, saving, flush, online, loading, failure,
                 edits, last, faults, raced>>

FlushPending(d) ==
  /\ flush[d]
  /\ flush' = [flush EXCEPT ![d] = FALSE]
  /\ PushOrSkip(d)
  /\ UNCHANGED <<doc, history, log, astray, local, saving, timer, online, loading, failure,
                 edits, last, faults, raced>>

\* The answer writes back the copy that was read before the request.
PushSaved(d, r) ==
  /\ Awaits(d, r) /\ Busy(r, "saved")
  /\ local' = [local EXCEPT ![d] = [data |-> req[r].data, rev |-> req[r].copy.rev,
                                    dirty |-> FALSE, basis |-> Basis(req[r].copy)]]
  /\ failure' = [failure EXCEPT ![d] = FALSE]
  /\ req' = Freed(r)
  /\ UNCHANGED <<doc, history, log, astray, sent, saving, timer, flush, online, loading, edits,
                 last, faults, raced>>

\* Mutant: a conflict makes the copy clean.
PushRefusedForGood(d, r) ==
  /\ Awaits(d, r)
  /\ req[r].stage \in {"conflict", "failed"} \/ ~online[d]
  /\ req' = [req EXCEPT ![r] = Left(@)]
  /\ local' = [local EXCEPT ![d].dirty = @ /\ ~Busy(r, "conflict")]
  /\ failure' = [failure EXCEPT ![d] = TRUE]
  /\ UNCHANGED <<doc, history, log, astray, sent, saving, timer, flush, online, loading,
                 edits, last, faults, raced>>

\* A conflict, an error of the server or a broken connection: the copy stays.
PushRefused(d, r) ==
  /\ Awaits(d, r)
  /\ req[r].stage \in {"conflict", "failed"} \/ ~online[d]
  /\ req' = [req EXCEPT ![r] = Left(@)]
  /\ failure' = [failure EXCEPT ![d] = TRUE]
  /\ UNCHANGED <<doc, history, log, astray, sent, local, saving, timer, flush, online, loading,
                 edits, last, faults, raced>>

----------------------------------------------------------------------------
(***************************************************************************)
(* loadDocument and forgetDocument                                         *)
(***************************************************************************)
LoadStart(d) ==
  /\ ~HasCopy(d) /\ loading[d] = Absent /\ online[d] /\ doc # Absent
  /\ loading' = [loading EXCEPT ![d] = doc]
  /\ UNCHANGED <<storeVars, local, saving, timer, flush, online, failure, edits, last,
                 faults, raced>>

LoadAnswer(d) ==
  /\ loading[d] # Absent
  /\ loading' = [loading EXCEPT ![d] = Absent]
  /\ IF online[d]
     THEN local' = [local EXCEPT ![d] = [data |-> loading[d].data, rev |-> loading[d].rev,
                                         dirty |-> FALSE, basis |-> Basis(loading[d])]]
     ELSE UNCHANGED local
  /\ UNCHANGED <<storeVars, saving, timer, flush, online, failure, edits, last, faults, raced>>

Forget(d) ==
  /\ HasCopy(d)
  /\ Disturbed
  /\ local' = [local EXCEPT ![d] = NoCopy]
  /\ last' = [last EXCEPT ![d] = 0]
  /\ UNCHANGED <<storeVars, saving, timer, flush, online, loading, failure, edits, raced>>

(***************************************************************************)
(* startAutosave: the network events, a reload of the page                 *)
(***************************************************************************)
GoOffline(d) ==
  /\ Disturbed
  /\ online[d]
  /\ online' = [online EXCEPT ![d] = FALSE]
  /\ UNCHANGED <<storeVars, local, saving, timer, flush, loading, failure, edits, last,
                 raced>>

GoOnline(d) ==
  /\ ~online[d]
  /\ online' = [online EXCEPT ![d] = TRUE]
  /\ flush' = [flush EXCEPT ![d] = TRUE]
  /\ UNCHANGED <<storeVars, local, saving, timer, loading, failure, edits, last, faults, raced>>

\* Mutant: nothing is flushed at start-up.
ReloadQuietly(d) ==
  /\ Disturbed
  /\ saving'  = [saving EXCEPT ![d] = NotSaving]
  /\ timer'   = [timer EXCEPT ![d] = FALSE]
  /\ loading' = [loading EXCEPT ![d] = Absent]
  /\ req' = [r \in Requests |-> IF Awaits(d, r) THEN Left(req[r]) ELSE req[r]]
  /\ UNCHANGED <<doc, history, log, astray, sent, local, flush, online, failure, edits, last,
                 raced>>

\* What is in memory is gone: timers, saves not yet written, whoever awaited.
Reload(d) ==
  /\ Disturbed
  /\ saving'  = [saving EXCEPT ![d] = NotSaving]
  /\ timer'   = [timer EXCEPT ![d] = FALSE]
  /\ flush'   = [flush EXCEPT ![d] = TRUE]
  /\ loading' = [loading EXCEPT ![d] = Absent]
  /\ req' = [r \in Requests |->
               IF Awaits(d, r) THEN Left(req[r]) ELSE req[r]]
  /\ UNCHANGED <<doc, history, log, astray, sent, local, online, failure, edits, last, raced>>

----------------------------------------------------------------------------
\* A person restores, names or deletes through the API; no copy is touched.
Manage(d) ==
  /\ doc # Absent
  /\ \E r \in Requests, op \in Ops \ {"push"} : Send(r, op, d, 0, 0, NoBasis)
  /\ UNCHANGED <<doc, history, log, astray, clientVars>>

Server(r) == Handle(r) /\ UNCHANGED clientVars

Break(r) ==
  /\ Drop(r) /\ Disturbed
  /\ UNCHANGED <<local, saving, timer, flush, online, loading, failure, edits, last, raced>>

Client(d) ==
  \/ EditRead(d) \/ EditWrite(d) \/ TimerFires(d) \/ FlushPending(d)
  \/ LoadStart(d) \/ LoadAnswer(d) \/ Forget(d)
  \/ GoOffline(d) \/ GoOnline(d) \/ Reload(d) \/ Manage(d)
  \/ \E r \in Requests : PushSaved(d, r) \/ PushRefused(d, r)

Next ==
  \/ \E d \in Devices : Client(d)
  \/ \E r \in Requests : Server(r) \/ Break(r)

Spec == Init /\ [][Next]_vars

----------------------------------------------------------------------------
TypeOK ==
  LET Docs   == [id : Nat, rev : Nat, data : Nat]
      Bases  == [id : Nat, rev : Nat]
  IN /\ doc \in Docs
     /\ history \subseteq [rev : Nat, data : Nat, named : BOOLEAN]
     /\ log \subseteq [id : Nat, rev : Nat, data : Nat, basis : Bases]
     /\ astray \subseteq [id : Nat, rev : Nat, data : Nat, basis : Bases]
     /\ req \in [Requests -> {Idle} \cup
          [stage : Stages, op : Ops, device : Devices, data : Nat, base : Nat,
           basis : Bases, waiting : BOOLEAN, copy : Docs]]
     /\ sent \in 0 .. MaxSent
     /\ local \in [Devices -> [data : Nat, rev : Nat, dirty : BOOLEAN, basis : Bases]]
     /\ saving \in [Devices -> [data : 0 .. MaxEdits, rev : Nat, basis : Bases]]
     /\ timer \in [Devices -> BOOLEAN] /\ flush \in [Devices -> BOOLEAN]
     /\ online \in [Devices -> BOOLEAN] /\ failure \in [Devices -> BOOLEAN]
     /\ loading \in [Devices -> Docs]
     /\ edits \in 0 .. MaxEdits /\ faults \in 0 .. MaxFaults
     /\ last \in [Devices -> 0 .. MaxEdits]
     /\ raced \in [Devices -> BOOLEAN]

(***************************************************************************)
(* The history tells what the document was: each of its rows is a state    *)
(* the document had, no revision is there twice, and the current one is    *)
(* among them, whatever was pruned, named or restored meanwhile.  Only the *)
(* second holds of a document that a handler wrote from a copy older than  *)
(* what the history keeps.                                                 *)
(***************************************************************************)
HistoryIsTrue ==
  /\ ~Astray =>
       /\ doc # Absent => \E h \in history : h.rev = doc.rev /\ h.data = doc.data
       /\ \A h \in history : [id |-> doc.id, rev |-> h.rev, data |-> h.data]
                                \in {Bare(entry) : entry \in log}
  /\ \A g, h \in history : g.rev = h.rev => g = h

(***************************************************************************)
(* However pushes and restores of several devices interleave, a revision   *)
(* is made from the revision before it: what one device saved is replaced  *)
(* only by content derived from it.  One way around is a document that was *)
(* deleted and made again, whose revision numbers start over; the other a  *)
(* handler that outlives MAX_UNNAMED_REVISIONS saves and one more, and     *)
(* with it the unique key: what a document was from there is not in `log`. *)
(***************************************************************************)
NoBlindOverwrite ==
  \A entry \in log :
    entry.rev > 1 => \/ entry.basis = [id |-> entry.id, rev |-> entry.rev - 1]
                     \/ entry.basis.id \notin {entry.id, 0}

(***************************************************************************)
(* The store is a register of numbered revisions, although each handler    *)
(* loads the document in one step and saves it in another, until a handler *)
(* outlives the guard of its copy.                                         *)
(***************************************************************************)
Register == Promise!Spec

(***************************************************************************)
(* The last edit of a device is still there to be pushed, or the server    *)
(* has taken it, unless it was written while an older push or load was     *)
(* waiting for its answer: that answer replaces it and marks it clean.     *)
(***************************************************************************)
KeptUntilAccepted ==
  \A d \in Devices :
    last[d] # 0 /\ ~raced[d] =>
      \/ local[d].data = last[d] /\ local[d].dirty
      \/ \E entry \in log \cup astray : entry.data = last[d]

(***************************************************************************)
(* A copy with edits the server has not accepted is never forgotten: some- *)
(* thing that will push it is pending, or its push is under way, or the    *)
(* failure is on record for the History tab and the next start.            *)
(***************************************************************************)
DirtyIsPursued ==
  \A d \in Devices :
    local[d].dirty => timer[d] \/ flush[d] \/ Pushing(d) \/ failure[d] \/ ~online[d]
=============================================================================
