--------------------------- MODULE DocumentStore ---------------------------
(***************************************************************************)
(* The autosave documents of the server (services/workspace_service.py and *)
(* api/routes/workspace.py), for one (user, kind, scope_key).              *)
(*                                                                         *)
(* A handler loads the row, decides on that copy and commits later; what   *)
(* keeps two handlers apart is not the check of base_revision but the      *)
(* unique key of workspace_revisions, on which the second one's INSERT     *)
(* fails.  The key guards a copy for as long as the history keeps the      *)
(* revision that followed it: a handler that outlives more saves than that *)
(* writes over a newer document, which from then on has gone astray.       *)
(* A caller may have stopped waiting for its answer at any time.           *)
(***************************************************************************)
EXTENDS Naturals, FiniteSets, FiniteSetsExt

CONSTANTS
  Requests,     \* the handlers that can be in flight at once
  Devices,      \* the browsers that send requests
  MaxUnnamed,   \* MAX_UNNAMED_REVISIONS
  MaxSent       \* bound: requests sent in a behaviour

ASSUME StoreAssumption ==
  /\ MaxUnnamed \in Nat \ {0}
  /\ MaxSent \in Nat

VARIABLES
  doc,       \* the row of workspace_documents, or Absent
  history,   \* its rows of workspace_revisions
  log,       \* every state a row had until it went astray, with what it was derived from
  astray,    \* every state a row had since then
  req,       \* the handlers in flight
  sent       \* requests sent so far

storeVars == <<doc, history, log, astray, req, sent>>

(***************************************************************************)
(* A basis is the document and revision that some content was made from.   *)
(***************************************************************************)
Absent  == [id |-> 0, rev |-> 0, data |-> 0]
Basis(d) == [id |-> d.id, rev |-> d.rev]
Idle == [stage |-> "idle"]

Ops    == {"push", "restore", "label", "delete"}
Stages == {"sent", "loaded", "saved", "conflict", "failed"}

Entry(d, basis) == [id |-> d.id, rev |-> d.rev, data |-> d.data, basis |-> basis]
Bare(entry) == [id |-> entry.id, rev |-> entry.rev, data |-> entry.data]

Astray == \E entry \in astray : entry.id = doc.id

\* The register is the row, and ends where the row goes astray.
Promise == INSTANCE VersionedRegister
             WITH register <- IF Astray THEN Absent ELSE doc,
                  accepted <- {Bare(entry) : entry \in log}

StoreInit ==
  /\ doc = Absent
  /\ history = {}
  /\ log = {}
  /\ astray = {}
  /\ req = [r \in Requests |-> Idle]
  /\ sent = 0

Busy(r, stage) == req[r].stage = stage

\* A request leaves a device: data and base as the device had them.
Send(r, op, d, data, base, basis) ==
  /\ Busy(r, "idle")
  /\ sent < MaxSent
  /\ sent' = sent + 1
  /\ req' = [req EXCEPT ![r] =
       [stage |-> "sent", op |-> op, device |-> d, data |-> data, base |-> base,
        basis |-> basis, waiting |-> op = "push", copy |-> Absent]]

\* The handler ends; an answer nobody waits for goes nowhere.
Answer(r, stage, d) ==
  req' = [req EXCEPT ![r] = IF @.waiting THEN [@ EXCEPT !.stage = stage, !.copy = d]
                            ELSE Idle]
Fail(r) == Answer(r, "failed", Absent)

----------------------------------------------------------------------------
(***************************************************************************)
(* save_document, restore_revision, the label and the delete routes.       *)
(***************************************************************************)
\* Mutant: base revision 0 is taken to mean that the device does not care.
ConflictsUnlessZero(r) ==
  IF doc = Absent THEN req[r].base \notin {0, 1} ELSE req[r].base \notin {0, doc.rev}

\* The stored document is not the one that the device edited.
Conflicts(r) ==
  IF doc = Absent THEN req[r].base \notin {0, 1} ELSE req[r].base # doc.rev

PushLoad(r) ==
  /\ Busy(r, "sent") /\ req[r].op = "push"
  /\ IF Conflicts(r)
     THEN Answer(r, "conflict", Absent)
     ELSE req' = [req EXCEPT ![r].stage = "loaded", ![r].copy = doc]
  /\ UNCHANGED <<doc, history, log, astray, sent>>

\* The other routes load the document by id, and then a revision of it to work
\* on.  The two reads are one step: a revision that only the second could find is
\* newer than the copy, which a restore then cannot write (Taken, until the copy
\* is outlived), and the label route uses nothing of the copy.
TargetLoad(r) ==
  /\ Busy(r, "sent") /\ req[r].op # "push"
  /\ IF doc = Absent
     THEN Fail(r)
     ELSE \E h \in history :
            req' = [req EXCEPT ![r].stage = "loaded", ![r].copy = doc,
                               ![r].data = h.data, ![r].base = h.rev]
  /\ UNCHANGED <<doc, history, log, astray, sent>>

\* The revisions _prune leaves, when everything before `cutoff` is too old.
\* Nothing written while a handler is in flight is 90 days old, and in a row that
\* went astray, where revisions do not tell age, nothing is.
Kept(cutoff) ==
  LET young   == {h \in history : h.named \/ h.rev >= cutoff}
      unnamed == {h \in young : ~h.named}
      newest  == {h \in unnamed :
                    Cardinality({i \in unnamed : i.rev > h.rev}) < MaxUnnamed}
  IN  {h \in young : h.named} \cup newest

Cutoffs == {c \in 0 .. (IF Astray THEN 0 ELSE doc.rev) :
              \A r \in Requests : Busy(r, "loaded") => c <= req[r].copy.rev + 1}

Snapshot(d) == [rev |-> d.rev, data |-> d.data, named |-> FALSE]

\* Mutant: no unique key.
NeverTaken(rev) == FALSE

\* uq_workspace_revision_number
Taken(rev) == \E h \in history : h.rev = rev

Create(r) ==
  /\ Busy(r, "loaded") /\ req[r].op = "push" /\ req[r].copy = Absent
  /\ IF doc # Absent
     THEN /\ Fail(r)                 \* uq_workspace_document_scope
          /\ UNCHANGED <<doc, history, log, astray>>
     ELSE /\ doc' = [id |-> Max({entry.id : entry \in log} \cup {0}) + 1,
                     rev |-> 1, data |-> req[r].data]
          /\ history' = {Snapshot(doc')}
          /\ log' = log \cup {Entry(doc', req[r].basis)}
          /\ UNCHANGED astray
          /\ Answer(r, "saved", doc')
  /\ UNCHANGED sent

\* More revisions followed the copy than the history keeps.
Outlived(copy) == doc.rev > copy.rev + 1 + MaxUnnamed

Record(entry, lost) ==
  IF lost \/ Astray
  THEN astray' = astray \cup {entry} /\ UNCHANGED log
  ELSE log' = log \cup {entry} /\ UNCHANGED astray

\* The row is found by its id, and written over whatever it holds by now: the
\* columns that the handler changed in its copy.
Replace(r, data, basis, kept) ==
  LET copy == req[r].copy
      new  == [copy EXCEPT !.rev = @ + 1, !.data = data]
      row  == [new EXCEPT !.data = IF data = copy.data THEN doc.data ELSE data]
  IN  IF doc.id # copy.id \/ Taken(new.rev)
      THEN /\ Fail(r)
           /\ UNCHANGED <<doc, history, log, astray>>
      ELSE /\ doc' = row
           /\ history' = kept \cup {Snapshot(new)}
           /\ Record(Entry(row, basis), Outlived(copy))
           /\ Answer(r, "saved", new)

Save(r) ==
  /\ Busy(r, "loaded") /\ req[r].op = "push" /\ req[r].copy # Absent
  /\ \E c \in Cutoffs : Replace(r, req[r].data, req[r].basis, Kept(c))
  /\ UNCHANGED sent

\* Mutant: the restored content gets no row of its own.
RestoreSilently(r) ==
  /\ Busy(r, "loaded") /\ req[r].op = "restore"
  /\ IF doc.id # req[r].copy.id \/ Taken(req[r].copy.rev + 1)
     THEN Fail(r) /\ UNCHANGED <<doc, log, astray>>
     ELSE /\ doc' = [req[r].copy EXCEPT !.rev = @ + 1, !.data = req[r].data]
          /\ Record(Entry(doc', Basis(req[r].copy)), Outlived(req[r].copy))
          /\ Answer(r, "saved", doc')
  /\ UNCHANGED <<history, sent>>

Restore(r) ==
  /\ Busy(r, "loaded") /\ req[r].op = "restore"
  /\ Replace(r, req[r].data, Basis(req[r].copy), history)
  /\ UNCHANGED sent

Label(r) ==
  /\ Busy(r, "loaded") /\ req[r].op = "label"
  /\ IF doc.id # req[r].copy.id \/ ~Taken(req[r].base)
     THEN Fail(r) /\ UNCHANGED history
     ELSE \E named \in BOOLEAN :
            /\ history' = {IF h.rev = req[r].base THEN [h EXCEPT !.named = named] ELSE h
                             : h \in history}
            /\ Answer(r, "saved", doc)
  /\ UNCHANGED <<doc, log, astray, sent>>

Delete(r) ==
  /\ Busy(r, "loaded") /\ req[r].op = "delete"
  /\ Answer(r, "saved", Absent)
  /\ IF doc.id # req[r].copy.id
     THEN UNCHANGED <<doc, history>>    \* there is nothing left to delete
     ELSE doc' = Absent /\ history' = {}
  /\ UNCHANGED <<log, astray, sent>>

\* The connection breaks before the commit: the session is rolled back.
Drop(r) ==
  /\ req[r].stage \in {"sent", "loaded"}
  /\ Fail(r)
  /\ UNCHANGED <<doc, history, log, astray, sent>>

Handle(r) ==
  \/ PushLoad(r) \/ TargetLoad(r) \/ Create(r) \/ Save(r) \/ Restore(r) \/ Label(r) \/ Delete(r)
============================================================================
