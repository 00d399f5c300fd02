-------------------------------- MODULE Jobs --------------------------------
(***************************************************************************)
(* Background jobs: services/jobs.py, where a registry in memory runs the  *)
(* work and a table remembers it, and routes/research.py, which starts,    *)
(* polls and cancels the searches of one user.                             *)
(*                                                                         *)
(* The route starts the task and writes the row afterwards; nothing is     *)
(* awaited between the two, so the row says "queued" however the job is    *)
(* doing when it is committed, and goes on saying so while the job runs.   *)
(* What a search computes and how far it has come are left out.            *)
(***************************************************************************)
EXTENDS Naturals, Sequences, SequencesExt, FiniteSets, TLC

CONSTANTS
  JobIds,
  MaxFinished,   \* MAX_FINISHED_PER_USER
  Budgets        \* bound: how often each kind of event may happen

ASSUME MaxFinishedAssumption == MaxFinished \in Nat \ {0}

VARIABLES
  up,          \* whether the API process runs
  job,         \* the state of each Job object; "new" before, "gone" after
  known,       \* the registry: the jobs it lists, newest first
  cancelling,  \* the jobs whose _cancel is set
  inserting,   \* the jobs whose row the starting request has yet to commit
  finishing,   \* the jobs that ended and whose row has yet to say so
  row,         \* the jobs table
  slipped,     \* history: rows whose closing was missed, or failed
  left         \* what is left of the bounds

jobVars == <<up, job, known, cancelling, inserting, finishing, row, slipped>>

Ended == {"done", "failed", "cancelled"}

Unfinished == {"queued", "running"}

\* Mutant: a row says "queued" as long as its job runs, and is passed over.
StaleRunning == {"running"}

\* The rows mark_interrupted closes.
Stale == {"queued", "running"}

Spend(what) == left[what] > 0 /\ left' = [left EXCEPT ![what] = @ - 1]

JobsInit ==
  /\ up = TRUE
  /\ job = [j \in JobIds |-> "new"]
  /\ known = <<>>
  /\ cancelling = {}
  /\ inserting = {}
  /\ finishing = {}
  /\ row = [j \in JobIds |-> "none"]
  /\ slipped = {}
  /\ left \in Budgets

-----------------------------------------------------------------------------
(* _trim: the newest MaxFinished ended jobs stay listed, the older ones go. *)
Trimmed(list) ==
  LET ended == SelectSeq(list, LAMBDA j : job[j] \in Ended)
      old == {ended[i] : i \in (MaxFinished + 1)..Len(ended)}
  IN SelectSeq(list, LAMBDA j : j \notin old)

\* uuid4: an id never used, whichever.
Fresh(j) == j = CHOOSE k \in JobIds : job[k] = "new"

\* discover: registry.start, then record_start up to its first await.
StartJob(j) ==
  /\ up /\ job[j] = "new" /\ Fresh(j)
  /\ Spend("start")
  /\ job' = [job EXCEPT ![j] = "queued"]
  /\ known' = Trimmed(<<j>> \o known)
  /\ inserting' = inserting \cup {j}
  /\ UNCHANGED <<up, cancelling, finishing, row, slipped>>

RowInserted(j) ==
  /\ j \in inserting
  /\ inserting' = inserting \ {j}
  /\ row' = [row EXCEPT ![j] = "queued"]
  /\ UNCHANGED <<up, job, known, cancelling, finishing, slipped, left>>

\* The request fails; the job it started runs on without a row.
InsertFails(j) ==
  /\ j \in inserting
  /\ Spend("dbFails")
  /\ inserting' = inserting \ {j}
  /\ UNCHANGED <<up, job, known, cancelling, finishing, row, slipped>>

\* The task gets its first turn.
Runs(j) ==
  /\ job[j] = "queued"
  /\ job' = [job EXCEPT ![j] = "running"]
  /\ UNCHANGED <<up, known, cancelling, inserting, finishing, row, slipped, left>>

\* Only a report of progress notices a cancellation: a job cancelled after
\* its last report ends as it would have.
Ends(j) == {"done", "failed"} \cup (IF j \in cancelling THEN {"cancelled"} ELSE {})

\* The work returns, raises, or is stopped by its reporter.
WorkEnds(j) ==
  /\ job[j] = "running"
  /\ \E end \in Ends(j) : job' = [job EXCEPT ![j] = end]
  /\ finishing' = finishing \cup {j}
  /\ UNCHANGED <<up, known, cancelling, inserting, row, slipped, left>>

\* record_finish: a row that is not there yet is not waited for.
RecordFinish(j) ==
  /\ j \in finishing
  /\ finishing' = finishing \ {j}
  /\ IF row[j] = "none"
     THEN slipped' = slipped \cup {j} /\ UNCHANGED row
     ELSE row' = [row EXCEPT ![j] = job[j]] /\ UNCHANGED slipped
  /\ UNCHANGED <<up, job, known, cancelling, inserting, left>>

\* Its session fails: logged, and not tried again.
RecordFails(j) ==
  /\ j \in finishing
  /\ Spend("dbFails")
  /\ finishing' = finishing \ {j}
  /\ slipped' = slipped \cup {j}
  /\ UNCHANGED <<up, job, known, cancelling, inserting, row>>

CancelJob(j) ==
  /\ up /\ j \in ToSet(known)
  /\ job[j] \in Unfinished
  /\ j \notin cancelling
  /\ Spend("cancel")
  /\ cancelling' = cancelling \cup {j}
  /\ UNCHANGED <<up, job, known, inserting, finishing, row, slipped>>

-----------------------------------------------------------------------------
(* The process ends, killed or asked to.  Asked to, asyncio cancels the    *)
(* tasks, and the finally of a running one records it as it stands:        *)
(* "running".  A killed one records nothing.                               *)
ProcessEnds(asked) ==
  /\ up
  /\ up' = FALSE
  /\ row' = [j \in JobIds |-> IF asked /\ job[j] = "running" /\ row[j] # "none" THEN "running" ELSE row[j]]
  /\ job' = [j \in JobIds |-> IF job[j] = "new" THEN "new" ELSE "gone"]
  /\ known' = <<>>
  /\ cancelling' = {}
  /\ inserting' = {}
  /\ finishing' = {}
  /\ UNCHANGED slipped

\* lifespan: mark_interrupted before anything is served.
Boot ==
  /\ ~up
  /\ up' = TRUE
  /\ row' = [j \in JobIds |-> IF row[j] \in Stale THEN "interrupted" ELSE row[j]]
  /\ UNCHANGED <<job, known, cancelling, inserting, finishing, slipped, left>>

\* A database that is not up yet is logged, and the process serves anyway.
BootBlind ==
  /\ ~up
  /\ Spend("dbFails")
  /\ up' = TRUE
  /\ slipped' = slipped \cup {j \in JobIds : row[j] \in Unfinished}
  /\ UNCHANGED <<job, known, cancelling, inserting, finishing, row>>

JobsNext ==
  \/ Boot \/ BootBlind
  \/ \E j \in JobIds :
       \/ StartJob(j) \/ RowInserted(j) \/ InsertFails(j) \/ Runs(j) \/ WorkEnds(j)
       \/ RecordFinish(j) \/ RecordFails(j) \/ CancelJob(j)

-----------------------------------------------------------------------------
Claims(j) == row[j] \in Unfinished
Settled(j) == row[j] \notin Unfinished \/ j \in slipped

\* No row claims for ever that its job is under way: a job that ends, is
\* cancelled or dies with its process has its row closed, by the job itself
\* or by the next boot.  The exceptions are the ones the code has: the job
\* ended before its row was committed, or the write that closes it failed.
RowSettles == \A j \in JobIds : Claims(j) ~> Settled(j)
=============================================================================
