---------------------------- MODULE MarketStore ----------------------------
(***************************************************************************)
(* The bars of one series and those who write them: services/              *)
(* market_store.py (the upsert and the coverage row), the paging of        *)
(* exchanges/bitunix.py and what the venue answers to a page.              *)
(*                                                                         *)
(* Bar b opens at time 2*b, so that 2*b + 1 is a moment within it.  Of a   *)
(* bar only this matters: whether its content was final, and if not,       *)
(* whether the venue said so.  _parse_bar takes a row without a flag for   *)
(* closed, and what is stored as closed is frozen.  A transaction reads    *)
(* the coverage it will write (Write) before it commits (Commit).          *)
(***************************************************************************)
EXTENDS Integers, Sequences, FiniteSets, FiniteSetsExt

CONSTANTS
  MaxBar,    \* bound: the bars that ever open
  PageLimit, \* MAX_KLINE_LIMIT
  GapBars    \* MAX_GAPFILL_BARS

ASSUME PageAssumption == PageLimit \in Nat /\ PageLimit >= 2
ASSUME GapAssumption == GapBars \in Nat

VARIABLES
  now,       \* the bar that is forming
  missing,   \* the bars the venue does not have
  inclusive, \* whether the venue counts the end of a window in
  flagged,   \* whether it says of a bar that it is forming
  stored,    \* each bar: "none", "forming", "frozen" (forming, yet stored as closed) or "final"
  coverage,  \* the BackfillState row: <<earliest, latest>>, or <<>>
  job        \* each writer: at, ranges left, whether the gaps are dealt with,
             \* cursor, page in hand, coverage read

Writers == {"warm", "tool", "stream"}
Bars == 1..MaxBar
OpensAt(b) == 2 * b

Rest == [at |-> "rest", ranges |-> <<>>, filled |-> FALSE, cursor |-> 0, page |-> {}, read |-> <<>>]
Unfinished == {"forming", "frozen"}
Status(b) == IF b < now THEN "final" ELSE IF flagged THEN "forming" ELSE "frozen"

----------------------------------------------------------------------------
\* What the venue returns: of the bars of the window that have opened, the
\* newest ones, as many as the limit.
Answer(start, end) ==
  LET within == {b \in 1..now \ missing :
                   start <= OpensAt(b) /\ (OpensAt(b) < end \/ (inclusive /\ OpensAt(b) = end))}
  IN {b \in within : Cardinality({c \in within : c > b}) < PageLimit}

\* iter_klines: a window spans one bar less than the limit.
\* Mutant: it spans the limit.
FullWindow(cursor, end) == Min({cursor + 2 * PageLimit, end})
WindowEnd(cursor, end) == Min({cursor + 2 * (PageLimit - 1), end})

RangeEnd(j) == job[j].ranges[1][2]

\* The next range is begun, or the writer has done them all.
NextRange(q) ==
  IF q.ranges = <<>> THEN [q EXCEPT !.at = IF q.filled THEN "whole" ELSE "done"]
  ELSE [q EXCEPT !.at = "fetch", !.cursor = q.ranges[1][1]]

\* iter_klines asks for a page; an empty one is stepped over.
Fetch(j) ==
  /\ job[j].at = "fetch"
  /\ LET q == job[j]
         end == WindowEnd(q.cursor, RangeEnd(j))
         page == Answer(q.cursor, end)
     IN job' = [job EXCEPT ![j] =
          CASE q.cursor >= RangeEnd(j) -> NextRange([q EXCEPT !.ranges = Tail(@)])
            [] q.cursor < RangeEnd(j) /\ page = {} -> [q EXCEPT !.cursor = end]
            [] OTHER -> [q EXCEPT !.at = "write", !.page = {<<b, Status(b)>> : b \in page},
                           !.cursor = Max({OpensAt(Max(page)) + 2, @ + 2})]]
  /\ UNCHANGED <<now, missing, inclusive, flagged, stored, coverage>>

\* upsert_bars: a bar stored as closed stays as it is.
\* Mutant: whatever comes last is stored.
MergedLast(page) ==
  [b \in Bars |-> IF \E x \in page : x[1] = b THEN (CHOOSE x \in page : x[1] = b)[2] ELSE stored[b]]
Merged(page) ==
  [b \in Bars |-> IF stored[b] \in {"none", "forming"} /\ \E x \in page : x[1] = b
                    THEN (CHOOSE x \in page : x[1] = b)[2] ELSE stored[b]]

\* _touch_backfill_state: the window as this transaction sees it.
Window(bars) == {b \in Bars : bars[b] # "none"}
Write(j) ==
  /\ job[j].at = "write"
  /\ LET w == Window(Merged(job[j].page)) IN
     job' = [job EXCEPT ![j].at = "commit", ![j].read = <<Min(w), Max(w)>>]
  /\ UNCHANGED <<now, missing, inclusive, flagged, stored, coverage>>

Commit(j) ==
  /\ job[j].at = "commit"
  /\ stored' = Merged(job[j].page)
  /\ coverage' = job[j].read
  /\ job' = [job EXCEPT ![j] =
       [(IF j = "stream" THEN Rest ELSE [@ EXCEPT !.at = "fetch"]) EXCEPT !.page = {}, !.read = <<>>]]
  /\ UNCHANGED <<now, missing, inclusive, flagged>>

\* find_gaps over the newest bars that are stored.
Newest(bars) == {b \in bars : Cardinality({c \in bars : c > b}) < GapBars}
Gaps ==
  LET there == Newest(Window(stored))
      gap == {g \in there \X there : g[2] > g[1] + 1 /\ \A c \in there : c <= g[1] \/ c >= g[2]}
      ends == {<<OpensAt(g[1]) + 2, OpensAt(g[2])>> : g \in gap}
  IN CHOOSE s \in [1..Cardinality(ends) -> ends] : \A i, k \in DOMAIN s : i < k => s[i][1] < s[k][1]

----------------------------------------------------------------------------
\* A bar that was stored as closed is never touched again, whoever writes late.
SettledStays ==
  [][\A b \in Bars : stored[b] \in {"frozen", "final"} => stored'[b] = stored[b]]_stored
=============================================================================
