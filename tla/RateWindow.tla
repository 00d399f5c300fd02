----------------------------- MODULE RateWindow -----------------------------
(***************************************************************************)
(* One key of the fixed-window limiter (core/rate_limit.py): a counter in  *)
(* Redis with a time to live.  INCR and TTL are one transaction, the       *)
(* EXPIRE that follows is a call of its own.                               *)
(***************************************************************************)
EXTENDS Naturals

CONSTANTS
  Limit,    \* rate_limit_auth_per_minute
  Window    \* window_seconds

ASSUME WindowAssumption == Limit \in Nat /\ Window \in Nat \ {0}

Forever == 0   \* a key without a time to live; a time of 0 never comes
NoKey == [count |-> 0, ends |-> Forever]

Counted(key) == [key EXCEPT !.count = @ + 1]
\* Mutant: only the first request of a window sets its end.
NeedsEndFirst(key) == key.count = 1
NeedsEnd(key) == key.ends = Forever
Ended(key, now) == [key EXCEPT !.ends = now + Window]
Allows(count) == count <= Limit
Expired(key, now) == key.ends # Forever /\ now >= key.ends
Later(key, now) == IF Expired(key, now) THEN NoKey ELSE key
=============================================================================
