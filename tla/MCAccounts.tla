----------------------------- MODULE MCAccounts -----------------------------
(* Small instances of Accounts: two tabs, of one browser or of two, and two *)
(* requests in flight.  Each budget aims at one part of the component.      *)
EXTENDS Accounts, TLC

CONSTANTS t1, t2, r1, r2

Alike == Permutations(Slots)

None == [what \in {"register", "login", "mfa", "refresh", "logout", "everywhere",
                   "start", "confirm", "disable", "act", "lose", "redis", "expire",
                   "enrolled", "signedIn"} |-> 0]

MCBudgets == {
  \* keeping browsers signed in
  ("signedIn" :> 1 @@ "refresh" :> 3 @@ "logout" :> 1 @@ "lose" :> 1) @@ None,
  ("signedIn" :> 1 @@ "refresh" :> 2 @@ "login" :> 1 @@ "everywhere" :> 1) @@ None,
  ("signedIn" :> 1 @@ "refresh" :> 2 @@ "expire" :> 1) @@ None,
  \* signing in too often
  ("register" :> 1 @@ "login" :> 2 @@ "lose" :> 1 @@ "redis" :> 1) @@ None,
  \* codes
  ("enrolled" :> 1 @@ "mfa" :> 1 @@ "act" :> 1) @@ None,
  ("enrolled" :> 1 @@ "act" :> 3 @@ "lose" :> 1) @@ None,
  ("enrolled" :> 1 @@ "act" :> 1 @@ "disable" :> 1 @@ "start" :> 1 @@ "confirm" :> 1) @@ None,
  ("start" :> 2 @@ "confirm" :> 2 @@ "act" :> 1) @@ None,
  ("start" :> 1 @@ "confirm" :> 1 @@ "act" :> 2) @@ None}
=============================================================================
