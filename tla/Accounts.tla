------------------------------ MODULE Accounts ------------------------------
(***************************************************************************)
(* One person's account: signing in with one or two factors, the sessions  *)
(* that keep browsers signed in, and the enrolment of the second factor    *)
(* (services/auth_service.py, api/routes/auth.py, api/deps.py and the      *)
(* browser's lib/api/client.ts and lib/auth/store.ts).                     *)
(*                                                                         *)
(* A handler works on rows it loaded and commits its changed columns later *)
(* (READ COMMITTED, no row locks).  Tabs of one browser share its cookies; *)
(* the CSRF token a tab sends is the one it received last itself.  Every   *)
(* answer that sets a refresh cookie sets a CSRF cookie with it, so one    *)
(* number stands for both.  Time is counted in 15-second ticks.            *)
(***************************************************************************)
EXTENDS SecondFactor, RateWindow, Sequences, FiniteSets

CONSTANTS
  Tabs,
  Browsers,    \* 1..n; each may begin with a session of its own
  Slots,       \* the requests that can be in flight at once
  Budgets,     \* bound: the choices of how often each thing is done, and of how
               \* the account is at first ("enrolled", "signedIn": 0 or 1)
  Grace,       \* REFRESH_GRACE_SECONDS, in ticks
  StepTicks,   \* a one-time code's step, in ticks
  MaxNow       \* bound: the last tick

ASSUME AccountsAssumption ==
  /\ Grace \in Nat /\ StepTicks \in Nat \ {0} /\ MaxNow \in Nat
  /\ IsFiniteSet(Browsers) /\ Browsers = 1..Cardinality(Browsers)
  /\ "none" \notin Tabs

VARIABLES
  now,
  user,        \* the second-factor columns of the users row
  exists,      \* has the account been registered
  sessions,    \* the auth_sessions rows, in the order they were made
  home,        \* the browser each tab belongs to
  cookie,      \* each browser's refresh cookie, 0 for none
  tab,         \* each tab: is it signed in, and its CSRF token
  key,         \* the limiter's key for these callers
  req,         \* the requests in flight
  left,        \* what is left of the budget
  issued,      \* refresh tokens and secrets made so far
  upset,       \* history: what ever disturbed a browser's requests
  missedAt,    \* history: when the first refresh was made whose answer was lost
  ended,       \* history: the sessions signed out of, and whether by the tab that
               \* had refreshed them last
  lastBy,      \* history: the tab whose request last set each session's token
  shown,       \* history: the recovery codes the person holds, unspent
  crossed,     \* history: was a users row written from an outdated copy
  steps        \* history: the secret and step of each accepted one-time code, and
               \* whether it confirmed the enrolment or was verified

vars == <<now, user, exists, sessions, home, cookie, tab, key, req, left, issued,
          upset, missedAt, ended, lastBy, shown, crossed, steps>>

history == <<upset, missedAt, ended, lastBy, shown, crossed, steps>>

FactorOps == {"mfa", "start", "confirm", "disable", "act"}
GuestOps == {"register", "login", "mfa"}
TabOps == {"refresh", "logout", "everywhere"}

NoTab == "none"
Idle == [op |-> "none", stage |-> "idle"]
SessionIds == DOMAIN sessions
FirstSecret == Cardinality(Browsers) + 1
Open(token) == [in |-> token # 0, csrf |-> token]
Step == now \div StepTicks

NewSession(token) == [token |-> token, prev |-> 0, rotated |-> now,
                      revoked |-> FALSE, expired |-> FALSE]

\* The tab through which browser b last signed in or refreshed.
First(b) == IF \E t \in Tabs : home[t] = b THEN CHOOSE t \in Tabs : home[t] = b ELSE NoTab

Init ==
  /\ left \in Budgets
  /\ now = 0
  /\ exists = (left["register"] = 0)
  /\ user = IF left["enrolled"] > 0 THEN Enrolled(FirstSecret) ELSE Blank
  /\ home \in [Tabs -> Browsers]
  /\ sessions = IF left["signedIn"] > 0 THEN [b \in Browsers |-> NewSession(b)] ELSE <<>>
  /\ cookie = [b \in Browsers |-> IF b \in SessionIds THEN b ELSE 0]
  /\ tab = [t \in Tabs |-> IF t = First(home[t]) THEN Open(cookie[home[t]]) ELSE Open(0)]
  /\ lastBy = [b \in SessionIds |-> First(b)]
  /\ issued = FirstSecret
  /\ key = NoKey
  /\ req = [r \in Slots |-> Idle]
  /\ upset = {} /\ missedAt = MaxNow + 1 /\ ended = {}
  /\ shown = user.codes /\ crossed = FALSE /\ steps = <<>>

Spend(what) == left[what] > 0 /\ left' = [left EXCEPT ![what] = @ - 1]
Set(r, request) == req' = [req EXCEPT ![r] = request]
End(r) == Set(r, Idle)
At(r, op, stage) == req[r].op = op /\ req[r].stage = stage
Of(t) == {r \in Slots : req[r] # Idle /\ req[r].tab = t}
Has(t, ops) == \E r \in Of(t) : req[r].op \in ops
\* Requests of one browser that are in flight together are noted.
Noted(t) == IF \E u \in Tabs : home[u] = home[t] /\ Of(u) # {} THEN upset \cup {"overlap"} ELSE upset

----------------------------------------------------------------------------
(***************************************************************************)
(* The tabs.                                                               *)
(***************************************************************************)
\* The request leaves with the cookie of the moment.
Sends(r, op, t, csrf) ==
  /\ req[r] = Idle
  /\ Spend(op)
  /\ Set(r, [op |-> op, stage |-> "sent", tab |-> t, token |-> cookie[home[t]], csrf |-> csrf])
  /\ upset' = Noted(t)
  /\ UNCHANGED <<now, user, exists, sessions, home, cookie, key, issued,
                 missedAt, ended, lastBy, shown, crossed, steps>>

\* refreshSession, of which a tab has at most one in flight: when the page
\* loads, which forgets what the tab held, or when an access token ran out.
Refresh(r, t, reload) ==
  /\ ~Has(t, {"refresh"})
  /\ reload \/ tab[t].in
  /\ Sends(r, "refresh", t, 0)
  /\ tab' = IF reload THEN [tab EXCEPT ![t] = Open(0)] ELSE tab

\* store.logout and "sign out everywhere".
SignOut(r, op, t) ==
  /\ tab[t].in
  /\ ~Has(t, {"logout", "everywhere"})
  /\ Sends(r, op, t, IF tab[t].csrf # 0 THEN tab[t].csrf ELSE cookie[home[t]])
  /\ UNCHANGED tab

\* A new refresh token, or none, reaches the browser; or nothing does.
Deliver(r) ==
  /\ req[r].stage = "answered"
  /\ LET q == req[r] IN
     /\ cookie' = IF q.keeps THEN cookie ELSE [cookie EXCEPT ![home[q.tab]] = q.answer]
     /\ tab' = [tab EXCEPT ![q.tab] = Open(q.answer)]
  /\ End(r)
  /\ UNCHANGED <<now, user, exists, sessions, home, key, left, issued, history>>

\* Only store.logout and refreshSession take no answer for a sign-out.
GivesUp(q) == IF q.op \in {"refresh", "logout"} THEN [tab EXCEPT ![q.tab] = Open(0)] ELSE tab

Lose(r) ==
  /\ req[r].stage = "answered"
  /\ Spend("lose")
  /\ LET q == req[r] IN
     /\ missedAt' = IF q.op = "refresh" /\ ~q.keeps /\ missedAt > q.at THEN q.at ELSE missedAt
     /\ tab' = GivesUp(q)
  /\ End(r)
  /\ UNCHANGED <<now, user, exists, sessions, home, cookie, key, issued,
                 upset, ended, lastBy, shown, crossed, steps>>

\* The handler's answer: the token for the cookie, 0 to clear it.  A refusal
\* is an exception, and what was set on the response goes with it: the cookie
\* stays as it is.
Answered(r, token, at, keeps) ==
  Set(r, [op |-> req[r].op, stage |-> "answered", tab |-> req[r].tab,
          token |-> req[r].token, at |-> at, answer |-> token, keeps |-> keeps])
Refused(r) == Answered(r, 0, now, TRUE)

----------------------------------------------------------------------------
(***************************************************************************)
(* /auth/refresh, /auth/logout, /auth/sessions/revoke-all                  *)
(***************************************************************************)
Matching(token) ==
  {i \in SessionIds : token # 0 /\ token \in {sessions[i].token, sessions[i].prev}}

RefreshLoad(r) ==
  /\ At(r, "refresh", "sent")
  /\ LET found == Matching(req[r].token)
         id == CHOOSE i \in found : TRUE
     IN IF found = {}
        THEN Refused(r)
        ELSE Set(r, [op |-> "refresh", stage |-> "loaded", tab |-> req[r].tab,
                     token |-> req[r].token, id |-> id, row |-> sessions[id], at |-> now])
  /\ UNCHANGED <<now, user, exists, sessions, home, cookie, tab, key, left, issued, history>>

RevokedAll == [i \in SessionIds |-> [sessions[i] EXCEPT !.revoked = TRUE]]

\* Mutant: a token that was replaced is never taken again.
NoGrace(row, at) == FALSE
WithinGrace(row, at) == at - row.rotated <= Grace

\* What the loaded row says of the token: a revoked row, or a replaced token
\* outside the grace window, revokes every session of the account.
Replayed(q) == q.row.revoked \/ (~q.row.expired /\ q.token # q.row.token /\ ~WithinGrace(q.row, q.at))
Rotates(q) == ~q.row.revoked /\ ~q.row.expired /\ ~Replayed(q)

RefreshReplay(r) ==
  /\ At(r, "refresh", "loaded")
  /\ Replayed(req[r])
  /\ sessions' = RevokedAll
  /\ Refused(r)
  /\ UNCHANGED <<now, user, exists, home, cookie, tab, key, left, issued, history>>

RefreshExpired(r) ==
  /\ At(r, "refresh", "loaded")
  /\ req[r].row.expired /\ ~req[r].row.revoked
  /\ Refused(r)
  /\ UNCHANGED <<now, user, exists, sessions, home, cookie, tab, key, left, issued, history>>

\* The UPDATE writes the new hash and, if the token was the current one, that
\* one as the previous; a revocation committed meanwhile stays.
Rotated(row, q, token) ==
  [token |-> token, prev |-> IF q.token = q.row.token THEN q.token ELSE row.prev,
   rotated |-> q.at, revoked |-> row.revoked, expired |-> row.expired]

Rotate(r) ==
  /\ At(r, "refresh", "loaded")
  /\ Rotates(req[r])
  /\ LET q == req[r] IN
     /\ issued' = issued + 1
     /\ sessions' = [sessions EXCEPT ![q.id] = Rotated(@, q, issued')]
     /\ lastBy' = [lastBy EXCEPT ![q.id] = q.tab]
  /\ Answered(r, issued', req[r].at, FALSE)
  /\ UNCHANGED <<now, user, exists, home, cookie, tab, key, left,
                 upset, missedAt, ended, shown, crossed, steps>>

\* verify_csrf compares the header with the cookie of the same request.
CsrfHolds(q) == q.csrf # 0 /\ q.csrf = q.token

\* Mutant: the cookies are cleared and the row is left.
OnlyCookies(q) == {}
SignedOut(q) == {i \in SessionIds : q.token # 0 /\ sessions[i].token = q.token}

\* revoke_session.  A 403 is swallowed by store.logout, which signs the tab
\* out all the same; for the person the session has ended either way.
Logout(r) ==
  /\ At(r, "logout", "sent")
  /\ LET q == req[r] IN
     /\ IF CsrfHolds(q)
        THEN /\ sessions' = [i \in SessionIds |->
                  IF i \in SignedOut(q) THEN [sessions[i] EXCEPT !.revoked = TRUE] ELSE sessions[i]]
             /\ Answered(r, 0, now, FALSE)
        ELSE Refused(r) /\ UNCHANGED sessions
     /\ ended' = ended \cup {<<i, lastBy[i] = q.tab>> : i \in Matching(q.token)}
     /\ upset' = upset \cup {"signed out"}
  /\ UNCHANGED <<now, user, exists, home, cookie, tab, key, left, issued,
                 missedAt, lastBy, shown, crossed, steps>>

Everywhere(r) ==
  /\ At(r, "everywhere", "sent")
  /\ IF CsrfHolds(req[r])
     THEN /\ sessions' = RevokedAll
          /\ Answered(r, 0, now, FALSE)
          /\ ended' = ended \cup (SessionIds \X {TRUE})
          /\ upset' = upset \cup {"signed out"}
     ELSE End(r) /\ UNCHANGED <<sessions, ended, upset>>
  /\ UNCHANGED <<now, user, exists, home, cookie, tab, key, left, issued,
                 missedAt, lastBy, shown, crossed, steps>>

----------------------------------------------------------------------------
(***************************************************************************)
(* Signing in, through auth_rate_limit.                                    *)
(***************************************************************************)
\* A request without a session, on its way through auth_rate_limit.
Guest(op, stage, t, code) ==
  [op |-> op, stage |-> stage, tab |-> t, token |-> 0, code |-> code]

Ask(r, op, t, code) ==
  /\ req[r] = Idle
  /\ ~tab[t].in /\ ~Has(t, GuestOps \cup TabOps)
  /\ Spend(op)
  /\ Set(r, Guest(op, "asked", t, code))
  /\ upset' = Noted(t)
  /\ UNCHANGED <<now, user, exists, sessions, home, cookie, tab, key, issued,
                 missedAt, ended, lastBy, shown, crossed, steps>>

Admit(r) == Set(r, Guest(req[r].op, "admitted", req[r].tab, req[r].code))

\* 429, with the time until which to wait.
Limited(r) == Set(r, [op |-> req[r].op, stage |-> "limited", tab |-> req[r].tab,
                      until |-> IF key' = NoKey THEN now ELSE key'.ends])

\* RateLimiter.check: INCR and TTL, then EXPIRE if the key has no end yet.
Count(r) ==
  /\ req[r].stage = "asked"
  /\ key' = Counted(key)
  /\ IF NeedsEnd(key')
     THEN Set(r, [op |-> req[r].op, stage |-> "counted", tab |-> req[r].tab,
                  code |-> req[r].code, count |-> key'.count])
     ELSE IF Allows(key'.count) THEN Admit(r) ELSE Limited(r)
  /\ UNCHANGED <<now, user, exists, sessions, home, cookie, tab, left, issued, history>>

\* EXPIRE does nothing to a key that is gone.
SetEnd(r) ==
  /\ req[r].stage = "counted"
  /\ key' = IF key = NoKey THEN key ELSE Ended(key, now)
  /\ IF Allows(req[r].count) THEN Admit(r) ELSE Limited(r)
  /\ UNCHANGED <<now, user, exists, sessions, home, cookie, tab, left, issued, history>>

TooMany(r) ==
  /\ req[r].stage = "limited"
  /\ End(r)
  /\ UNCHANGED <<now, user, exists, sessions, home, cookie, tab, key, left, issued, history>>

\* Redis fails at either call: the request is let through.
RedisFails(r) ==
  /\ req[r].stage \in {"asked", "counted"}
  /\ Spend("redis")
  /\ Admit(r)
  /\ UNCHANGED <<now, user, exists, sessions, home, cookie, tab, key, issued, history>>

\* register_user, after which the browser signs in by itself; or the address
\* is taken (409).
Register(r) ==
  /\ At(r, "register", "admitted")
  /\ exists' = TRUE
  /\ IF exists THEN End(r)
     ELSE Set(r, Guest("login", "asked", req[r].tab, NoCode))
  /\ UNCHANGED <<now, user, sessions, home, cookie, tab, key, left, issued, history>>

\* _complete_login: a session of its own for this browser.
Opens(r) ==
  /\ issued' = issued + 1
  /\ sessions' = Append(sessions, NewSession(issued'))
  /\ lastBy' = Append(lastBy, req[r].tab)
  /\ Answered(r, issued', now, FALSE)

\* The password was right and no second factor is asked for.
Login(r) ==
  /\ At(r, "login", "admitted")
  /\ exists /\ ~user.enabled
  /\ Opens(r)
  /\ UNCHANGED <<now, user, exists, home, cookie, tab, key, left,
                 upset, missedAt, ended, shown, crossed, steps>>

\* Wrong credentials, or the answer is a ticket for the second step.
LoginPauses(r) ==
  /\ At(r, "login", "admitted")
  /\ End(r)
  /\ UNCHANGED <<now, user, exists, sessions, home, cookie, tab, key, left, issued, history>>

----------------------------------------------------------------------------
(***************************************************************************)
(* The handlers that work on a copy of the users row: login/mfa, the totp  *)
(* routes, and any action that asks for a code.                            *)
(***************************************************************************)
Asked(r, op, code) ==
  /\ req[r] = Idle
  /\ exists
  /\ Spend(op)
  /\ Set(r, Guest(op, "admitted", NoTab, code))
  /\ UNCHANGED <<now, user, exists, sessions, home, cookie, tab, key, issued, history>>

Passes(q) ==
  CASE q.op = "start"   -> ~user.enabled
    [] q.op = "confirm" -> Confirms(user, q.code, Step)
    [] OTHER            -> Accepts(user, q.code, Step)

Changed(q, secret) ==
  CASE q.op = "start"   -> Started(user, secret)
    [] q.op = "confirm" -> Confirmed(user)
    [] q.op = "disable" -> Disabled(user)
    [] OTHER            -> Verified(user, q.code, Step)

FactorLoad(r) ==
  /\ req[r].op \in FactorOps /\ req[r].stage = "admitted"
  /\ IF Passes(req[r])
     THEN /\ issued' = issued + (IF req[r].op = "start" THEN 1 ELSE 0)
          /\ Set(r, [op |-> req[r].op, stage |-> "decided", tab |-> req[r].tab,
                     token |-> 0, code |-> req[r].code,
                     old |-> user, new |-> Changed(req[r], issued'), step |-> Step])
     ELSE End(r) /\ UNCHANGED issued
  /\ UNCHANGED <<now, user, exists, sessions, home, cookie, tab, key, left, history>>

Outdated(q) == user # q.old
ByOneTimeCode(q) == q.op # "start" /\ q.code.kind = "totp"
Use(q) == IF q.op = "confirm" THEN "confirm" ELSE "verify"

FactorCommit(r) ==
  /\ req[r].op \in FactorOps /\ req[r].stage = "decided"
  /\ LET q == req[r] IN
     /\ user' = Merge(user, q.old, q.new)
     /\ crossed' = (crossed \/ Outdated(q))
     /\ shown' = CASE q.op = "confirm" -> q.new.codes
                   [] q.op = "disable" -> {}
                   [] q.op \in {"mfa", "act"} /\ q.code.kind = "recovery" -> shown \ {q.code.code}
                   [] OTHER -> shown
     /\ steps' = IF ByOneTimeCode(q) THEN Append(steps, <<q.code.secret, q.step, Use(q)>>) ELSE steps
     /\ IF q.op = "mfa" THEN Opens(r) ELSE End(r) /\ UNCHANGED <<issued, sessions, lastBy>>
  /\ UNCHANGED <<now, exists, home, cookie, tab, key, left, upset, missedAt, ended>>

\* The rest of the handler fails: get_db rolls back.
Fail(r) ==
  /\ req[r].stage \in {"sent", "loaded", "admitted", "decided"}
  /\ Spend("lose")
  /\ tab' = GivesUp(req[r])
  /\ End(r)
  /\ UNCHANGED <<now, user, exists, sessions, home, cookie, key, issued, history>>

----------------------------------------------------------------------------
Tick ==
  /\ now < MaxNow
  /\ now' = now + 1
  /\ key' = Later(key, now')
  /\ UNCHANGED <<user, exists, sessions, home, cookie, tab, req, left, issued, history>>

\* refresh_token_ttl_days after it was made.
Expire(i) ==
  /\ Spend("expire")
  /\ ~sessions[i].expired
  /\ sessions' = [sessions EXCEPT ![i].expired = TRUE]
  /\ upset' = upset \cup {"expired"}
  /\ UNCHANGED <<now, user, exists, home, cookie, tab, key, req, issued,
                 missedAt, ended, lastBy, shown, crossed, steps>>

\* The codes a person can have at hand: what the authenticator shows now or
\* showed a step ago, and any recovery code ever shown that still is written
\* down.
Codes ==
  {OneTime(s, Step - d) : s \in {user.secret, user.pending} \ {NoSecret}, d \in {0, 1}}
    \cup {Recovery(c) : c \in user.codes \cup shown}

Next ==
  \/ \E r \in Slots :
       \/ \E t \in Tabs :
            \/ \E reload \in BOOLEAN : Refresh(r, t, reload)
            \/ \E op \in {"logout", "everywhere"} : SignOut(r, op, t)
            \/ \E op \in {"register", "login"} : Ask(r, op, t, NoCode)
            \/ \E code \in Codes : Ask(r, "mfa", t, code)
       \/ \E op \in FactorOps \ {"mfa"}, code \in Codes \cup {NoCode} : Asked(r, op, code)
       \/ Deliver(r) \/ Lose(r) \/ RefreshLoad(r) \/ RefreshReplay(r) \/ RefreshExpired(r)
       \/ Rotate(r) \/ Logout(r) \/ Everywhere(r) \/ Count(r) \/ SetEnd(r) \/ TooMany(r)
       \/ RedisFails(r) \/ Register(r) \/ Login(r) \/ LoginPauses(r)
       \/ FactorLoad(r) \/ FactorCommit(r) \/ Fail(r)
  \/ Tick
  \/ \E i \in SessionIds : Expire(i)

Spec == Init /\ [][Next]_vars

----------------------------------------------------------------------------
\* A browser whose requests never overlap and whose answers arrive, or are
\* asked for again within the grace window, is never refused a refresh until
\* the person signs out or the session expires.
KeptSignedIn ==
  \A r \in Slots :
    (At(r, "refresh", "answered") /\ req[r].keeps /\ req[r].token # 0)
      => upset # {} \/ now > missedAt + Grace

\* A session somebody signed out of is revoked and stays so: except when its
\* token was out of the hands of the tab that signed out, because requests
\* overlapped, an answer was lost, or another tab had refreshed it since.
SignOutEnds ==
  \A e \in ended :
    \/ sessions[e[1]].revoked
    \/ "overlap" \in upset \/ missedAt <= now
    \/ ~e[2]

\* The recovery codes the person holds and has not used are the ones the
\* account takes, unless two handlers changed the users row at the same time.
RecoveryCodesHold == crossed \/ shown = user.codes

\* No two one-time codes of a secret are accepted in one 30-second step, unless
\* both were being checked at the same time: but for the code that confirms the
\* enrolment, after which the step counts as unused and one more is accepted.
Once(codes) ==
  \A i, j \in DOMAIN codes :
    i < j /\ codes[i][1] = codes[j][1] /\ codes[i][2] = codes[j][2]
      => codes[i][3] = "confirm" /\ codes[j][3] = "verify"

OneCodePerStep == crossed \/ Once(steps)

\* A caller who is refused for asking too often is told when to come back,
\* and that is within a window: no counter above the limit is left without
\* an end, whichever of the two calls to Redis failed before.
LockoutEnds ==
  \A r \in Slots : req[r].stage = "limited" => req[r].until \in 1..(now + Window)
=============================================================================
