--------------------------- MODULE AccountsProofs ---------------------------
(***************************************************************************)
(* Proofs about Accounts.  Three parts of the component are reasoned about *)
(* apart: the limiter's key and the requests it has counted, the users row *)
(* and the copies of it that handlers hold, and what the browsers hold of  *)
(* the sessions.                                                           *)
(***************************************************************************)
EXTENDS Accounts, FiniteSetTheorems, SequenceTheorems, TLAPS

-----------------------------------------------------------------------------
(* The values the variables take.                                          *)
Pairs == Nat \X Nat
Acceptances == Nat \X Nat \X {"confirm", "verify"}
SessionRow == [token : Nat, prev : Nat, rotated : Nat, revoked : BOOLEAN, expired : BOOLEAN]
UserRow == [enabled : BOOLEAN, secret : Nat, pending : Nat, codes : SUBSET Pairs, counter : Int]
Code == [kind : {"totp"}, secret : Nat, step : Int] \cup [kind : {"recovery"}, code : Pairs]

\* The requests, by stage.
SentReq == [op : TabOps, stage : {"sent"}, tab : Tabs, token : Nat, csrf : Nat]
LoadedReq == [op : {"refresh"}, stage : {"loaded"}, tab : Tabs, token : Nat, id : Nat,
              row : SessionRow, at : Nat]
AnsweredReq == [op : TabOps \cup {"login", "mfa"}, stage : {"answered"}, tab : Tabs, token : Nat,
                at : Nat, answer : Nat, keeps : BOOLEAN]
GuestReq == [op : GuestOps, stage : {"asked", "admitted"}, tab : Tabs, token : {0}, code : Code]
CountedReq == [op : GuestOps, stage : {"counted"}, tab : Tabs, code : Code, count : Nat]
LimitedReq == [op : GuestOps, stage : {"limited"}, tab : Tabs, until : Nat]
ActReq == [op : FactorOps \ {"mfa"}, stage : {"admitted"}, tab : {NoTab}, token : {0}, code : Code]
DecidedReq == [op : FactorOps, stage : {"decided"}, tab : Tabs \cup {NoTab}, token : {0}, code : Code,
               old : UserRow, new : UserRow, step : Nat]
Request == SentReq \cup LoadedReq \cup AnsweredReq \cup GuestReq \cup CountedReq \cup LimitedReq
             \cup ActReq \cup {q \in DecidedReq : q.tab = NoTab <=> q.op # "mfa"}

ReqType == req \in [Slots -> Request \cup {Idle}]
BrowserTypes ==
  /\ sessions \in Seq(SessionRow)
  /\ lastBy \in Seq(Tabs \cup {NoTab}) /\ Len(lastBy) = Len(sessions)
  /\ home \in [Tabs -> Browsers]
  /\ cookie \in [Browsers -> Nat]
  /\ tab \in [Tabs -> [in : BOOLEAN, csrf : Nat]]
ClockTypes == now \in Nat /\ missedAt \in Nat /\ issued \in Nat
FactorTypes ==
  /\ user \in UserRow /\ shown \subseteq Pairs
  /\ crossed \in BOOLEAN /\ exists \in BOOLEAN /\ steps \in Seq(Acceptances)
KeyType == key \in [count : Nat, ends : Nat]

TypeOK == ReqType /\ BrowserTypes /\ ClockTypes /\ FactorTypes /\ KeyType

-----------------------------------------------------------------------------
(* The limiter: an end is never further off than a window, and a key that a *)
(* request has counted on goes only when time has passed.                   *)
KeyEnds == key.ends <= now + Window
CountedKeyIsThere(q) == q.stage = "counted" /\ key = NoKey => now >= 1
LimiterSound(q) ==
  /\ CountedKeyIsThere(q)
  /\ q.stage = "limited" => q.until \in 1..(now + Window)
LimiterInv == KeyEnds /\ \A r \in Slots : LimiterSound(req[r])

-----------------------------------------------------------------------------
(* The second factor.  A copy a handler has decided on is what it read,    *)
(* changed as its operation changes it.                                    *)
ChangedRight(q) ==
  q.stage = "decided" =>
    CASE q.op = "start"   -> ~q.old.enabled /\ q.new = Started(q.old, q.new.pending)
      [] q.op = "confirm" -> Confirms(q.old, q.code, q.step) /\ q.new = Enrolled(q.old.pending)
      [] q.op = "disable" -> Accepts(q.old, q.code, q.step) /\ q.new = Blank
      [] OTHER            -> Accepts(q.old, q.code, q.step) /\ q.new = Verified(q.old, q.code, q.step)

\* No code of secret k was accepted yet.
Unspent(k) == \A i \in DOMAIN steps : steps[i][1] # k
Starting(q) == q.stage = "decided" /\ q.op = "start"

UserSound ==
  /\ user.enabled => user.secret # NoSecret /\ user.pending = NoSecret
  /\ ~user.enabled => user.secret = NoSecret
  /\ user.secret <= issued /\ user.pending <= issued
  /\ user.pending # NoSecret => Unspent(user.pending)
  /\ \A i \in DOMAIN steps :
       /\ steps[i][1] \in 1..issued
       /\ steps[i][1] = user.secret /\ steps[i][3] = "verify" => steps[i][2] <= user.counter

\* A secret that is about to be offered is nobody's yet.
SecretIsNew(q) ==
  Starting(q) =>
    /\ q.new.pending \in 1..issued
    /\ q.new.pending \notin {user.secret, user.pending}
    /\ Unspent(q.new.pending)
SecretsDiffer ==
  \A r, s \in Slots :
    Starting(req[r]) /\ Starting(req[s]) /\ r # s => req[r].new.pending # req[s].new.pending

FactorInv ==
  /\ \A r \in Slots : ChangedRight(req[r])
  /\ crossed \/ (UserSound /\ SecretsDiffer /\ \A r \in Slots : SecretIsNew(req[r]))
  /\ RecoveryCodesHold /\ OneCodePerStep

-----------------------------------------------------------------------------
(* The browsers.  Requests of one browser never overlapped; nor was the    *)
(* answer of a refresh lost; or at least no longer than the grace ago, and *)
(* nothing else happened to the sessions.                                  *)
Calm == "overlap" \notin upset
Clean == Calm /\ now < missedAt
Quiet == upset = {} /\ now <= missedAt + Grace

Calls(r, b) == req[r].stage # "idle" /\ req[r].tab # NoTab /\ home[req[r].tab] = b
OneAtATime == \A b \in Browsers : \A r, s \in Slots : Calls(r, b) /\ Calls(s, b) => r = s

TokensMade ==
  /\ \A i \in SessionIds : sessions[i].token \in 1..issued /\ sessions[i].prev <= issued
  /\ \A b \in Browsers : cookie[b] <= issued
\* A token names one session, and a browser's cookie a session that one of
\* its tabs has refreshed last.
Distinct == \A i, j \in SessionIds : \A x \in Nat : i \in Matching(x) /\ j \in Matching(x) => i = j
Owned == \A t \in Tabs : \A i \in Matching(cookie[home[t]]) :
           lastBy[i] # NoTab /\ home[lastBy[i]] = home[t]

\* What a request knows is still so.
Current(q) ==
  /\ q.stage \in {"sent", "loaded"} => q.token = cookie[home[q.tab]]
  /\ q.stage = "loaded" =>
       /\ q.id \in Matching(q.token)
       /\ q.row.token = sessions[q.id].token
       /\ q.row.rotated = sessions[q.id].rotated
  /\ q.stage = "answered" /\ q.answer # 0 =>
       \E i \in SessionIds : sessions[i].token = q.answer /\ lastBy[i] = q.tab
Plain(q) ==
  /\ q.stage \in {"sent", "loaded"} => q.token <= issued
  /\ q.stage = "loaded" => q.id \in SessionIds
  /\ q.stage \in {"loaded", "answered"} => q.at <= now
  /\ q.stage = "answered" => q.answer <= issued /\ (q.keeps => q.answer = 0)

\* The answer with the token of session i is on its way.
Coming(r, i) ==
  /\ At(r, "refresh", "answered") /\ ~req[r].keeps
  /\ req[r].tab = lastBy[i] /\ req[r].answer = sessions[i].token /\ req[r].at = sessions[i].rotated

\* The tab that refreshed a session last has its token, or has it coming.
Settled ==
  \A i \in SessionIds :
    lastBy[i] # NoTab /\ i \in Matching(cookie[home[lastBy[i]]]) =>
      \/ /\ cookie[home[lastBy[i]]] = sessions[i].token
         /\ tab[lastBy[i]].csrf \in {0, sessions[i].token}
      \/ \E r \in Slots : Coming(r, i)
MeansIt(q) ==
  q.stage = "sent" /\ q.op = "logout" =>
    \A i \in Matching(q.token) : lastBy[i] = q.tab => q.csrf = q.token

\* A browser's cookie is good for another refresh.
Good(x) ==
  \E i \in Matching(x) :
    \/ x = sessions[i].token \/ sessions[i].rotated >= missedAt
    \/ \E r \in Slots : Coming(r, i)
AliveRow(row) == ~row.revoked /\ ~row.expired
Serves(q) ==
  /\ q.stage = "loaded" => AliveRow(q.row)
  /\ q.stage = "answered" /\ q.op = "refresh" /\ q.keeps => q.token = 0

\* What was signed out of is revoked, if it was the tab's to sign out of.
Ends(e) == e[1] \in SessionIds /\ (Clean => sessions[e[1]].revoked \/ ~e[2])

Held == Distinct /\ Owned /\ \A r \in Slots : Current(req[r])
Known == Settled /\ \A r \in Slots : MeansIt(req[r])
Served ==
  /\ \A t \in Tabs : cookie[home[t]] # 0 => Good(cookie[home[t]])
  /\ \A i \in SessionIds : AliveRow(sessions[i])
  /\ \A r \in Slots : Serves(req[r])

BrowserInv ==
  /\ TokensMade /\ \A r \in Slots : Plain(req[r])
  /\ \A e \in ended : Ends(e)
  /\ Calm => OneAtATime
  /\ Calm => Held
  /\ Clean => Known
  /\ Quiet => Served

-----------------------------------------------------------------------------
(* Types.                                                                  *)

LEMMA Constants ==
  /\ Grace \in Nat /\ StepTicks \in Nat \ {0} /\ MaxNow \in Nat
  /\ Limit \in Nat /\ Window \in Nat \ {0} /\ CodesPerSecret \in Nat
  /\ Cardinality(Browsers) \in Nat /\ Browsers = 1..Cardinality(Browsers) /\ Browsers \subseteq Nat
  /\ NoTab \notin Tabs
  BY AccountsAssumption, WindowAssumption, CodesAssumption, FS_CardinalityType DEF NoTab

LEMMA Rows ==
  ASSUME BrowserTypes
  PROVE  /\ SessionIds = 1..Len(sessions) /\ Len(sessions) \in Nat
         /\ DOMAIN lastBy = SessionIds
         /\ \A i \in SessionIds : i \in Nat /\ sessions[i] \in SessionRow /\ lastBy[i] \in Tabs \cup {NoTab}
  BY DEF BrowserTypes, SessionIds

LEMMA RequestKinds ==
  ASSUME ReqType, NEW r \in Slots
  PROVE  /\ req[r] = Idle \/ req[r] \in Request
         /\ req[r].stage = "sent"     => req[r] \in SentReq
         /\ req[r].stage = "loaded"   => req[r] \in LoadedReq
         /\ req[r].stage = "answered" => req[r] \in AnsweredReq
         /\ req[r].stage = "asked"    => req[r] \in GuestReq
         /\ req[r].stage = "counted"  => req[r] \in CountedReq
         /\ req[r].stage = "limited"  => req[r] \in LimitedReq
         /\ req[r].stage = "admitted" => req[r] \in GuestReq \/ req[r] \in ActReq
         /\ req[r].stage = "decided"  => req[r] \in DecidedReq /\ (req[r].tab = NoTab <=> req[r].op # "mfa")
         /\ req[r] # Idle => req[r].stage # "idle"
<1>1. req[r] = Idle \/ req[r] \in Request
  BY DEF ReqType
<1> QED
  BY <1>1 DEF Idle, Request, SentReq, LoadedReq, AnsweredReq, GuestReq, CountedReq, LimitedReq, ActReq, DecidedReq

\* A request with a tab is one of the tab's browser.
LEMMA RequestTabs ==
  ASSUME ReqType, NEW r \in Slots, req[r].stage # "idle"
  PROVE  /\ req[r].tab \in Tabs \cup {NoTab}
         /\ req[r].stage \in {"sent", "loaded", "answered", "asked", "counted", "limited"} => req[r].tab \in Tabs
         /\ req[r].op \in GuestOps \cup TabOps => req[r].tab \in Tabs
<1>1. req[r] # Idle
  BY DEF Idle
<1> QED
  BY <1>1, RequestKinds DEF Request, SentReq, LoadedReq, AnsweredReq, GuestReq, CountedReq, LimitedReq,
       ActReq, DecidedReq, GuestOps, TabOps, FactorOps

LEMMA SetTypes ==
  ASSUME ReqType, NEW r \in Slots, NEW q \in Request \cup {Idle}, req' = [req EXCEPT ![r] = q]
  PROVE  ReqType'
  BY DEF ReqType

LEMMA EndTypes ==
  ASSUME ReqType, NEW r \in Slots, End(r)
  PROVE  ReqType'
  BY DEF ReqType, End, Set

LEMMA AnsweredTypes ==
  ASSUME ReqType, NEW r \in Slots, NEW token \in Nat, NEW at \in Nat, NEW keeps \in BOOLEAN,
         req[r].stage # "idle", req[r].stage # "limited", req[r].stage # "counted",
         req[r].op \in TabOps \cup {"login", "mfa"},
         Answered(r, token, at, keeps)
  PROVE  ReqType'
<1>1. req[r].tab \in Tabs /\ req[r].token \in Nat
  BY RequestTabs, RequestKinds DEF Request, SentReq, LoadedReq, AnsweredReq, GuestReq, CountedReq, LimitedReq,
       ActReq, DecidedReq, GuestOps, TabOps, FactorOps, Idle
<1>2. [op |-> req[r].op, stage |-> "answered", tab |-> req[r].tab, token |-> req[r].token, at |-> at,
       answer |-> token, keeps |-> keeps] \in AnsweredReq
  BY <1>1 DEF AnsweredReq
<1> QED
  BY <1>2 DEF Answered, Set, ReqType, Request

LEMMA GuestTypes ==
  ASSUME NEW op \in GuestOps, NEW stage \in {"asked", "admitted"}, NEW t \in Tabs, NEW code \in Code
  PROVE  Guest(op, stage, t, code) \in Request
  BY DEF Guest, GuestReq, Request

LEMMA ActTypes ==
  ASSUME NEW op \in FactorOps \ {"mfa"}, NEW code \in Code
  PROVE  Guest(op, "admitted", NoTab, code) \in Request
  BY DEF Guest, ActReq, Request

\* The codes people type.
LEMMA CodeTypes ==
  ASSUME TypeOK, NEW code \in Codes \cup {NoCode}
  PROVE  code \in Code
<1>1. Step \in Int
  BY Constants DEF TypeOK, ClockTypes, Step
<1>2. CASE code = NoCode
  BY <1>2 DEF NoCode, Recovery, Code, Pairs
<1>3. CASE \E s \in {user.secret, user.pending} \ {NoSecret}, d \in {0, 1} : code = OneTime(s, Step - d)
  BY <1>1, <1>3 DEF OneTime, Code, TypeOK, FactorTypes, UserRow
<1>4. CASE \E c \in user.codes \cup shown : code = Recovery(c)
  BY <1>4 DEF Recovery, Code, TypeOK, FactorTypes, UserRow
<1> QED
  BY <1>2, <1>3, <1>4 DEF Codes

LEMMA RowTypes ==
  /\ Blank \in UserRow
  /\ \A secret \in Nat : Enrolled(secret) \in UserRow /\ FreshCodes(secret) \subseteq Pairs
<1>1. Blank \in UserRow
  BY DEF Blank, UserRow, NoSecret, NoCounter
<1>2. ASSUME NEW secret \in Nat
      PROVE  FreshCodes(secret) \subseteq Pairs
  BY Constants DEF FreshCodes, Pairs
<1>4. ASSUME NEW secret \in Nat
      PROVE  Enrolled(secret) \in UserRow
  BY <1>2 DEF Enrolled, UserRow, NoSecret, NoCounter
<1> QED
  BY <1>1, <1>2, <1>4

\* One column of a row changed.
LEMMA UserExcept ==
  ASSUME NEW u \in UserRow
  PROVE  /\ \A x \in Nat : [u EXCEPT !.pending = x] \in UserRow
         /\ \A x \in Int : [u EXCEPT !.counter = x] \in UserRow
         /\ \A c : [u EXCEPT !.codes = @ \ {c}] \in UserRow
  BY DEF UserRow

LEMMA ChangedTypes ==
  ASSUME TypeOK, NEW r \in Slots, req[r].stage = "admitted", req[r].op \in FactorOps, NEW secret \in Nat,
         Passes(req[r])
  PROVE  Changed(req[r], secret) \in UserRow
<1>1. req[r].code \in Code
  BY RequestKinds DEF TypeOK, GuestReq, ActReq
<1>2. Step \in Nat
  BY Constants DEF TypeOK, ClockTypes, Step
<1>3. user \in UserRow
  BY DEF TypeOK, FactorTypes
<1>4. Started(user, secret) \in UserRow
  BY <1>3, UserExcept DEF Started
<1>5. Confirmed(user) \in UserRow
  BY <1>3, RowTypes DEF Confirmed, UserRow
<1>6. Disabled(user) \in UserRow
  BY RowTypes DEF Disabled
<1>7. Verified(user, req[r].code, Step) \in UserRow
  <2>1. CASE req[r].code.kind = "totp"
    BY <1>2, <1>3, <2>1, UserExcept DEF Verified
  <2>2. CASE req[r].code.kind # "totp"
    BY <1>3, <2>2, UserExcept DEF Verified
  <2> QED  BY <2>1, <2>2
<1> QED
  BY <1>4, <1>5, <1>6, <1>7 DEF Changed

\* A refresh is refused, or goes on with the row it found.
LoadedCopy(r, id) ==
  [op |-> "refresh", stage |-> "loaded", tab |-> req[r].tab,
   token |-> req[r].token, id |-> id, row |-> sessions[id], at |-> now]

LEMMA RefreshLoads ==
  ASSUME NEW r \in Slots, RefreshLoad(r)
  PROVE  \/ Matching(req[r].token) = {} /\ Refused(r)
         \/ \E id \in Matching(req[r].token) : req' = [req EXCEPT ![r] = LoadedCopy(r, id)]
<1> DEFINE id == CHOOSE i \in Matching(req[r].token) : TRUE
<1>1. CASE Matching(req[r].token) = {}
  BY <1>1 DEF RefreshLoad
<1>2. CASE Matching(req[r].token) # {}
  <2>1. id \in Matching(req[r].token)
    BY <1>2
  <2>2. req' = [req EXCEPT ![r] = LoadedCopy(r, id)]
    BY <1>2 DEF RefreshLoad, Set, LoadedCopy
  <2> HIDE DEF id
  <2> QED  BY <2>1, <2>2
<1> QED  BY <1>1, <1>2

\* A request is in flight from when it is made to when its answer arrives.
LEMMA RequestStep ==
  ASSUME TypeOK, [Next]_vars, key'.ends \in Nat, key'.count \in Nat, issued' \in Nat
  PROVE  ReqType'
<1> USE Constants
<1>0. ReqType /\ BrowserTypes /\ ClockTypes /\ FactorTypes /\ KeyType
  BY DEF TypeOK
<1>a. ASSUME NEW r \in Slots, req[r].stage = "sent"
      PROVE  /\ req[r].op \in TabOps \cup {"login", "mfa"} /\ req[r].tab \in Tabs
             /\ req[r].token \in Nat
  BY <1>0, <1>a, RequestKinds DEF SentReq
<1>b. ASSUME NEW r \in Slots, req[r].stage = "loaded"
      PROVE  /\ req[r].op \in TabOps \cup {"login", "mfa"} /\ req[r].tab \in Tabs
             /\ req[r].token \in Nat /\ req[r].at \in Nat
  BY <1>0, <1>b, RequestKinds DEF LoadedReq, TabOps
<1>1. ASSUME NEW r \in Slots, NEW t \in Tabs, NEW reload \in BOOLEAN, Refresh(r, t, reload)
      PROVE  ReqType'
  <2>1. [op |-> "refresh", stage |-> "sent", tab |-> t, token |-> cookie[home[t]], csrf |-> 0] \in SentReq
    BY <1>0 DEF SentReq, BrowserTypes, TabOps
  <2> QED
    BY <1>0, <1>1, <2>1 DEF Refresh, Sends, Set, ReqType, Request
<1>2. ASSUME NEW r \in Slots, NEW t \in Tabs, NEW op \in {"logout", "everywhere"}, SignOut(r, op, t)
      PROVE  ReqType'
  <2> DEFINE csrf == IF tab[t].csrf # 0 THEN tab[t].csrf ELSE cookie[home[t]]
  <2>1. [op |-> op, stage |-> "sent", tab |-> t, token |-> cookie[home[t]], csrf |-> csrf] \in SentReq
    BY <1>0 DEF SentReq, BrowserTypes, TabOps
  <2>2. req' = [req EXCEPT ![r] = [op |-> op, stage |-> "sent", tab |-> t, token |-> cookie[home[t]], csrf |-> csrf]]
    BY <1>2 DEF SignOut, Sends, Set
  <2> HIDE DEF csrf
  <2> QED
    BY <1>0, <2>1, <2>2 DEF ReqType, Request
<1>3. ASSUME NEW r \in Slots, NEW t \in Tabs, NEW op \in GuestOps, NEW code \in Codes \cup {NoCode}, Ask(r, op, t, code)
      PROVE  ReqType'
  BY <1>0, <1>3, GuestTypes, CodeTypes, SetTypes DEF Ask, Set
<1>4. ASSUME NEW r \in Slots, NEW op \in FactorOps \ {"mfa"}, NEW code \in Codes \cup {NoCode}, Asked(r, op, code)
      PROVE  ReqType'
  BY <1>0, <1>4, ActTypes, CodeTypes, SetTypes DEF Asked, Set
<1>5. ASSUME NEW r \in Slots, Deliver(r) \/ Lose(r) \/ TooMany(r) \/ LoginPauses(r) \/ Fail(r)
      PROVE  ReqType'
  BY <1>0, <1>5, EndTypes DEF Deliver, Lose, TooMany, LoginPauses, Fail
<1>6. ASSUME NEW r \in Slots, RefreshLoad(r)
      PROVE  ReqType'
  <2>1. CASE Refused(r)
    BY <1>0, <1>6, <1>a, <2>1, AnsweredTypes DEF RefreshLoad, Refused, At, ClockTypes
  <2>2. ASSUME NEW id \in Matching(req[r].token), req' = [req EXCEPT ![r] = LoadedCopy(r, id)]
        PROVE  ReqType'
    <3>1. id \in Nat /\ sessions[id] \in SessionRow
      BY <1>0, Rows DEF Matching
    <3>2. LoadedCopy(r, id) \in LoadedReq
      BY <1>0, <1>6, <1>a, <3>1 DEF LoadedReq, LoadedCopy, RefreshLoad, At, ClockTypes
    <3> QED  BY <1>0, <2>2, <3>2, SetTypes DEF Request
  <2> QED  BY <1>6, <2>1, <2>2, RefreshLoads
<1>7. ASSUME NEW r \in Slots, RefreshReplay(r) \/ RefreshExpired(r)
      PROVE  ReqType'
  BY <1>0, <1>7, <1>b, AnsweredTypes DEF RefreshReplay, RefreshExpired, Refused, At, ClockTypes
<1>8. ASSUME NEW r \in Slots, Rotate(r)
      PROVE  ReqType'
  BY <1>0, <1>8, <1>b, AnsweredTypes DEF Rotate, At, ClockTypes
<1>9. ASSUME NEW r \in Slots, Logout(r)
      PROVE  ReqType'
  BY <1>0, <1>9, <1>a, AnsweredTypes DEF Logout, Refused, At, ClockTypes
<1>10. ASSUME NEW r \in Slots, Everywhere(r)
       PROVE  ReqType'
  BY <1>0, <1>10, <1>a, AnsweredTypes, EndTypes DEF Everywhere, At, ClockTypes
<1>11. ASSUME NEW r \in Slots, req[r].stage = "asked" \/ req[r].stage = "counted", Admit(r)
       PROVE  ReqType'
  <2>1. req[r] \in GuestReq \/ req[r] \in CountedReq
    BY <1>0, <1>11, RequestKinds
  <2>2. Guest(req[r].op, "admitted", req[r].tab, req[r].code) \in Request
    BY <2>1, GuestTypes DEF GuestReq, CountedReq
  <2> QED  BY <1>0, <1>11, <2>2, SetTypes DEF Admit, Set
<1>12. ASSUME NEW r \in Slots, req[r].stage = "asked" \/ req[r].stage = "counted", Limited(r)
       PROVE  ReqType'
  <2> DEFINE until == IF key' = NoKey THEN now ELSE key'.ends
             new == [op |-> req[r].op, stage |-> "limited", tab |-> req[r].tab, until |-> until]
  <2>1. req[r] \in GuestReq \/ req[r] \in CountedReq
    BY <1>0, <1>12, RequestKinds
  <2>2. until \in Nat
    BY <1>0 DEF ClockTypes
  <2>3. req' = [req EXCEPT ![r] = new]
    BY <1>12 DEF Limited, Set
  <2> HIDE DEF until
  <2>4. new \in LimitedReq
    BY <2>1, <2>2 DEF GuestReq, CountedReq, LimitedReq
  <2> HIDE DEF new
  <2> QED  BY <1>0, <2>3, <2>4, SetTypes DEF Request
<1>13. ASSUME NEW r \in Slots, Count(r)
       PROVE  ReqType'
  <2> DEFINE new == [op |-> req[r].op, stage |-> "counted", tab |-> req[r].tab,
                     code |-> req[r].code, count |-> key'.count]
  <2>1. CASE NeedsEnd(key')
    <3>1. new \in CountedReq
      BY <1>0, <1>13, RequestKinds DEF GuestReq, CountedReq, Count
    <3>2. req' = [req EXCEPT ![r] = new]
      BY <1>13, <2>1 DEF Count, Set
    <3> HIDE DEF new
    <3> QED  BY <1>0, <3>1, <3>2, SetTypes DEF Request
  <2>2. CASE ~NeedsEnd(key')
    BY <1>11, <1>12, <1>13, <2>2 DEF Count
  <2> QED  BY <2>1, <2>2
<1>14. ASSUME NEW r \in Slots, SetEnd(r) \/ RedisFails(r)
       PROVE  ReqType'
  BY <1>11, <1>12, <1>14 DEF SetEnd, RedisFails
<1>15. ASSUME NEW r \in Slots, Register(r)
       PROVE  ReqType'
  <2>1. req[r].tab \in Tabs /\ NoCode \in Code
    BY <1>0, <1>15, RequestTabs, CodeTypes DEF Register, At, GuestOps
  <2> QED  BY <1>0, <1>15, <2>1, GuestTypes, SetTypes, EndTypes DEF Register, Set, GuestOps
<1>16. ASSUME NEW r \in Slots, Login(r)
       PROVE  ReqType'
  BY <1>0, <1>16, AnsweredTypes DEF Login, Opens, At, ClockTypes
<1>17. ASSUME NEW r \in Slots, FactorLoad(r)
       PROVE  ReqType'
  <2> DEFINE new == [op |-> req[r].op, stage |-> "decided", tab |-> req[r].tab,
                     token |-> 0, code |-> req[r].code,
                     old |-> user, new |-> Changed(req[r], issued'), step |-> Step]
  <2>1. CASE Passes(req[r])
    <3>1. Changed(req[r], issued') \in UserRow
      BY <1>17, <2>1, ChangedTypes DEF FactorLoad
    <3>2. Step \in Nat /\ user \in UserRow
      BY <1>0 DEF ClockTypes, Step, FactorTypes
    <3>3. /\ req[r].code \in Code /\ req[r].tab \in Tabs \cup {NoTab}
          /\ req[r].tab = NoTab <=> req[r].op # "mfa"
      BY <1>0, <1>17, RequestKinds DEF FactorLoad, GuestReq, ActReq, FactorOps, GuestOps
    <3>4. new \in DecidedReq /\ (new.tab = NoTab <=> new.op # "mfa")
      BY <1>17, <3>1, <3>2, <3>3 DEF DecidedReq, FactorLoad
    <3>5. req' = [req EXCEPT ![r] = new]
      BY <1>17, <2>1 DEF FactorLoad, Set
    <3> HIDE DEF new
    <3> QED  BY <1>0, <3>4, <3>5, SetTypes DEF Request
  <2>2. CASE ~Passes(req[r])
    BY <1>0, <1>17, <2>2, EndTypes DEF FactorLoad
  <2> QED  BY <2>1, <2>2
<1>18. ASSUME NEW r \in Slots, FactorCommit(r)
       PROVE  ReqType'
  BY <1>0, <1>18, AnsweredTypes, EndTypes DEF FactorCommit, Opens, ClockTypes
<1>19. ASSUME Tick \/ (\E i \in SessionIds : Expire(i)) \/ UNCHANGED vars
       PROVE  ReqType'
  BY <1>0, <1>19 DEF Tick, Expire, vars, ReqType
<1>20. ASSUME Next, NEW r \in Slots, NEW t \in Tabs, NEW op \in {"register", "login"}, Ask(r, op, t, NoCode)
       PROVE  ReqType'
  BY <1>3, <1>20 DEF GuestOps
<1>21. ASSUME Next, NEW r \in Slots, NEW t \in Tabs, NEW code \in Codes, Ask(r, "mfa", t, code)
       PROVE  ReqType'
  BY <1>3, <1>21 DEF GuestOps
<1> QED
  BY <1>1, <1>2, <1>4, <1>5, <1>6, <1>7, <1>8, <1>9, <1>10, <1>13, <1>14, <1>15, <1>16, <1>17, <1>18, <1>19,
     <1>20, <1>21 DEF Next

\* What happens to the sessions in one step: a new one, a rotation, or that
\* some are revoked or expire.
Opened == \E token \in Nat, t \in Tabs :
  sessions' = Append(sessions, NewSession(token)) /\ lastBy' = Append(lastBy, t)
Turned == \E i \in SessionIds, row \in SessionRow, t \in Tabs :
  sessions' = [sessions EXCEPT ![i] = row] /\ lastBy' = [lastBy EXCEPT ![i] = t]
Closed ==
  /\ \E revoked \in SUBSET SessionIds : sessions' = [i \in SessionIds |->
       IF i \in revoked THEN [sessions[i] EXCEPT !.revoked = TRUE] ELSE sessions[i]]
  /\ lastBy' = lastBy
Ran == \E i \in SessionIds : sessions' = [sessions EXCEPT ![i].expired = TRUE] /\ lastBy' = lastBy

LEMMA RowExcept ==
  ASSUME NEW row \in SessionRow
  PROVE  /\ [row EXCEPT !.revoked = TRUE] \in SessionRow
         /\ [row EXCEPT !.expired = TRUE] \in SessionRow
  BY DEF SessionRow

LEMMA SessionTypes ==
  ASSUME TypeOK, Opened \/ Turned \/ Closed \/ Ran \/ UNCHANGED <<sessions, lastBy>>
  PROVE  /\ sessions' \in Seq(SessionRow)
         /\ lastBy' \in Seq(Tabs \cup {NoTab}) /\ Len(lastBy') = Len(sessions')
         /\ Len(sessions') = IF Opened THEN Len(sessions) + 1 ELSE Len(sessions)
<1>0. /\ sessions \in Seq(SessionRow) /\ lastBy \in Seq(Tabs \cup {NoTab}) /\ Len(lastBy) = Len(sessions)
      /\ SessionIds = 1..Len(sessions) /\ Len(sessions) \in Nat
  BY Rows DEF TypeOK, BrowserTypes
<1>1. CASE Opened
  <2>1. PICK token \in Nat, t \in Tabs :
          sessions' = Append(sessions, NewSession(token)) /\ lastBy' = Append(lastBy, t)
    BY <1>1 DEF Opened
  <2>2. NewSession(token) \in SessionRow
    BY DEF NewSession, SessionRow, TypeOK, ClockTypes
  <2> QED  BY <1>0, <1>1, <2>1, <2>2, AppendProperties
<1>2. ASSUME Len(sessions') = Len(sessions)
      PROVE  ~Opened
  <2> SUFFICES ASSUME Opened PROVE FALSE
    OBVIOUS
  <2>1. PICK token \in Nat, t \in Tabs :
          sessions' = Append(sessions, NewSession(token)) /\ lastBy' = Append(lastBy, t)
    BY DEF Opened
  <2>2. NewSession(token) \in SessionRow
    BY DEF NewSession, SessionRow, TypeOK, ClockTypes
  <2> QED  BY <1>0, <1>2, <2>1, <2>2, AppendProperties
<1>3. CASE Turned
  <2>1. PICK i \in SessionIds, row \in SessionRow, t \in Tabs :
          sessions' = [sessions EXCEPT ![i] = row] /\ lastBy' = [lastBy EXCEPT ![i] = t]
    BY <1>3 DEF Turned
  <2> QED  BY <1>0, <1>2, <2>1, ExceptSeq
<1>4. CASE Closed
  <2>1. PICK revoked \in SUBSET SessionIds : sessions' = [i \in SessionIds |->
          IF i \in revoked THEN [sessions[i] EXCEPT !.revoked = TRUE] ELSE sessions[i]]
    BY <1>4 DEF Closed
  <2>2. ASSUME NEW i \in SessionIds
        PROVE  [sessions[i] EXCEPT !.revoked = TRUE] \in SessionRow /\ sessions[i] \in SessionRow
    <3>1. sessions[i] \in SessionRow
      BY Rows DEF TypeOK
    <3> QED  BY <3>1, RowExcept
  <2>3. sessions' \in [1..Len(sessions) -> SessionRow]
    BY <1>0, <2>1, <2>2
  <2>4. sessions' \in Seq(SessionRow) /\ Len(sessions') = Len(sessions)
    BY <1>0, <2>3
  <2> QED  BY <1>0, <1>2, <1>4, <2>4 DEF Closed
<1>5. CASE Ran
  <2>1. PICK i \in SessionIds : sessions' = [sessions EXCEPT ![i].expired = TRUE] /\ lastBy' = lastBy
    BY <1>5 DEF Ran
  <2>2. [sessions[i] EXCEPT !.expired = TRUE] \in SessionRow
    <3>1. sessions[i] \in SessionRow
      BY Rows DEF TypeOK
    <3> QED  BY <3>1, RowExcept
  <2>3. sessions' = [sessions EXCEPT ![i] = [sessions[i] EXCEPT !.expired = TRUE]]
    BY <2>1
  <2> QED  BY <1>0, <1>2, <2>1, <2>2, <2>3, ExceptSeq
<1>6. CASE UNCHANGED <<sessions, lastBy>>
  BY <1>0, <1>2, <1>6
<1> QED
  BY <1>1, <1>3, <1>4, <1>5, <1>6

\* Every step does one of these, and hands on a cookie and a tab of their type.
LEMMA SessionStep ==
  ASSUME TypeOK, [Next]_vars
  PROVE  Opened \/ Turned \/ Closed \/ Ran \/ UNCHANGED <<sessions, lastBy>>
<1>0. ReqType /\ BrowserTypes /\ ClockTypes
  BY DEF TypeOK
<1>1. ASSUME NEW r \in Slots, Opens(r), req[r].tab \in Tabs
      PROVE  Opened
  BY <1>0, <1>1 DEF Opened, Opens, ClockTypes
<1>2. ASSUME NEW r \in Slots, Login(r)
      PROVE  Opened
  BY <1>0, <1>1, <1>2, RequestTabs DEF Login, At, GuestOps
<1>3. ASSUME NEW r \in Slots, FactorCommit(r)
      PROVE  Opened \/ UNCHANGED <<sessions, lastBy>>
  BY <1>0, <1>1, <1>3, RequestTabs DEF FactorCommit, GuestOps
<1>4. ASSUME NEW r \in Slots, Rotate(r)
      PROVE  Turned \/ UNCHANGED <<sessions, lastBy>>
  <2>1. req[r] \in LoadedReq
    BY <1>0, <1>4, RequestKinds DEF Rotate, At
  <2>2. issued' \in Nat
    BY <1>0, <1>4 DEF Rotate, ClockTypes
  <2>3. CASE req[r].id \in SessionIds
    <3>1. sessions[req[r].id] \in SessionRow
      BY <1>0, <2>3, Rows
    <3>2. Rotated(sessions[req[r].id], req[r], issued') \in SessionRow
      BY <2>1, <2>2, <3>1 DEF Rotated, SessionRow, LoadedReq
    <3>3. /\ sessions' = [sessions EXCEPT ![req[r].id] = Rotated(sessions[req[r].id], req[r], issued')]
          /\ lastBy' = [lastBy EXCEPT ![req[r].id] = req[r].tab]
      BY <1>4 DEF Rotate
    <3> QED  BY <2>1, <2>3, <3>2, <3>3 DEF Turned, LoadedReq
  <2>4. CASE req[r].id \notin SessionIds
    <3>1. /\ sessions' = [sessions EXCEPT ![req[r].id] = Rotated(@, req[r], issued')]
          /\ lastBy' = [lastBy EXCEPT ![req[r].id] = req[r].tab]
      BY <1>4 DEF Rotate
    <3>2. sessions' = sessions
      BY <1>0, <2>4, <3>1, Rows DEF BrowserTypes, SessionIds
    <3>3. lastBy' = lastBy
      BY <1>0, <2>4, <3>1, Rows DEF BrowserTypes
    <3> QED  BY <3>2, <3>3
  <2> QED  BY <2>3, <2>4
<1>5. ASSUME sessions' = RevokedAll, lastBy' = lastBy
      PROVE  Closed
  <2>1. sessions' = [i \in SessionIds |->
          IF i \in SessionIds THEN [sessions[i] EXCEPT !.revoked = TRUE] ELSE sessions[i]]
    BY <1>5 DEF RevokedAll
  <2>2. SessionIds \in SUBSET SessionIds
    OBVIOUS
  <2> QED  BY <1>5, <2>1, <2>2 DEF Closed
<1>6. ASSUME NEW r \in Slots, RefreshReplay(r) \/ Everywhere(r)
      PROVE  Closed \/ UNCHANGED <<sessions, lastBy>>
  BY <1>5, <1>6 DEF RefreshReplay, Everywhere, history
<1>7. ASSUME NEW r \in Slots, Logout(r)
      PROVE  Closed \/ UNCHANGED <<sessions, lastBy>>
  <2>1. SignedOut(req[r]) \in SUBSET SessionIds
    BY DEF SignedOut
  <2> QED  BY <1>7, <2>1 DEF Logout, Closed
<1>8. ASSUME NEW i \in SessionIds, Expire(i)
      PROVE  Ran
  BY <1>8 DEF Expire, Ran
<1>9. ASSUME NEW r \in Slots, \/ RefreshLoad(r) \/ RefreshExpired(r) \/ Deliver(r) \/ Lose(r) \/ Count(r) \/ SetEnd(r)
                              \/ TooMany(r) \/ RedisFails(r) \/ Register(r) \/ LoginPauses(r) \/ FactorLoad(r) \/ Fail(r)
      PROVE  UNCHANGED <<sessions, lastBy>>
  BY <1>9 DEF RefreshLoad, RefreshExpired, Deliver, Lose, Count, SetEnd, TooMany, RedisFails, Register, LoginPauses,
       FactorLoad, Fail, history
<1>10. ASSUME NEW r \in Slots, NEW t \in Tabs, NEW op \in GuestOps \cup TabOps, NEW code, NEW reload,
              Refresh(r, t, reload) \/ SignOut(r, op, t) \/ Ask(r, op, t, code)
       PROVE  UNCHANGED <<sessions, lastBy>>
  BY <1>10 DEF Refresh, SignOut, Ask, Sends
<1>11. ASSUME NEW r \in Slots, NEW op, NEW code, Asked(r, op, code)
       PROVE  UNCHANGED <<sessions, lastBy>>
  BY <1>11 DEF Asked, history
<1>12. ASSUME Tick \/ UNCHANGED vars
       PROVE  UNCHANGED <<sessions, lastBy>>
  BY <1>12 DEF Tick, vars, history
<1> QED
  BY <1>2, <1>3, <1>4, <1>6, <1>7, <1>8, <1>9, <1>10, <1>11, <1>12 DEF Next, GuestOps, TabOps

\* What an UPDATE makes of a row has the row's columns; if nobody has written
\* the row since it was read, it is the handler's copy.
LEMMA Merged ==
  ASSUME NEW u \in UserRow, NEW old \in UserRow, NEW new \in UserRow
  PROVE  Merge(u, old, new) \in UserRow /\ Merge(u, u, new) = new
<1>1. /\ u = [enabled |-> u.enabled, secret |-> u.secret, pending |-> u.pending, codes |-> u.codes, counter |-> u.counter]
      /\ new = [enabled |-> new.enabled, secret |-> new.secret, pending |-> new.pending,
                codes |-> new.codes, counter |-> new.counter]
      /\ DOMAIN u = {"enabled", "secret", "pending", "codes", "counter"}
  BY DEF UserRow
<1>2. ASSUME NEW o \in UserRow
      PROVE  Merge(u, o, new) =
               [enabled |-> IF new.enabled = o.enabled THEN u.enabled ELSE new.enabled,
                secret |-> IF new.secret = o.secret THEN u.secret ELSE new.secret,
                pending |-> IF new.pending = o.pending THEN u.pending ELSE new.pending,
                codes |-> IF new.codes = o.codes THEN u.codes ELSE new.codes,
                counter |-> IF new.counter = o.counter THEN u.counter ELSE new.counter]
  BY <1>1 DEF Merge
<1>3. Merge(u, old, new) \in UserRow
  BY <1>2 DEF UserRow
<1>4. Merge(u, u, new) = new
  BY <1>1, <1>2
<1> QED  BY <1>3, <1>4

LEMMA FactorStep ==
  ASSUME TypeOK, [Next]_vars
  PROVE  FactorTypes'
<1>0. ReqType /\ FactorTypes /\ ClockTypes
  BY DEF TypeOK
<1>1. ASSUME NEW r \in Slots, FactorCommit(r)
      PROVE  FactorTypes'
  <2> DEFINE q == req[r]
  <2>1. q \in DecidedReq
    BY <1>0, <1>1, RequestKinds DEF FactorCommit
  <2>2. user' \in UserRow
    BY <1>0, <1>1, <2>1, Merged DEF FactorCommit, DecidedReq, FactorTypes
  <2>3. crossed' \in BOOLEAN /\ exists' \in BOOLEAN
    BY <1>0, <1>1 DEF FactorCommit, FactorTypes
  <2>4. q.new.codes \subseteq Pairs
    BY <2>1 DEF DecidedReq, UserRow
  <2>5. shown' \subseteq Pairs
    BY <1>0, <1>1, <2>4 DEF FactorCommit, FactorTypes
  <2>6. ByOneTimeCode(q) => <<q.code.secret, q.step, Use(q)>> \in Acceptances
    BY <2>1 DEF DecidedReq, Code, ByOneTimeCode, Use, Acceptances
  <2>7. steps' \in Seq(Acceptances)
    BY <1>0, <1>1, <2>6, AppendProperties DEF FactorCommit, FactorTypes
  <2> QED  BY <2>2, <2>3, <2>5, <2>7 DEF FactorTypes
<1>2. ASSUME NEW r \in Slots, Register(r)
      PROVE  FactorTypes'
  BY <1>0, <1>2 DEF Register, FactorTypes, history
<1>3. ASSUME NEW r \in Slots, \/ RefreshLoad(r) \/ RefreshExpired(r) \/ Deliver(r) \/ Lose(r) \/ Count(r) \/ SetEnd(r)
                              \/ TooMany(r) \/ RedisFails(r) \/ LoginPauses(r) \/ FactorLoad(r) \/ Fail(r)
                              \/ RefreshReplay(r) \/ Rotate(r) \/ Logout(r) \/ Everywhere(r) \/ Login(r)
      PROVE  UNCHANGED <<user, shown, crossed, exists, steps>>
  BY <1>3 DEF RefreshLoad, RefreshExpired, Deliver, Lose, Count, SetEnd, TooMany, RedisFails, LoginPauses,
       FactorLoad, Fail, history, RefreshReplay, Rotate, Logout, Everywhere, Login
<1>4. ASSUME NEW r \in Slots, NEW t \in Tabs, NEW op \in GuestOps \cup TabOps, NEW code, NEW reload,
              Refresh(r, t, reload) \/ SignOut(r, op, t) \/ Ask(r, op, t, code)
       PROVE  UNCHANGED <<user, shown, crossed, exists, steps>>
  BY <1>4 DEF Refresh, SignOut, Ask, Sends
<1>5. ASSUME NEW r \in Slots, NEW op, NEW code, Asked(r, op, code)
       PROVE  UNCHANGED <<user, shown, crossed, exists, steps>>
  BY <1>5 DEF Asked, history
<1>6. ASSUME Tick \/ (\E i \in SessionIds : Expire(i)) \/ UNCHANGED vars
       PROVE  UNCHANGED <<user, shown, crossed, exists, steps>>
  BY <1>6 DEF Tick, Expire, vars, history
<1>7. ASSUME UNCHANGED <<user, shown, crossed, exists, steps>>
      PROVE  FactorTypes'
  BY <1>0, <1>7 DEF FactorTypes
<1> QED
  BY <1>1, <1>2, <1>3, <1>4, <1>5, <1>6, <1>7 DEF Next, GuestOps, TabOps

LEMMA ClockStep ==
  ASSUME TypeOK, [Next]_vars
  PROVE  /\ ClockTypes' /\ KeyType'
         /\ now <= now' /\ missedAt' <= missedAt /\ issued <= issued' /\ upset \subseteq upset'
<1> USE Constants
<1>0. ReqType /\ ClockTypes /\ KeyType
  BY DEF TypeOK
<1>1. ASSUME NEW r \in Slots, Lose(r)
      PROVE  missedAt' \in Nat /\ missedAt' <= missedAt
  <2>1. req[r].at \in Nat
    BY <1>0, <1>1, RequestKinds DEF Lose, AnsweredReq
  <2> QED  BY <1>0, <1>1, <2>1 DEF Lose, ClockTypes
<1>2. ASSUME NEW r \in Slots, Count(r)
      PROVE  KeyType'
  BY <1>0, <1>2 DEF Count, Counted, KeyType
<1>3. ASSUME NEW r \in Slots, SetEnd(r)
      PROVE  KeyType'
  BY <1>0, <1>3 DEF SetEnd, Ended, KeyType, ClockTypes
<1>4. ASSUME Tick
      PROVE  KeyType' /\ now' \in Nat /\ now <= now'
  BY <1>0, <1>4 DEF Tick, Later, NoKey, Forever, KeyType, ClockTypes
<1>5. ASSUME NEW r \in Slots, Lose(r) \/ Count(r) \/ SetEnd(r)
      PROVE  /\ ClockTypes' /\ KeyType'
             /\ now <= now' /\ missedAt' <= missedAt /\ issued <= issued' /\ upset \subseteq upset'
  BY <1>0, <1>1, <1>2, <1>3, <1>5 DEF Lose, Count, SetEnd, ClockTypes, KeyType, history
<1>6. ASSUME NEW r \in Slots, Rotate(r) \/ Login(r) \/ FactorLoad(r) \/ FactorCommit(r)
      PROVE  /\ issued' \in Nat /\ issued <= issued'
             /\ UNCHANGED <<now, missedAt, upset, key>>
  <2>1. issued' = issued \/ issued' = issued + 1
    <3>1. CASE Rotate(r)
      BY <3>1 DEF Rotate
    <3>2. CASE Login(r)
      BY <3>2 DEF Login, Opens
    <3>3. CASE FactorLoad(r)
      BY <1>0, <3>3 DEF FactorLoad, ClockTypes
    <3>4. CASE FactorCommit(r)
      BY <3>4 DEF FactorCommit, Opens
    <3> QED  BY <1>6, <3>1, <3>2, <3>3, <3>4
  <2>2. UNCHANGED <<now, missedAt, upset, key>>
    BY <1>6 DEF Rotate, Login, FactorLoad, FactorCommit, history
  <2> QED  BY <1>0, <2>1, <2>2 DEF ClockTypes
<1>7. ASSUME NEW r \in Slots, \/ RefreshLoad(r) \/ RefreshExpired(r) \/ Deliver(r) \/ Register(r)
                              \/ TooMany(r) \/ RedisFails(r) \/ LoginPauses(r) \/ Fail(r)
                              \/ RefreshReplay(r) \/ Logout(r) \/ Everywhere(r)
      PROVE  UNCHANGED <<now, missedAt, key, issued>> /\ upset \subseteq upset'
  BY <1>7 DEF RefreshLoad, RefreshExpired, Deliver, Register, TooMany, RedisFails, LoginPauses,
       Fail, history, RefreshReplay, Logout, Everywhere
<1>8. ASSUME NEW r \in Slots, NEW t \in Tabs, NEW op \in GuestOps \cup TabOps, NEW code, NEW reload,
              Refresh(r, t, reload) \/ SignOut(r, op, t) \/ Ask(r, op, t, code)
       PROVE  UNCHANGED <<now, missedAt, key, issued>> /\ upset \subseteq upset'
  BY <1>8 DEF Refresh, SignOut, Ask, Sends, Noted
<1>9. ASSUME NEW r \in Slots, NEW op, NEW code, Asked(r, op, code)
       PROVE  UNCHANGED <<now, missedAt, key, issued>> /\ upset \subseteq upset'
  BY <1>9 DEF Asked, history
<1>10. ASSUME (\E i \in SessionIds : Expire(i)) \/ UNCHANGED vars
       PROVE  UNCHANGED <<now, missedAt, key, issued>> /\ upset \subseteq upset'
  BY <1>10 DEF Expire, vars, history
<1>11. CASE Tick
  BY <1>0, <1>4, <1>11 DEF Tick, history, ClockTypes
<1>12. CASE \E r \in Slots : Rotate(r) \/ Login(r) \/ FactorLoad(r) \/ FactorCommit(r)
  BY <1>0, <1>6, <1>12 DEF ClockTypes, KeyType
<1>13. ASSUME UNCHANGED <<now, missedAt, key, issued>> /\ upset \subseteq upset'
       PROVE  /\ ClockTypes' /\ KeyType'
              /\ now <= now' /\ missedAt' <= missedAt /\ issued <= issued' /\ upset \subseteq upset'
  BY <1>0, <1>13 DEF ClockTypes, KeyType
<1> QED
  BY <1>5, <1>7, <1>8, <1>9, <1>10, <1>11, <1>12, <1>13 DEF Next, GuestOps, TabOps

LEMMA BrowserStep ==
  ASSUME TypeOK, [Next]_vars
  PROVE  BrowserTypes' /\ home' = home
<1>0. ReqType /\ BrowserTypes
  BY DEF TypeOK
<1>1. /\ home' = home /\ cookie' \in [Browsers -> Nat] /\ tab' \in [Tabs -> [in : BOOLEAN, csrf : Nat]]
  <2> DEFINE Goal == home' = home /\ cookie' \in [Browsers -> Nat] /\ tab' \in [Tabs -> [in : BOOLEAN, csrf : Nat]]
  <2>0. \A token \in Nat : Open(token) \in [in : BOOLEAN, csrf : Nat]
    BY DEF Open
  <2>1. ASSUME NEW r \in Slots, Deliver(r)
        PROVE  Goal
    <3>1. req[r].answer \in Nat /\ req[r].tab \in Tabs
      BY <1>0, <2>1, RequestKinds DEF Deliver, AnsweredReq
    <3>2. Open(req[r].answer) \in [in : BOOLEAN, csrf : Nat]
      BY <2>0, <3>1
    <3> QED  BY <1>0, <2>1, <3>1, <3>2 DEF Deliver, BrowserTypes
  <2>2. ASSUME NEW r \in Slots, Lose(r) \/ Fail(r)
        PROVE  Goal
    <3>1. Open(0) \in [in : BOOLEAN, csrf : Nat]
      BY <2>0
    <3> QED  BY <1>0, <2>2, <3>1 DEF Lose, Fail, GivesUp, BrowserTypes, history
  <2>3. ASSUME NEW r \in Slots, NEW t \in Tabs, NEW reload, Refresh(r, t, reload)
        PROVE  Goal
    <3>1. Open(0) \in [in : BOOLEAN, csrf : Nat]
      BY <2>0
    <3> QED  BY <1>0, <2>3, <3>1 DEF Refresh, Sends, BrowserTypes
  <2>4. ASSUME UNCHANGED <<home, cookie, tab>>
        PROVE  Goal
    BY <1>0, <2>4 DEF BrowserTypes
  <2>5. ASSUME NEW r \in Slots, NEW t \in Tabs, NEW op, NEW code, SignOut(r, op, t) \/ Ask(r, op, t, code) \/ Asked(r, op, code)
        PROVE  UNCHANGED <<home, cookie, tab>>
    BY <2>5 DEF SignOut, Ask, Sends, Asked, history
  <2>5a. ASSUME NEW r \in Slots, NEW op, NEW code, Asked(r, op, code)
         PROVE  UNCHANGED <<home, cookie, tab>>
    BY <2>5a DEF Asked, history
  <2>6. ASSUME NEW r \in Slots, \/ RefreshLoad(r) \/ RefreshExpired(r) \/ Count(r) \/ SetEnd(r)
                                \/ TooMany(r) \/ RedisFails(r) \/ LoginPauses(r) \/ FactorLoad(r) \/ FactorCommit(r)
                                \/ RefreshReplay(r) \/ Rotate(r) \/ Logout(r) \/ Everywhere(r) \/ Login(r) \/ Register(r)
        PROVE  UNCHANGED <<home, cookie, tab>>
    BY <2>6 DEF RefreshLoad, RefreshExpired, Count, SetEnd, TooMany, RedisFails, LoginPauses,
         FactorLoad, FactorCommit, history, RefreshReplay, Rotate, Logout, Everywhere, Login, Register
  <2>7. ASSUME Tick \/ (\E i \in SessionIds : Expire(i)) \/ UNCHANGED vars
        PROVE  UNCHANGED <<home, cookie, tab>>
    BY <2>7 DEF Tick, Expire, vars, history
  <2> HIDE DEF Goal
  <2>8. Goal
    BY <2>1, <2>2, <2>3, <2>4, <2>5, <2>5a, <2>6, <2>7 DEF Next
  <2> QED  BY <2>8 DEF Goal
<1>2. /\ sessions' \in Seq(SessionRow)
      /\ lastBy' \in Seq(Tabs \cup {NoTab}) /\ Len(lastBy') = Len(sessions')
  BY SessionStep, SessionTypes
<1> QED
  BY <1>0, <1>1, <1>2 DEF BrowserTypes

LEMMA TypeStep ==
  ASSUME TypeOK, [Next]_vars
  PROVE  TypeOK'
<1>1. ClockTypes' /\ KeyType'
  BY ClockStep
<1>2. ReqType'
  BY <1>1, RequestStep DEF ClockTypes, KeyType
<1> QED
  BY <1>1, <1>2, FactorStep, BrowserStep DEF TypeOK

LEMMA TypeInit ==
  ASSUME Init
  PROVE  TypeOK
<1> USE Constants
<1>1. FirstSecret \in Nat
  BY DEF FirstSecret
<1>2. ReqType
  BY DEF Init, ReqType
<1>3. FactorTypes
  <2>1. user \in UserRow
    BY <1>1, RowTypes DEF Init
  <2>2. steps \in Seq(Acceptances)
    BY DEF Init
  <2> QED  BY <2>1, <2>2 DEF Init, FactorTypes, UserRow
<1>4. ClockTypes /\ KeyType
  BY <1>1 DEF Init, ClockTypes, KeyType, NoKey, Forever
<1>5. BrowserTypes
  <2> DEFINE n == Cardinality(Browsers)
  <2>1. \A b \in Browsers : NewSession(b) \in SessionRow
    BY <1>4 DEF NewSession, SessionRow, ClockTypes
  <2>2. \/ sessions \in [1..n -> SessionRow] /\ SessionIds = 1..n
        \/ sessions = <<>> /\ SessionIds = {}
    BY <2>1 DEF Init, SessionIds
  <2>3. \A b \in Browsers : First(b) \in Tabs \cup {NoTab}
    BY DEF First
  <2>4. /\ lastBy \in [SessionIds -> Tabs \cup {NoTab}]
        /\ SessionIds \subseteq Browsers
    BY <2>2, <2>3 DEF Init
  <2>5. sessions \in Seq(SessionRow) /\ lastBy \in Seq(Tabs \cup {NoTab}) /\ Len(lastBy) = Len(sessions)
    <3>1. CASE sessions \in [1..n -> SessionRow] /\ SessionIds = 1..n
      BY <2>4, <3>1
    <3>2. CASE sessions = <<>> /\ SessionIds = {}
      <4>1. lastBy = <<>>
        BY <2>4, <3>2
      <4> QED  BY <3>2, <4>1
    <3> QED  BY <2>2, <3>1, <3>2
  <2>6. home \in [Tabs -> Browsers]
    BY DEF Init
  <2>7. cookie \in [Browsers -> Nat]
    BY DEF Init
  <2>8. \A t \in Tabs : Open(cookie[home[t]]) \in [in : BOOLEAN, csrf : Nat] /\ Open(0) \in [in : BOOLEAN, csrf : Nat]
    BY <2>6, <2>7 DEF Open
  <2>9. tab \in [Tabs -> [in : BOOLEAN, csrf : Nat]]
    BY <2>8 DEF Init
  <2> QED  BY <2>5, <2>6, <2>7, <2>9 DEF BrowserTypes
<1> QED
  BY <1>2, <1>3, <1>4, <1>5 DEF TypeOK

\* The rows, the requests and what the browsers hold are always of the shape
\* the handlers expect of them.
THEOREM TypeCorrect == Spec => []TypeOK
<1>1. TypeOK /\ [Next]_vars => TypeOK'
  BY TypeStep
<1> QED
  BY <1>1, TypeInit, PTL DEF Spec

-----------------------------------------------------------------------------
(* The limiter.                                                            *)

\* Everything but the limiter's own calls leaves its key alone and counts nobody.
Uncounted == /\ UNCHANGED <<key, now>>
             /\ \A s \in Slots : req'[s] = req[s] \/ req'[s].stage \notin {"counted", "limited"}

LEMMA LimiterAlone ==
  ASSUME TypeOK, [Next]_vars, \A r \in Slots : ~Count(r) /\ ~SetEnd(r), ~Tick
  PROVE  Uncounted
<1>0. req \in [Slots -> Request \cup {Idle}]
  BY DEF TypeOK, ReqType
<1>1. ASSUME NEW r \in Slots, NEW q, Set(r, q), q.stage \notin {"counted", "limited"}
      PROVE  \A s \in Slots : req'[s] = req[s] \/ req'[s].stage \notin {"counted", "limited"}
  BY <1>0, <1>1 DEF Set
<1>2. ASSUME NEW r \in Slots, End(r)
      PROVE  \A s \in Slots : req'[s] = req[s] \/ req'[s].stage \notin {"counted", "limited"}
  BY <1>0, <1>2 DEF End, Set, Idle
<1>3. ASSUME NEW r \in Slots, NEW token, NEW at, NEW keeps, Answered(r, token, at, keeps)
      PROVE  \A s \in Slots : req'[s] = req[s] \/ req'[s].stage \notin {"counted", "limited"}
  BY <1>0, <1>3 DEF Answered, Set
<1>4. ASSUME NEW r \in Slots, NEW t \in Tabs, NEW op \in GuestOps \cup TabOps, NEW code, NEW reload,
              Refresh(r, t, reload) \/ SignOut(r, op, t) \/ Ask(r, op, t, code)
      PROVE  Uncounted
  BY <1>0, <1>4 DEF Refresh, SignOut, Ask, Sends, Set, Guest, Uncounted
<1>5. ASSUME NEW r \in Slots, NEW op, NEW code, Asked(r, op, code)
      PROVE  Uncounted
  BY <1>0, <1>5 DEF Asked, history, Set, Guest, Uncounted
<1>6. ASSUME NEW r \in Slots, Deliver(r) \/ Lose(r) \/ TooMany(r) \/ LoginPauses(r) \/ Fail(r)
      PROVE  Uncounted
  BY <1>2, <1>6 DEF Deliver, Lose, TooMany, LoginPauses, Fail, history, Uncounted
<1>7. ASSUME NEW r \in Slots, RefreshLoad(r)
      PROVE  Uncounted
  <2>1. UNCHANGED <<key, now>>
    BY <1>7 DEF RefreshLoad
  <2>2. Refused(r) => Uncounted
    BY <1>3, <2>1 DEF Refused, Uncounted
  <2>3. ASSUME NEW id, req' = [req EXCEPT ![r] = LoadedCopy(r, id)]
        PROVE  Uncounted
    BY <1>0, <2>1, <2>3 DEF Uncounted, LoadedCopy
  <2> QED  BY <1>7, <2>2, <2>3, RefreshLoads
<1>8. ASSUME NEW r \in Slots, \/ RefreshReplay(r) \/ RefreshExpired(r) \/ Rotate(r) \/ Logout(r) \/ Everywhere(r)
      PROVE  Uncounted
  BY <1>2, <1>3, <1>8 DEF RefreshReplay, RefreshExpired, Rotate, Logout, Everywhere, Refused, history, Uncounted
<1>9. ASSUME NEW r \in Slots, RedisFails(r) \/ Register(r) \/ FactorLoad(r)
      PROVE  Uncounted
  BY <1>0, <1>2, <1>9 DEF RedisFails, Register, FactorLoad, Admit, Guest, Set, history, Uncounted
<1>10. ASSUME NEW r \in Slots, Login(r) \/ FactorCommit(r)
       PROVE  Uncounted
  BY <1>2, <1>3, <1>10 DEF Login, FactorCommit, Opens, Uncounted
<1>11. ASSUME (\E i \in SessionIds : Expire(i)) \/ UNCHANGED vars
       PROVE  Uncounted
  BY <1>11 DEF Expire, vars, Uncounted
<1> QED
  BY <1>4, <1>5, <1>6, <1>7, <1>8, <1>9, <1>10, <1>11 DEF Next, GuestOps, TabOps

LEMMA LimiterStep ==
  ASSUME TypeOK, LimiterInv, [Next]_vars
  PROVE  LimiterInv'
<1> USE Constants
<1>0. /\ key \in [count : Nat, ends : Nat] /\ now \in Nat /\ KeyEnds
      /\ req \in [Slots -> Request \cup {Idle}] /\ ReqType
      /\ \A r \in Slots : LimiterSound(req[r])
  BY DEF LimiterInv, TypeOK, ReqType, ClockTypes, KeyType
<1>1. ASSUME Uncounted
      PROVE  LimiterInv'
  <2>1. KeyEnds'
    BY <1>0, <1>1 DEF Uncounted, KeyEnds
  <2>2. ASSUME NEW s \in Slots
        PROVE  LimiterSound(req[s])'
    BY <1>0, <1>1 DEF Uncounted, LimiterSound, CountedKeyIsThere
  <2> QED  BY <2>1, <2>2 DEF LimiterInv
<1>2. ASSUME NEW r \in Slots, Admit(r), now' = now
      PROVE  LimiterSound(req[r])'
  BY <1>0, <1>2 DEF Admit, Set, Guest, LimiterSound, CountedKeyIsThere
<1>3. ASSUME NEW r \in Slots, Limited(r), now' = now,
             key' # NoKey => key'.ends \in 1..(now + Window), key' = NoKey => now >= 1
      PROVE  LimiterSound(req[r])'
  <2>1. /\ req'[r].stage = "limited"
        /\ req'[r].until = IF key' = NoKey THEN now ELSE key'.ends
    BY <1>0, <1>3 DEF Limited, Set
  <2> QED  BY <1>0, <1>3, <2>1 DEF LimiterSound, CountedKeyIsThere
<1>4. ASSUME NEW r \in Slots, Count(r)
      PROVE  LimiterInv'
  <2>1. /\ key' \in [count : Nat, ends : Nat] /\ key'.ends = key.ends /\ key'.count = key.count + 1 /\ now' = now
        /\ key' # NoKey
    BY <1>0, <1>4 DEF Count, Counted, NoKey
  <2>2. KeyEnds'
    BY <1>0, <2>1 DEF KeyEnds
  <2>3. CASE NeedsEnd(key')
    <3>1. LimiterSound(req[r])'
      BY <1>0, <1>4, <2>1, <2>3 DEF Count, Set, LimiterSound, CountedKeyIsThere
    <3>2. \A s \in Slots : s # r => req'[s] = req[s]
      BY <1>0, <1>4, <2>3 DEF Count, Set
    <3>3. ASSUME NEW s \in Slots, s # r
          PROVE  LimiterSound(req[s])'
      BY <1>0, <2>1, <3>2, <3>3 DEF LimiterSound, CountedKeyIsThere
    <3> QED  BY <2>2, <3>1, <3>3 DEF LimiterInv
  <2>4. CASE ~NeedsEnd(key')
    <3>1. key'.ends \in 1..(now + Window)
      BY <1>0, <2>1, <2>4 DEF NeedsEnd, Forever, KeyEnds
    <3>2. Admit(r) \/ Limited(r)
      BY <1>4, <2>4 DEF Count
    <3>3. LimiterSound(req[r])'
      BY <1>2, <1>3, <2>1, <3>1, <3>2
    <3>4. ASSUME NEW s \in Slots, s # r
          PROVE  LimiterSound(req[s])'
      <4>1. req'[s] = req[s]
        BY <1>0, <3>2, <3>4 DEF Admit, Limited, Set
      <4> QED  BY <1>0, <2>1, <4>1 DEF LimiterSound, CountedKeyIsThere
    <3> QED  BY <2>2, <3>3, <3>4 DEF LimiterInv
  <2> QED  BY <2>3, <2>4
<1>5. ASSUME NEW r \in Slots, SetEnd(r)
      PROVE  LimiterInv'
  <2>1. now' = now /\ (Admit(r) \/ Limited(r)) /\ req[r].stage = "counted"
    BY <1>5 DEF SetEnd
  <2>2. CASE key = NoKey
    <3>1. key' = NoKey /\ now >= 1
      BY <1>0, <1>5, <2>1, <2>2 DEF SetEnd, LimiterSound, CountedKeyIsThere
    <3>2. LimiterSound(req[r])'
      BY <1>2, <1>3, <2>1, <3>1
    <3>3. ASSUME NEW s \in Slots, s # r
          PROVE  LimiterSound(req[s])'
      <4>1. req'[s] = req[s]
        BY <1>0, <2>1, <3>3 DEF Admit, Limited, Set
      <4> QED  BY <1>0, <2>1, <2>2, <3>1, <4>1 DEF LimiterSound, CountedKeyIsThere
    <3>4. KeyEnds'
      BY <1>0, <2>1, <2>2, <3>1 DEF KeyEnds
    <3> QED  BY <3>2, <3>3, <3>4 DEF LimiterInv
  <2>3. CASE key # NoKey
    <3>1. key'.ends = now + Window /\ key' # NoKey
      BY <1>0, <1>5, <2>3 DEF SetEnd, Ended, NoKey, Forever
    <3>2. LimiterSound(req[r])'
      BY <1>0, <1>2, <1>3, <2>1, <3>1
    <3>3. ASSUME NEW s \in Slots, s # r
          PROVE  LimiterSound(req[s])'
      <4>1. req'[s] = req[s]
        BY <1>0, <2>1, <3>3 DEF Admit, Limited, Set
      <4> QED  BY <1>0, <2>1, <3>1, <4>1 DEF LimiterSound, CountedKeyIsThere
    <3>4. KeyEnds'
      BY <1>0, <2>1, <3>1 DEF KeyEnds
    <3> QED  BY <3>2, <3>3, <3>4 DEF LimiterInv
  <2> QED  BY <2>2, <2>3
<1>6. ASSUME Tick
      PROVE  LimiterInv'
  <2>1. now' = now + 1 /\ (key' = key \/ key' = NoKey) /\ req' = req
    BY <1>6 DEF Tick, Later
  <2>2. KeyEnds'
    BY <1>0, <2>1 DEF KeyEnds, NoKey, Forever
  <2>3. ASSUME NEW s \in Slots
        PROVE  LimiterSound(req[s])'
    BY <1>0, <2>1 DEF LimiterSound, CountedKeyIsThere
  <2> QED  BY <2>2, <2>3 DEF LimiterInv
<1> QED
  BY <1>1, <1>4, <1>5, <1>6, LimiterAlone

\* Nobody who is refused for asking too often waits longer than a window, or
\* for an end that never comes: whichever of the limiter's two calls to Redis
\* failed, and whatever happened to the key between them.
THEOREM LockoutAlwaysEnds == Spec => []LockoutEnds
<1>1. Init => LimiterInv
  <2> SUFFICES ASSUME Init PROVE LimiterInv
    OBVIOUS
  <2> QED  BY Constants DEF Init, LimiterInv, LimiterSound, KeyEnds, CountedKeyIsThere, Idle, NoKey, Forever
<1>2. TypeOK /\ LimiterInv /\ [Next]_vars => TypeOK' /\ LimiterInv'
  BY TypeStep, LimiterStep
<1>3. LimiterInv => LockoutEnds
  BY DEF LimiterInv, LimiterSound, LockoutEnds
<1> QED
  BY <1>1, <1>2, <1>3, TypeInit, PTL DEF Spec

-----------------------------------------------------------------------------
(* The second factor.                                                      *)

\* The other handlers leave the users row alone, and decide on no copy of it.
Undecided ==
  /\ UNCHANGED <<user, shown, crossed, steps>>
  /\ \A s \in Slots : req'[s] = req[s] \/ req'[s].stage # "decided"

LEMMA FactorAlone ==
  ASSUME TypeOK, [Next]_vars, \A r \in Slots : ~FactorLoad(r) /\ ~FactorCommit(r)
  PROVE  Undecided
<1>0. req \in [Slots -> Request \cup {Idle}]
  BY DEF TypeOK, ReqType
<1>2. ASSUME NEW r \in Slots, End(r)
      PROVE  \A s \in Slots : req'[s] = req[s] \/ req'[s].stage # "decided"
  BY <1>0, <1>2 DEF End, Set, Idle
<1>3. ASSUME NEW r \in Slots, NEW token, NEW at, NEW keeps, Answered(r, token, at, keeps)
      PROVE  \A s \in Slots : req'[s] = req[s] \/ req'[s].stage # "decided"
  BY <1>0, <1>3 DEF Answered, Set
<1>4. ASSUME NEW r \in Slots, NEW t \in Tabs, NEW op \in GuestOps \cup TabOps, NEW code, NEW reload,
              Refresh(r, t, reload) \/ SignOut(r, op, t) \/ Ask(r, op, t, code)
      PROVE  Undecided
  BY <1>0, <1>4 DEF Refresh, SignOut, Ask, Sends, Set, Guest, Undecided
<1>5. ASSUME NEW r \in Slots, NEW op, NEW code, Asked(r, op, code)
      PROVE  Undecided
  BY <1>0, <1>5 DEF Asked, history, Set, Guest, Undecided
<1>6. ASSUME NEW r \in Slots, Deliver(r) \/ Lose(r) \/ TooMany(r) \/ LoginPauses(r) \/ Fail(r)
      PROVE  Undecided
  BY <1>2, <1>6 DEF Deliver, Lose, TooMany, LoginPauses, Fail, history, Undecided
<1>7. ASSUME NEW r \in Slots, RefreshLoad(r)
      PROVE  Undecided
  <2>1. UNCHANGED <<user, shown, crossed, steps>>
    BY <1>7 DEF RefreshLoad, history
  <2>2. Refused(r) => Undecided
    BY <1>3, <2>1 DEF Refused, Undecided
  <2>3. ASSUME NEW id, req' = [req EXCEPT ![r] = LoadedCopy(r, id)]
        PROVE  Undecided
    BY <1>0, <2>1, <2>3 DEF Undecided, LoadedCopy
  <2> QED  BY <1>7, <2>2, <2>3, RefreshLoads
<1>8. ASSUME NEW r \in Slots, \/ RefreshReplay(r) \/ RefreshExpired(r) \/ Rotate(r) \/ Logout(r) \/ Everywhere(r)
      PROVE  Undecided
  BY <1>2, <1>3, <1>8 DEF RefreshReplay, RefreshExpired, Rotate, Logout, Everywhere, Refused, history, Undecided
<1>9. ASSUME NEW r \in Slots, RedisFails(r) \/ Register(r)
      PROVE  Undecided
  BY <1>0, <1>2, <1>9 DEF RedisFails, Register, Admit, Guest, Set, history, Undecided
<1>10. ASSUME NEW r \in Slots, Login(r)
       PROVE  Undecided
  BY <1>2, <1>3, <1>10 DEF Login, Opens, Undecided
<1>11. ASSUME NEW r \in Slots, Count(r)
       PROVE  Undecided
  <2>1. UNCHANGED <<user, shown, crossed, steps>>
    BY <1>11 DEF Count, history
  <2> QED  BY <1>0, <1>11, <2>1 DEF Count, Admit, Limited, Guest, Set, Undecided
<1>12. ASSUME NEW r \in Slots, SetEnd(r)
       PROVE  Undecided
  BY <1>0, <1>12 DEF SetEnd, Admit, Limited, Guest, Set, Undecided, history
<1>13. ASSUME Tick \/ (\E i \in SessionIds : Expire(i)) \/ UNCHANGED vars
       PROVE  Undecided
  BY <1>13 DEF Tick, Expire, vars, history, Undecided
<1> QED
  BY <1>4, <1>5, <1>6, <1>7, <1>8, <1>9, <1>10, <1>11, <1>12, <1>13 DEF Next, GuestOps, TabOps

LEMMA FactorUndecided ==
  ASSUME TypeOK, FactorInv, Undecided, issued' \in Nat, issued <= issued'
  PROVE  FactorInv'
<1>0. user \in UserRow /\ steps \in Seq(Acceptances) /\ issued \in Nat
  BY DEF TypeOK, FactorTypes, ClockTypes
<1>1. \A r \in Slots : ChangedRight(req[r])'
  BY DEF Undecided, FactorInv, ChangedRight
<1>2. ASSUME ~crossed
      PROVE  (UserSound /\ SecretsDiffer /\ \A r \in Slots : SecretIsNew(req[r]))'
  <2>0. UserSound /\ SecretsDiffer /\ \A r \in Slots : SecretIsNew(req[r])
    BY <1>2 DEF FactorInv
  <2>1. UserSound'
    BY <1>0, <2>0 DEF UserSound, Undecided, Unspent, UserRow
  <2>2. SecretsDiffer'
    BY <2>0 DEF SecretsDiffer, Undecided, Starting
  <2>3. ASSUME NEW r \in Slots
        PROVE  SecretIsNew(req[r])'
    BY <1>0, <2>0 DEF SecretIsNew, Undecided, Starting, Unspent
  <2> QED  BY <2>1, <2>2, <2>3
<1>3. (RecoveryCodesHold /\ OneCodePerStep)'
  BY DEF Undecided, FactorInv, RecoveryCodesHold, OneCodePerStep, Once
<1> QED
  BY <1>1, <1>2, <1>3 DEF FactorInv, Undecided

LEMMA FactorLoadStep ==
  ASSUME TypeOK, FactorInv, NEW r \in Slots, FactorLoad(r)
  PROVE  FactorInv'
<1>0. /\ user \in UserRow /\ steps \in Seq(Acceptances) /\ issued \in Nat
      /\ req \in [Slots -> Request \cup {Idle}]
      /\ UNCHANGED <<user, shown, crossed, steps>>
  BY DEF TypeOK, FactorTypes, ClockTypes, ReqType, FactorLoad, history
<1>1. CASE ~Passes(req[r])
  <2>1. Undecided /\ issued' = issued
    BY <1>0, <1>1 DEF FactorLoad, End, Set, Idle, Undecided
  <2> QED  BY <1>0, <2>1, FactorUndecided
<1>2. CASE Passes(req[r])
  <2> DEFINE q == req'[r]
  <2>0. /\ q = [op |-> req[r].op, stage |-> "decided", tab |-> req[r].tab,
                token |-> 0, code |-> req[r].code,
                old |-> user, new |-> Changed(req[r], issued'), step |-> Step]
        /\ \A s \in Slots : s # r => req'[s] = req[s]
        /\ issued' = issued + (IF req[r].op = "start" THEN 1 ELSE 0)
        /\ req[r].op \in FactorOps
    BY <1>0, <1>2 DEF FactorLoad, Set
  <2>1. ChangedRight(q)
    <3>1. CASE q.op = "start"
      <4>1. q.new = Started(user, issued') /\ ~user.enabled
        BY <1>2, <2>0, <3>1 DEF Changed, Passes
      <4>2. Started(user, issued').pending = issued'
        BY <1>0 DEF Started, UserRow
      <4> QED  BY <2>0, <3>1, <4>1, <4>2 DEF ChangedRight
    <3>2. CASE q.op = "confirm"
      BY <1>2, <2>0, <3>2 DEF ChangedRight, Changed, Confirmed, Passes, Confirms
    <3>3. CASE q.op = "disable"
      BY <1>2, <2>0, <3>3 DEF ChangedRight, Changed, Disabled, Passes
    <3>4. CASE q.op \notin {"start", "confirm", "disable"}
      BY <1>2, <2>0, <3>4 DEF ChangedRight, Changed, Passes
    <3> QED  BY <3>1, <3>2, <3>3, <3>4
  <2>1a. \A s \in Slots : ChangedRight(req[s])'
    BY <2>0, <2>1 DEF FactorInv, ChangedRight
  <2>2. issued' \in Nat /\ issued <= issued'
    BY <1>0, <2>0
  <2>3. ASSUME ~crossed
        PROVE  (UserSound /\ SecretsDiffer /\ \A s \in Slots : SecretIsNew(req[s]))'
    <3>0. UserSound /\ SecretsDiffer /\ \A s \in Slots : SecretIsNew(req[s])
      BY <2>3 DEF FactorInv
    <3>1. UserSound'
      BY <1>0, <2>2, <3>0 DEF UserSound, Unspent, UserRow
    <3>2. ASSUME Starting(q)
          PROVE  q.new.pending = issued + 1 /\ issued' = issued + 1
      <4>1. issued' = issued + 1 /\ q.new = Started(user, issued')
        BY <2>0, <3>2 DEF Starting, Changed
      <4> QED  BY <1>0, <4>1 DEF Started, UserRow
    <3>3. \A s \in Slots : Starting(req[s]) => req[s].new.pending <= issued
      BY <1>0, <3>0 DEF SecretIsNew
    <3>4. SecretsDiffer'
      <4> SUFFICES ASSUME NEW a \in Slots, NEW b \in Slots, Starting(req'[a]), Starting(req'[b]), a # b
                   PROVE  req'[a].new.pending # req'[b].new.pending
        BY DEF SecretsDiffer, Starting
      <4>1. CASE a = r
        <5>1. req'[b] = req[b]
          BY <2>0, <4>1
        <5> QED  BY <1>0, <3>2, <3>3, <4>1, <5>1
      <4>2. CASE b = r
        <5>1. req'[a] = req[a]
          BY <2>0, <4>2
        <5> QED  BY <1>0, <3>2, <3>3, <4>2, <5>1
      <4>3. CASE a # r /\ b # r
        BY <2>0, <3>0, <4>3 DEF SecretsDiffer
      <4> QED  BY <4>1, <4>2, <4>3
    <3>5. ASSUME NEW s \in Slots
          PROVE  SecretIsNew(req[s])'
      <4>1. CASE s # r
        BY <1>0, <2>0, <2>2, <3>0, <4>1 DEF SecretIsNew, Starting, Unspent
      <4>2. CASE s = r
        <5> SUFFICES ASSUME Starting(q)
                     PROVE  /\ q.new.pending \in 1..issued'
                            /\ q.new.pending \notin {user.secret, user.pending}
                            /\ Unspent(q.new.pending)
          BY <1>0, <4>2 DEF SecretIsNew, Starting, Unspent
        <5>1. user.secret <= issued /\ user.pending <= issued /\ user.secret \in Nat /\ user.pending \in Nat
          BY <1>0, <3>0 DEF UserSound, UserRow
        <5>2. Unspent(issued + 1)
          BY <1>0, <3>0 DEF UserSound, Unspent
        <5> HIDE DEF q
        <5> QED  BY <1>0, <3>2, <5>1, <5>2
      <4> QED  BY <4>1, <4>2
    <3> QED  BY <3>1, <3>4, <3>5
  <2>4. (RecoveryCodesHold /\ OneCodePerStep)'
    BY <1>0 DEF FactorInv, RecoveryCodesHold, OneCodePerStep, Once
  <2> QED
    BY <1>0, <2>1a, <2>3, <2>4 DEF FactorInv
<1> QED
  BY <1>1, <1>2

LEMMA FactorCommitStep ==
  ASSUME TypeOK, FactorInv, NEW r \in Slots, FactorCommit(r), issued' \in Nat, issued <= issued'
  PROVE  FactorInv'
<1> DEFINE q == req[r]
<1>0. /\ user \in UserRow /\ steps \in Seq(Acceptances) /\ issued \in Nat /\ crossed \in BOOLEAN
      /\ req \in [Slots -> Request \cup {Idle}]
      /\ q \in DecidedReq /\ q.old \in UserRow /\ q.new \in UserRow /\ q.step \in Nat
      /\ q.op \in FactorOps /\ q.stage = "decided" /\ q.code \in Code
  BY RequestKinds DEF TypeOK, FactorTypes, ClockTypes, ReqType, FactorCommit, DecidedReq
<1>1. /\ user' = Merge(user, q.old, q.new)
      /\ crossed' = (crossed \/ user # q.old)
      /\ shown' = CASE q.op = "confirm" -> q.new.codes
                    [] q.op = "disable" -> {}
                    [] q.op \in {"mfa", "act"} /\ q.code.kind = "recovery" -> shown \ {q.code.code}
                    [] OTHER -> shown
      /\ steps' = IF ByOneTimeCode(q) THEN Append(steps, <<q.code.secret, q.step, Use(q)>>) ELSE steps
  BY DEF FactorCommit, Outdated
<1>2. req'[r].stage # "decided" /\ \A s \in Slots : s # r => req'[s] = req[s]
  BY <1>0 DEF FactorCommit, Opens, Answered, End, Set, Idle
<1>3. \A s \in Slots : ChangedRight(req[s])'
  BY <1>2 DEF FactorInv, ChangedRight
<1>4. CASE crossed'
  BY <1>3, <1>4 DEF FactorInv, RecoveryCodesHold, OneCodePerStep
<1>5. CASE ~crossed'
  <2>0. /\ ~crossed /\ user = q.old /\ user' = q.new
        /\ UserSound /\ SecretsDiffer /\ \A s \in Slots : SecretIsNew(req[s])
        /\ shown = user.codes /\ Once(steps) /\ ChangedRight(q)
    BY <1>0, <1>1, <1>5, Merged DEF FactorInv, RecoveryCodesHold, OneCodePerStep
  <2>1. SecretsDiffer'
    BY <1>2, <2>0 DEF SecretsDiffer, Starting
  <2>2. user.secret \in Nat /\ user.pending \in Nat /\ user.counter \in Int
    BY <1>0 DEF UserRow
  <2> SUFFICES /\ (UserSound /\ \A s \in Slots : SecretIsNew(req[s]))'
               /\ shown' = user'.codes /\ Once(steps)'
    BY <1>3, <2>1 DEF FactorInv, RecoveryCodesHold, OneCodePerStep
  <2> HIDE DEF q
  <2>3. CASE q.op = "start"
    <3>1. /\ user' = Started(user, q.new.pending) /\ ~user.enabled /\ steps' = steps /\ shown' = shown
          /\ SecretIsNew(q) /\ Starting(q)
      BY <1>0, <1>1, <2>0, <2>3 DEF ChangedRight, ByOneTimeCode, Starting, q
    <3>2. /\ ~user'.enabled /\ user'.secret = user.secret /\ user'.codes = user.codes /\ user'.counter = user.counter
          /\ user'.pending = q.new.pending
      BY <1>0, <2>0, <3>1 DEF Started, UserRow
    <3>3. UserSound'
      BY <1>0, <2>0, <2>2, <3>1, <3>2 DEF UserSound, SecretIsNew, Unspent
    <3>4. ASSUME NEW s \in Slots
          PROVE  SecretIsNew(req[s])'
      <4>1. CASE s = r
        BY <1>2, <4>1 DEF SecretIsNew, Starting
      <4>2. CASE s # r
        <5>1. Starting(req[s]) => req[s].new.pending # q.new.pending
          BY <2>0, <3>1, <4>2 DEF SecretsDiffer, q
        <5> QED  BY <1>0, <1>2, <2>0, <3>1, <3>2, <4>2, <5>1 DEF SecretIsNew, Starting, Unspent
      <4> QED  BY <4>1, <4>2
    <3> QED  BY <2>0, <3>1, <3>2, <3>3, <3>4 DEF Once
  <2>4. CASE q.op = "confirm"
    <3>1. /\ user' = Enrolled(user.pending) /\ user.pending # NoSecret /\ shown' = user'.codes
          /\ q.code.kind = "totp" /\ q.code.secret = user.pending
      BY <1>0, <1>1, <2>0, <2>4 DEF ChangedRight, Confirms, Shown
    <3>2. /\ user'.enabled /\ user'.secret = user.pending /\ user'.pending = NoSecret
      BY <3>1 DEF Enrolled
    <3>3. PICK x \in Acceptances : x = <<user.pending, q.step, "confirm">>
      BY <1>0, <2>2 DEF Acceptances
    <3>4. steps' = Append(steps, x)
      BY <1>1, <2>4, <3>1, <3>3 DEF ByOneTimeCode, Use
    <3>5. /\ Len(steps) \in Nat /\ DOMAIN steps = 1..Len(steps)
          /\ DOMAIN steps' = 1..(Len(steps) + 1)
          /\ \A i \in DOMAIN steps : steps'[i] = steps[i] /\ steps[i] \in Acceptances
          /\ steps'[Len(steps) + 1] = x
      BY <1>0, <3>4, AppendProperties
    <3>6. \A i \in DOMAIN steps' : i \in DOMAIN steps \/ i = Len(steps) + 1
      BY <3>5
    <3>7. /\ x[1] = user.pending /\ x[3] = "confirm" /\ user.pending \in 1..issued
          /\ \A i \in DOMAIN steps : steps[i][1] # x[1] /\ steps[i][1] \in 1..issued
      <4>1. x[1] = user.pending /\ x[3] = "confirm"
        BY <3>3
      <4>2. user.pending <= issued /\ user.pending # 0
        BY <2>0, <3>1 DEF UserSound, NoSecret
      <4> QED  BY <1>0, <2>0, <2>2, <3>1, <4>1, <4>2 DEF UserSound, Unspent
    <3>8. Once(steps)'
      BY <2>0, <3>5, <3>6, <3>7 DEF Once
    <3>9. UserSound'
      <4>1. ASSUME NEW i \in DOMAIN steps'
            PROVE  steps'[i][1] \in 1..issued' /\ ~(steps'[i][1] = user'.secret /\ steps'[i][3] = "verify")
        <5>1. CASE i \in DOMAIN steps
          BY <1>0, <3>2, <3>5, <3>7, <5>1
        <5>2. CASE i = Len(steps) + 1
          BY <1>0, <3>5, <3>7, <5>2
        <5> QED  BY <3>6, <5>1, <5>2
      <4>2. user'.secret <= issued' /\ user'.pending <= issued' /\ user'.secret # NoSecret
        BY <1>0, <3>1, <3>2, <3>7 DEF NoSecret
      <4> QED  BY <3>2, <4>1, <4>2 DEF UserSound
    <3>10. ASSUME NEW s \in Slots
           PROVE  SecretIsNew(req[s])'
      <4>1. CASE s = r
        BY <1>2, <4>1 DEF SecretIsNew, Starting
      <4>2. CASE s # r
        <5> SUFFICES ASSUME Starting(req[s])
                     PROVE  /\ req[s].new.pending \in 1..issued'
                            /\ req[s].new.pending \notin {user'.secret, user'.pending}
                            /\ \A i \in DOMAIN steps' : steps'[i][1] # req[s].new.pending
          BY <1>2, <4>2 DEF SecretIsNew, Starting, Unspent
        <5>1. /\ req[s].new.pending \in 1..issued
              /\ req[s].new.pending \notin {user.secret, user.pending}
              /\ \A i \in DOMAIN steps : steps[i][1] # req[s].new.pending
          BY <2>0 DEF SecretIsNew, Unspent
        <5>2. \A i \in DOMAIN steps' : steps'[i][1] # req[s].new.pending
          BY <3>5, <3>6, <3>7, <5>1
        <5> QED  BY <1>0, <3>2, <5>1, <5>2 DEF NoSecret
      <4> QED  BY <4>1, <4>2
    <3> QED  BY <3>1, <3>8, <3>9, <3>10
  <2>5. CASE q.op \in {"disable", "mfa", "act"}
    <3>0. Accepts(user, q.code, q.step) /\ user.enabled /\ user.secret # NoSecret /\ user.pending = NoSecret
      <4>1. Accepts(user, q.code, q.step)
        BY <1>0, <2>0, <2>5 DEF ChangedRight
      <4> QED  BY <2>0, <4>1 DEF Accepts, UserSound
    <3>1. CASE q.code.kind = "totp"
      <4>1. /\ steps' = Append(steps, <<user.secret, q.step, "verify">>) /\ q.step > user.counter
            /\ \/ q.op = "disable" /\ user' = Blank /\ shown' = {}
               \/ user' = [user EXCEPT !.counter = q.step] /\ shown' = shown
        BY <1>0, <1>1, <2>0, <2>5, <3>0, <3>1 DEF ChangedRight, Accepts, Verified, Shown, ByOneTimeCode, Use
      <4>2. <<user.secret, q.step, "verify">> \in Acceptances
        BY <1>0, <2>2 DEF Acceptances
      <4>3. /\ Len(steps) \in Nat /\ DOMAIN steps = 1..Len(steps)
            /\ DOMAIN steps' = 1..(Len(steps) + 1)
            /\ \A i \in DOMAIN steps : steps'[i] = steps[i] /\ steps[i] \in Acceptances
            /\ steps'[Len(steps) + 1] = <<user.secret, q.step, "verify">>
        BY <1>0, <4>1, <4>2, AppendProperties
      <4>4. \A i \in DOMAIN steps' : i \in DOMAIN steps \/ i = Len(steps) + 1
        BY <4>3
      <4>5. \A i \in DOMAIN steps : steps[i][1] = user.secret /\ steps[i][3] = "verify" => steps[i][2] <= user.counter
        BY <2>0 DEF UserSound
      <4>6. \A i \in DOMAIN steps :
              steps[i][1] = user.secret /\ steps[i][2] = q.step => steps[i][3] = "confirm"
        <5> SUFFICES ASSUME NEW i \in DOMAIN steps, steps[i][1] = user.secret, steps[i][2] = q.step,
                            steps[i][3] # "confirm"
                     PROVE  FALSE
          OBVIOUS
        <5>1. steps[i][3] = "verify"
          BY <4>3 DEF Acceptances
        <5> QED  BY <1>0, <2>2, <4>1, <4>5, <5>1
      <4>7. Once(steps)'
        <5>1. PICK last \in Nat : last = Len(steps) + 1
          BY <4>3
        <5>2. steps'[last][1] = user.secret /\ steps'[last][2] = q.step /\ steps'[last][3] = "verify"
          BY <4>3, <5>1
        <5> SUFFICES ASSUME NEW i \in DOMAIN steps', NEW j \in DOMAIN steps', i < j,
                            steps'[i][1] = steps'[j][1], steps'[i][2] = steps'[j][2]
                     PROVE  steps'[i][3] = "confirm" /\ steps'[j][3] = "verify"
          BY DEF Once
        <5>3. i \in DOMAIN steps
          BY <4>3, <4>4
        <5>4. CASE j \in DOMAIN steps
          BY <2>0, <4>3, <5>3, <5>4 DEF Once
        <5>5. CASE j = last
          BY <4>3, <4>6, <5>2, <5>3, <5>5
        <5> QED  BY <4>4, <5>1, <5>4, <5>5
      <4>8. /\ user'.codes = shown' /\ user'.pending = NoSecret
            /\ \/ user'.enabled /\ user'.secret = user.secret /\ user'.counter = q.step
               \/ ~user'.enabled /\ user'.secret = NoSecret
        <5>1. CASE q.op = "disable" /\ user' = Blank /\ shown' = {}
          BY <5>1 DEF Blank
        <5>2. CASE user' = [user EXCEPT !.counter = q.step] /\ shown' = shown
          BY <1>0, <2>0, <3>0, <5>2 DEF UserRow
        <5> QED  BY <4>1, <5>1, <5>2
      <4>9. UserSound'
        <5>1. ASSUME NEW i \in DOMAIN steps'
              PROVE  /\ steps'[i][1] \in 1..issued'
                     /\ steps'[i][1] = user'.secret /\ steps'[i][3] = "verify"
                          => steps'[i][2] <= user'.counter
          <6>1. CASE i \in DOMAIN steps
            <7>1. steps'[i] = steps[i] /\ steps[i][1] \in 1..issued /\ steps[i][2] \in Int
              BY <2>0, <4>3, <6>1 DEF UserSound, Acceptances
            <7>2. steps[i][1] # NoSecret
              BY <7>1 DEF NoSecret
            <7> QED  BY <1>0, <2>2, <4>1, <4>5, <4>8, <6>1, <7>1, <7>2
          <6>2. CASE i = Len(steps) + 1
            <7>1. steps'[i][1] = user.secret /\ steps'[i][2] = q.step
              BY <4>3, <6>2
            <7>2. user.secret \in 1..issued
              BY <1>0, <2>0, <2>2, <3>0 DEF UserSound, NoSecret
            <7> QED  BY <1>0, <3>0, <4>8, <7>1, <7>2
          <6> QED  BY <4>4, <6>1, <6>2
        <5>2. user'.secret <= issued' /\ user'.pending <= issued'
          BY <1>0, <2>0, <2>2, <4>8 DEF UserSound, NoSecret
        <5> QED  BY <3>0, <4>8, <5>1, <5>2 DEF UserSound
      <4>10. ASSUME NEW s \in Slots
             PROVE  SecretIsNew(req[s])'
        <5>1. CASE s = r
          BY <1>2, <5>1 DEF SecretIsNew, Starting
        <5>2. CASE s # r
          <6> SUFFICES ASSUME Starting(req[s])
                       PROVE  /\ req[s].new.pending \in 1..issued'
                              /\ req[s].new.pending \notin {user'.secret, user'.pending}
                              /\ \A i \in DOMAIN steps' : steps'[i][1] # req[s].new.pending
            BY <1>2, <5>2 DEF SecretIsNew, Starting, Unspent
          <6>1. /\ req[s].new.pending \in 1..issued
                /\ req[s].new.pending \notin {user.secret, user.pending}
                /\ \A i \in DOMAIN steps : steps[i][1] # req[s].new.pending
            BY <2>0 DEF SecretIsNew, Unspent
          <6>2. \A i \in DOMAIN steps' : steps'[i][1] # req[s].new.pending
            <7>1. steps'[Len(steps) + 1][1] = user.secret
              BY <4>3
            <7> QED  BY <4>3, <4>4, <6>1, <7>1
          <6> QED  BY <1>0, <4>8, <6>1, <6>2 DEF NoSecret
        <5> QED  BY <5>1, <5>2
      <4> QED  BY <4>7, <4>8, <4>9, <4>10
    <3>2. CASE q.code.kind # "totp"
      <4>1. q.code.kind = "recovery"
        BY <1>0, <3>2 DEF Code
      <4>2. /\ steps' = steps
            /\ \/ user' = Blank /\ shown' = {}
               \/ user' = [user EXCEPT !.codes = @ \ {q.code.code}] /\ shown' = shown \ {q.code.code}
        <5>1. CASE q.op = "disable"
          <6>1. user' = Blank
            BY <1>0, <2>0, <5>1 DEF ChangedRight
          <6>2. steps' = steps
            BY <1>1, <3>2 DEF ByOneTimeCode
          <6>3. shown' = {}
            BY <1>1, <5>1
          <6> QED  BY <6>1, <6>2, <6>3
        <5>2. CASE q.op # "disable"
          <6>1. user' = Verified(user, q.code, q.step)
            BY <1>0, <2>0, <2>5, <5>2 DEF ChangedRight
          <6> QED  BY <1>1, <2>5, <3>0, <3>2, <4>1, <5>2, <6>1 DEF Verified, ByOneTimeCode
        <5> QED  BY <5>1, <5>2
      <4>3. /\ user'.codes = shown' /\ user'.pending = NoSecret
            /\ \/ user'.enabled /\ user'.secret = user.secret /\ user'.counter = user.counter
               \/ ~user'.enabled /\ user'.secret = NoSecret
        <5>1. CASE user' = Blank /\ shown' = {}
          BY <5>1 DEF Blank
        <5>2. CASE user' = [user EXCEPT !.codes = @ \ {q.code.code}] /\ shown' = shown \ {q.code.code}
          BY <1>0, <2>0, <3>0, <5>2 DEF UserRow
        <5> QED  BY <4>2, <5>1, <5>2
      <4>4. UserSound'
        BY <1>0, <2>0, <2>2, <3>0, <4>2, <4>3 DEF UserSound, NoSecret
      <4>5. ASSUME NEW s \in Slots
            PROVE  SecretIsNew(req[s])'
        BY <1>0, <1>2, <2>0, <4>2, <4>3 DEF SecretIsNew, Starting, Unspent, NoSecret
      <4> QED  BY <2>0, <4>2, <4>3, <4>4, <4>5
    <3> QED  BY <3>1, <3>2
  <2> QED  BY <1>0, <2>3, <2>4, <2>5 DEF FactorOps
<1> QED
  BY <1>1, <1>4, <1>5

LEMMA FactorInvStep ==
  ASSUME TypeOK, FactorInv, [Next]_vars
  PROVE  FactorInv'
<1>1. issued' \in Nat /\ issued <= issued'
  BY ClockStep DEF ClockTypes
<1> QED
  BY <1>1, FactorAlone, FactorUndecided, FactorLoadStep, FactorCommitStep

LEMMA FactorInvInit ==
  ASSUME Init
  PROVE  FactorInv
<1>0. issued \in Nat /\ issued = FirstSecret /\ FirstSecret # NoSecret
  <2>1. issued = Cardinality(Browsers) + 1 /\ FirstSecret = issued
    BY DEF Init, FirstSecret
  <2> QED  BY <2>1, Constants DEF NoSecret
<1>1. user = Blank \/ user = Enrolled(FirstSecret)
  BY DEF Init
<1>2. UserSound
  <2>1. CASE user = Blank
    BY <1>0, <2>1 DEF Init, Blank, UserSound, NoSecret
  <2>2. CASE user = Enrolled(FirstSecret)
    BY <1>0, <2>2 DEF Init, Enrolled, UserSound, NoSecret
  <2> QED  BY <1>1, <2>1, <2>2
<1> QED
  BY <1>2 DEF Init, FactorInv, ChangedRight, SecretsDiffer, SecretIsNew, Starting, Idle, RecoveryCodesHold,
       OneCodePerStep, Once

\* As long as no handler has written a users row it had read before another
\* handler wrote it, the recovery codes a person holds unused are exactly the
\* codes the account takes: enrolment, use and removal of the second factor
\* move the two together, through the copy of the row each works on.
THEOREM RecoveryCodesAlwaysHold == Spec => []RecoveryCodesHold
<1>1. TypeOK /\ FactorInv /\ [Next]_vars => TypeOK' /\ FactorInv'
  BY TypeStep, FactorInvStep
<1>2. FactorInv => RecoveryCodesHold
  BY DEF FactorInv
<1> QED
  BY <1>1, <1>2, TypeInit, FactorInvInit, PTL DEF Spec

\* Nor are two one-time codes of one secret accepted in the same 30 seconds, but
\* for the one that confirmed the enrolment and one more: also across an
\* enrolment that is removed and made again, because the new secret was never
\* used before.
THEOREM OneCodeInEachStep == Spec => []OneCodePerStep
<1>1. TypeOK /\ FactorInv /\ [Next]_vars => TypeOK' /\ FactorInv'
  BY TypeStep, FactorInvStep
<1>2. FactorInv => OneCodePerStep
  BY DEF FactorInv
<1> QED
  BY <1>1, <1>2, TypeInit, FactorInvInit, PTL DEF Spec

-----------------------------------------------------------------------------
(* The browsers.                                                           *)

\* A step that leaves the tokens, the cookies and who refreshed what alone.
SameTokens ==
  /\ SessionIds' = SessionIds
  /\ \A i \in SessionIds :
       /\ sessions'[i].token = sessions[i].token /\ sessions'[i].prev = sessions[i].prev
       /\ sessions'[i].rotated = sessions[i].rotated
       /\ sessions[i].revoked => sessions'[i].revoked
  /\ UNCHANGED <<lastBy, home, cookie>>

\* A request that is new, or further on, and known to be right.
Right(s) ==
  /\ req[s].stage # "answered" /\ Plain(req[s])'
  /\ Calm' => Current(req[s])'
  /\ Clean' => MeansIt(req[s])'
  /\ Quiet' => Serves(req[s])'

TimePasses == now <= now' /\ missedAt' <= missedAt /\ issued <= issued' /\ upset \subseteq upset'

LEMMA Ages ==
  ASSUME TypeOK, TypeOK', TimePasses
  PROVE  (Calm' => Calm) /\ (Clean' => Clean) /\ (Quiet' => Quiet)
<1>1. now \in Nat /\ now' \in Nat /\ missedAt \in Nat /\ missedAt' \in Nat /\ Grace \in Nat
  BY Constants DEF TypeOK, ClockTypes
<1>2. /\ "overlap" \notin upset' => "overlap" \notin upset
      /\ upset' = {} => upset = {}
  BY DEF TimePasses
<1>3. /\ now' < missedAt' => now < missedAt
      /\ now' <= missedAt' + Grace => now <= missedAt + Grace
  <2>1. now <= now' /\ missedAt' <= missedAt
    BY DEF TimePasses
  <2>2. \A a, b, c, d, g \in Nat : a <= b /\ d <= c => (b < d => a < c) /\ (b <= d + g => a <= c + g)
    OBVIOUS
  <2> QED  BY <1>1, <2>1, <2>2
<1> QED
  BY <1>2, <1>3 DEF Calm, Clean, Quiet

LEMMA TokensStay ==
  ASSUME SameTokens
  PROVE  \A x : Matching(x)' = Matching(x)
  BY DEF SameTokens, Matching, SessionIds

LEMMA StillStep ==
  ASSUME TypeOK, TypeOK', BrowserInv, TimePasses, SameTokens, missedAt' = missedAt,
         \A s \in Slots : req'[s] = req[s] \/ Right(s),
         \A t \in Tabs : tab'[t] = tab[t] \/ tab'[t].csrf = 0,
         Calm' => OneAtATime',
         Quiet' => \A i \in SessionIds : sessions'[i].revoked = sessions[i].revoked
                                         /\ sessions'[i].expired = sessions[i].expired,
         \A e \in ended' : e \in ended \/ Ends(e)'
  PROVE  BrowserInv'
<1>0. /\ issued \in Nat /\ issued' \in Nat /\ now \in Nat /\ now' \in Nat /\ ReqType /\ ReqType'
      /\ BrowserTypes /\ BrowserTypes'
  BY DEF TypeOK, ClockTypes
<1>1. /\ SessionIds' = SessionIds /\ UNCHANGED <<lastBy, home, cookie, missedAt>>
      /\ \A i \in SessionIds :
           /\ sessions'[i].token = sessions[i].token /\ sessions'[i].prev = sessions[i].prev
           /\ sessions'[i].rotated = sessions[i].rotated
           /\ sessions[i].revoked => sessions'[i].revoked
      /\ \A x : Matching(x)' = Matching(x)
  BY TokensStay DEF SameTokens
<1>1a. ASSUME NEW x, NEW i \in Matching(x)
       PROVE  i \in SessionIds
  BY DEF Matching
<1>2. (Calm' => Calm) /\ (Clean' => Clean) /\ (Quiet' => Quiet)
  BY Ages
<1>3. TokensMade'
  <2>1. TokensMade
    BY DEF BrowserInv
  <2>2. \A i \in SessionIds : sessions[i].token \in Nat /\ sessions[i].prev \in Nat
    BY <1>0, Rows DEF SessionRow
  <2>3. \A b \in Browsers : cookie[b] \in Nat
    BY <1>0 DEF BrowserTypes
  <2> QED  BY <1>0, <1>1, <2>1, <2>2, <2>3 DEF TokensMade, TimePasses
<1>4. ASSUME NEW s \in Slots
      PROVE  Plain(req[s])'
  <2>1. CASE req'[s] = req[s]
    <3>1. Plain(req[s])
      BY DEF BrowserInv
    <3>2. /\ req[s].stage \in {"sent", "loaded"} => req[s].token \in Nat
          /\ req[s].stage \in {"loaded", "answered"} => req[s].at \in Nat
          /\ req[s].stage = "answered" => req[s].answer \in Nat
      BY <1>0, RequestKinds DEF SentReq, LoadedReq, AnsweredReq
    <3> QED  BY <1>0, <1>1, <2>1, <3>1, <3>2 DEF Plain, TimePasses
  <2> QED  BY <2>1 DEF Right
<1>5. ASSUME NEW e \in ended'
      PROVE  Ends(e)'
  <2>1. CASE e \in ended
    <3>1. Ends(e)
      BY <2>1 DEF BrowserInv
    <3> QED  BY <1>1, <1>2, <3>1 DEF Ends
  <2> QED  BY <2>1
<1>6. ASSUME Calm'
      PROVE  Held'
  <2>1. Distinct /\ Owned /\ \A r \in Slots : Current(req[r])
    BY <1>2, <1>6 DEF BrowserInv, Held
  <2>2. Distinct' /\ Owned'
    BY <1>1, <2>1 DEF Distinct, Owned
  <2>3. ASSUME NEW s \in Slots
        PROVE  Current(req[s])'
    <3>1. CASE req'[s] = req[s]
      <4>1. Current(req[s])
        BY <2>1
      <4> QED  BY <1>1, <1>1a, <3>1, <4>1 DEF Current
    <3> QED  BY <1>6, <3>1 DEF Right
  <2> QED  BY <2>2, <2>3 DEF Held
<1>7. ASSUME NEW s \in Slots, NEW i \in SessionIds, Coming(s, i)
      PROVE  Coming(s, i)'
  <2>1. req'[s] = req[s]
    BY <1>7 DEF Coming, At, Right
  <2> QED  BY <1>1, <1>7, <2>1 DEF Coming, At
<1>8. ASSUME Clean'
      PROVE  Known'
  <2>1. Settled /\ \A r \in Slots : MeansIt(req[r])
    BY <1>2, <1>8 DEF BrowserInv, Known
  <2>2. Settled'
    <3> SUFFICES ASSUME NEW i \in SessionIds, lastBy[i] # NoTab, i \in Matching(cookie[home[lastBy[i]]])
                 PROVE  \/ /\ cookie[home[lastBy[i]]] = sessions[i].token
                           /\ tab'[lastBy[i]].csrf \in {0, sessions[i].token}
                        \/ \E r \in Slots : Coming(r, i)'
      BY <1>1 DEF Settled
    <3>1. lastBy[i] \in Tabs
      BY <1>0, Rows
    <3> QED  BY <1>7, <2>1, <3>1 DEF Settled
  <2>3. ASSUME NEW s \in Slots
        PROVE  MeansIt(req[s])'
    BY <1>1, <1>8, <2>1 DEF Right, MeansIt
  <2> QED  BY <2>2, <2>3 DEF Known
<1>9. ASSUME Quiet'
      PROVE  Served'
  <2>1. Served
    BY <1>2, <1>9 DEF BrowserInv
  <2>2. ASSUME NEW t \in Tabs, cookie[home[t]] # 0
        PROVE  Good(cookie[home[t]])'
    <3>1. Good(cookie[home[t]])
      BY <2>1, <2>2 DEF Served
    <3> QED  BY <1>1, <1>1a, <1>7, <3>1 DEF Good
  <2>3. ASSUME NEW i \in SessionIds
        PROVE  AliveRow(sessions'[i])
    BY <1>9, <2>1 DEF Served, AliveRow
  <2>4. ASSUME NEW s \in Slots
        PROVE  Serves(req[s])'
    BY <1>9, <2>1 DEF Served, Right, Serves
  <2> QED  BY <1>1, <2>2, <2>3, <2>4 DEF Served, AliveRow
<1> QED
  BY <1>3, <1>4, <1>5, <1>6, <1>8, <1>9 DEF BrowserInv

\* A request goes on, or ends, or is made by a tab.
Others(r) == \A s \in Slots : s # r => req'[s] = req[s]
Keeps(r) ==
  /\ Others(r)
  /\ \/ req'[r].stage = "idle"
     \/ req'[r].tab = NoTab
     \/ req[r].stage # "idle" /\ req'[r].tab = req[r].tab
Begins(r, t) ==
  Others(r) /\ req[r] = Idle /\ req'[r].tab = t /\ req'[r].stage # "idle" /\ upset' = Noted(t)

LEMMA RequestMoves ==
  ASSUME TypeOK, [Next]_vars
  PROVE  req' = req \/ \E r \in Slots : Keeps(r) \/ \E t \in Tabs : Begins(r, t)
<1>0. req \in [Slots -> Request \cup {Idle}]
  BY DEF TypeOK, ReqType
<1>2. ASSUME NEW r \in Slots, End(r)
      PROVE  Keeps(r)
  BY <1>0, <1>2 DEF End, Set, Idle, Keeps, Others
<1>3. ASSUME NEW r \in Slots, NEW token, NEW at, NEW keeps, Answered(r, token, at, keeps), req[r].stage # "idle"
      PROVE  Keeps(r)
  BY <1>0, <1>3 DEF Answered, Set, Keeps, Others
<1>4. ASSUME NEW r \in Slots, NEW t \in Tabs, NEW op \in GuestOps \cup TabOps, NEW code, NEW reload,
              Refresh(r, t, reload) \/ SignOut(r, op, t) \/ Ask(r, op, t, code)
      PROVE  Begins(r, t)
  BY <1>0, <1>4 DEF Refresh, SignOut, Ask, Sends, Set, Guest, Begins, Others
<1>5. ASSUME NEW r \in Slots, NEW op, NEW code, Asked(r, op, code)
      PROVE  Keeps(r)
  BY <1>0, <1>5 DEF Asked, Set, Guest, Keeps, Others
<1>6. ASSUME NEW r \in Slots, Deliver(r) \/ Lose(r) \/ TooMany(r) \/ LoginPauses(r) \/ Fail(r)
      PROVE  Keeps(r)
  BY <1>2, <1>6 DEF Deliver, Lose, TooMany, LoginPauses, Fail
<1>7. ASSUME NEW r \in Slots, RefreshLoad(r)
      PROVE  Keeps(r)
  <2>1. req[r].stage # "idle"
    BY <1>7 DEF RefreshLoad, At
  <2>2. Refused(r) => Keeps(r)
    BY <1>3, <2>1 DEF Refused
  <2>3. ASSUME NEW id, req' = [req EXCEPT ![r] = LoadedCopy(r, id)]
        PROVE  Keeps(r)
    BY <1>0, <2>1, <2>3 DEF Keeps, Others, LoadedCopy
  <2> QED  BY <1>7, <2>2, <2>3, RefreshLoads
<1>8. ASSUME NEW r \in Slots, \/ RefreshReplay(r) \/ RefreshExpired(r) \/ Rotate(r) \/ Logout(r) \/ Everywhere(r)
      PROVE  Keeps(r)
  BY <1>2, <1>3, <1>8 DEF RefreshReplay, RefreshExpired, Rotate, Logout, Everywhere, Refused, At
<1>9. ASSUME NEW r \in Slots, RedisFails(r) \/ Register(r) \/ FactorLoad(r)
      PROVE  Keeps(r)
  BY <1>0, <1>2, <1>9 DEF RedisFails, Register, FactorLoad, Admit, Guest, Set, Keeps, Others, At
<1>10. ASSUME NEW r \in Slots, Login(r) \/ FactorCommit(r)
       PROVE  Keeps(r)
  BY <1>2, <1>3, <1>10 DEF Login, FactorCommit, Opens, At
<1>11. ASSUME NEW r \in Slots, Admit(r) \/ Limited(r), req[r].stage # "idle"
       PROVE  Keeps(r)
  BY <1>0, <1>11 DEF Admit, Limited, Guest, Set, Keeps, Others
<1>12. ASSUME NEW r \in Slots, Count(r) \/ SetEnd(r)
       PROVE  Keeps(r)
  <2>1. CASE SetEnd(r)
    BY <1>11, <2>1 DEF SetEnd
  <2>2. CASE Count(r) /\ NeedsEnd(key')
    BY <1>0, <2>2 DEF Count, Set, Keeps, Others
  <2>3. CASE Count(r) /\ ~NeedsEnd(key')
    BY <1>11, <2>3 DEF Count
  <2> QED  BY <1>12, <2>1, <2>2, <2>3
<1>13. ASSUME Tick \/ (\E i \in SessionIds : Expire(i)) \/ UNCHANGED vars
       PROVE  req' = req
  BY <1>13 DEF Tick, Expire, vars
<1> QED
  BY <1>4, <1>5, <1>6, <1>7, <1>8, <1>9, <1>10, <1>12, <1>13 DEF Next, GuestOps, TabOps

LEMMA BeginsAlone ==
  ASSUME TypeOK, NEW r \in Slots, NEW t \in Tabs, Begins(r, t), Calm', NEW s \in Slots
  PROVE  ~Calls(s, home[t])
<1> SUFFICES ASSUME Calls(s, home[t]) PROVE FALSE
  OBVIOUS
<1>1. req[s].stage # "idle" /\ req[s].tab \in Tabs /\ home[req[s].tab] = home[t]
  BY RequestTabs DEF TypeOK, Calls
<1>2. s \in Of(req[s].tab)
  BY <1>1 DEF Of, Idle
<1>3. upset' = upset \cup {"overlap"}
  BY <1>1, <1>2 DEF Begins, Noted
<1> QED  BY <1>3 DEF Calm

LEMMA OneAtATimeStep ==
  ASSUME TypeOK, Calm => OneAtATime, TimePasses, home' = home,
         req' = req \/ \E r \in Slots : Keeps(r) \/ \E t \in Tabs : Begins(r, t),
         Calm'
  PROVE  OneAtATime'
<1>0. OneAtATime
  BY DEF TimePasses, Calm
<1>1. CASE req' = req
  BY <1>0, <1>1 DEF OneAtATime, Calls
<1>2. ASSUME NEW r \in Slots, Keeps(r)
      PROVE  OneAtATime'
  <2>1. \A s \in Slots, b \in Browsers : Calls(s, b)' => Calls(s, b)
    BY <1>2 DEF Keeps, Others, Calls
  <2> QED  BY <1>0, <2>1 DEF OneAtATime
<1>3. ASSUME NEW r \in Slots, NEW t \in Tabs, Begins(r, t)
      PROVE  OneAtATime'
  <2>1. \A s \in Slots, b \in Browsers : Calls(s, b)' => (s = r /\ b = home[t]) \/ (Calls(s, b) /\ s # r)
    BY <1>3 DEF Begins, Others, Calls
  <2>2. \A s \in Slots : ~Calls(s, home[t])
    BY <1>3, BeginsAlone
  <2> QED  BY <1>0, <2>1, <2>2 DEF OneAtATime
<1> QED
  BY <1>1, <1>2, <1>3

LEMMA EveryStep ==
  ASSUME TypeOK, BrowserInv, [Next]_vars
  PROVE  TypeOK' /\ TimePasses /\ home' = home /\ (Calm' => OneAtATime')
<1>1. TypeOK'
  BY TypeStep
<1>2. TimePasses
  BY ClockStep DEF TimePasses
<1>3. home' = home
  BY BrowserStep
<1>4. Calm => OneAtATime
  BY DEF BrowserInv
<1> QED  BY <1>1, <1>2, <1>3, <1>4, RequestMoves, OneAtATimeStep

LEMMA QuietStep ==
  ASSUME TypeOK, BrowserInv, [Next]_vars, UNCHANGED <<sessions, lastBy, home, cookie, missedAt, ended>>,
         \A t \in Tabs : tab'[t] = tab[t] \/ tab'[t].csrf = 0,
         \A s \in Slots : req'[s] = req[s] \/ Right(s)
  PROVE  BrowserInv'
<1>1. SameTokens
  BY DEF SameTokens, SessionIds
<1> QED  BY <1>1, EveryStep, StillStep

\* A request that is not about a session is right.
LEMMA PlainRequests ==
  ASSUME NEW s, req[s].stage # "answered", req'[s].stage \notin {"sent", "loaded", "answered"}
  PROVE  Right(s)
  BY DEF Right, Plain, Current, MeansIt, Serves

\* The steps that leave every session, cookie and token as they are, and begin
\* no request about one.
Aside(r) ==
  \/ \E t \in Tabs, op \in GuestOps, code \in Codes \cup {NoCode} : Ask(r, op, t, code)
  \/ \E op \in FactorOps, code \in Codes \cup {NoCode} : Asked(r, op, code)
  \/ Count(r) \/ SetEnd(r) \/ TooMany(r) \/ RedisFails(r) \/ Register(r) \/ LoginPauses(r) \/ FactorLoad(r)
  \/ FactorCommit(r) /\ req[r].op # "mfa"
  \/ Fail(r)

LEMMA GuestSteps ==
  ASSUME TypeOK, BrowserInv, [Next]_vars, NEW r \in Slots, Aside(r)
  PROVE  BrowserInv'
<1>0. req \in [Slots -> Request \cup {Idle}] /\ tab \in [Tabs -> [in : BOOLEAN, csrf : Nat]]
  BY DEF TypeOK, ReqType, BrowserTypes
<1>1. /\ UNCHANGED <<sessions, lastBy, home, cookie, missedAt, ended>>
      /\ req[r].stage # "answered"
      /\ \A t \in Tabs : tab'[t] = tab[t] \/ tab'[t].csrf = 0
  <2>1. CASE Fail(r)
    BY <1>0, <2>1 DEF Fail, GivesUp, Open, history
  <2>2. CASE ~Fail(r)
    BY <2>2 DEF Aside, Ask, Asked, Count, SetEnd, TooMany, RedisFails, Register, LoginPauses, FactorLoad, FactorCommit,
         At, Idle, history
  <2> QED  BY <2>1, <2>2
<1>2. Others(r) /\ req'[r].stage \notin {"sent", "loaded", "answered"}
  <2>1. CASE Count(r)
    <3>1. CASE NeedsEnd(key')
      BY <1>0, <2>1, <3>1 DEF Count, Set, Others
    <3>2. CASE ~NeedsEnd(key')
      BY <1>0, <2>1, <3>2 DEF Count, Admit, Limited, Guest, Set, Others
    <3> QED  BY <3>1, <3>2
  <2>2. CASE SetEnd(r)
    BY <1>0, <2>2 DEF SetEnd, Admit, Limited, Guest, Set, Others
  <2>3. CASE RedisFails(r) \/ Register(r)
    BY <1>0, <2>3 DEF RedisFails, Register, Admit, Guest, Set, End, Idle, Others
  <2>4. CASE FactorLoad(r)
    BY <1>0, <2>4 DEF FactorLoad, Set, End, Idle, Others
  <2>5. CASE TooMany(r) \/ LoginPauses(r) \/ Fail(r) \/ (FactorCommit(r) /\ req[r].op # "mfa")
    BY <1>0, <2>5 DEF TooMany, LoginPauses, Fail, FactorCommit, Set, End, Idle, Others
  <2>6. ASSUME NEW op, NEW code, NEW t, Ask(r, op, t, code) \/ Asked(r, op, code)
        PROVE  Others(r) /\ req'[r].stage \notin {"sent", "loaded", "answered"}
    BY <1>0, <2>6 DEF Ask, Asked, Set, Guest, Others
  <2> QED  BY <2>1, <2>2, <2>3, <2>4, <2>5, <2>6 DEF Aside
<1>3. \A s \in Slots : req'[s] = req[s] \/ Right(s)
  BY <1>1, <1>2, PlainRequests DEF Others
<1> QED
  BY <1>1, <1>3, QuietStep

LEMMA SendSteps ==
  ASSUME TypeOK, BrowserInv, [Next]_vars, NEW r \in Slots, NEW t \in Tabs,
         \/ \E reload \in BOOLEAN : Refresh(r, t, reload)
         \/ \E op \in {"logout", "everywhere"} : SignOut(r, op, t)
  PROVE  BrowserInv'
<1>0. /\ req \in [Slots -> Request \cup {Idle}] /\ tab \in [Tabs -> [in : BOOLEAN, csrf : Nat]]
      /\ home \in [Tabs -> Browsers] /\ cookie \in [Browsers -> Nat] /\ BrowserTypes /\ issued \in Nat
  BY DEF TypeOK, ReqType, BrowserTypes, ClockTypes
<1>1. /\ UNCHANGED <<sessions, lastBy, home, cookie, missedAt, ended, now, issued>>
      /\ \A u \in Tabs : tab'[u] = tab[u] \/ tab'[u].csrf = 0
      /\ req[r] = Idle /\ Others(r) /\ upset' = Noted(t)
      /\ req'[r].stage = "sent" /\ req'[r].tab = t /\ req'[r].token = cookie[home[t]]
      /\ req'[r].op = "logout" => req'[r].csrf = IF tab[t].csrf # 0 THEN tab[t].csrf ELSE cookie[home[t]]
  BY <1>0 DEF Refresh, SignOut, Sends, Set, Open, Others
<1>2. Begins(r, t)
  BY <1>1 DEF Begins
<1>3. Plain(req[r])'
  <2>1. cookie[home[t]] <= issued
    BY <1>0 DEF BrowserInv, TokensMade
  <2> QED  BY <1>1, <2>1 DEF Plain
<1>4. Current(req[r])' /\ Serves(req[r])'
  BY <1>1 DEF Current, Serves
<1>5. ASSUME Clean'
      PROVE  MeansIt(req[r])'
  <2>1. Clean /\ Calm'
    BY <1>5, Ages, EveryStep DEF Clean
  <2>2. Settled
    BY <2>1 DEF BrowserInv, Known
  <2> SUFFICES ASSUME req'[r].op = "logout", NEW i \in Matching(cookie[home[t]]), lastBy[i] = t
               PROVE  req'[r].csrf = cookie[home[t]]
    BY <1>1 DEF MeansIt, Matching, SessionIds
  <2>3. i \in SessionIds /\ t # NoTab
    BY Constants DEF Matching
  <2>4. \A s \in Slots : ~Coming(s, i)
    <3> SUFFICES ASSUME NEW s \in Slots, Coming(s, i) PROVE FALSE
      OBVIOUS
    <3>1. Calls(s, home[t])
      BY <2>3 DEF Coming, At, Calls
    <3> QED  BY <1>2, <2>1, <3>1, BeginsAlone
  <2>5. cookie[home[t]] = sessions[i].token /\ tab[t].csrf \in {0, sessions[i].token}
    BY <2>2, <2>3, <2>4 DEF Settled
  <2> QED  BY <1>1, <2>5
<1>6. Right(r)
  BY <1>1, <1>3, <1>4, <1>5 DEF Right, Idle
<1> QED
  BY <1>1, <1>6, QuietStep DEF Others

\* Nobody whose requests never overlapped, and who asks again within the
\* grace window, is taken for a thief.
LEMMA NotReplayed ==
  ASSUME TypeOK, BrowserInv, Quiet, NEW r \in Slots, req[r].stage = "loaded"
  PROVE  ~Replayed(req[r]) /\ AliveRow(req[r].row)
<1> DEFINE q == req[r]
           x == cookie[home[q.tab]]
<1>0. /\ q \in LoadedReq /\ BrowserTypes /\ now \in Nat /\ missedAt \in Nat /\ Grace \in Nat
      /\ q.tab \in Tabs /\ q.at \in Nat /\ q.row.rotated \in Nat /\ q.at <= now
  BY Constants, RequestKinds DEF TypeOK, ClockTypes, LoadedReq, SessionRow, BrowserInv, Plain
<1>1. Calm /\ OneAtATime /\ Distinct /\ Owned /\ Current(q) /\ Served
  BY DEF BrowserInv, Held, Quiet, Calm
<1>2. /\ q.token = x /\ q.id \in Matching(x)
      /\ q.row.token = sessions[q.id].token /\ q.row.rotated = sessions[q.id].rotated
  BY <1>1 DEF Current
<1>3. x # 0 /\ x \in Nat /\ q.id \in SessionIds
  BY <1>0, <1>2 DEF Matching, BrowserTypes
<1>4. PICK i \in Matching(x) : \/ x = sessions[i].token \/ sessions[i].rotated >= missedAt
                               \/ \E s \in Slots : Coming(s, i)
  BY <1>0, <1>1, <1>3 DEF Served, Good
<1>5. i \in SessionIds /\ i = q.id
  BY <1>1, <1>2, <1>3, <1>4 DEF Distinct, Matching
<1>6. AliveRow(q.row)
  BY <1>1 DEF Served, Serves
<1>7. CASE x = sessions[i].token
  BY <1>2, <1>5, <1>6, <1>7 DEF Replayed, AliveRow
<1>8. CASE sessions[i].rotated >= missedAt
  <2>1. q.row.rotated >= missedAt
    BY <1>2, <1>5, <1>8
  <2>2. q.at - q.row.rotated <= Grace
    <3>1. now <= missedAt + Grace
      BY DEF Quiet
    <3>2. \A a, b, c, d, g \in Nat : a <= b /\ b <= c + g /\ d >= c => a - d <= g
      OBVIOUS
    <3> QED  BY <1>0, <2>1, <3>1, <3>2
  <2>3. WithinGrace(q.row, q.at)
    BY <2>2 DEF WithinGrace
  <2> QED  BY <1>6, <2>3 DEF Replayed, AliveRow
<1>9. ASSUME NEW s \in Slots, Coming(s, i)
      PROVE  FALSE
  <2>1. lastBy[i] # NoTab /\ home[lastBy[i]] = home[q.tab]
    BY <1>0, <1>1, <1>4 DEF Owned
  <2>2. Calls(s, home[q.tab])
    BY <1>9, <2>1 DEF Coming, At, Calls
  <2>3. Calls(r, home[q.tab])
    BY <1>0, Constants DEF Calls
  <2>4. home[q.tab] \in Browsers
    BY <1>0 DEF BrowserTypes
  <2> QED  BY <1>1, <1>9, <2>2, <2>3, <2>4 DEF OneAtATime, Coming, At
<1> QED
  BY <1>4, <1>6, <1>7, <1>8, <1>9

\* An answer without a token is right, unless it refuses a browser in good standing.
LEMMA RefusalRight ==
  ASSUME TypeOK, BrowserInv, NEW r \in Slots, Answered(r, 0, now, TRUE), now' = now, issued' = issued,
         req[r].stage \in {"sent", "loaded"}, Quiet' => req[r].token = 0
  PROVE  Right(r) /\ Others(r)
<1>0. req \in [Slots -> Request \cup {Idle}] /\ now \in Nat /\ issued \in Nat
  BY DEF TypeOK, ReqType, ClockTypes
<1>1. /\ req'[r] = [op |-> req[r].op, stage |-> "answered", tab |-> req[r].tab, token |-> req[r].token,
                    at |-> now, answer |-> 0, keeps |-> TRUE]
      /\ Others(r)
  BY <1>0 DEF Answered, Set, Others
<1> QED
  BY <1>0, <1>1 DEF Right, Plain, Current, MeansIt, Serves

LEMMA RefreshSteps ==
  ASSUME TypeOK, BrowserInv, [Next]_vars, NEW r \in Slots, RefreshLoad(r) \/ RefreshExpired(r) \/ RefreshReplay(r)
  PROVE  BrowserInv'
<1>0. /\ req \in [Slots -> Request \cup {Idle}] /\ now \in Nat /\ issued \in Nat /\ BrowserTypes /\ ReqType
      /\ UNCHANGED <<lastBy, home, cookie, tab, missedAt, ended, now, issued, upset>>
  BY DEF TypeOK, ReqType, ClockTypes, RefreshLoad, RefreshExpired, RefreshReplay, history
<1>1. CASE RefreshLoad(r)
  <2>0. req[r].stage = "sent" /\ sessions' = sessions /\ req[r] \in SentReq
    BY <1>0, <1>1, RequestKinds DEF RefreshLoad, At
  <2>1. CASE Matching(req[r].token) = {} /\ Refused(r)
    <3>1. ASSUME Quiet', req[r].token # 0
          PROVE  FALSE
      <4>1. Quiet /\ Calm
        BY <1>0, <3>1 DEF Quiet, Calm
      <4>2. req[r].token = cookie[home[req[r].tab]] /\ req[r].tab \in Tabs
        BY <2>0, <4>1 DEF BrowserInv, Held, Current, SentReq
      <4> QED  BY <2>1, <3>1, <4>1, <4>2 DEF BrowserInv, Served, Good
    <3>2. Right(r) /\ Others(r)
      BY <1>0, <2>0, <2>1, <3>1, RefusalRight DEF Refused
    <3> QED  BY <1>0, <2>0, <3>2, QuietStep DEF Others
  <2>2. ASSUME NEW id \in Matching(req[r].token), req' = [req EXCEPT ![r] = LoadedCopy(r, id)]
        PROVE  BrowserInv'
    <3>1. req'[r] = LoadedCopy(r, id) /\ Others(r)
      BY <1>0, <2>2 DEF Others
    <3>2. id \in SessionIds /\ id \in {i \in SessionIds : req[r].token # 0 /\ req[r].token \in {sessions[i].token, sessions[i].prev}}
      BY <2>0, <2>2 DEF Matching
    <3>3. Plain(req[r]) /\ (Calm => Current(req[r])) /\ (Quiet => Served)
      BY DEF BrowserInv, Held
    <3>4. Plain(req[r])'
      BY <1>0, <2>0, <3>1, <3>2, <3>3 DEF Plain, LoadedCopy, SessionIds
    <3>5. Calm' => Current(req[r])'
      BY <1>0, <2>0, <3>1, <3>2, <3>3 DEF Current, LoadedCopy, Calm, SessionIds, Matching
    <3>6. MeansIt(req[r])'
      BY <3>1 DEF MeansIt, LoadedCopy
    <3>7. Quiet' => Serves(req[r])'
      BY <1>0, <3>1, <3>2, <3>3 DEF Serves, LoadedCopy, Served, Quiet
    <3>8. Right(r)
      BY <2>0, <3>4, <3>5, <3>6, <3>7 DEF Right
    <3> QED  BY <1>0, <2>0, <3>1, <3>8, QuietStep DEF Others
  <2> QED  BY <1>1, <2>1, <2>2, RefreshLoads
<1>2. CASE RefreshExpired(r)
  <2>0. req[r].stage = "loaded" /\ sessions' = sessions /\ req[r].row.expired
    BY <1>2 DEF RefreshExpired, At
  <2>1. Quiet' => FALSE
    BY <1>0, <2>0, NotReplayed DEF Quiet, AliveRow
  <2>2. Right(r) /\ Others(r)
    BY <1>0, <1>2, <2>0, <2>1, RefusalRight DEF RefreshExpired, Refused
  <2> QED  BY <1>0, <2>0, <2>2, QuietStep DEF Others
<1>3. CASE RefreshReplay(r)
  <2>0. req[r].stage = "loaded" /\ Replayed(req[r]) /\ sessions' = RevokedAll
    BY <1>3 DEF RefreshReplay, At
  <2>1. Quiet' => FALSE
    BY <1>0, <2>0, NotReplayed DEF Quiet
  <2>2. Right(r) /\ Others(r)
    BY <1>0, <1>3, <2>0, <2>1, RefusalRight DEF RefreshReplay, Refused
  <2>3. SameTokens
    <3>1. \A i \in SessionIds : sessions[i] \in SessionRow
      BY <1>0, Rows
    <3> QED  BY <1>0, <2>0, <3>1 DEF SameTokens, RevokedAll, SessionIds, SessionRow
  <2> QED  BY <1>0, <2>1, <2>2, <2>3, StillStep, EveryStep DEF Others
<1> QED
  BY <1>1, <1>2, <1>3

\* What signs out leaves the tokens as they are.
LEMMA SignOutSteps ==
  ASSUME TypeOK, BrowserInv, [Next]_vars, NEW r \in Slots, Logout(r) \/ Everywhere(r)
  PROVE  BrowserInv'
<1>0. /\ req \in [Slots -> Request \cup {Idle}] /\ now \in Nat /\ issued \in Nat /\ BrowserTypes /\ ReqType
      /\ UNCHANGED <<lastBy, home, cookie, tab, missedAt, now, issued>>
      /\ req[r].stage = "sent" /\ req[r].op \in {"logout", "everywhere"}
  BY DEF TypeOK, ReqType, ClockTypes, Logout, Everywhere, At
<1>0a. req[r] \in SentReq /\ req[r].tab \in Tabs /\ \A i \in SessionIds : sessions[i] \in SessionRow
  BY <1>0, Rows, RequestKinds DEF SentReq
<1>1. ASSUME NEW keeps \in BOOLEAN, Answered(r, 0, now, keeps)
      PROVE  Right(r) /\ Others(r)
  <2>1. /\ req'[r] = [op |-> req[r].op, stage |-> "answered", tab |-> req[r].tab, token |-> req[r].token,
                      at |-> now, answer |-> 0, keeps |-> keeps]
        /\ Others(r)
    BY <1>0, <1>1 DEF Answered, Set, Others
  <2> QED  BY <1>0, <2>1 DEF Right, Plain, Current, MeansIt, Serves
<1>2. CASE Logout(r)
  <2>0. /\ upset' = upset \cup {"signed out"}
        /\ ended' = ended \cup {<<i, lastBy[i] = req[r].tab>> : i \in Matching(req[r].token)}
        /\ req[r].op = "logout"
        /\ Right(r) /\ Others(r)
    BY <1>1, <1>2 DEF Logout, Refused, At
  <2>1. SameTokens
    <3>1. CASE CsrfHolds(req[r])
      <4>1. sessions' = [i \in SessionIds |-> IF i \in SignedOut(req[r])
                                              THEN [sessions[i] EXCEPT !.revoked = TRUE] ELSE sessions[i]]
        BY <1>2, <3>1 DEF Logout
      <4>2. ASSUME NEW row \in SessionRow
            PROVE  LET new == [row EXCEPT !.revoked = TRUE]
                   IN  new.token = row.token /\ new.prev = row.prev /\ new.rotated = row.rotated /\ new.revoked
        BY DEF SessionRow
      <4>3. DOMAIN sessions' = SessionIds
        BY <4>1
      <4>4. ASSUME NEW i \in SessionIds
            PROVE  /\ sessions'[i].token = sessions[i].token /\ sessions'[i].prev = sessions[i].prev
                   /\ sessions'[i].rotated = sessions[i].rotated
                   /\ sessions[i].revoked => sessions'[i].revoked
        <5>1. CASE i \in SignedOut(req[r])
          <6>1. sessions'[i] = [sessions[i] EXCEPT !.revoked = TRUE]
            BY <4>1, <5>1
          <6> QED  BY <1>0a, <4>2, <6>1
        <5>2. CASE i \notin SignedOut(req[r])
          BY <4>1, <5>2
        <5> QED  BY <5>1, <5>2
      <4> QED  BY <1>0, <4>3, <4>4 DEF SameTokens, SessionIds
    <3>2. CASE ~CsrfHolds(req[r])
      BY <1>0, <1>2, <3>2 DEF Logout, SameTokens, SessionIds
    <3> QED  BY <3>1, <3>2
  <2>2. ASSUME NEW i \in Matching(req[r].token), Clean', lastBy[i] = req[r].tab
        PROVE  sessions'[i].revoked
    <3>1. Clean /\ Calm
      BY <2>2, Ages, EveryStep DEF Clean
    <3>2. Settled /\ MeansIt(req[r]) /\ OneAtATime /\ Current(req[r])
      BY <3>1 DEF BrowserInv, Known, Held
    <3>3. req[r].csrf = req[r].token /\ req[r].token = cookie[home[req[r].tab]]
      BY <1>0, <2>0, <2>2, <3>2 DEF MeansIt, Current
    <3>4. i \in SessionIds /\ req[r].token # 0 /\ lastBy[i] # NoTab
      BY <1>0a, <2>2, Constants DEF Matching
    <3>5. ASSUME NEW s \in Slots, Coming(s, i)
          PROVE  FALSE
      <4>1. Calls(s, home[req[r].tab]) /\ Calls(r, home[req[r].tab]) /\ home[req[r].tab] \in Browsers
        BY <1>0, <1>0a, <2>2, <3>4, <3>5 DEF Coming, At, Calls, BrowserTypes
      <4> QED  BY <1>0, <3>2, <3>5, <4>1 DEF OneAtATime, Coming, At
    <3>6. req[r].token = sessions[i].token
      BY <2>2, <3>2, <3>3, <3>4, <3>5 DEF Settled
    <3>7. CsrfHolds(req[r]) /\ i \in SignedOut(req[r])
      BY <3>3, <3>4, <3>6 DEF CsrfHolds, SignedOut
    <3> QED  BY <1>0a, <1>2, <3>4, <3>7 DEF Logout, SessionRow
  <2>3. ASSUME NEW e \in ended'
        PROVE  e \in ended \/ Ends(e)'
    <3>1. CASE e \notin ended
      <4>1. PICK i \in Matching(req[r].token) : e = <<i, lastBy[i] = req[r].tab>>
        BY <2>0, <3>1
      <4>2. i \in SessionIds'
        BY <2>1 DEF Matching, SameTokens
      <4> QED  BY <2>2, <4>1, <4>2 DEF Ends
    <3> QED  BY <3>1
  <2> QED  BY <1>0, <2>0, <2>1, <2>3, StillStep, EveryStep DEF Others, Quiet
<1>3. CASE Everywhere(r) /\ CsrfHolds(req[r])
  <2>0. /\ upset' = upset \cup {"signed out"}
        /\ ended' = ended \cup (SessionIds \X {TRUE})
        /\ sessions' = RevokedAll
        /\ Right(r) /\ Others(r)
    BY <1>1, <1>3 DEF Everywhere
  <2>1. SameTokens /\ \A i \in SessionIds : sessions'[i].revoked
    BY <1>0, <1>0a, <2>0 DEF RevokedAll, SameTokens, SessionIds, SessionRow
  <2>2. ASSUME NEW e \in ended'
        PROVE  e \in ended \/ Ends(e)'
    <3>1. CASE e \notin ended
      <4>1. e[1] \in SessionIds
        BY <2>0, <3>1
      <4>2. sessions'[e[1]].revoked /\ e[1] \in SessionIds'
        BY <2>1, <4>1 DEF SameTokens
      <4> QED  BY <4>2 DEF Ends
    <3> QED  BY <3>1
  <2> QED  BY <1>0, <2>0, <2>1, <2>2, StillStep, EveryStep DEF Others, Quiet
<1>4. CASE Everywhere(r) /\ ~CsrfHolds(req[r])
  <2>0. UNCHANGED <<sessions, ended>> /\ req'[r] = Idle /\ Others(r)
    BY <1>0, <1>4 DEF Everywhere, End, Set, Others
  <2>1. Right(r)
    BY <1>0, <2>0, PlainRequests DEF Idle
  <2> QED  BY <1>0, <2>0, <2>1, QuietStep DEF Others
<1> QED
  BY <1>2, <1>3, <1>4

\* Time passes, and sessions run out.
LEMMA TimeSteps ==
  ASSUME TypeOK, BrowserInv, [Next]_vars, Tick \/ (\E i \in SessionIds : Expire(i)) \/ UNCHANGED vars
  PROVE  BrowserInv'
<1>1. CASE Tick \/ UNCHANGED vars
  BY <1>1, QuietStep DEF Tick, vars, history
<1>2. ASSUME NEW i \in SessionIds, Expire(i)
      PROVE  BrowserInv'
  <2>0. BrowserTypes /\ \A j \in SessionIds : sessions[j] \in SessionRow
    BY Rows DEF TypeOK
  <2>1. SameTokens
    BY <1>2, <2>0 DEF Expire, SameTokens, SessionIds, SessionRow
  <2>2. UNCHANGED <<req, tab, missedAt, ended>> /\ upset' # {}
    BY <1>2 DEF Expire
  <2> QED  BY <2>1, <2>2, StillStep, EveryStep DEF Quiet
<1> QED
  BY <1>1, <1>2

\* An answer arrives.  The browser's cookie is then the token of a session
\* the tab has just made or refreshed, or is gone, or is what it was.
LEMMA DeliverStep ==
  ASSUME TypeOK, BrowserInv, [Next]_vars, NEW r \in Slots, Deliver(r)
  PROVE  BrowserInv'
<1> DEFINE b == home[req[r].tab]
<1>0. /\ req \in [Slots -> Request \cup {Idle}] /\ BrowserTypes /\ ReqType /\ issued \in Nat
      /\ UNCHANGED <<sessions, lastBy, home, missedAt, ended, now, issued, upset>>
  BY DEF TypeOK, ReqType, ClockTypes, Deliver, history
<1>1. /\ req[r] \in AnsweredReq /\ req[r].stage = "answered" /\ req[r].tab \in Tabs /\ b \in Browsers
      /\ req[r].answer \in Nat /\ req[r].keeps \in BOOLEAN
  BY <1>0, RequestKinds DEF Deliver, AnsweredReq, BrowserTypes
<1>2. /\ Others(r) /\ req'[r] = Idle
      /\ \A t \in Tabs : cookie'[home[t]] = IF req[r].keeps \/ home[t] # b THEN cookie[home[t]] ELSE req[r].answer
      /\ \A c \in Browsers : cookie'[c] = cookie[c] \/ cookie'[c] = req[r].answer
      /\ \A t \in Tabs : tab'[t] = IF t = req[r].tab THEN Open(req[r].answer) ELSE tab[t]
  BY <1>0, <1>1 DEF Deliver, End, Set, Others, BrowserTypes
<1>3. /\ TypeOK' /\ TimePasses /\ (Calm' => OneAtATime')
      /\ (Calm' => Calm) /\ (Clean' => Clean) /\ (Quiet' => Quiet)
  BY EveryStep, Ages
<1>4. \A x : Matching(x)' = Matching(x)
  BY <1>0 DEF Matching, SessionIds
<1>5. /\ \A s \in Slots : Plain(req[s])
      /\ TokensMade /\ \A e \in ended : Ends(e)
  BY DEF BrowserInv
<1>6. ASSUME Calm, req[r].answer # 0, NEW i \in Matching(req[r].answer)
      PROVE  sessions[i].token = req[r].answer /\ lastBy[i] = req[r].tab
  <2>1. Current(req[r]) /\ Distinct
    BY <1>6 DEF BrowserInv, Held
  <2>2. PICK j \in SessionIds : sessions[j].token = req[r].answer /\ lastBy[j] = req[r].tab
    BY <1>1, <1>6, <2>1 DEF Current
  <2>3. j \in Matching(req[r].answer) /\ i \in SessionIds
    BY <1>6, <2>2 DEF Matching
  <2> QED  BY <1>1, <2>1, <2>2, <2>3 DEF Distinct
<1>7. ASSUME Calm, NEW s \in Slots, Calls(s, b)
      PROVE  s = r
  <2>1. Calls(r, b)
    BY <1>1, Constants DEF Calls
  <2> QED  BY <1>1, <1>7, <2>1 DEF BrowserInv, OneAtATime
<1>8. TokensMade'
  BY <1>0, <1>1, <1>2, <1>5 DEF TokensMade, Plain, SessionIds
<1>9. ASSUME NEW s \in Slots
      PROVE  Plain(req[s])'
  BY <1>0, <1>2, <1>5 DEF Plain, Others, Idle, SessionIds
<1>10. ASSUME NEW e \in ended'
       PROVE  Ends(e)'
  BY <1>0, <1>3, <1>5 DEF Ends, SessionIds
<1>11. ASSUME Calm'
       PROVE  Held'
  <2>1. Distinct /\ Owned /\ \A s \in Slots : Current(req[s])
    BY <1>3, <1>11 DEF BrowserInv, Held
  <2>2. Distinct'
    BY <1>0, <1>4, <2>1 DEF Distinct, SessionIds
  <2>3. Owned'
    <3> SUFFICES ASSUME NEW t \in Tabs, NEW i \in Matching(cookie'[home[t]])
                 PROVE  lastBy[i] # NoTab /\ home[lastBy[i]] = home[t]
      BY <1>0, <1>4 DEF Owned
    <3>1. CASE req[r].keeps \/ home[t] # b
      BY <1>2, <2>1, <3>1 DEF Owned
    <3>2. CASE ~req[r].keeps /\ home[t] = b
      <4>1. cookie'[home[t]] = req[r].answer /\ req[r].answer # 0
        BY <1>2, <3>2 DEF Matching
      <4> QED  BY <1>1, <1>3, <1>6, <1>11, <3>2, <4>1, Constants
    <3> QED  BY <3>1, <3>2
  <2>4. ASSUME NEW s \in Slots
        PROVE  Current(req[s])'
    <3>1. CASE s = r
      BY <1>2, <3>1 DEF Current, Idle
    <3>2. CASE s # r
      <4>1. req'[s] = req[s] /\ Current(req[s])
        BY <1>2, <2>1, <3>2 DEF Others
      <4>2. ASSUME req[s].stage \in {"sent", "loaded"}
            PROVE  req[s].token = cookie'[home[req[s].tab]]
        <5>1. req[s].tab \in Tabs
          BY <1>0, <4>2, RequestKinds DEF SentReq, LoadedReq
        <5>2. home[req[s].tab] # b
          BY <1>3, <1>7, <1>11, <3>2, <4>2, <5>1, Constants DEF Calls
        <5> QED  BY <1>2, <4>1, <4>2, <5>1, <5>2 DEF Current
      <4> QED  BY <1>0, <1>4, <4>1, <4>2 DEF Current, SessionIds
    <3> QED  BY <3>1, <3>2
  <2> QED  BY <2>2, <2>3, <2>4 DEF Held
<1>12. ASSUME NEW s \in Slots, NEW i \in SessionIds, Coming(s, i), s # r
       PROVE  Coming(s, i)'
  BY <1>0, <1>2, <1>12 DEF Coming, At, Others
<1>13. ASSUME Clean'
       PROVE  Known'
  <2>1. Settled /\ (\A s \in Slots : MeansIt(req[s])) /\ Calm
    BY <1>3, <1>13 DEF BrowserInv, Known, Clean
  <2>2. Settled'
    <3> SUFFICES ASSUME NEW i \in SessionIds, lastBy[i] # NoTab, i \in Matching(cookie'[home[lastBy[i]]])
                 PROVE  \/ /\ cookie'[home[lastBy[i]]] = sessions[i].token
                           /\ tab'[lastBy[i]].csrf \in {0, sessions[i].token}
                        \/ \E s \in Slots : Coming(s, i)'
      BY <1>0, <1>4 DEF Settled, SessionIds
    <3>1. lastBy[i] \in Tabs
      BY <1>0, Rows
    <3>2. CASE home[lastBy[i]] # b
      <4>1. i \in Matching(cookie[home[lastBy[i]]]) /\ cookie'[home[lastBy[i]]] = cookie[home[lastBy[i]]]
            /\ tab'[lastBy[i]] = tab[lastBy[i]]
        BY <1>2, <3>1, <3>2
      <4>2. \A s \in Slots : Coming(s, i) => s # r
        BY <3>2 DEF Coming
      <4> QED  BY <1>12, <2>1, <4>1, <4>2 DEF Settled
    <3>3. CASE home[lastBy[i]] = b /\ ~req[r].keeps
      <4>1. cookie'[home[lastBy[i]]] = req[r].answer
        BY <1>2, <3>1, <3>3
      <4>2. sessions[i].token = req[r].answer /\ lastBy[i] = req[r].tab
        BY <1>6, <2>1, <4>1 DEF Matching
      <4> QED  BY <1>2, <3>1, <4>1, <4>2 DEF Open
    <3>4. CASE home[lastBy[i]] = b /\ req[r].keeps
      <4>1. i \in Matching(cookie[home[lastBy[i]]]) /\ cookie'[home[lastBy[i]]] = cookie[home[lastBy[i]]]
        BY <1>2, <3>1, <3>4
      <4>2. req[r].answer = 0
        BY <1>1, <1>5, <3>4 DEF Plain
      <4>3. tab'[lastBy[i]] = tab[lastBy[i]] \/ tab'[lastBy[i]].csrf = 0
        BY <1>2, <3>1, <4>2 DEF Open
      <4>4. \A s \in Slots : ~Coming(s, i)
        BY <1>7, <2>1, <3>1, <3>4 DEF Coming, At, Calls
      <4> QED  BY <2>1, <4>1, <4>3, <4>4 DEF Settled
    <3> QED  BY <3>2, <3>3, <3>4
  <2>3. ASSUME NEW s \in Slots
        PROVE  MeansIt(req[s])'
    <3>1. CASE s = r
      BY <1>2, <3>1 DEF MeansIt, Idle
    <3>2. CASE s # r
      BY <1>0, <1>2, <1>4, <2>1, <3>2 DEF MeansIt, Others
    <3> QED  BY <3>1, <3>2
  <2> QED  BY <2>2, <2>3 DEF Known
<1>14. ASSUME Quiet'
       PROVE  Served'
  <2>1. Served /\ Calm /\ Owned
    BY <1>3, <1>14 DEF BrowserInv, Quiet, Calm, Held
  <2>2. ASSUME NEW t \in Tabs, cookie'[home[t]] # 0
        PROVE  \E i \in Matching(cookie'[home[t]]) :
                 \/ cookie'[home[t]] = sessions[i].token \/ sessions[i].rotated >= missedAt
                 \/ \E s \in Slots : Coming(s, i)'
    <3>1. CASE ~req[r].keeps /\ home[t] = b
      <4>1. cookie'[home[t]] = req[r].answer
        BY <1>2, <3>1
      <4>2. Current(req[r])
        BY <2>1 DEF BrowserInv, Held
      <4>3. PICK j \in SessionIds : sessions[j].token = req[r].answer /\ lastBy[j] = req[r].tab
        BY <1>1, <2>2, <4>1, <4>2 DEF Current
      <4>4. j \in Matching(cookie'[home[t]])
        BY <2>2, <4>1, <4>3 DEF Matching
      <4> QED  BY <4>1, <4>3, <4>4
    <3>2. CASE req[r].keeps \/ home[t] # b
      <4>1. cookie'[home[t]] = cookie[home[t]]
        BY <1>2, <3>2
      <4>2. PICK i \in Matching(cookie[home[t]]) :
               \/ cookie[home[t]] = sessions[i].token \/ sessions[i].rotated >= missedAt
               \/ \E s \in Slots : Coming(s, i)
        BY <2>1, <2>2, <4>1 DEF Served, Good
      <4>3. ASSUME NEW s \in Slots, Coming(s, i)
            PROVE  Coming(s, i)'
        <5>1. i \in SessionIds /\ lastBy[i] # NoTab /\ home[lastBy[i]] = home[t]
          BY <2>1, <4>2 DEF Owned, Matching
        <5>2. s # r
          BY <3>2, <4>3, <5>1 DEF Coming
        <5> QED  BY <1>12, <4>3, <5>1, <5>2
      <4> QED  BY <4>1, <4>2, <4>3
    <3> QED  BY <3>1, <3>2
  <2>3. ASSUME NEW t \in Tabs, cookie'[home[t]] # 0
        PROVE  Good(cookie[home[t]])'
    BY <1>0, <1>4, <2>2, <2>3 DEF Good
  <2>4. \A i \in SessionIds : AliveRow(sessions'[i])
    BY <1>0, <2>1 DEF Served
  <2>5. ASSUME NEW s \in Slots
        PROVE  Serves(req[s])'
    BY <1>2, <2>1 DEF Served, Serves, Others, Idle
  <2> QED  BY <1>0, <2>3, <2>4, <2>5 DEF Served, SessionIds
<1> QED
  BY <1>3, <1>8, <1>9, <1>10, <1>11, <1>13, <1>14 DEF BrowserInv

\* An answer is lost.  From then on the browser's cookie is a token that was
\* replaced no earlier than the first refresh that is missed.
LEMMA LoseStep ==
  ASSUME TypeOK, BrowserInv, [Next]_vars, NEW r \in Slots, Lose(r)
  PROVE  BrowserInv'
<1>0. /\ req \in [Slots -> Request \cup {Idle}] /\ tab \in [Tabs -> [in : BOOLEAN, csrf : Nat]]
      /\ BrowserTypes /\ ReqType /\ issued \in Nat /\ now \in Nat /\ missedAt \in Nat
      /\ UNCHANGED <<sessions, lastBy, home, cookie, ended, now, issued, upset>>
      /\ req[r].stage = "answered"
  BY DEF TypeOK, ReqType, BrowserTypes, ClockTypes, Lose
<1>1. req[r] \in AnsweredReq /\ req[r].at \in Nat /\ req[r].tab \in Tabs
  BY <1>0, RequestKinds DEF AnsweredReq
<1>2. /\ Others(r) /\ req'[r] = Idle
      /\ missedAt' = IF req[r].op = "refresh" /\ ~req[r].keeps /\ missedAt > req[r].at THEN req[r].at ELSE missedAt
      /\ \A t \in Tabs : tab'[t] = tab[t] \/ tab'[t].csrf = 0
  BY <1>0, <1>1 DEF Lose, GivesUp, Open, End, Set, Others
<1>3. /\ TypeOK' /\ TimePasses /\ (Calm' => OneAtATime')
      /\ (Calm' => Calm) /\ (Clean' => Clean) /\ (Quiet' => Quiet)
  BY EveryStep, Ages
<1>4. \A x : Matching(x)' = Matching(x)
  BY <1>0 DEF Matching, SessionIds
<1>5. /\ \A s \in Slots : Plain(req[s])
      /\ TokensMade /\ \A e \in ended : Ends(e)
  BY DEF BrowserInv
<1>6. ASSUME NEW i \in SessionIds, Coming(r, i)
      PROVE  sessions[i].rotated >= missedAt' /\ now >= missedAt'
  <2>1. req[r].at = sessions[i].rotated /\ req[r].at <= now
    BY <1>0, <1>5, <1>6 DEF Coming, Plain
  <2>2. missedAt' <= req[r].at
    BY <1>0, <1>1, <1>2, <1>6 DEF Coming, At
  <2>3. missedAt' \in Nat
    BY <1>3 DEF TypeOK, ClockTypes
  <2> QED  BY <1>0, <1>1, <2>1, <2>2, <2>3
<1>7. ASSUME NEW s \in Slots, NEW i \in SessionIds, Coming(s, i), s # r
      PROVE  Coming(s, i)'
  BY <1>0, <1>2, <1>7 DEF Coming, At, Others
<1>8. TokensMade'
  BY <1>0, <1>5 DEF TokensMade, SessionIds
<1>9. ASSUME NEW s \in Slots
      PROVE  Plain(req[s])'
  BY <1>0, <1>2, <1>5 DEF Plain, Others, Idle, SessionIds
<1>10. ASSUME NEW e \in ended'
       PROVE  Ends(e)'
  BY <1>0, <1>3, <1>5 DEF Ends, SessionIds
<1>11. ASSUME Calm'
       PROVE  Held'
  <2>1. Distinct /\ Owned /\ \A s \in Slots : Current(req[s])
    BY <1>3, <1>11 DEF BrowserInv, Held
  <2>2. Distinct' /\ Owned'
    BY <1>0, <1>4, <2>1 DEF Distinct, Owned, SessionIds
  <2>3. ASSUME NEW s \in Slots
        PROVE  Current(req[s])'
    BY <1>0, <1>2, <1>4, <2>1 DEF Current, Others, Idle, SessionIds
  <2> QED  BY <2>2, <2>3 DEF Held
<1>12. ASSUME Clean'
       PROVE  Known'
  <2>1. Settled /\ (\A s \in Slots : MeansIt(req[s])) /\ now < missedAt'
    BY <1>0, <1>3, <1>12 DEF BrowserInv, Known, Clean
  <2>2. ASSUME NEW i \in SessionIds
        PROVE  ~Coming(r, i)
    <3>1. missedAt' \in Nat
      BY <1>3 DEF TypeOK, ClockTypes
    <3> QED  BY <1>0, <1>6, <2>1, <3>1
  <2>3. Settled'
    <3> SUFFICES ASSUME NEW i \in SessionIds, lastBy[i] # NoTab, i \in Matching(cookie[home[lastBy[i]]])
                 PROVE  \/ /\ cookie[home[lastBy[i]]] = sessions[i].token
                           /\ tab'[lastBy[i]].csrf \in {0, sessions[i].token}
                        \/ \E s \in Slots : Coming(s, i)'
      BY <1>0, <1>4 DEF Settled, SessionIds
    <3>1. lastBy[i] \in Tabs
      BY <1>0, Rows
    <3> QED  BY <1>2, <1>7, <2>1, <2>2, <3>1 DEF Settled
  <2>4. ASSUME NEW s \in Slots
        PROVE  MeansIt(req[s])'
    BY <1>0, <1>2, <1>4, <2>1 DEF MeansIt, Others, Idle
  <2> QED  BY <2>3, <2>4 DEF Known
<1>13. ASSUME Quiet'
       PROVE  Served'
  <2>1. Served
    BY <1>3, <1>13 DEF BrowserInv
  <2>2. ASSUME NEW t \in Tabs, cookie[home[t]] # 0
        PROVE  Good(cookie[home[t]])'
    <3>1. PICK i \in Matching(cookie[home[t]]) :
            \/ cookie[home[t]] = sessions[i].token \/ sessions[i].rotated >= missedAt
            \/ \E s \in Slots : Coming(s, i)
      BY <2>1, <2>2 DEF Served, Good
    <3>2. i \in SessionIds
      BY <3>1 DEF Matching
    <3>3. sessions[i].rotated >= missedAt => sessions[i].rotated >= missedAt'
      <4>1. sessions[i].rotated \in Nat /\ missedAt' \in Nat /\ missedAt' <= missedAt
        BY <1>0, <1>3, <3>2, Rows DEF SessionRow, TypeOK, ClockTypes, TimePasses
      <4> QED  BY <1>0, <4>1
    <3>4. \/ cookie[home[t]] = sessions[i].token \/ sessions[i].rotated >= missedAt'
          \/ \E s \in Slots : Coming(s, i)'
      BY <1>6, <1>7, <3>1, <3>2, <3>3
    <3> QED  BY <1>0, <1>4, <3>1, <3>4 DEF Good
  <2>3. \A i \in SessionIds : AliveRow(sessions'[i])
    BY <1>0, <2>1 DEF Served
  <2>4. ASSUME NEW s \in Slots
        PROVE  Serves(req[s])'
    BY <1>2, <2>1 DEF Served, Serves, Others, Idle
  <2> QED  BY <1>0, <2>2, <2>3, <2>4 DEF Served, SessionIds
<1> QED
  BY <1>3, <1>8, <1>9, <1>10, <1>11, <1>12, <1>13 DEF BrowserInv

-----------------------------------------------------------------------------
(* A new token: a session of its own, or the next token of an old one.     *)

Issues(r, k) ==
  /\ UNCHANGED <<now, home, cookie, tab, upset, missedAt, ended>> /\ issued' = issued + 1
  /\ SessionIds' = SessionIds \cup {k}
  /\ \A i \in SessionIds \ {k} : sessions'[i] = sessions[i] /\ lastBy'[i] = lastBy[i]
  /\ sessions'[k].token = issued' /\ sessions'[k].prev <= issued /\ lastBy'[k] = req[r].tab
  /\ Others(r) /\ req[r].tab \in Tabs /\ req[r].stage \notin {"idle", "answered"}
  /\ req'[r].stage = "answered" /\ req'[r].tab = req[r].tab /\ ~req'[r].keeps /\ req'[r].answer = issued'
  /\ req'[r].at = sessions'[k].rotated /\ req'[r].at <= now
  /\ IF k \in SessionIds
     THEN /\ req[r].stage = "loaded" /\ req[r].id = k /\ req'[r].op = "refresh"
          /\ sessions'[k].revoked = sessions[k].revoked /\ sessions'[k].expired = sessions[k].expired
          /\ Calm => sessions'[k].prev = req[r].token
     ELSE sessions'[k].prev = 0 /\ AliveRow(sessions'[k])

\* An old token names what it named, but for the one that was replaced twice;
\* the new one names the session it was made for.
LEMMA IssuedTokens ==
  ASSUME TypeOK, BrowserInv, Calm, NEW r \in Slots, NEW k, Issues(r, k)
  PROVE  /\ \A x \in Nat : x <= issued => \A i \in Matching(x)' : i \in Matching(x)
         /\ \A x : \A i \in Matching(x) : i # k => i \in Matching(x)'
         /\ \A x : x = issued + 1 => \A i \in Matching(x)' : i = k
         /\ k \in SessionIds => req[r].token # 0 /\ req[r].token \in Nat /\ k \in Matching(req[r].token)
<1>0. /\ BrowserTypes /\ issued \in Nat /\ ReqType
      /\ \A i \in SessionIds : sessions[i] \in SessionRow
  BY Rows DEF TypeOK, ClockTypes
<1>1. \A i \in SessionIds : sessions[i].token \in Nat /\ sessions[i].prev \in Nat
                            /\ sessions[i].token <= issued /\ sessions[i].prev <= issued
  BY <1>0 DEF BrowserInv, TokensMade, SessionRow
<1>2. k \in SessionIds => req[r].token # 0 /\ req[r].token \in Nat /\ k \in Matching(req[r].token)
  <2> SUFFICES ASSUME k \in SessionIds
               PROVE  req[r].token # 0 /\ req[r].token \in Nat /\ k \in Matching(req[r].token)
    OBVIOUS
  <2>1. req[r].stage = "loaded" /\ req[r].id = k
    BY DEF Issues
  <2>2. req[r] \in LoadedReq /\ Current(req[r])
    BY <1>0, <2>1, RequestKinds DEF BrowserInv, Held
  <2> QED  BY <2>1, <2>2 DEF Current, LoadedReq, Matching
<1>3. ASSUME NEW x \in Nat, x <= issued, NEW i \in Matching(x)'
      PROVE  i \in Matching(x)
  <2>1. i \in SessionIds' /\ x # 0 /\ x \in {sessions'[i].token, sessions'[i].prev}
    BY <1>3 DEF Matching
  <2>2. CASE i # k
    BY <2>1, <2>2 DEF Issues, Matching
  <2>3. CASE i = k
    <3>1. x = sessions'[k].prev
      BY <1>0, <1>3, <2>1, <2>3 DEF Issues
    <3>2. k \in SessionIds /\ x = req[r].token
      BY <2>1, <3>1 DEF Issues
    <3> QED  BY <1>2, <2>3, <3>2
  <2> QED  BY <2>2, <2>3
<1>4. ASSUME NEW x, NEW i \in Matching(x), i # k
      PROVE  i \in Matching(x)'
  BY <1>4 DEF Matching, Issues
<1>5. ASSUME NEW x, x = issued + 1, NEW i \in Matching(x)', i # k
      PROVE  FALSE
  <2>1. i \in SessionIds'
    BY <1>5 DEF Matching
  <2>2. i \in SessionIds /\ sessions'[i] = sessions[i]
    BY <1>5, <2>1 DEF Issues
  <2>3. x \in {sessions[i].token, sessions[i].prev}
    BY <1>5, <2>2 DEF Matching
  <2> QED  BY <1>0, <1>1, <1>5, <2>2, <2>3
<1> QED
  BY <1>2, <1>3, <1>4, <1>5

LEMMA IssueStep ==
  ASSUME TypeOK, BrowserInv, [Next]_vars, NEW r \in Slots, NEW k, Issues(r, k)
  PROVE  BrowserInv'
<1> DEFINE q == req[r]
           b == home[req[r].tab]
<1>0. /\ BrowserTypes /\ ReqType /\ issued \in Nat /\ now \in Nat /\ k \in SessionIds'
      /\ UNCHANGED <<now, home, cookie, tab, upset, missedAt, ended>> /\ issued' = issued + 1
      /\ q.tab \in Tabs /\ b \in Browsers /\ \A i \in SessionIds : sessions[i] \in SessionRow
  BY Rows DEF TypeOK, ClockTypes, Issues, BrowserTypes
<1>1. /\ TypeOK' /\ TimePasses /\ (Calm' => OneAtATime')
      /\ (Calm' => Calm) /\ (Clean' => Clean) /\ (Quiet' => Quiet)
  BY EveryStep, Ages
<1>2. /\ \A s \in Slots : Plain(req[s])
      /\ TokensMade /\ \A e \in ended : Ends(e)
  BY DEF BrowserInv
<1>3. \A c \in Browsers : cookie[c] \in Nat /\ cookie[c] <= issued
  BY <1>0, <1>2 DEF BrowserTypes, TokensMade
<1>3t. \A t \in Tabs : home[t] \in Browsers /\ cookie[home[t]] \in Nat /\ cookie[home[t]] <= issued
  BY <1>0, <1>3 DEF BrowserTypes
<1>4. ASSUME Calm, NEW s \in Slots, Calls(s, b)
      PROVE  s = r
  <2>1. Calls(r, b)
    BY <1>0, Constants DEF Calls, Issues
  <2> QED  BY <1>0, <1>4, <2>1 DEF BrowserInv, OneAtATime
<1>5. ASSUME Calm, k \in SessionIds, NEW t \in Tabs, k \in Matching(cookie[home[t]])
      PROVE  home[t] = b
  <2>1. Owned /\ Current(q)
    BY <1>5 DEF BrowserInv, Held
  <2>2. k \in Matching(cookie[b])
    BY <1>5, <2>1, IssuedTokens DEF Current, Issues
  <2> QED  BY <1>0, <1>5, <2>1, <2>2 DEF Owned
<1>6. ASSUME Calm, k \in SessionIds
      PROVE  lastBy[k] # NoTab /\ home[lastBy[k]] = b
  <2>1. Owned /\ Current(q)
    BY <1>6 DEF BrowserInv, Held
  <2>2. k \in Matching(cookie[b])
    BY <1>6, <2>1, IssuedTokens DEF Current, Issues
  <2> QED  BY <1>0, <2>1, <2>2 DEF Owned
<1>7. ASSUME Calm, k \in SessionIds, NEW s \in Slots, req[s].stage # "idle", req[s].tab = lastBy[k]
      PROVE  s = r
  BY <1>4, <1>6, <1>7 DEF Calls
<1>8. \A i \in SessionIds : i # k => sessions'[i] = sessions[i] /\ lastBy'[i] = lastBy[i] /\ i \in SessionIds'
  BY DEF Issues
<1>9. TokensMade'
  <2>1. \A i \in SessionIds' : sessions'[i].token \in 1..issued' /\ sessions'[i].prev <= issued'
    <3> SUFFICES ASSUME NEW i \in SessionIds'
                 PROVE  sessions'[i].token \in 1..issued' /\ sessions'[i].prev <= issued'
      OBVIOUS
    <3>1. CASE i = k
      <4>1. sessions'[i].prev \in Nat
        <5>1. sessions'[i] \in SessionRow
          BY <1>1 DEF TypeOK, BrowserTypes, SessionIds
        <5> QED  BY <3>1, <5>1 DEF SessionRow
      <4> QED  BY <1>0, <3>1, <4>1 DEF Issues
    <3>2. CASE i # k
      <4>1. i \in SessionIds /\ sessions[i].token \in 1..issued /\ sessions[i].prev <= issued /\ sessions[i].prev \in Nat
        BY <1>0, <1>2, <3>2 DEF Issues, TokensMade, SessionRow
      <4> QED  BY <1>0, <1>8, <3>2, <4>1
    <3> QED  BY <3>1, <3>2
  <2>2. \A c \in Browsers : cookie'[c] <= issued'
    BY <1>0, <1>3
  <2> QED  BY <2>1, <2>2 DEF TokensMade
<1>10. ASSUME NEW s \in Slots
       PROVE  Plain(req[s])'
  <2>1. CASE s = r
    BY <1>0, <2>1 DEF Plain, Issues
  <2>2. CASE s # r
    <3>1. req'[s] = req[s] /\ Plain(req[s])
      BY <1>2, <2>2 DEF Issues, Others
    <3>2. /\ req[s].stage \in {"sent", "loaded"} => req[s].token \in Nat
          /\ req[s].stage = "answered" => req[s].answer \in Nat
      BY <1>0, RequestKinds DEF SentReq, LoadedReq, AnsweredReq
    <3>3. req[s].id \in SessionIds => req[s].id \in SessionIds'
      BY DEF Issues
    <3> QED  BY <1>0, <3>1, <3>2, <3>3 DEF Plain
  <2> QED  BY <2>1, <2>2
<1>11. ASSUME NEW e \in ended'
       PROVE  Ends(e)'
  <2>1. e \in ended /\ Ends(e)
    BY <1>0, <1>2
  <2>2. e[1] \in SessionIds'
    BY <1>8, <2>1, <1>0 DEF Ends
  <2>3. sessions[e[1]].revoked => sessions'[e[1]].revoked
    BY <1>8, <2>1 DEF Ends, Issues
  <2> QED  BY <1>1, <2>1, <2>2, <2>3 DEF Ends
<1>12. ASSUME Calm'
       PROVE  Held'
  <2>0. Calm
    BY <1>1, <1>12
  <2>1. Distinct /\ Owned /\ \A s \in Slots : Current(req[s])
    BY <2>0 DEF BrowserInv, Held
  <2>2. Distinct'
    <3> SUFFICES ASSUME NEW x \in Nat, NEW i \in Matching(x)', NEW j \in Matching(x)'
                 PROVE  i = j
      BY DEF Distinct
    <3>1. x <= issued \/ x = issued + 1
      <4>1. i \in SessionIds' /\ x \in {sessions'[i].token, sessions'[i].prev} /\ sessions'[i] \in SessionRow
        BY <1>1, Rows DEF Matching, TypeOK, BrowserTypes, SessionIds
      <4>2. x <= issued'
        BY <1>0, <1>9, <4>1 DEF TokensMade, SessionRow
      <4> QED  BY <1>0, <4>2
    <3>2. CASE x <= issued
      <4>1. i \in Matching(x) /\ j \in Matching(x)
        BY <2>0, <3>2, IssuedTokens
      <4> QED  BY <2>1, <4>1 DEF Distinct, Matching
    <3>3. CASE x = issued + 1
      BY <2>0, <3>3, IssuedTokens
    <3> QED  BY <3>1, <3>2, <3>3
  <2>3. Owned'
    <3> SUFFICES ASSUME NEW t \in Tabs, NEW x \in Nat, x = cookie[home[t]], NEW i \in Matching(x)'
                 PROVE  lastBy'[i] # NoTab /\ home[lastBy'[i]] = home[t]
      BY <1>0, <1>3t DEF Owned
    <3>1. i \in Matching(cookie[home[t]])
      BY <1>3t, <2>0, IssuedTokens
    <3>2. CASE i # k
      BY <1>8, <2>1, <3>1, <3>2 DEF Owned, Matching
    <3>3. CASE i = k
      BY <1>0, <1>5, <2>0, <3>1, <3>3, Constants DEF Issues, Matching
    <3> QED  BY <3>2, <3>3
  <2>4. ASSUME NEW s \in Slots
        PROVE  Current(req[s])'
    <3>1. CASE s = r
      BY <1>0, <3>1 DEF Current, Issues
    <3>2. CASE s # r
      <4>1. req'[s] = req[s] /\ Current(req[s])
        BY <2>1, <3>2 DEF Issues, Others
      <4>2. req[s].stage \in {"sent", "loaded"} => req[s].token = cookie'[home'[req[s].tab]]
        BY <1>0, <4>1 DEF Current
      <4>3. ASSUME req[s].stage = "loaded", NEW x, x = req[s].token, NEW id, id = req[s].id
            PROVE  id \in Matching(x)' /\ req[s].row.token = sessions'[id].token
                   /\ req[s].row.rotated = sessions'[id].rotated
        <5>1. id \in Matching(x) /\ x = cookie[home[req[s].tab]] /\ req[s].tab \in Tabs /\ id \in SessionIds
          BY <1>0, <4>1, <4>3, RequestKinds DEF Current, LoadedReq, Matching
        <5>2. id # k
          <6> SUFFICES ASSUME id = k PROVE FALSE
            OBVIOUS
          <6>1. home[req[s].tab] = b
            BY <1>5, <2>0, <5>1
          <6>2. Calls(s, b)
            BY <4>3, <5>1, <6>1, Constants DEF Calls
          <6> QED  BY <1>4, <2>0, <3>2, <6>2
        <5>3. id \in Matching(x)'
          BY <2>0, <5>1, <5>2, IssuedTokens
        <5> QED  BY <1>8, <4>1, <4>3, <5>1, <5>2, <5>3 DEF Current
      <4>4. ASSUME req[s].stage = "answered", req[s].answer # 0
            PROVE  \E i \in SessionIds' : sessions'[i].token = req[s].answer /\ lastBy'[i] = req[s].tab
        <5>1. PICK i \in SessionIds : sessions[i].token = req[s].answer /\ lastBy[i] = req[s].tab
          BY <4>1, <4>4 DEF Current
        <5>2. i # k
          BY <1>7, <2>0, <3>2, <4>4, <5>1
        <5> QED  BY <1>8, <5>1, <5>2
      <4>5. req[s].stage = "loaded" => req[s].id \in {i \in SessionIds' : req[s].token # 0 /\ req[s].token \in {sessions'[i].token, sessions'[i].prev}}
                                        /\ req[s].row.token = sessions'[req[s].id].token
                                        /\ req[s].row.rotated = sessions'[req[s].id].rotated
        BY <4>3 DEF Matching
      <4> QED  BY <4>1, <4>2, <4>4, <4>5 DEF Current, Matching
    <3> QED  BY <3>1, <3>2
  <2> QED  BY <2>2, <2>3, <2>4 DEF Held
<1>13. ASSUME NEW s \in Slots, NEW i \in SessionIds, i # k, Coming(s, i)
       PROVE  Coming(s, i)'
  <2>1. s # r
    BY <1>13 DEF Coming, At, Issues
  <2> QED  BY <1>8, <1>13, <2>1 DEF Coming, At, Others, Issues
<1>14. k \in SessionIds => Coming(r, k)'
  BY DEF Issues, Coming, At
<1>15. ASSUME Clean'
       PROVE  Known'
  <2>1. Settled /\ (\A s \in Slots : MeansIt(req[s])) /\ Calm
    BY <1>1, <1>15 DEF BrowserInv, Known, Clean
  <2>2. Settled'
    <3> SUFFICES ASSUME NEW i \in SessionIds', lastBy'[i] # NoTab, NEW x \in Nat, x = cookie[home[lastBy'[i]]],
                        i \in Matching(x)'
                 PROVE  \/ /\ cookie[home[lastBy'[i]]] = sessions'[i].token
                           /\ tab[lastBy'[i]].csrf \in {0, sessions'[i].token}
                        \/ \E s \in Slots : Coming(s, i)'
      <4>1. \A i \in SessionIds' : lastBy'[i] \in Tabs \cup {NoTab}
        BY <1>1, Rows DEF TypeOK, BrowserTypes, SessionIds
      <4> QED  BY <1>0, <1>3t, <4>1 DEF Settled
    <3>1. lastBy'[i] \in Tabs
      BY <1>1, Rows DEF TypeOK, BrowserTypes, SessionIds
    <3>2. i \in Matching(x)
      BY <1>3t, <2>1, <3>1, IssuedTokens
    <3>3. i \in SessionIds
      BY <3>2 DEF Matching
    <3>4. CASE i = k
      BY <1>14, <3>3, <3>4
    <3>5. CASE i # k
      BY <1>8, <1>13, <2>1, <3>2, <3>3, <3>5 DEF Settled
    <3> QED  BY <3>4, <3>5
  <2>3. ASSUME NEW s \in Slots
        PROVE  MeansIt(req[s])'
    <3>1. CASE s = r
      BY <3>1 DEF MeansIt, Issues
    <3>2. CASE s # r
      <4>1. req'[s] = req[s] /\ MeansIt(req[s]) /\ Plain(req[s])
        BY <1>2, <2>1, <3>2 DEF Issues, Others
      <4>2. ASSUME req[s].stage = "sent", req[s].op = "logout", NEW x, x = req[s].token, NEW i \in Matching(x)',
                   lastBy'[i] = req[s].tab
            PROVE  req[s].csrf = x
        <5>1. x \in Nat /\ x <= issued /\ req[s].tab \in Tabs
          BY <1>0, <4>1, <4>2, RequestKinds DEF Plain, SentReq
        <5>2. i \in Matching(x)
          BY <2>1, <4>2, <5>1, IssuedTokens
        <5>3. i # k
          <6> SUFFICES ASSUME i = k PROVE FALSE
            OBVIOUS
          <6>1. req[s].tab = q.tab
            BY <4>2 DEF Issues
          <6>2. Calls(s, b)
            BY <4>2, <5>1, <6>1, Constants DEF Calls
          <6> QED  BY <1>4, <2>1, <3>2, <6>2
        <5>4. lastBy[i] = req[s].tab
          BY <1>8, <4>2, <5>2, <5>3 DEF Matching
        <5> QED  BY <4>1, <4>2, <5>2, <5>4 DEF MeansIt
      <4>3. req[s].stage = "sent" /\ req[s].op = "logout" =>
              \A i \in {j \in SessionIds' : req[s].token # 0 /\ req[s].token \in {sessions'[j].token, sessions'[j].prev}} :
                lastBy'[i] = req[s].tab => req[s].csrf = req[s].token
        BY <4>2 DEF Matching
      <4> QED  BY <4>1, <4>3 DEF MeansIt, Matching
    <3> QED  BY <3>1, <3>2
  <2> QED  BY <2>2, <2>3 DEF Known
<1>16. ASSUME Quiet'
       PROVE  Served'
  <2>1. Served /\ Calm
    BY <1>1, <1>16 DEF BrowserInv, Quiet, Calm
  <2>2. ASSUME NEW t \in Tabs, NEW x, x = cookie[home[t]], x # 0
        PROVE  \E i \in Matching(x)' :
                 \/ x = sessions'[i].token \/ sessions'[i].rotated >= missedAt
                 \/ \E s \in Slots : Coming(s, i)'
    <3>1. PICK i \in Matching(x) :
            \/ x = sessions[i].token \/ sessions[i].rotated >= missedAt
            \/ \E s \in Slots : Coming(s, i)
      BY <2>1, <2>2 DEF Served, Good
    <3>2. i \in SessionIds
      BY <3>1 DEF Matching
    <3>3. CASE i # k
      <4>1. i \in Matching(x)'
        BY <2>1, <3>1, <3>3, IssuedTokens
      <4>2. \/ x = sessions'[i].token \/ sessions'[i].rotated >= missedAt
            \/ \E s \in Slots : Coming(s, i)'
        BY <1>8, <1>13, <3>1, <3>2, <3>3
      <4> QED  BY <4>1, <4>2
    <3>4. CASE i = k
      <4>1. k \in SessionIds /\ k \in Matching(cookie[home[t]])
        BY <2>2, <3>1, <3>2, <3>4
      <4>2. home[t] = b /\ Current(q) /\ q.stage = "loaded" /\ sessions'[k].prev = q.token
        BY <1>5, <2>1, <4>1 DEF BrowserInv, Held, Issues
      <4>3. x = sessions'[k].prev
        BY <2>2, <4>2 DEF Current
      <4>4. k \in Matching(x)'
        BY <1>0, <2>2, <4>3 DEF Matching
      <4> QED  BY <1>14, <4>1, <4>4
    <3> QED  BY <3>3, <3>4
  <2>3. ASSUME NEW t \in Tabs, cookie'[home'[t]] # 0
        PROVE  Good(cookie[home[t]])'
    <3>1. cookie'[home'[t]] = cookie[home[t]]
      BY <1>0
    <3>2. \E i \in {j \in SessionIds' : cookie[home[t]] # 0 /\ cookie[home[t]] \in {sessions'[j].token, sessions'[j].prev}} :
                 \/ cookie[home[t]] = sessions'[i].token \/ sessions'[i].rotated >= missedAt
                 \/ \E s \in Slots : Coming(s, i)'
      BY <2>2, <2>3, <3>1 DEF Matching
    <3> QED  BY <1>0, <3>1, <3>2 DEF Good, Matching
  <2>4. ASSUME NEW i \in SessionIds'
        PROVE  AliveRow(sessions'[i])
    <3>1. CASE i \in SessionIds /\ i # k
      BY <1>8, <2>1, <3>1 DEF Served
    <3>2. CASE i = k /\ k \in SessionIds
      BY <2>1, <3>2 DEF Served, AliveRow, Issues
    <3>3. CASE k \notin SessionIds /\ i = k
      BY <3>3 DEF Issues
    <3> QED  BY <3>1, <3>2, <3>3 DEF Issues
  <2>5. ASSUME NEW s \in Slots
        PROVE  Serves(req[s])'
    <3>1. CASE s = r
      BY <3>1 DEF Serves, Issues
    <3>2. CASE s # r
      BY <2>1, <3>2 DEF Served, Serves, Issues, Others
    <3> QED  BY <3>1, <3>2
  <2> QED  BY <1>0, <2>3, <2>4, <2>5 DEF Served, AliveRow
<1> QED
  BY <1>1, <1>9, <1>10, <1>11, <1>12, <1>15, <1>16 DEF BrowserInv

LEMMA RotateStep ==
  ASSUME TypeOK, BrowserInv, [Next]_vars, NEW r \in Slots, Rotate(r)
  PROVE  BrowserInv'
<1> DEFINE q == req[r]
           k == req[r].id
<1>0. /\ req \in [Slots -> Request \cup {Idle}] /\ BrowserTypes /\ ReqType /\ issued \in Nat
      /\ q.stage = "loaded" /\ q.op = "refresh"
      /\ UNCHANGED <<now, home, cookie, tab, upset, missedAt, ended>> /\ issued' = issued + 1
  BY DEF TypeOK, ReqType, ClockTypes, Rotate, At
<1>1. /\ q \in LoadedReq /\ q.tab \in Tabs /\ q.token \in Nat /\ k \in SessionIds /\ q.token <= issued /\ q.at <= now
      /\ sessions[k] \in SessionRow /\ sessions[k].prev <= issued
  BY <1>0, Rows, RequestKinds DEF LoadedReq, BrowserInv, Plain, TokensMade
<1>2. /\ sessions' = [sessions EXCEPT ![k] = Rotated(sessions[k], q, issued + 1)]
      /\ lastBy' = [lastBy EXCEPT ![k] = q.tab]
  BY <1>0 DEF Rotate
<1>3. /\ SessionIds' = SessionIds
      /\ \A i \in SessionIds \ {k} : sessions'[i] = sessions[i] /\ lastBy'[i] = lastBy[i]
      /\ sessions'[k] = Rotated(sessions[k], q, issued + 1) /\ lastBy'[k] = q.tab
  <2>1. DOMAIN lastBy = SessionIds /\ DOMAIN sessions = SessionIds
    BY <1>0, Rows DEF SessionIds
  <2> QED  BY <1>1, <1>2, <2>1 DEF SessionIds
<1>4. /\ Others(r)
      /\ req'[r] = [op |-> q.op, stage |-> "answered", tab |-> q.tab, token |-> q.token, at |-> q.at,
                    answer |-> issued + 1, keeps |-> FALSE]
  BY <1>0 DEF Rotate, Answered, Set, Others
<1>5. ASSUME Calm
      PROVE  sessions'[k].prev = q.token
  <2>1. Current(q)
    BY <1>5 DEF BrowserInv, Held
  <2>2. q.row.token = sessions[k].token /\ q.token \in {sessions[k].token, sessions[k].prev}
    BY <1>0, <2>1 DEF Current, Matching
  <2> QED  BY <1>3, <2>2 DEF Rotated
<1>6. sessions'[k].prev <= issued
  BY <1>1, <1>3 DEF Rotated
<1>7. Issues(r, k)
  BY <1>0, <1>1, <1>3, <1>4, <1>5, <1>6 DEF Issues, Rotated
<1> QED
  BY <1>7, IssueStep

LEMMA OpensStep ==
  ASSUME TypeOK, BrowserInv, [Next]_vars, NEW r \in Slots, Login(r) \/ (FactorCommit(r) /\ req[r].op = "mfa")
  PROVE  BrowserInv'
<1> DEFINE q == req[r]
           k == Len(sessions) + 1
           new == NewSession(issued + 1)
<1>0. /\ req \in [Slots -> Request \cup {Idle}] /\ BrowserTypes /\ ReqType /\ issued \in Nat /\ now \in Nat
      /\ sessions \in Seq(SessionRow) /\ lastBy \in Seq(Tabs \cup {NoTab}) /\ Len(lastBy) = Len(sessions)
      /\ q.stage \in {"admitted", "decided"} /\ q.op \in {"login", "mfa"} /\ Opens(r)
      /\ UNCHANGED <<now, home, cookie, tab, upset, missedAt, ended>>
  BY DEF TypeOK, ReqType, BrowserTypes, ClockTypes, Login, FactorCommit, At
<1>1. q.tab \in Tabs
  BY <1>0, RequestTabs DEF GuestOps
<1>2. /\ issued' = issued + 1
      /\ sessions' = Append(sessions, new)
      /\ lastBy' = Append(lastBy, q.tab)
      /\ Others(r)
      /\ req'[r] = [op |-> q.op, stage |-> "answered", tab |-> q.tab, token |-> q.token, at |-> now,
                    answer |-> issued + 1, keeps |-> FALSE]
  BY <1>0 DEF Opens, Answered, Set, Others
<1>3. new \in SessionRow /\ new.token = issued + 1 /\ new.prev = 0 /\ new.rotated = now /\ AliveRow(new)
  BY <1>0 DEF NewSession, SessionRow, AliveRow
<1>4. SessionIds = 1..Len(sessions) /\ Len(sessions) \in Nat
  BY <1>0, Rows
<1> HIDE DEF new
<1>5. /\ SessionIds' = SessionIds \cup {k} /\ k \notin SessionIds
      /\ \A i \in SessionIds \ {k} : sessions'[i] = sessions[i] /\ lastBy'[i] = lastBy[i]
      /\ sessions'[k] = new /\ lastBy'[k] = q.tab
  <2>1. /\ Len(sessions') = Len(sessions) + 1 /\ sessions' \in Seq(SessionRow)
        /\ \A i \in 1..Len(sessions) : sessions'[i] = sessions[i]
        /\ sessions'[k] = new
    BY <1>0, <1>2, <1>3, <1>4, AppendProperties
  <2>2. /\ \A i \in 1..Len(sessions) : lastBy'[i] = lastBy[i]
        /\ lastBy'[k] = q.tab
    BY <1>0, <1>1, <1>2, <1>4, AppendProperties
  <2>3. SessionIds' = 1..(Len(sessions) + 1)
    BY <2>1 DEF SessionIds
  <2> QED  BY <1>4, <2>1, <2>2, <2>3
<1>6. Issues(r, k)
  <2>1. /\ sessions'[k].token = issued' /\ sessions'[k].prev = 0 /\ sessions'[k].rotated = now
        /\ AliveRow(sessions'[k])
    BY <1>2, <1>3, <1>5
  <2>2. /\ req'[r].stage = "answered" /\ req'[r].tab = q.tab /\ ~req'[r].keeps /\ req'[r].answer = issued'
        /\ req'[r].at = now
    BY <1>2
  <2>3. /\ SessionIds' = SessionIds \cup {k} /\ k \notin SessionIds
        /\ \A i \in SessionIds \ {k} : sessions'[i] = sessions[i] /\ lastBy'[i] = lastBy[i]
        /\ lastBy'[k] = q.tab
    BY <1>5
  <2>4. q.stage \notin {"idle", "answered"} /\ issued' = issued + 1 /\ Others(r) /\ 0 <= issued /\ now <= now
    BY <1>0, <1>2
  <2> HIDE DEF k
  <2> QED  BY <1>0, <1>1, <2>1, <2>2, <2>3, <2>4 DEF Issues
<1> QED
  BY <1>6, IssueStep

LEMMA BrowserInvStep ==
  ASSUME TypeOK, BrowserInv, [Next]_vars
  PROVE  BrowserInv'
<1>1. ASSUME NEW r \in Slots, NEW t \in Tabs,
             \/ \E reload \in BOOLEAN : Refresh(r, t, reload)
             \/ \E op \in {"logout", "everywhere"} : SignOut(r, op, t)
      PROVE  BrowserInv'
  BY <1>1, SendSteps
<1>2. ASSUME NEW r \in Slots,
             \/ \E t \in Tabs, op \in GuestOps, code \in Codes \cup {NoCode} : Ask(r, op, t, code)
             \/ \E op \in FactorOps, code \in Codes \cup {NoCode} : Asked(r, op, code)
             \/ Count(r) \/ SetEnd(r) \/ TooMany(r) \/ RedisFails(r) \/ Register(r) \/ LoginPauses(r) \/ FactorLoad(r)
             \/ Fail(r)
      PROVE  BrowserInv'
  BY <1>2, GuestSteps DEF Aside
<1>3. ASSUME NEW r \in Slots, FactorCommit(r) \/ Login(r)
      PROVE  BrowserInv'
  <2>1. CASE Login(r) \/ (FactorCommit(r) /\ req[r].op = "mfa")
    BY <2>1, OpensStep
  <2>2. CASE FactorCommit(r) /\ req[r].op # "mfa"
    BY <2>2, GuestSteps DEF Aside
  <2> QED  BY <1>3, <2>1, <2>2
<1>4. ASSUME NEW r \in Slots, \/ Deliver(r) \/ Lose(r) \/ RefreshLoad(r) \/ RefreshReplay(r) \/ RefreshExpired(r)
                              \/ Rotate(r) \/ Logout(r) \/ Everywhere(r)
      PROVE  BrowserInv'
  BY <1>4, DeliverStep, LoseStep, RefreshSteps, RotateStep, SignOutSteps
<1>5. ASSUME NEW r \in Slots, NEW t \in Tabs, NEW code,
             \/ \E op \in {"register", "login"} : Ask(r, op, t, NoCode)
             \/ code \in Codes /\ Ask(r, "mfa", t, code)
      PROVE  BrowserInv'
  <2>1. \E op \in GuestOps, c \in Codes \cup {NoCode} : Ask(r, op, t, c)
    BY <1>5 DEF GuestOps
  <2> QED  BY <1>2, <2>1
<1>6. ASSUME NEW r \in Slots, NEW op \in FactorOps \ {"mfa"}, NEW code \in Codes \cup {NoCode}, Asked(r, op, code)
      PROVE  BrowserInv'
  BY <1>2, <1>6
<1>7. ASSUME Tick \/ (\E i \in SessionIds : Expire(i)) \/ UNCHANGED vars
      PROVE  BrowserInv'
  BY <1>7, TimeSteps
<1> QED
  BY <1>1, <1>2, <1>3, <1>4, <1>5, <1>6, <1>7 DEF Next

\* At first each browser has a session of its own, or none has.
LEMMA BrowserInvInit ==
  ASSUME Init
  PROVE  BrowserInv
<1>0. TypeOK /\ BrowserTypes
  BY TypeInit DEF TypeOK
<1>1. /\ now = 0 /\ issued = FirstSecret /\ FirstSecret \in Nat /\ upset = {} /\ ended = {}
      /\ \A r \in Slots : req[r] = Idle
      /\ \A c \in Browsers : cookie[c] = IF c \in SessionIds THEN c ELSE 0
      /\ \A c \in Browsers : c \in Nat /\ c # 0 /\ c < FirstSecret
      /\ \A t \in Tabs : home[t] \in Browsers /\ tab[t] = IF t = First(home[t]) THEN Open(cookie[home[t]]) ELSE Open(0)
      /\ \A i \in SessionIds : lastBy[i] = First(i)
  BY Constants DEF Init, FirstSecret
<1>2. /\ SessionIds \subseteq Browsers
      /\ \A i \in SessionIds : sessions[i] = NewSession(i)
  BY DEF Init, SessionIds
<1>3. \A i \in SessionIds : /\ sessions[i].token = i /\ sessions[i].prev = 0
                            /\ AliveRow(sessions[i])
  <2> SUFFICES ASSUME NEW i \in SessionIds
               PROVE  sessions[i].token = i /\ sessions[i].prev = 0 /\ AliveRow(sessions[i])
    OBVIOUS
  <2>1. sessions[i] = [token |-> i, prev |-> 0, rotated |-> now, revoked |-> FALSE, expired |-> FALSE]
    BY <1>2 DEF NewSession
  <2> QED  BY <2>1 DEF AliveRow
<1>4. ASSUME NEW x, NEW i \in Matching(x)
      PROVE  i = x /\ i \in SessionIds
  BY <1>3, <1>4 DEF Matching
<1>5. ASSUME NEW c \in Browsers, NEW t \in Tabs, home[t] = c
      PROVE  First(c) \in Tabs /\ home[First(c)] = c
  BY <1>5 DEF First
<1>6. ASSUME NEW c \in Browsers, First(c) # NoTab
      PROVE  First(c) \in Tabs /\ home[First(c)] = c
  BY <1>6 DEF First
<1>7. TokensMade
  BY <1>1, <1>2, <1>3 DEF TokensMade
<1>8. \A r \in Slots : Plain(req[r]) /\ Current(req[r]) /\ MeansIt(req[r]) /\ Serves(req[r])
  BY <1>1 DEF Plain, Current, MeansIt, Serves, Idle
<1>9. OneAtATime
  BY <1>1 DEF OneAtATime, Calls, Idle
<1>10. Distinct
  BY <1>4 DEF Distinct
<1>11. Owned
  <2> SUFFICES ASSUME NEW t \in Tabs, NEW i \in Matching(cookie[home[t]])
               PROVE  lastBy[i] # NoTab /\ home[lastBy[i]] = home[t]
    BY DEF Owned
  <2>1. i \in SessionIds /\ i = home[t]
    BY <1>1, <1>2, <1>4
  <2> QED  BY <1>1, <1>5, <2>1, Constants
<1>12. Settled
  <2> SUFFICES ASSUME NEW i \in SessionIds, lastBy[i] # NoTab
               PROVE  /\ cookie[home[lastBy[i]]] = sessions[i].token
                      /\ tab[lastBy[i]].csrf \in {0, sessions[i].token}
    BY DEF Settled
  <2>1. First(i) \in Tabs /\ home[First(i)] = i /\ lastBy[i] = First(i) /\ i \in Browsers
    BY <1>1, <1>2, <1>6
  <2>2. cookie[i] = i /\ sessions[i].token = i
    BY <1>1, <1>3, <2>1
  <2>3. tab[First(i)] = Open(cookie[i])
    BY <1>1, <2>1
  <2> QED  BY <2>1, <2>2, <2>3 DEF Open
<1>13. ASSUME NEW t \in Tabs, cookie[home[t]] # 0
       PROVE  Good(cookie[home[t]])
  <2>1. home[t] \in SessionIds /\ cookie[home[t]] = home[t] /\ sessions[home[t]].token = home[t]
    BY <1>1, <1>3, <1>13
  <2>2. home[t] \in Matching(cookie[home[t]])
    BY <1>13, <2>1 DEF Matching
  <2> QED  BY <2>1, <2>2 DEF Good
<1> QED
  BY <1>1, <1>3, <1>7, <1>8, <1>9, <1>10, <1>11, <1>12, <1>13 DEF BrowserInv, Held, Known, Served

LEMMA BrowserInvAlways == Spec => [](TypeOK /\ BrowserInv)
<1>1. Init => TypeOK /\ BrowserInv
  BY TypeInit, BrowserInvInit DEF TypeOK
<1>2. TypeOK /\ BrowserInv /\ [Next]_vars => (TypeOK /\ BrowserInv)'
  BY TypeStep, BrowserInvStep
<1> QED
  BY <1>1, <1>2, PTL DEF Spec

\* A session signed out of by the tab that refreshed it last is revoked from
\* then on, as long as requests of one browser never overlapped and no answer
\* of a refresh was lost: the token the sign-out carries is the row's current
\* one, and the CSRF token is its own (auth.logout, revoke_session).
THEOREM SignOutAlwaysEnds == Spec => []SignOutEnds
<1>1. TypeOK /\ BrowserInv => SignOutEnds
  BY DEF BrowserInv, Ends, SignOutEnds, Clean, Calm, TypeOK, ClockTypes
<1> QED
  BY <1>1, BrowserInvAlways, PTL

\* Refreshing within the grace window, one request of a browser at a time, is
\* never taken for a replay (rotate_refresh_token): a cookie that is not the
\* current token of its session was replaced no longer than the grace ago.
THEOREM AlwaysKeptSignedIn == Spec => []KeptSignedIn
<1>1. TypeOK /\ BrowserInv => KeptSignedIn
  BY Constants DEF BrowserInv, Served, Serves, Quiet, KeptSignedIn, TypeOK, ClockTypes, At
<1> QED
  BY <1>1, BrowserInvAlways, PTL
=============================================================================
