--------------------------- MODULE DeliveryProofs ---------------------------
(***************************************************************************)
(* Alerts and the tunnels their messages go through: proofs, for any       *)
(* tunnels, destinations, callers, alerts and bars.                        *)
(***************************************************************************)
EXTENDS Alerts, FiniteSetTheorems, SequenceTheorems, TLAPS

-----------------------------------------------------------------------------
(* Types.                                                                  *)

RowStates == {"on", "off", "gone"}
Answers   == {"none", "sent", "refused", "path", "unsure"}
Records   == {"sent", "failed", "suppressed"}
Jobs      == {"none", "deliver", "switch", "delete", "test"}
Messages  == (AlertIds \X (0..MaxBar)) \cup {NoMessage}

\* The stages of a delivery, in their order, and the others.
Trying   == {"route", "resolve", "ensure", "starting", "up", "down", "send"}
Stages   == Trying \cup {"sent", "idle", "shut", "delete"}
WithATunnel(q) ==
  q.at \in {"ensure", "starting", "up", "down", "shut", "delete"} \/ (q.at = "send" /\ q.pid # 0)

Caller == [at : Stages, job : Jobs, t : TunnelIds \cup {NoTunnel}, pid : Nat,
           what : Messages, list : Seq(TunnelIds), todo : Seq(TunnelIds), pass : Nat,
           pending : SUBSET Dests, result : [Dests -> Answers], server : SUBSET Dests]

IsCaller(q) ==
  /\ q \in Caller
  /\ Len(q.list) <= MaxRouteTunnels
  /\ WithATunnel(q) => q.t \in TunnelIds

TunnelTypes ==
  /\ row \in [TunnelIds -> RowStates]
  /\ route \in Seq(TunnelIds) /\ Len(route) <= MaxRouteTunnels
  /\ procs \in Seq(TunnelIds) /\ live \subseteq DOMAIN procs
  /\ running \in [TunnelIds -> Nat]
  /\ mark \subseteq TunnelIds
  /\ DOMAIN call = Callers /\ call = [c \in Callers |-> call[c]]
  /\ \A c \in Callers : IsCaller(call[c])

-----------------------------------------------------------------------------
(* The invariants.                                                         *)

(* A process that runs is the one its tunnel knows, or one being started,  *)
(* or one of those the property excepts; a tunnel being started has none   *)
(* and is being started once.                                              *)
Starts(c) == call[c].at = "starting"
StartIsSole(c) ==
  Starts(c) =>
    /\ call[c].pid \in DOMAIN procs /\ procs[call[c].pid] = call[c].t
    /\ ~Alive(call[c].t)
    /\ \A d \in Callers : Starts(d) /\ call[d].t = call[c].t => c = d
RunningIsKnown(t) == running[t] # 0 => running[t] \in DOMAIN procs /\ procs[running[t]] = t
LiveIsKnown(p) ==
  \/ running[procs[p]] = p
  \/ \E c \in Callers : Starts(c) /\ call[c].pid = p
  \/ p \in late \cup stray

ProcInv ==
  /\ \A c \in Callers : StartIsSole(c)
  /\ \A t \in TunnelIds : RunningIsKnown(t)
  /\ \A p \in live : LiveIsKnown(p)
  /\ OffMeansStopped

(* The runner does nothing but deliver.                                    *)
RunnerInv == Delivering(Runner) \/ call[Runner].at = "idle"

(* A delivery: what is not pending has had its answer; and unless it was   *)
(* disturbed, it keeps to the tunnels of the route it began with, and the  *)
(* passes before this one each went by one of them, marked since.          *)
Holding(q) == q.at \in {"ensure", "starting", "up", "down"} \/ (q.at = "send" /\ q.pid # 0)
Tried(q, marked) ==
  \E T \in SUBSET (marked \cap ToSet(q.list)) :
    IsFiniteSet(T) /\ Cardinality(T) = q.pass - 1 /\ (Holding(q) => q.t \notin T)
OnList(q) ==
  /\ ToSet(route) \subseteq ToSet(q.list)
  /\ ToSet(q.todo) \subseteq ToSet(q.list)
  /\ Holding(q) => q.t \in ToSet(q.list)
OnRoute(q) ==
  /\ q.at \in Trying \cup {"sent"}
  /\ q.at \in {"starting", "up"} => q.pid # 0
  /\ \A d \in q.pending : q.result[d] \in {"none", "path", "unsure"}
  /\ q.at \in Trying => \A d \in Dests \ q.pending : ~InThePath(q.result[d])
ServerTried(q) == q.at = "sent" => \A d \in Dests : InThePath(q.result[d]) => d \in q.server

OnItsWay(c) ==
  Delivering(c) =>
    /\ OnRoute(call[c])
    /\ c \in disturbed \/ (/\ call[c].at \in Trying => OnList(call[c]) /\ Tried(call[c], mark)
                           /\ ServerTried(call[c]))

RouteInv == \A c \in Callers : OnItsWay(c)

(* The pass: a firing is queued, on its way, or sent, once for an alert,   *)
(* and noted in the row the pass goes by.                                  *)
InPass == tick.at = "pass"
UnderWay == Delivering(Runner)
Queued(a, b) == \E i \in DOMAIN tick.fired : tick.fired[i] = <<a, b>>
FiredInPass(a, b) == Queued(a, b) \/ <<a, b>> \in tick.sent

PassInv ==
  /\ \A c \in Callers :
       /\ ~Delivering(c) => call[c].what = NoMessage
       /\ Delivering(c) /\ c # Runner => call[c].what \in AlertIds \X {TestBar}
  /\ Delivering(Runner) =>
       /\ InPass
       /\ tick.fired # <<>> /\ call[Runner].what = tick.fired[1]
  /\ InPass =>
       /\ \A i, j \in DOMAIN tick.fired : tick.fired[i][1] = tick.fired[j][1] => i = j
       /\ \A i \in DOMAIN tick.fired, k \in tick.sent : tick.fired[i][1] # k[1]
       /\ \A a \in tick.todo, b \in Bars : ~FiredInPass(a, b)

RowInv(a) ==
  /\ alert[a].lastBar <= bar /\ alert[a].mode \in modes[a]
  /\ InPass =>
       /\ tick.rows[a].lastBar <= bar /\ tick.rows[a].mode \in modes[a]
       /\ alert[a].lastBar <= tick.rows[a].lastBar /\ alert[a].count <= tick.rows[a].count
       /\ \A b \in Bars : FiredInPass(a, b) => b <= tick.rows[a].lastBar /\ tick.rows[a].count = 1

(* Of an alert whose firings were not lost and that never fires on every   *)
(* evaluation: what was taken of it is in its row or under way; a firing   *)
(* still to send was taken by nobody, but for what this delivery has sent  *)
(* and those whose answer was lost; nor, if the alert fires once, was any  *)
(* other.                                                                  *)
Kept(a) == "every" \notin modes[a] /\ \A x \in Bars : <<a, x>> \notin cut
Noted(a, b) ==
  \/ b <= alert[a].lastBar /\ alert[a].count = 1
  \/ InPass /\ (<<a, b>> \in tick.sent \/ (UnderWay /\ call[Runner].what = <<a, b>>))
Took(a, b, d) == took[a][b][d] > 0
Fresh(a, b, d) ==
  Queued(a, b) => \/ UnderWay /\ call[Runner].what = <<a, b>> /\ call[Runner].result[d] = "sent"
                  \/ ~Took(a, b, d) \/ <<a, b, d>> \in unanswered
OnlyOne(a, b, d) == modes[a] = {"once"} => \A x \in Bars \ {b} : ~Took(a, x, d)
OnceInv ==
  \A a \in AlertIds : Kept(a) =>
    \A b \in Bars, d \in Dests :
      /\ Took(a, b, d) => Noted(a, b)
      /\ InPass => Fresh(a, b, d) /\ (Queued(a, b) => OnlyOne(a, b, d))

(* What was taken is in the feed, or will be with the pass, but for what   *)
(* was not answered; and the feed says of nothing else that it was.        *)
Reported(a, b, d) ==
  \/ Says(events, a, b, d)
  \/ InPass /\ Says(tick.events, a, b, d)
  \/ UnderWay /\ call[Runner].what = <<a, b>> /\ call[Runner].result[d] = "sent"
FeedInv ==
  /\ InPass => \A a \in AlertIds, b \in Bars, d \in Dests :
                 Says(tick.events, a, b, d) => <<a, b>> \in tick.sent
  /\ \A a \in AlertIds, b \in Bars, d \in Dests \ Unwired :
       \/ <<a, b>> \in cut \/ alert[a].state = "gone"
       \/ /\ Reported(a, b, d) => Took(a, b, d)
          /\ Took(a, b, d) => Reported(a, b, d) \/ <<a, b, d>> \in unanswered

(* Types of what the runner keeps.                                         *)
AlertRow  == [state : RowStates, mode : Modes, lastBar : 0..MaxBar, count : {0, 1}]
Firings   == AlertIds \X Bars
EventRow  == [alert : AlertIds, bar : 0..MaxBar, result : [Dests -> Records]]
Pass      == [at : {"pass"}, todo : SUBSET AlertIds, rows : [AlertIds -> AlertRow],
              fired : Seq(Firings), sent : SUBSET Firings, events : SUBSET EventRow]

AlertTypes ==
  /\ bar \in 0..MaxBar
  /\ holds \in [AlertIds -> SUBSET Bars]
  /\ alert \in [AlertIds -> AlertRow]
  /\ InPass => tick \in Pass
  /\ events \subseteq EventRow
  /\ took \in [AlertIds -> [Bars -> [Dests -> 0..2]]]
  /\ modes \in [AlertIds -> SUBSET Modes]

TypeOK == TunnelTypes /\ AlertTypes
IInv ==
  /\ TypeOK /\ RunnerInv /\ ProcInv /\ RouteInv /\ PassInv
  /\ \A a \in AlertIds : RowInv(a)
  /\ OnceInv /\ SentOncePerBar /\ FeedInv

-----------------------------------------------------------------------------
(* The callers and the routes. *)

(* Of the callers, what a step does to one is what matters.                *)
LEMMA CallersAre == Runner \in Callers /\ Page \in Callers /\ MaxRouteTunnels \in Nat
  BY TunnelsAssumption

LEMMA IdleIsACaller == IsCaller(Idle)
<1>1. NoResults \in [Dests -> Answers]
  BY DEF NoResults, Answers
<1>2. <<>> \in Seq(TunnelIds) /\ Len(<<>>) = 0
  OBVIOUS
<1> QED
  BY <1>1, <1>2, CallersAre DEF IsCaller, Idle, Caller, WithATunnel, Stages, Trying, Jobs, NoTunnel,
     NoMessage, Messages

LEMMA CallersStand ==
  ASSUME TunnelTypes, NEW c \in Callers, NEW q, IsCaller(q), call' = [call EXCEPT ![c] = q]
  PROVE  /\ DOMAIN call' = Callers /\ call' = [d \in Callers |-> call'[d]]
         /\ \A d \in Callers : IsCaller(call'[d])
         /\ call'[c] = q
         /\ \A d \in Callers : d # c => call'[d] = call[d]
<1>1. /\ DOMAIN call' = Callers /\ call' = [d \in Callers |-> call'[d]]
      /\ call'[c] = q
      /\ \A d \in Callers : d # c => call'[d] = call[d]
  BY DEF TunnelTypes
<1> QED
  BY <1>1 DEF TunnelTypes

(* A caller that only moves on.                                            *)
LEMMA MovedCaller ==
  ASSUME NEW q, IsCaller(q), NEW stage \in Stages, q.at = stage \/ q.t \in TunnelIds \/ stage \in {"resolve", "sent", "idle"}
  PROVE  IsCaller([q EXCEPT !.at = stage])
<1> PICK r \in Caller : r = q
  BY DEF IsCaller
<1> PICK e : e = [r EXCEPT !.at = stage]
  OBVIOUS
<1>1. e \in Caller
  BY DEF Caller
<1>2. e.list = r.list /\ e.t = r.t /\ e.pid = r.pid /\ e.at = stage
  BY DEF Caller
<1> QED
  BY <1>1, <1>2 DEF IsCaller, WithATunnel

LEMMA RemoveAtIsShorter ==
  ASSUME NEW s \in Seq(TunnelIds), NEW i \in 1..Len(s)
  PROVE  RemoveAt(s, i) \in Seq(TunnelIds) /\ Len(RemoveAt(s, i)) = Len(s) - 1
<1> DEFINE before == SubSeq(s, 1, i - 1)
           after == SubSeq(s, i + 1, Len(s))
<1>0. i - 1 \in Int /\ i + 1 \in Int /\ Len(s) \in Int
  OBVIOUS
<1>1. before \in Seq(TunnelIds) /\ Len(before) = (IF 1 <= i - 1 THEN i - 1 - 1 + 1 ELSE 0)
  <2>1. \A j \in 1..(i - 1) : s[j] \in TunnelIds
    OBVIOUS
  <2> QED
    BY <1>0, <2>1, SubSeqProperties
<1>2. after \in Seq(TunnelIds) /\ Len(after) = (IF i + 1 <= Len(s) THEN Len(s) - (i + 1) + 1 ELSE 0)
  <2>1. \A j \in (i + 1)..Len(s) : s[j] \in TunnelIds
    OBVIOUS
  <2> QED
    BY <1>0, <2>1, SubSeqProperties
<1>3. RemoveAt(s, i) = before \o after
  BY DEF RemoveAt
<1> HIDE DEF before, after
<1>4. before \o after \in Seq(TunnelIds) /\ Len(before \o after) = Len(before) + Len(after)
  BY <1>1, <1>2, ConcatProperties
<1>5. Len(before) = i - 1 /\ Len(after) = Len(s) - i
  BY <1>1, <1>2
<1>6. (i - 1) + (Len(s) - i) = Len(s) - 1
  BY <1>0
<1> QED
  BY <1>3, <1>4, <1>5, <1>6

LEMMA WithoutIsShorter ==
  ASSUME NEW s \in Seq(TunnelIds), NEW t
  PROVE  Without(s, t) \in Seq(TunnelIds) /\ Len(Without(s, t)) <= Len(s)
<1>1. CASE t \in ToSet(s)
  <2>1. \E i \in 1..Len(s) : s[i] = t
    BY <1>1 DEF ToSet
  <2>2. PICK i \in 1..Len(s) : i = CHOOSE j \in DOMAIN s : s[j] = t
    BY <2>1
  <2> QED
    BY <1>1, <2>2, RemoveAtIsShorter DEF Without
<1>2. CASE t \notin ToSet(s)
  BY <1>2 DEF Without
<1> QED
  BY <1>1, <1>2

LEMMA WithoutIsOfIt ==
  ASSUME NEW s \in Seq(TunnelIds), NEW t
  PROVE  ToSet(Without(s, t)) \subseteq ToSet(s)
<1>1. CASE t \in ToSet(s)
  <2>1. \E i \in 1..Len(s) : s[i] = t
    BY <1>1 DEF ToSet
  <2>2. PICK i \in 1..Len(s) : i = CHOOSE j \in DOMAIN s : s[j] = t
    BY <2>1
  <2> DEFINE before == SubSeq(s, 1, i - 1)
             after == SubSeq(s, i + 1, Len(s))
  <2>3. i - 1 \in Int /\ i + 1 \in Int /\ Len(s) \in Int /\ i - 1 <= Len(s)
    OBVIOUS
  <2>4. before \in Seq(TunnelIds) /\ \A j \in 1..Len(before) : before[j] \in ToSet(s)
    <3>1. \A j \in 1..(i - 1) : s[j] \in TunnelIds /\ s[j] \in ToSet(s)
      BY DEF ToSet
    <3>2. /\ before \in Seq(TunnelIds) /\ Len(before) = IF 1 <= i - 1 THEN i - 1 - 1 + 1 ELSE 0
          /\ \A j \in 1..(i - 1 - 1 + 1) : before[j] = s[1 + j - 1]
      BY <2>3, <3>1, SubSeqProperties
    <3> HIDE DEF before
    <3> QED
      BY <3>1, <3>2
  <2>5. after \in Seq(TunnelIds) /\ \A j \in 1..Len(after) : after[j] \in ToSet(s)
    <3>1. \A j \in (i + 1)..Len(s) : s[j] \in TunnelIds /\ s[j] \in ToSet(s)
      BY DEF ToSet
    <3>2. /\ after \in Seq(TunnelIds) /\ Len(after) = IF i + 1 <= Len(s) THEN Len(s) - (i + 1) + 1 ELSE 0
          /\ \A j \in 1..(Len(s) - (i + 1) + 1) : after[j] = s[i + 1 + j - 1]
      BY <2>3, <3>1, SubSeqProperties
    <3> HIDE DEF after
    <3> QED
      BY <2>3, <3>1, <3>2
  <2>6. Without(s, t) = before \o after
    BY <1>1, <2>2 DEF Without, RemoveAt
  <2> HIDE DEF before, after
  <2>7. \A j \in DOMAIN (before \o after) : (before \o after)[j] \in ToSet(s)
    BY <2>4, <2>5, ConcatProperties
  <2> QED
    BY <2>6, <2>7 DEF ToSet
<1>2. CASE t \notin ToSet(s)
  BY <1>2 DEF Without
<1> QED
  BY <1>1, <1>2

LEMMA RoutesAreShort == \A s \in Routes : s \in Seq(TunnelIds) /\ Len(s) <= MaxRouteTunnels
<1> SUFFICES ASSUME NEW s \in Routes PROVE s \in Seq(TunnelIds) /\ Len(s) <= MaxRouteTunnels
  OBVIOUS
<1>1. PICK m \in 0..MaxRouteTunnels : s \in [1..m -> TunnelIds]
  BY DEF Routes, SeqOf
<1> QED
  BY <1>1, CallersAre
(* The tunnels of a step that leaves the callers alone, or one of them.    *)
TunnelStep(c, q) == IsCaller(q) /\ call' = [call EXCEPT ![c] = q]

LEMMA TypesStand ==
  ASSUME TunnelTypes, NEW c \in Callers, NEW q, TunnelStep(c, q),
         row' \in [TunnelIds -> RowStates],
         route' \in Seq(TunnelIds) /\ Len(route') <= MaxRouteTunnels,
         procs' \in Seq(TunnelIds) /\ live' \subseteq DOMAIN procs',
         running' \in [TunnelIds -> Nat],
         mark' \subseteq TunnelIds
  PROVE  TunnelTypes'
  BY CallersStand DEF TunnelTypes, TunnelStep

LEMMA EnsureIs ==
  ASSUME TunnelTypes, NEW c \in Callers, Ensure(c)
  PROVE  /\ call[c].at = "ensure" /\ call[c].t \in TunnelIds /\ ~Locked(call[c].t)
         /\ \/ /\ Alive(call[c].t)
               /\ TunnelStep(c, [call[c] EXCEPT !.at = "up", !.pid = running[call[c].t]])
               /\ UNCHANGED <<procs, live, late>>
            \/ /\ ~Alive(call[c].t)
               /\ procs' = Append(procs, call[c].t) /\ Len(procs') = Len(procs) + 1
               /\ live' = live \cup {Len(procs')}
               /\ late' = IF row[call[c].t] = "on" THEN late ELSE late \cup {Len(procs')}
               /\ TunnelStep(c, [call[c] EXCEPT !.at = "starting", !.pid = Len(procs')])
         /\ UNCHANGED <<row, route, running, mark, stray, disturbed>>
<1> PICK r \in Caller : r = call[c]
  BY DEF TunnelTypes, IsCaller
<1>1. call[c].at = "ensure" /\ call[c].t \in TunnelIds /\ IsCaller(r)
  BY DEF Ensure, TunnelTypes, IsCaller, WithATunnel
<1>2. \A pid \in Nat, stage \in {"up", "starting"} : IsCaller([r EXCEPT !.at = stage, !.pid = pid])
  <2> SUFFICES ASSUME NEW pid \in Nat, NEW stage \in {"up", "starting"}
               PROVE  IsCaller([r EXCEPT !.at = stage, !.pid = pid])
    BY Zenon
  <2> PICK e : e = [r EXCEPT !.at = stage, !.pid = pid]
    OBVIOUS
  <2>1. e \in Caller /\ e.list = r.list /\ e.t = r.t
    BY DEF Caller, Stages, Trying
  <2> QED
    BY <1>1, <2>1 DEF IsCaller
<1>3. running[call[c].t] \in Nat /\ (procs \in Seq(TunnelIds))
  BY <1>1 DEF TunnelTypes
<1>4. CASE Alive(call[c].t)
  BY Zenon, <1>1, <1>2, <1>3, <1>4 DEF Ensure, TunnelStep
<1>5. CASE ~Alive(call[c].t)
  <2>1. /\ procs' = Append(procs, call[c].t)
        /\ call' = [call EXCEPT ![c].at = "starting", ![c].pid = Len(procs')]
    BY <1>5 DEF Ensure
  <2>2. Len(procs') = Len(procs) + 1 /\ Len(procs') \in Nat
    BY <1>1, <1>3, <2>1
  <2>3. TunnelStep(c, [call[c] EXCEPT !.at = "starting", !.pid = Len(procs')])
    BY Zenon, <1>2, <2>1, <2>2 DEF TunnelStep
  <2> QED
    BY <1>1, <1>5, <2>1, <2>2, <2>3 DEF Ensure
<1> QED
  BY <1>4, <1>5

LEMMA GoesIs ==
  ASSUME TunnelTypes, NEW c \in Callers, NEW stage \in Stages, Goes(c, stage),
         call[c].t \in TunnelIds \/ stage \in {"resolve", "sent", "idle"}
  PROVE  TunnelStep(c, [call[c] EXCEPT !.at = stage])
<1>1. IsCaller(call[c])
  BY DEF TunnelTypes
<1>2. IsCaller([call[c] EXCEPT !.at = stage])
  BY <1>1, MovedCaller
<1> QED
  BY <1>2 DEF TunnelStep, Goes

LEMMA WorksOn ==
  ASSUME TunnelTypes, NEW c \in Callers, WithATunnel(call[c])
  PROVE  call[c].t \in TunnelIds
  BY DEF TunnelTypes, IsCaller

LEMMA BeginsIs ==
  ASSUME TunnelTypes, NEW c \in Callers, NEW what \in Messages, Begins(c, what)
  PROVE  TunnelStep(c, [Idle EXCEPT !.at = "route", !.job = "deliver", !.what = what, !.list = route,
                        !.pending = Dests])
<1>1. route \in Seq(TunnelIds) /\ Len(route) <= MaxRouteTunnels
  BY DEF TunnelTypes
<1> PICK r \in Caller : r = Idle
  BY IdleIsACaller DEF IsCaller
<1> PICK e : e = [r EXCEPT !.at = "route", !.job = "deliver", !.what = what, !.list = route, !.pending = Dests]
  OBVIOUS
<1>2. e \in Caller /\ e.at = "route" /\ e.list = route
  BY <1>1 DEF Caller, Stages, Trying, Jobs
<1> QED
  BY <1>1, <1>2 DEF IsCaller, WithATunnel, TunnelStep, Begins

LEMMA ReadRouteIs ==
  ASSUME TunnelTypes, NEW c \in Callers, ReadRoute(c)
  PROVE  /\ call[c].at = "route"
         /\ TunnelStep(c, [call[c] EXCEPT !.at = "resolve", !.todo = route])
         /\ UNCHANGED <<row, route, procs, live, running, mark, stray, late, disturbed>>
<1> PICK r \in Caller : r = call[c]
  BY DEF TunnelTypes, IsCaller
<1>1. call[c].at = "route" /\ IsCaller(r) /\ route \in Seq(TunnelIds)
  BY DEF ReadRoute, TunnelTypes
<1> PICK e : e = [r EXCEPT !.at = "resolve", !.todo = route]
  OBVIOUS
<1>2. e \in Caller /\ e.list = r.list /\ e.at = "resolve"
  BY <1>1 DEF Caller, Stages, Trying
<1>3. IsCaller(e)
  BY <1>1, <1>2 DEF IsCaller, WithATunnel
<1> QED
  BY <1>1, <1>3 DEF ReadRoute, TunnelStep

LEMMA ResolveIs ==
  ASSUME TunnelTypes, NEW c \in Callers, Resolve(c)
  PROVE  /\ call[c].at = "resolve"
         /\ \/ /\ call[c].todo = <<>>
               /\ TunnelStep(c, [call[c] EXCEPT !.at = "send", !.pid = 0])
            \/ /\ call[c].todo # <<>>
               /\ \E at \in {"ensure", "resolve"} :
                    /\ TunnelStep(c, [call[c] EXCEPT !.at = at, !.t = Head(call[c].todo),
                                      !.todo = Tail(call[c].todo)])
                    /\ at = "ensure" => Head(call[c].todo) \notin mark
         /\ UNCHANGED <<row, route, procs, live, running, mark, stray, late, disturbed>>
<1> PICK r \in Caller : r = call[c]
  BY DEF TunnelTypes, IsCaller
<1>1. call[c].at = "resolve" /\ IsCaller(r)
  BY DEF Resolve, TunnelTypes
<1>2. CASE r.todo = <<>>
  <2> PICK e : e = [r EXCEPT !.at = "send", !.pid = 0]
    OBVIOUS
  <2>1. e \in Caller /\ e.list = r.list /\ e.pid = 0 /\ e.at = "send"
    BY DEF Caller, Stages, Trying
  <2>2. IsCaller(e)
    BY <1>1, <2>1 DEF IsCaller, WithATunnel
  <2>3. call' = [call EXCEPT ![c] = e]
    BY <1>2 DEF Resolve
  <2> QED
    BY <1>1, <1>2, <2>2, <2>3 DEF Resolve, TunnelStep
<1>3. CASE r.todo # <<>>
  <2>1. r.todo \in Seq(TunnelIds) /\ Len(r.list) <= MaxRouteTunnels
    BY <1>1 DEF Caller, IsCaller
  <2>2. Head(r.todo) \in TunnelIds /\ Tail(r.todo) \in Seq(TunnelIds)
    BY <1>3, <2>1
  <2> DEFINE t == Head(r.todo)
             at == IF Usable(t) THEN "ensure" ELSE "resolve"
  <2>3. call' = [call EXCEPT ![c] = [r EXCEPT !.at = at, !.t = t, !.todo = Tail(r.todo)]]
    BY <1>3 DEF Resolve
  <2>4. at \in {"ensure", "resolve"} /\ (at = "ensure" => t \notin mark)
    BY DEF Usable
  <2> HIDE DEF at
  <2> PICK e : e = [r EXCEPT !.at = at, !.t = t, !.todo = Tail(r.todo)]
    OBVIOUS
  <2>5. e \in Caller /\ e.list = r.list /\ e.t = t
    BY <2>2, <2>4 DEF Caller, Stages, Trying
  <2>6. TunnelStep(c, e)
    BY <2>1, <2>2, <2>3, <2>5 DEF IsCaller, TunnelStep
  <2> QED
    BY Zenon, <1>1, <1>3, <2>4, <2>6 DEF Resolve
<1> QED
  BY Zenon, <1>2, <1>3

LEMMA SendsIs ==
  ASSUME TunnelTypes, NEW c \in Callers, NEW outcome, Sends(c, outcome)
  PROVE  LET q == call[c]
             again == Again(c, outcome)
             over == again = {} \/ q.pid = 0
         IN
         /\ q.at = "send"
         /\ \A d \in q.pending : outcome[d] \in Outcomes(q.pid, d)
         /\ \E at \in {"sent", "route"} :
              /\ at = IF over \/ q.pass = MaxRouteTunnels + 1 THEN "sent" ELSE "route"
              /\ TunnelStep(c, [q EXCEPT
                   !.at = at, !.result = Results(c, outcome), !.pass = IF over THEN q.pass ELSE q.pass + 1,
                   !.pending = again,
                   !.server = IF q.pid = 0 THEN q.server \cup q.pending ELSE q.server])
         /\ mark' = IF over THEN mark ELSE mark \cup {q.t}
         /\ ~over => q.t \in TunnelIds
         /\ UNCHANGED <<row, route, procs, live, running, left, stray, late, disturbed>>
<1> PICK r \in Caller : r = call[c]
  BY DEF TunnelTypes, IsCaller
<1> DEFINE again == Again(c, outcome)
           over == again = {} \/ r.pid = 0
           at == IF over \/ r.pass = MaxRouteTunnels + 1 THEN "sent" ELSE "route"
           pass == IF over THEN r.pass ELSE r.pass + 1
           server == IF r.pid = 0 THEN r.server \cup r.pending ELSE r.server
           result == Results(c, outcome)
<1>1. /\ r.at = "send" /\ IsCaller(r)
      /\ \A d \in r.pending : outcome[d] \in Outcomes(r.pid, d)
  BY Zenon DEF Sends, TunnelTypes
<1>2. r.pending \in SUBSET Dests /\ r.server \in SUBSET Dests /\ r.pass \in Nat /\ r.result \in [Dests -> Answers]
      /\ r.list \in Seq(TunnelIds) /\ Len(r.list) <= MaxRouteTunnels
  BY <1>1 DEF Caller, IsCaller
<1>3. again \in SUBSET Dests /\ server \in SUBSET Dests /\ pass \in Nat
  BY <1>2 DEF Again
<1>4. result \in [Dests -> Answers]
  BY <1>1, <1>2 DEF Results, Outcomes, Answers
<1>5. call' = [call EXCEPT ![c] = [r EXCEPT !.at = at, !.result = result, !.pass = pass,
                                            !.pending = again, !.server = server]]
  BY Zenon DEF Sends
<1>6. ~over => r.t \in TunnelIds
  BY <1>1 DEF IsCaller, WithATunnel
<1>7. mark' = (IF over THEN mark ELSE mark \cup {r.t})
      /\ UNCHANGED <<row, route, procs, live, running, left, stray, late, disturbed>>
  BY Zenon DEF Sends, Marked
<1>8. at \in {"sent", "route"} /\ at = (IF over \/ r.pass = MaxRouteTunnels + 1 THEN "sent" ELSE "route")
  OBVIOUS
<1>9. TunnelStep(c, [r EXCEPT !.at = at, !.result = result, !.pass = pass,
                              !.pending = again, !.server = server])
  <2> HIDE DEF at, result, pass, again, server
  <2> PICK e : e = [r EXCEPT !.at = at, !.result = result, !.pass = pass,
                             !.pending = again, !.server = server]
    OBVIOUS
  <2>1. e \in Caller /\ e.at = at /\ e.list = r.list
    BY Zenon, <1>2, <1>3, <1>4, <1>8 DEF Caller, Stages, Trying
  <2> QED
    BY <1>2, <1>5, <1>8, <2>1 DEF IsCaller, WithATunnel, TunnelStep
<1> QED
  BY <1>1, <1>6, <1>7, <1>8, <1>9

LEMMA AsksIs ==
  ASSUME TunnelTypes, NEW what \in Jobs, NEW t \in TunnelIds, NEW stage \in {"shut", "ensure"},
         Asks(what, t, stage)
  PROVE  /\ call[Page].at = "idle"
         /\ TunnelStep(Page, [call[Page] EXCEPT !.at = stage, !.job = what, !.t = t])
<1> PICK r \in Caller : r = call[Page]
  BY CallersAre DEF TunnelTypes, IsCaller
<1> PICK e : e = [r EXCEPT !.at = stage, !.job = what, !.t = t]
  OBVIOUS
<1>1. e \in Caller /\ e.t = t /\ e.list = r.list
  BY DEF Caller, Stages, Trying
<1>2. Len(r.list) <= MaxRouteTunnels
  BY CallersAre DEF TunnelTypes, IsCaller
<1> QED
  BY <1>1, <1>2 DEF Asks, PageIdle, TunnelStep, IsCaller

LEMMA IdlesIs ==
  ASSUME TunnelTypes, NEW c \in Callers, call' = [call EXCEPT ![c] = Idle]
  PROVE  TunnelStep(c, Idle)
  BY IdleIsACaller DEF TunnelStep

LEMMA StandsIs ==
  ASSUME TunnelTypes, NEW c \in Callers, call' = call
  PROVE  TunnelStep(c, call[c])
<1>1. IsCaller(call[c]) /\ call = [d \in Callers |-> call[d]]
  BY DEF TunnelTypes
<1> QED
  BY <1>1 DEF TunnelStep

LEMMA ShutIs ==
  ASSUME TunnelTypes, Shut
  PROVE  /\ call[Page].at = "shut" /\ call[Page].t \in TunnelIds
         /\ Stop(call[Page].t) /\ Lifting({call[Page].t})
         /\ \E q : /\ TunnelStep(Page, q)
                   /\ q = Idle \/ q = [call[Page] EXCEPT !.at = "delete"]
         /\ UNCHANGED <<row, route, procs, stray>>
<1>1. call[Page].at = "shut" /\ call[Page].t \in TunnelIds
  BY CallersAre, WorksOn DEF Shut, WithATunnel
<1>2. CASE call[Page].job = "delete"
  <2>1. Goes(Page, "delete")
    BY <1>2 DEF Shut
  <2>2. TunnelStep(Page, [call[Page] EXCEPT !.at = "delete"])
    BY <1>1, <2>1, CallersAre, GoesIs DEF Stages
  <2> QED
    BY <1>1, <2>2 DEF Shut
<1>3. CASE call[Page].job # "delete"
  <2>1. TunnelStep(Page, Idle)
    BY <1>3, CallersAre, IdlesIs DEF Shut
  <2> QED
    BY <1>1, <2>1 DEF Shut
<1> QED
  BY <1>2, <1>3

(* Every step keeps the types of the tunnels.                              *)
LEMMA TypesOfCallers ==
  ASSUME TunnelTypes, NEW c \in Callers,
         Ensure(c) \/ Listens(c) \/ NeverListens(c) \/ ReadRoute(c) \/ Resolve(c) \/ Resolved(c)
  PROVE  TunnelTypes'
<1>t. /\ row \in [TunnelIds -> RowStates]
      /\ route \in Seq(TunnelIds) /\ Len(route) <= MaxRouteTunnels
      /\ procs \in Seq(TunnelIds) /\ live \subseteq DOMAIN procs
      /\ running \in [TunnelIds -> Nat] /\ mark \subseteq TunnelIds
  BY DEF TunnelTypes
<1>1. CASE Ensure(c)
  <2>1. CASE Alive(call[c].t)
    BY Zenon, <1>1, <1>t, <2>1, EnsureIs, TypesStand
  <2>2. CASE ~Alive(call[c].t)
    <3>1. /\ call[c].t \in TunnelIds
          /\ procs' = Append(procs, call[c].t) /\ live' = live \cup {Len(procs')}
          /\ UNCHANGED <<row, route, running, mark>>
          /\ TunnelStep(c, [call[c] EXCEPT !.at = "starting", !.pid = Len(procs')])
      BY Zenon, <1>1, <2>2, EnsureIs
    <3>2. procs' \in Seq(TunnelIds) /\ live' \subseteq DOMAIN procs'
      BY <1>t, <3>1
    <3> QED
      BY <1>t, <3>1, <3>2, TypesStand
  <2> QED
    BY <2>1, <2>2
<1>2. CASE Listens(c)
  <2>1. call[c].t \in TunnelIds /\ call[c].pid \in Nat
    <3>1. call[c] \in Caller
      BY DEF TunnelTypes, IsCaller
    <3> QED
      BY <1>2, <3>1, WorksOn DEF Listens, WithATunnel, Caller
  <2>2. TunnelStep(c, [call[c] EXCEPT !.at = "up"])
    BY <1>2, <2>1, GoesIs DEF Listens, Stages, Trying
  <2>3. running' \in [TunnelIds -> Nat]
    BY <1>2, <1>t, <2>1 DEF Listens
  <2> QED
    BY <1>2, <1>t, <2>2, <2>3, TypesStand DEF Listens
<1>3. CASE NeverListens(c)
  <2>1. call[c].t \in TunnelIds
    BY <1>3, WorksOn DEF NeverListens, WithATunnel
  <2>2. TunnelStep(c, [call[c] EXCEPT !.at = "down"])
    BY <1>3, <2>1, GoesIs DEF NeverListens, Stages, Trying
  <2>3. live' \subseteq DOMAIN procs'
    BY <1>3, <1>t DEF NeverListens
  <2> QED
    BY <1>3, <1>t, <2>2, <2>3, TypesStand DEF NeverListens
<1>4. CASE Resolve(c)
  <2>1. (\E q : TunnelStep(c, q)) /\ UNCHANGED <<row, route, procs, live, running, mark>>
    BY Zenon, <1>4, ResolveIs
  <2> QED
    BY Zenon, <1>t, <2>1, TypesStand DEF TunnelStep
<1>5. CASE Resolved(c)
  <2>1. PICK stage \in {"send", "resolve"} :
          Goes(c, stage) /\ (stage = "send" => call[c].at = "up")
    BY <1>5 DEF Resolved
  <2>2. call[c].t \in TunnelIds \/ stage = "resolve"
    BY <2>1, WorksOn DEF WithATunnel
  <2>3. TunnelStep(c, [call[c] EXCEPT !.at = stage])
    BY <2>1, <2>2, GoesIs DEF Stages, Trying
  <2> QED
    BY <1>5, <1>t, <2>3, TypesStand DEF Resolved
<1>6. CASE ReadRoute(c)
  <2>1. (\E q : TunnelStep(c, q)) /\ UNCHANGED <<row, route, procs, live, running, mark>>
    BY Zenon, <1>6, ReadRouteIs
  <2> QED
    BY Zenon, <1>t, <2>1, TypesStand DEF TunnelStep
<1> QED
  BY <1>1, <1>2, <1>3, <1>4, <1>5, <1>6

LEMMA TypesOfTunnels ==
  ASSUME TunnelTypes, NEW t \in TunnelIds,
         Dies(t) \/ MarkEnds(t) \/ Switch(t) \/ Delete(t) \/ Test(t)
  PROVE  TunnelTypes'
<1>t. /\ row \in [TunnelIds -> RowStates]
      /\ route \in Seq(TunnelIds) /\ Len(route) <= MaxRouteTunnels
      /\ procs \in Seq(TunnelIds) /\ live \subseteq DOMAIN procs
      /\ running \in [TunnelIds -> Nat] /\ mark \subseteq TunnelIds
  BY DEF TunnelTypes
<1>1. CASE Dies(t)
  BY <1>1, <1>t, StandsIs, CallersAre, TypesStand DEF Dies
<1>2. CASE MarkEnds(t)
  BY <1>2, <1>t, StandsIs, CallersAre, TypesStand DEF MarkEnds
<1>3. CASE Switch(t)
  <2>1. \E q : TunnelStep(Page, q)
    <3>1. CASE row[t] = "on"
      BY Zenon, <1>3, <3>1, AsksIs DEF Switch, Jobs
    <3>2. CASE row[t] # "on"
      BY <1>3, <3>2, StandsIs, CallersAre DEF Switch
    <3> QED
      BY <3>1, <3>2
  <2>2. row' \in [TunnelIds -> RowStates]
    BY <1>3, <1>t DEF Switch, RowStates
  <2> QED
    BY <1>3, <1>t, <2>1, <2>2, CallersAre, TypesStand DEF Switch
<1>4. CASE Delete(t)
  <2>1. \E q : TunnelStep(Page, q)
    BY Zenon, <1>4, AsksIs DEF Delete, Jobs
  <2> QED
    BY <1>4, <1>t, <2>1, CallersAre, TypesStand DEF Delete
<1>5. CASE Test(t)
  <2>1. \E q : TunnelStep(Page, q)
    BY Zenon, <1>5, AsksIs DEF Test, Jobs
  <2> QED
    BY <1>5, <1>t, <2>1, CallersAre, TypesStand DEF Test
<1> QED
  BY <1>1, <1>2, <1>3, <1>4, <1>5

LEMMA TypesOfRequests ==
  ASSUME TunnelTypes,
         (\E s \in Routes : SetRoute(s)) \/ (\E answers \in BOOLEAN : Probed(answers)) \/ Shut \/ DeleteCommit
  PROVE  TunnelTypes'
<1>t. /\ row \in [TunnelIds -> RowStates]
      /\ route \in Seq(TunnelIds) /\ Len(route) <= MaxRouteTunnels
      /\ procs \in Seq(TunnelIds) /\ live \subseteq DOMAIN procs
      /\ running \in [TunnelIds -> Nat] /\ mark \subseteq TunnelIds
  BY DEF TunnelTypes
<1>1. ASSUME NEW s \in Routes, SetRoute(s) PROVE TunnelTypes'
  <2>1. route' \in Seq(TunnelIds) /\ Len(route') <= MaxRouteTunnels
    BY <1>1, RoutesAreShort DEF SetRoute
  <2> QED
    BY <1>1, <1>t, <2>1, StandsIs, CallersAre, TypesStand DEF SetRoute
<1>2. ASSUME NEW answers \in BOOLEAN, Probed(answers) PROVE TunnelTypes'
  <2>1. TunnelStep(Page, Idle)
    BY <1>2, IdlesIs, CallersAre DEF Probed
  <2>2. call[Page].t \in TunnelIds
    BY <1>2, CallersAre, WorksOn DEF Probed, WithATunnel
  <2>3. mark' \subseteq TunnelIds
    BY <1>2, <1>t, <2>2 DEF Probed
  <2> QED
    BY <1>2, <1>t, <2>1, <2>3, CallersAre, TypesStand DEF Probed
<1>3. CASE Shut
  <2>1. /\ \E q : TunnelStep(Page, q)
        /\ call[Page].t \in TunnelIds /\ Stop(call[Page].t)
        /\ UNCHANGED <<row, route, procs>>
    BY <1>3, ShutIs
  <2>2. running' \in [TunnelIds -> Nat] /\ live' \subseteq DOMAIN procs' /\ mark' \subseteq TunnelIds
    BY <1>t, <2>1 DEF Stop
  <2> QED
    BY <1>t, <2>1, <2>2, CallersAre, TypesStand
<1>4. CASE DeleteCommit
  <2>1. TunnelStep(Page, Idle)
    BY <1>4, IdlesIs, CallersAre DEF DeleteCommit
  <2>2. row' \in [TunnelIds -> RowStates]
    BY <1>4, <1>t DEF DeleteCommit, RowStates
  <2>3. route' \in Seq(TunnelIds) /\ Len(route') <= MaxRouteTunnels
    <3>1. PICK t : route' = Without(route, t)
      BY <1>4 DEF DeleteCommit
    <3>2. Len(route') \in Nat /\ Len(route) \in Nat /\ route' \in Seq(TunnelIds) /\ Len(route') <= Len(route)
      BY <1>t, <3>1, WithoutIsShorter
    <3> QED
      BY <1>t, <3>2, CallersAre
  <2> QED
    BY <1>4, <1>t, <2>1, <2>2, <2>3, CallersAre, TypesStand DEF DeleteCommit
<1> QED
  BY <1>1, <1>2, <1>3, <1>4

LEMMA TypesOfRestart ==
  ASSUME TunnelTypes, NEW orderly \in BOOLEAN, Restart(orderly)
  PROVE  TunnelTypes'
<1>1. /\ DOMAIN call' = Callers /\ call' = [c \in Callers |-> call'[c]]
      /\ \A c \in Callers : IsCaller(call'[c])
  BY IdleIsACaller DEF Restart
<1>2. live' \subseteq DOMAIN procs' /\ running' \in [TunnelIds -> Nat] /\ mark' \subseteq TunnelIds
  BY DEF Restart, TunnelTypes
<1>3. UNCHANGED <<row, route, procs>>
  BY DEF Restart
<1> QED
  BY <1>1, <1>2, <1>3 DEF TunnelTypes

-----------------------------------------------------------------------------
(* The types of what the runner keeps.                                     *)

LEMMA BarsAre == MaxBar \in Nat /\ Bars \subseteq 0..MaxBar /\ TestBar \in 0..MaxBar /\ TestBar \notin Bars
  BY AlertsAssumption DEF Bars, TestBar

LEMMA RowType ==
  ASSUME NEW r \in AlertRow, NEW b \in 0..MaxBar
  PROVE  /\ Fired(r, b) \in AlertRow
         /\ Fired(r, b).lastBar = b /\ Fired(r, b).count = 1 /\ Fired(r, b).mode = r.mode
<1> PICK e : e = [r EXCEPT !.lastBar = b, !.count = 1]
  OBVIOUS
<1>1. e \in AlertRow /\ e.lastBar = b /\ e.count = 1 /\ e.mode = r.mode
  BY DEF AlertRow
<1> QED
  BY <1>1 DEF Fired

LEMMA EventType ==
  ASSUME NEW a \in AlertIds, NEW b \in 0..MaxBar, NEW result \in [Dests -> Records]
  PROVE  Event(a, b, result) \in EventRow
  BY DEF Event, EventRow

LEMMA RecordedIs ==
  ASSUME NEW result
  PROVE  /\ Recorded(result) \in [Dests -> Records]
         /\ \A d \in Dests : Recorded(result)[d] = "sent" <=> result[d] = "sent"
  BY DEF Recorded, Records

LEMMA EvaluateIs ==
  ASSUME AlertTypes, NEW a \in AlertIds, Evaluate(a)
  PROVE  /\ InPass /\ InPass' /\ tick \in Pass /\ tick' \in Pass /\ a \in tick.todo
         /\ tick'.todo = tick.todo \ {a} /\ tick'.sent = tick.sent
         /\ \/ /\ bar \in Bars /\ MayFire(tick.rows[a], bar)
               /\ tick'.rows = [tick.rows EXCEPT ![a] = Fired(tick.rows[a], bar)]
               /\ tick'.fired = Append(tick.fired, <<a, bar>>)
               /\ tick'.events = tick.events
            \/ /\ tick'.rows = tick.rows /\ tick'.fired = tick.fired
               /\ tick'.events = tick.events \cup {Event(a, bar, Suppressed)}
            \/ /\ tick'.rows = tick.rows /\ tick'.fired = tick.fired
               /\ tick'.events = tick.events
         /\ UNCHANGED <<tunnelVars, bar, holds, alert, events, took, unanswered, cut, modes>>
<1>1. InPass /\ a \in tick.todo
  BY DEF Evaluate, InPass
<1> PICK r \in Pass : r = tick
  BY <1>1 DEF AlertTypes
<1>2. bar \in 0..MaxBar /\ holds[a] \subseteq Bars /\ r.rows \in [AlertIds -> AlertRow] /\ r.fired \in Seq(Firings)
      /\ r.events \subseteq EventRow
  BY DEF AlertTypes, Pass
<1>3. CASE bar \in holds[a] /\ MayFire(tick.rows[a], bar)
  <2> DEFINE rows == [r.rows EXCEPT ![a] = Fired(r.rows[a], bar)]
             fired == Append(r.fired, <<a, bar>>)
  <2>1. rows \in [AlertIds -> AlertRow]
    BY <1>2, RowType
  <2>2. fired \in Seq(Firings)
    BY <1>2, <1>3 DEF Firings
  <2>3. tick' = [r EXCEPT !.todo = r.todo \ {a}, !.rows = rows, !.fired = fired]
    BY <1>3 DEF Evaluate
  <2> HIDE DEF rows, fired
  <2>4. /\ tick' \in Pass /\ tick'.todo = r.todo \ {a} /\ tick'.rows = rows /\ tick'.fired = fired
        /\ tick'.sent = r.sent /\ tick'.events = r.events
    BY <2>1, <2>2, <2>3 DEF Pass
  <2>5. tick'.at = "pass"
    BY <2>4 DEF Pass
  <2> QED
    BY <1>1, <1>2, <1>3, <2>4, <2>5 DEF Evaluate, InPass, rows, fired
<1>4. CASE bar \in holds[a] /\ ~MayFire(tick.rows[a], bar)
  <2> DEFINE said == r.events \cup {Event(a, bar, Suppressed)}
  <2>1. said \subseteq EventRow
    <3>1. Suppressed \in [Dests -> Records]
      BY DEF Suppressed, Records
    <3> QED
      BY <1>2, <3>1, EventType
  <2>2. tick' = [r EXCEPT !.todo = r.todo \ {a}, !.events = said]
    BY <1>4 DEF Evaluate
  <2> HIDE DEF said
  <2>3. /\ tick' \in Pass /\ tick'.todo = r.todo \ {a} /\ tick'.rows = r.rows /\ tick'.fired = r.fired
        /\ tick'.sent = r.sent /\ tick'.events = said
    BY <2>1, <2>2 DEF Pass
  <2>4. tick'.at = "pass"
    BY <2>3 DEF Pass
  <2> QED
    BY <1>1, <2>3, <2>4 DEF Evaluate, InPass, said
<1>5. CASE bar \notin holds[a]
  <2>1. tick' = [r EXCEPT !.todo = r.todo \ {a}]
    BY <1>5 DEF Evaluate
  <2>2. /\ tick' \in Pass /\ tick'.todo = r.todo \ {a} /\ tick'.rows = r.rows /\ tick'.fired = r.fired
        /\ tick'.sent = r.sent /\ tick'.events = r.events
    BY <2>1 DEF Pass
  <2>3. tick'.at = "pass"
    BY <2>2 DEF Pass
  <2> QED
    BY <1>1, <2>2, <2>3 DEF Evaluate, InPass
<1> QED
  BY <1>3, <1>4, <1>5

LEMMA DueIs ==
  ASSUME AlertTypes, Due
  PROVE  /\ ~InPass /\ InPass' /\ tick' \in Pass
         /\ tick'.todo \subseteq AlertIds /\ tick'.rows = alert /\ tick'.fired = <<>>
         /\ tick'.sent = {} /\ tick'.events = {}
         /\ UNCHANGED <<tunnelVars, bar, holds, alert, events, took, unanswered, cut, modes>>
  BY DEF Due, InPass, Resting, AlertTypes, Pass

LEMMA DeliveredIs ==
  ASSUME TypeOK, Delivered
  PROVE  LET k == call[Runner].what IN
         /\ InPass /\ Delivering(Runner) /\ call[Runner].at = "sent"
         /\ tick \in Pass /\ tick'.at = "pass" /\ tick'.todo = tick.todo /\ tick'.rows = tick.rows
         /\ tick'.fired = Tail(tick.fired) /\ tick'.sent = tick.sent \cup {k}
         /\ tick'.events = tick.events \cup {Event(k[1], k[2], Recorded(call[Runner].result))}
         /\ tick' = [tick EXCEPT !.fired = tick'.fired, !.sent = tick'.sent, !.events = tick'.events]
         /\ TunnelStep(Runner, Idle)
         /\ disturbed' = disturbed \ {Runner}
         /\ UNCHANGED <<row, route, procs, live, running, mark, left, stray, late,
                        bar, holds, alert, events, took, unanswered, cut, modes>>
<1>1. InPass /\ Delivering(Runner) /\ call[Runner].at = "sent"
  BY DEF Delivered, InPass
<1> PICK r \in Pass : r = tick
  BY <1>1 DEF TypeOK, AlertTypes
<1> DEFINE k == call[Runner].what
           fired == Tail(r.fired)
           sent == r.sent \cup {k}
           said == r.events \cup {Event(k[1], k[2], Recorded(call[Runner].result))}
<1>2. tick' = [r EXCEPT !.fired = fired, !.sent = sent, !.events = said]
  BY DEF Delivered
<1> HIDE DEF fired, sent, said
<1>3. /\ tick'.at = "pass" /\ tick'.todo = r.todo /\ tick'.rows = r.rows /\ tick'.fired = fired
      /\ tick'.sent = sent /\ tick'.events = said
  BY <1>2 DEF Pass
<1>4. TunnelStep(Runner, Idle)
  BY Zenon, CallersAre, IdlesIs DEF Delivered, TypeOK
<1> QED
  BY <1>1, <1>2, <1>3, <1>4 DEF Delivered, fired, sent, said

LEMMA CommitIs ==
  ASSUME TypeOK, Commit
  PROVE  /\ InPass /\ tick.todo = {} /\ tick.fired = <<>> /\ tick \in Pass /\ ~InPass' /\ tick' = Resting
         /\ \/ /\ cut' = cut \cup tick.sent /\ UNCHANGED <<alert, events>>
            \/ /\ events' = events \cup tick.events
               /\ alert' = [a \in AlertIds |->
                     [alert[a] EXCEPT !.lastBar = tick.rows[a].lastBar, !.count = tick.rows[a].count]]
               /\ UNCHANGED cut
         /\ UNCHANGED <<tunnelVars, bar, holds, took, unanswered, modes>>
<1>2. InPass /\ tick \in Pass /\ tick' = Resting
  BY Zenon DEF Commit, Evaluated, InPass, TypeOK, AlertTypes
<1>3. ~InPass'
  BY <1>2 DEF InPass, Resting
<1> QED
  BY Zenon, <1>2, <1>3 DEF Commit, Evaluated

(* A row that keeps its state and mode, or its bar and count.              *)
LEMMA RecordedRow ==
  ASSUME NEW r \in AlertRow, NEW q \in AlertRow
  PROVE  LET e == [r EXCEPT !.lastBar = q.lastBar, !.count = q.count] IN
         e \in AlertRow /\ e.lastBar = q.lastBar /\ e.count = q.count /\ e.state = r.state /\ e.mode = r.mode
<1> PICK e : e = [r EXCEPT !.lastBar = q.lastBar, !.count = q.count]
  OBVIOUS
<1>1. e \in AlertRow /\ e.lastBar = q.lastBar /\ e.count = q.count /\ e.state = r.state /\ e.mode = r.mode
  BY DEF AlertRow
<1> QED
  BY <1>1

LEMMA UpdateIs ==
  ASSUME AlertTypes, NEW a \in AlertIds, NEW state \in {"on", "off"}, NEW mode \in Modes, Update(a, state, mode)
  PROVE  /\ alert' \in [AlertIds -> AlertRow]
         /\ alert[a].state # "gone" /\ alert'[a].state # "gone" /\ alert'[a].mode = mode
         /\ \A b \in AlertIds : alert'[b].lastBar = alert[b].lastBar /\ alert'[b].count = alert[b].count
         /\ \A b \in AlertIds \ {a} : alert'[b] = alert[b]
         /\ modes' = [modes EXCEPT ![a] = modes[a] \cup {mode}]
         /\ UNCHANGED <<row, route, procs, live, running, mark, call, stray, late, disturbed,
                        bar, holds, tick, events, took, unanswered, cut>>
<1> PICK r \in AlertRow : r = alert[a]
  BY DEF AlertTypes
<1>1. alert' = [alert EXCEPT ![a] = [r EXCEPT !.state = state, !.mode = mode]]
  BY DEF Update
<1> PICK e : e = [r EXCEPT !.state = state, !.mode = mode]
  OBVIOUS
<1>2. e \in AlertRow /\ e.lastBar = r.lastBar /\ e.count = r.count /\ e.state = state /\ e.mode = mode
  BY DEF AlertRow, RowStates
<1>3. alert \in [AlertIds -> AlertRow] /\ alert' = [alert EXCEPT ![a] = e]
  BY <1>1 DEF AlertTypes
<1> QED
  BY <1>2, <1>3 DEF Update

LEMMA DeleteAlertIs ==
  ASSUME AlertTypes, NEW a \in AlertIds, DeleteAlert(a)
  PROVE  /\ alert' \in [AlertIds -> AlertRow]
         /\ alert'[a].state = "gone" /\ alert'[a].mode = alert[a].mode
         /\ alert'[a].lastBar = alert[a].lastBar /\ alert'[a].count = alert[a].count
         /\ \A b \in AlertIds \ {a} : alert'[b] = alert[b]
         /\ events' = {e \in events : e.alert # a}
         /\ UNCHANGED <<row, route, procs, live, running, mark, call, stray, late, disturbed,
                        bar, holds, tick, took, unanswered, cut, modes>>
<1> PICK r \in AlertRow : r = alert[a]
  BY DEF AlertTypes
<1>1. alert' = [alert EXCEPT ![a] = [r EXCEPT !.state = "gone"]]
  BY DEF DeleteAlert
<1> PICK e : e = [r EXCEPT !.state = "gone"]
  OBVIOUS
<1>2. e \in AlertRow /\ e.lastBar = r.lastBar /\ e.count = r.count /\ e.state = "gone" /\ e.mode = r.mode
  BY DEF AlertRow, RowStates
<1>3. alert \in [AlertIds -> AlertRow] /\ alert' = [alert EXCEPT ![a] = e]
  BY <1>1 DEF AlertTypes
<1> QED
  BY <1>2, <1>3 DEF DeleteAlert

-----------------------------------------------------------------------------
(* What a step does to the errands of the callers.                         *)
SameErrand(c) ==
  /\ call'[c].job = call[c].job /\ call'[c].what = call[c].what
  /\ call'[c].result = call[c].result
OtherErrand(c) ==
  /\ c = Page /\ ~Delivering(c) /\ ~Delivering(c)'
  /\ call'[c].what = call[c].what \/ call'[c].what = NoMessage

LEMMA RunnerIsNotThePage == Runner # Page
  BY DEF Runner, Page

LEMMA OthersErrands ==
  ASSUME TunnelTypes, NEW c \in Callers, NEW q, TunnelStep(c, q), NEW d \in Callers, d # c
  PROVE  SameErrand(d)
  BY CallersStand DEF TunnelStep, SameErrand

LEMMA MovesOn ==
  ASSUME TunnelTypes, NEW c \in Callers, NEW q, TunnelStep(c, q),
         q.job = call[c].job, q.what = call[c].what, q.result = call[c].result
  PROVE  SameErrand(c)
  BY CallersStand DEF TunnelStep, SameErrand

LEMMA IsTheCallers == ASSUME TunnelTypes, NEW c \in Callers PROVE call[c] \in Caller
  BY DEF TunnelTypes, IsCaller

LEMMA CallerErrands ==
  ASSUME TunnelTypes, NEW c \in Callers,
         Ensure(c) \/ Listens(c) \/ NeverListens(c) \/ ReadRoute(c) \/ Resolve(c) \/ Resolved(c)
  PROVE  /\ \A d \in Callers : SameErrand(d)
         /\ \A d \in Callers \ {c} : call'[d] = call[d]
         /\ call[c].at # "idle"
<1>r. call[c] \in Caller
  BY IsTheCallers
<1>0. call[c].at # "idle"
  BY DEF Ensure, Listens, NeverListens, ReadRoute, Resolve, Resolved
<1> SUFFICES \E q : /\ TunnelStep(c, q)
                    /\ q.job = call[c].job /\ q.what = call[c].what /\ q.result = call[c].result
  BY Zenon, <1>0, OthersErrands, MovesOn, CallersStand DEF TunnelStep
<1>1. CASE Ensure(c)
  <2>1. call[c].at = "ensure"
    BY Zenon, <1>1, EnsureIs
  <2>2. CASE Alive(call[c].t)
    <3>1. TunnelStep(c, [call[c] EXCEPT !.at = "up", !.pid = running[call[c].t]])
      BY Zenon, <1>1, <2>2, EnsureIs
    <3> PICK e : e = [call[c] EXCEPT !.at = "up", !.pid = running[call[c].t]]
      OBVIOUS
    <3>2. e.at = "up" /\ e.job = call[c].job /\ e.what = call[c].what /\ e.result = call[c].result
      BY <1>r DEF Caller
    <3> QED
      BY <2>1, <3>1, <3>2
  <2>3. CASE ~Alive(call[c].t)
    <3>1. TunnelStep(c, [call[c] EXCEPT !.at = "starting", !.pid = Len(procs')])
      BY Zenon, <1>1, <2>3, EnsureIs
    <3> PICK e : e = [call[c] EXCEPT !.at = "starting", !.pid = Len(procs')]
      OBVIOUS
    <3>2. e.at = "starting" /\ e.job = call[c].job /\ e.what = call[c].what /\ e.result = call[c].result
      BY <1>r DEF Caller
    <3> QED
      BY <2>1, <3>1, <3>2
  <2> QED
    BY <2>2, <2>3
<1>2. CASE Listens(c)
  <2>1. call[c].t \in TunnelIds /\ call[c].at = "starting"
    BY <1>2, WorksOn DEF Listens, WithATunnel
  <2>2. TunnelStep(c, [call[c] EXCEPT !.at = "up"])
    BY <1>2, <2>1, GoesIs DEF Listens, Stages, Trying
  <2> QED
    BY <1>r, <2>1, <2>2 DEF Caller
<1>3. CASE NeverListens(c)
  <2>1. call[c].t \in TunnelIds /\ call[c].at = "starting"
    BY <1>3, WorksOn DEF NeverListens, WithATunnel
  <2>2. TunnelStep(c, [call[c] EXCEPT !.at = "down"])
    BY Zenon, <1>3, <2>1, GoesIs DEF NeverListens, Stages, Trying
  <2> QED
    BY <1>r, <2>1, <2>2 DEF Caller
<1>4. CASE Resolve(c)
  <2>1. call[c].at = "resolve"
    BY Zenon, <1>4, ResolveIs
  <2>2. CASE call[c].todo = <<>>
    <3>1. TunnelStep(c, [call[c] EXCEPT !.at = "send", !.pid = 0])
      BY Zenon, <1>4, <2>2, ResolveIs
    <3> PICK e : e = [call[c] EXCEPT !.at = "send", !.pid = 0]
      OBVIOUS
    <3>2. e.at = "send" /\ e.job = call[c].job /\ e.what = call[c].what /\ e.result = call[c].result
      BY <1>r DEF Caller
    <3> QED
      BY Zenon, <2>1, <3>1, <3>2
  <2>3. CASE call[c].todo # <<>>
    <3>1. PICK at \in {"ensure", "resolve"} :
            TunnelStep(c, [call[c] EXCEPT !.at = at, !.t = Head(call[c].todo),
                                      !.todo = Tail(call[c].todo)])
      BY Zenon, <1>4, <2>3, ResolveIs
    <3> PICK e : e = [call[c] EXCEPT !.at = at, !.t = Head(call[c].todo),
                                     !.todo = Tail(call[c].todo)]
      OBVIOUS
    <3>2. e.job = call[c].job /\ e.what = call[c].what /\ e.result = call[c].result
      BY <1>r DEF Caller
    <3> QED
      BY Zenon, <3>1, <3>2
  <2> QED
    BY <2>2, <2>3
<1>5. CASE Resolved(c)
  <2>1. PICK stage \in {"send", "resolve"} :
          Goes(c, stage) /\ (stage = "send" => call[c].at = "up") /\ call[c].at \in {"up", "down"}
    BY <1>5 DEF Resolved
  <2>2. call[c].t \in TunnelIds \/ stage = "resolve"
    BY <2>1, WorksOn DEF WithATunnel
  <2>3. TunnelStep(c, [call[c] EXCEPT !.at = stage])
    BY <2>1, <2>2, GoesIs DEF Stages, Trying
  <2> QED
    BY <1>r, <2>1, <2>3 DEF Caller
<1>6. CASE ReadRoute(c)
  <2>1. TunnelStep(c, [call[c] EXCEPT !.at = "resolve", !.todo = route])
    BY Zenon, <1>6, ReadRouteIs
  <2> PICK e : e = [call[c] EXCEPT !.at = "resolve", !.todo = route]
    OBVIOUS
  <2>2. e.job = call[c].job /\ e.what = call[c].what /\ e.result = call[c].result
    BY <1>r DEF Caller
  <2> QED
    BY Zenon, <2>1, <2>2
<1> QED
  BY <1>1, <1>2, <1>3, <1>4, <1>5, <1>6

LEMMA NobodysErrand ==
  ASSUME call' = call
  PROVE  \A d \in Callers : SameErrand(d)
  BY DEF SameErrand

LEMMA PageErrands ==
  ASSUME TunnelTypes, NEW q, TunnelStep(Page, q), ~Delivering(Page), q.job # "deliver",
         q.what = call[Page].what \/ q.what = NoMessage
  PROVE  \A d \in Callers : (d # Page /\ SameErrand(d)) \/ OtherErrand(d)
  BY CallersAre, CallersStand DEF TunnelStep, OtherErrand, SameErrand, Delivering

LEMMA DoesNotDeliver ==
  ASSUME RouteInv, NEW c \in Callers, call[c].at \in {"idle", "shut", "delete"}
  PROVE  ~Delivering(c)
  BY DEF RouteInv, OnItsWay, OnRoute, Trying

LEMMA AskErrands ==
  ASSUME TunnelTypes, RouteInv, NEW what \in Jobs, what # "deliver", NEW t \in TunnelIds,
         NEW stage \in {"shut", "ensure"}, Asks(what, t, stage)
  PROVE  \A d \in Callers : (d # Page /\ SameErrand(d)) \/ OtherErrand(d)
<1>1. /\ call[Page].at = "idle"
      /\ TunnelStep(Page, [call[Page] EXCEPT !.at = stage, !.job = what, !.t = t])
  BY Zenon, AsksIs
<1>2. ~Delivering(Page)
  BY <1>1, CallersAre, DoesNotDeliver
<1>3. call[Page] \in Caller
  BY CallersAre, IsTheCallers
<1> QED
  BY <1>1, <1>2, <1>3, PageErrands DEF Caller

LEMMA IdleErrands ==
  ASSUME TunnelTypes, ~Delivering(Page), call' = [call EXCEPT ![Page] = Idle]
  PROVE  \A d \in Callers : (d # Page /\ SameErrand(d)) \/ OtherErrand(d)
<1>1. TunnelStep(Page, Idle)
  BY IdlesIs, CallersAre
<1>2. Idle.job # "deliver" /\ Idle.what = NoMessage
  BY DEF Idle
<1> QED
  BY <1>1, <1>2, PageErrands

LEMMA TunnelErrands ==
  ASSUME TunnelTypes, RouteInv, TunnelsNext
  PROVE  \A d \in Callers : SameErrand(d) \/ OtherErrand(d)
<1>1. ASSUME NEW c \in Callers,
             Ensure(c) \/ Listens(c) \/ NeverListens(c) \/ ReadRoute(c) \/ Resolve(c) \/ Resolved(c)
      PROVE  \A d \in Callers : SameErrand(d)
  BY <1>1, CallerErrands
<1>2. ASSUME NEW t \in TunnelIds, Dies(t) \/ MarkEnds(t)
      PROVE  \A d \in Callers : SameErrand(d)
  BY <1>2, NobodysErrand DEF Dies, MarkEnds
<1>3. ASSUME NEW t \in TunnelIds, Switch(t)
      PROVE  \A d \in Callers : SameErrand(d) \/ OtherErrand(d)
  <2>1. CASE row[t] = "on"
    BY <1>3, <2>1, AskErrands DEF Switch, Jobs
  <2>2. CASE row[t] # "on"
    BY <1>3, <2>2, NobodysErrand DEF Switch
  <2> QED
    BY <2>1, <2>2
<1>4. ASSUME NEW t \in TunnelIds, Delete(t)
      PROVE  \A d \in Callers : SameErrand(d) \/ OtherErrand(d)
  BY <1>4, AskErrands DEF Delete, Jobs
<1>5. ASSUME NEW t \in TunnelIds, Test(t)
      PROVE  \A d \in Callers : SameErrand(d) \/ OtherErrand(d)
  BY <1>5, AskErrands DEF Test, Jobs
<1>6. ASSUME NEW s \in Routes, SetRoute(s)
      PROVE  \A d \in Callers : SameErrand(d)
  BY <1>6, NobodysErrand DEF SetRoute
<1>7. ASSUME NEW answers \in BOOLEAN, Probed(answers)
      PROVE  \A d \in Callers : SameErrand(d) \/ OtherErrand(d)
  BY <1>7, IdleErrands DEF Probed, Delivering
<1>8. ASSUME Shut
      PROVE  \A d \in Callers : SameErrand(d) \/ OtherErrand(d)
  <2>1. PICK q : TunnelStep(Page, q) /\ (q = Idle \/ q = [call[Page] EXCEPT !.at = "delete"])
    BY <1>8, ShutIs
  <2>2. ~Delivering(Page)
    BY <1>8, ShutIs, CallersAre, DoesNotDeliver
  <2>3. call[Page] \in Caller
    BY CallersAre, IsTheCallers
  <2>4. q.job # "deliver" /\ (q.what = call[Page].what \/ q.what = NoMessage)
    BY <2>1, <2>2, <2>3 DEF Idle, Caller, Delivering
  <2> QED
    BY <2>1, <2>2, <2>4, PageErrands
<1>9. ASSUME DeleteCommit
      PROVE  \A d \in Callers : SameErrand(d) \/ OtherErrand(d)
  BY <1>9, CallersAre, DoesNotDeliver, IdleErrands DEF DeleteCommit
<1> QED
  BY <1>1, <1>2, <1>3, <1>4, <1>5, <1>6, <1>7, <1>8, <1>9 DEF TunnelsNext

(* A delivery's answer.                                                    *)
LEMMA SendErrands ==
  ASSUME TunnelTypes, NEW c \in Callers, NEW outcome, Sends(c, outcome)
  PROVE  LET q == call[c]
             over == Again(c, outcome) = {} \/ q.pid = 0
         IN
         /\ \A d \in Callers \ {c} : call'[d] = call[d]
         /\ call'[c].job = q.job /\ call'[c].what = q.what
         /\ q.at = "send" /\ call'[c].at \in {"sent", "route"}
         /\ call'[c].at = IF over \/ q.pass = MaxRouteTunnels + 1 THEN "sent" ELSE "route"
         /\ call'[c].result = Results(c, outcome) /\ call'[c].pending = Again(c, outcome)
         /\ call'[c].pass = (IF over THEN q.pass ELSE q.pass + 1)
         /\ call'[c].list = q.list /\ call'[c].todo = q.todo /\ call'[c].t = q.t /\ call'[c].pid = q.pid
         /\ call'[c].server = (IF q.pid = 0 THEN q.server \cup q.pending ELSE q.server)
<1> PICK r \in Caller : r = call[c]
  BY IsTheCallers
<1> PICK over : over = (Again(c, outcome) = {} \/ r.pid = 0)
  OBVIOUS
<1> PICK server : server = (IF r.pid = 0 THEN r.server \cup r.pending ELSE r.server)
  OBVIOUS
<1> PICK pass : pass = (IF over THEN r.pass ELSE r.pass + 1)
  OBVIOUS
<1>1. r.at = "send"
      /\ \E at \in {"sent", "route"} :
           /\ at = IF over \/ r.pass = MaxRouteTunnels + 1 THEN "sent" ELSE "route"
           /\ TunnelStep(c, [r EXCEPT !.at = at, !.result = Results(c, outcome), !.pass = pass,
                !.pending = Again(c, outcome), !.server = server])
  BY Zenon, SendsIs
<1>2. PICK at \in {"sent", "route"} :
           /\ at = IF over \/ r.pass = MaxRouteTunnels + 1 THEN "sent" ELSE "route"
           /\ TunnelStep(c, [r EXCEPT !.at = at, !.result = Results(c, outcome), !.pass = pass,
                !.pending = Again(c, outcome), !.server = server])
  BY <1>1
<1> PICK e : e = [r EXCEPT !.at = at, !.result = Results(c, outcome), !.pass = pass,
                !.pending = Again(c, outcome), !.server = server]
  BY Zenon
<1>3. /\ e.at = at /\ e.job = r.job /\ e.what = r.what /\ e.result = Results(c, outcome)
      /\ e.pending = Again(c, outcome) /\ e.pass = pass /\ e.list = r.list /\ e.todo = r.todo
      /\ e.t = r.t /\ e.pid = r.pid /\ e.server = server
  BY DEF Caller
<1>4. call'[c] = e /\ \A d \in Callers \ {c} : call'[d] = call[d]
  BY Zenon, <1>2, CallersStand DEF TunnelStep
<1> QED
  BY Zenon, <1>1, <1>2, <1>3, <1>4

LEMMA BeginsErrand ==
  ASSUME TunnelTypes, NEW c \in Callers, NEW what \in Messages, Begins(c, what)
  PROVE  /\ \A d \in Callers \ {c} : call'[d] = call[d]
         /\ call'[c].at = "route" /\ call'[c].job = "deliver" /\ call'[c].what = what
         /\ call'[c].result = NoResults /\ call'[c].pending = Dests
         /\ call'[c].list = route /\ call'[c].todo = <<>> /\ call'[c].pass = 1
<1>1. TunnelStep(c, [Idle EXCEPT !.at = "route", !.job = "deliver", !.what = what, !.list = route,
                        !.pending = Dests])
  BY Zenon, BeginsIs
<1> PICK r \in Caller : r = Idle
  BY IdleIsACaller DEF IsCaller
<1> PICK e : e = [r EXCEPT !.at = "route", !.job = "deliver", !.what = what, !.list = route,
                        !.pending = Dests]
  OBVIOUS
<1>2. /\ e.at = "route" /\ e.job = "deliver" /\ e.what = what
      /\ e.result = r.result /\ e.pending = Dests
      /\ e.list = route /\ e.todo = r.todo /\ e.pass = r.pass
  BY DEF Caller
<1>3. r.result = NoResults /\ r.pass = 1 /\ r.todo = <<>>
  BY DEF Idle
<1>4. call'[c] = e /\ \A d \in Callers \ {c} : call'[d] = call[d]
  BY <1>1, CallersStand DEF TunnelStep
<1> QED
  BY <1>2, <1>3, <1>4

-----------------------------------------------------------------------------
(* The pass.                                                               *)

LEMMA PassIs ==
  ASSUME AlertTypes, InPass
  PROVE  /\ tick \in Pass /\ tick.at = "pass" /\ tick.todo \subseteq AlertIds
         /\ tick.rows \in [AlertIds -> AlertRow] /\ tick.fired \in Seq(Firings)
         /\ tick.sent \subseteq Firings /\ tick.events \subseteq EventRow
<1>1. tick \in Pass
  BY DEF AlertTypes
<1> QED
  BY <1>1 DEF Pass

\* Errands as they were keep the pass as it was.
LEMMA PassStands ==
  ASSUME PassInv, \A d \in Callers : SameErrand(d) \/ OtherErrand(d), tick' = tick
  PROVE  PassInv' /\ Delivering(Runner)' = Delivering(Runner) /\ UnderWay' = UnderWay
         /\ call'[Runner].what = call[Runner].what /\ call'[Runner].result = call[Runner].result
<1>1. SameErrand(Runner)
  BY CallersAre, RunnerIsNotThePage DEF OtherErrand
<1>2. /\ Delivering(Runner)' = Delivering(Runner) /\ UnderWay' = UnderWay
      /\ call'[Runner].what = call[Runner].what /\ call'[Runner].result = call[Runner].result
  BY <1>1 DEF SameErrand, Delivering, UnderWay
<1>3. \A c \in Callers :
       /\ ~Delivering(c)' => call'[c].what = NoMessage
       /\ Delivering(c)' /\ c # Runner => call'[c].what \in AlertIds \X {TestBar}
  BY DEF PassInv, SameErrand, OtherErrand, Delivering
<1>4. InPass' = InPass /\ \A a, b : FiredInPass(a, b)' = FiredInPass(a, b)
  BY DEF InPass, FiredInPass, Queued
<1> QED
  BY <1>2, <1>3, <1>4 DEF PassInv

LEMMA SendPass ==
  ASSUME TunnelTypes, PassInv, NEW c \in Callers, NEW outcome, Sends(c, outcome), tick' = tick
  PROVE  /\ PassInv' /\ Delivering(Runner)' = Delivering(Runner) /\ UnderWay' = UnderWay
         /\ call'[Runner].what = call[Runner].what
<1>1. \A d \in Callers : call'[d].job = call[d].job /\ call'[d].what = call[d].what
  BY SendErrands
<1>2. /\ Delivering(Runner)' = Delivering(Runner) /\ UnderWay' = UnderWay
      /\ call'[Runner].what = call[Runner].what
  BY <1>1, CallersAre DEF Delivering, UnderWay
<1>3. \A d \in Callers :
       /\ ~Delivering(d)' => call'[d].what = NoMessage
       /\ Delivering(d)' /\ d # Runner => call'[d].what \in AlertIds \X {TestBar}
  BY <1>1 DEF PassInv, Delivering
<1>4. InPass' = InPass /\ \A a, b : FiredInPass(a, b)' = FiredInPass(a, b)
  BY DEF InPass, FiredInPass, Queued
<1> QED
  BY <1>2, <1>3, <1>4 DEF PassInv

LEMMA DuePass ==
  ASSUME TypeOK, PassInv, Due
  PROVE  /\ PassInv' /\ ~Delivering(Runner) /\ ~UnderWay' /\ \A a, b : ~FiredInPass(a, b)'
<1>1. /\ ~InPass /\ InPass' /\ tick'.fired = <<>> /\ tick'.sent = {} /\ call' = call
  BY DueIs DEF TypeOK, tunnelVars
<1>2. ~Delivering(Runner) /\ \A c \in Callers : Delivering(c)' = Delivering(c)
  BY <1>1 DEF PassInv, Delivering
<1>3. ~Delivering(Runner)' /\ ~UnderWay'
  BY <1>1, <1>2 DEF Delivering, UnderWay
<1>4. \A a, b : ~FiredInPass(a, b)'
  BY <1>1 DEF FiredInPass, Queued
<1> QED
  BY <1>1, <1>2, <1>3, <1>4 DEF PassInv

LEMMA EvaluatePass ==
  ASSUME TypeOK, PassInv, NEW a \in AlertIds, Evaluate(a)
  PROVE  /\ PassInv' /\ Delivering(Runner)' = Delivering(Runner) /\ UnderWay' = UnderWay
         /\ \A x, b : FiredInPass(x, b)' => FiredInPass(x, b) \/ (x = a /\ b = bar)
<1>e. /\ InPass /\ InPass' /\ a \in tick.todo
      /\ tick'.todo = tick.todo \ {a} /\ tick'.sent = tick.sent
      /\ \/ bar \in Bars /\ tick'.fired = Append(tick.fired, <<a, bar>>)
         \/ tick'.fired = tick.fired
      /\ call' = call
  BY EvaluateIs DEF TypeOK, tunnelVars
<1>p. tick.fired \in Seq(Firings) /\ tick.sent \subseteq Firings
  BY <1>e, PassIs DEF TypeOK
<1>1. Delivering(Runner)' = Delivering(Runner) /\ UnderWay' = UnderWay /\ \A c \in Callers : Delivering(c)' = Delivering(c)
  BY <1>e DEF Delivering, UnderWay
<1>2. CASE tick'.fired = tick.fired
  <2>1. \A x, b : FiredInPass(x, b)' = FiredInPass(x, b)
    BY <1>e, <1>2 DEF FiredInPass, Queued
  <2> QED
    BY <1>e, <1>1, <1>2, <2>1 DEF PassInv
<1>3. CASE bar \in Bars /\ tick'.fired = Append(tick.fired, <<a, bar>>)
  <2> PICK fired \in Seq(Firings) : fired = tick.fired
    BY <1>p
  <2> PICK n \in Nat : n = Len(fired)
    OBVIOUS
  <2>1. /\ DOMAIN tick'.fired = 1..(n + 1) /\ tick'.fired[n + 1] = <<a, bar>>
        /\ \A i \in 1..n : tick'.fired[i] = fired[i]
        /\ DOMAIN fired = 1..n
    BY <1>3
  <2>2. \A b \in Bars : ~FiredInPass(a, b)
    BY <1>e DEF PassInv
  <2>3. \A i \in 1..n : fired[i] \in AlertIds \X Bars
    BY <2>1 DEF Firings
  <2>4. \A i \in 1..n : fired[i][1] # a
    <3> SUFFICES ASSUME NEW i \in 1..n, fired[i][1] = a PROVE FALSE
      OBVIOUS
    <3>1. PICK b \in Bars : fired[i] = <<a, b>>
      BY <2>3
    <3>2. FiredInPass(a, b)
      BY <2>1, <3>1 DEF FiredInPass, Queued
    <3> QED
      BY <2>2, <3>2
  <2>5. \A k \in tick.sent : k[1] # a
    <3> SUFFICES ASSUME NEW k \in tick.sent, k[1] = a PROVE FALSE
      OBVIOUS
    <3>1. PICK b \in Bars : k = <<a, b>>
      BY <1>p DEF Firings
    <3>2. FiredInPass(a, b)
      BY <3>1 DEF FiredInPass
    <3> QED
      BY <2>2, <3>2
  <2>6. \A i, j \in 1..n : fired[i][1] = fired[j][1] => i = j
    BY <1>e, <2>1 DEF PassInv
  <2>7. \A i \in 1..n, k \in tick.sent : fired[i][1] # k[1]
    BY <1>e, <2>1 DEF PassInv
  <2>8. \A i, j \in DOMAIN tick'.fired : tick'.fired[i][1] = tick'.fired[j][1] => i = j
    <3>1. <<a, bar>>[1] = a
      OBVIOUS
    <3>2. \A i \in DOMAIN tick'.fired : i \in 1..n \/ i = n + 1
      BY <2>1
    <3>3. \A i \in DOMAIN tick'.fired :
            (i \in 1..n /\ tick'.fired[i] = fired[i]) \/ (i = n + 1 /\ tick'.fired[i] = <<a, bar>>)
      BY <2>1, <3>2
    <3> QED
      BY <2>4, <2>6, <3>1, <3>3
  <2>9. \A i \in DOMAIN tick'.fired, k \in tick'.sent : tick'.fired[i][1] # k[1]
    BY <1>e, <2>1, <2>5, <2>7
  <2>10. \A x, b : FiredInPass(x, b)' => FiredInPass(x, b) \/ (x = a /\ b = bar)
    <3> SUFFICES ASSUME NEW x, NEW b, FiredInPass(x, b)' PROVE FiredInPass(x, b) \/ (x = a /\ b = bar)
      OBVIOUS
    <3>1. CASE <<x, b>> \in tick'.sent
      BY <1>e, <3>1 DEF FiredInPass
    <3>2. CASE \E i \in DOMAIN tick'.fired : tick'.fired[i] = <<x, b>>
      <4>1. PICK i \in 1..(n + 1) : tick'.fired[i] = <<x, b>>
        BY <2>1, <3>2
      <4>2. CASE i = n + 1
        BY <2>1, <4>1, <4>2
      <4>3. CASE i # n + 1
        <5>1. i \in 1..n
          BY <4>3
        <5>2. fired[i] = <<x, b>>
          BY <2>1, <4>1, <5>1
        <5> QED
          BY <2>1, <5>1, <5>2 DEF FiredInPass, Queued
      <4> QED
        BY <4>2, <4>3
    <3> QED
      BY <3>1, <3>2 DEF FiredInPass, Queued
  <2>11. \A x \in tick'.todo, b \in Bars : ~FiredInPass(x, b)'
    BY <1>e, <2>10 DEF PassInv
  <2>12. UnderWay => tick'.fired # <<>> /\ call'[Runner].what = tick'.fired[1]
    <3> SUFFICES ASSUME UnderWay PROVE tick'.fired # <<>> /\ call'[Runner].what = tick'.fired[1]
      OBVIOUS
    <3>1. fired # <<>> /\ call[Runner].what = fired[1]
      BY DEF PassInv, UnderWay
    <3>2. 1 \in 1..n
      BY <3>1
    <3>3. tick'.fired[1] = fired[1] /\ tick'.fired # <<>>
      BY <2>1, <3>2
    <3> QED
      BY <1>e, <3>1, <3>3
  <2> QED
    BY <1>e, <1>1, <2>8, <2>9, <2>10, <2>11, <2>12 DEF PassInv
<1> QED
  BY <1>e, <1>2, <1>3

LEMMA FiringsAreMessages == Firings \subseteq Messages /\ AlertIds \X {TestBar} \subseteq Messages
  BY BarsAre DEF Firings, Messages

LEMMA StartPass ==
  ASSUME TypeOK, PassInv, StartDelivery
  PROVE  /\ InPass /\ tick.todo = {} /\ tick.fired # <<>> /\ tick.fired[1] \in Firings /\ ~UnderWay
         /\ Begins(Runner, tick.fired[1])
         /\ call'[Runner].what = tick.fired[1] /\ call'[Runner].at = "route"
         /\ call'[Runner].result = NoResults /\ call'[Runner].pending = Dests
         /\ Delivering(Runner)' /\ UnderWay' /\ tick' = tick
         /\ \A d \in Callers \ {Runner} : call'[d] = call[d]
         /\ UNCHANGED <<row, route, procs, live, running, mark, left, stray, late, disturbed, alertVars>>
         /\ PassInv'
<1>1. /\ InPass /\ tick.todo = {} /\ tick.fired # <<>> /\ ~UnderWay
      /\ Begins(Runner, Head(tick.fired))
      /\ UNCHANGED <<row, route, procs, live, running, mark, left, stray, late, disturbed, alertVars>>
  BY DEF StartDelivery, Evaluated, InPass, UnderWay
<1>2. tick.fired \in Seq(Firings)
  BY <1>1, PassIs DEF TypeOK
<1>3. Head(tick.fired) = tick.fired[1] /\ tick.fired[1] \in Firings
  BY <1>1, <1>2
<1>4. /\ \A d \in Callers \ {Runner} : call'[d] = call[d]
      /\ call'[Runner].at = "route" /\ call'[Runner].job = "deliver" /\ call'[Runner].what = tick.fired[1]
      /\ call'[Runner].result = NoResults /\ call'[Runner].pending = Dests
  BY <1>1, <1>3, FiringsAreMessages, CallersAre, BeginsErrand DEF TypeOK
<1>5. Delivering(Runner)' /\ UnderWay'
  BY <1>4 DEF Delivering, UnderWay
<1>6. tick' = tick
  BY <1>1 DEF alertVars
<1>7. InPass' = InPass /\ \A a, b : FiredInPass(a, b)' = FiredInPass(a, b)
  BY <1>6 DEF InPass, FiredInPass, Queued
<1>8. \A c \in Callers :
       /\ ~Delivering(c)' => call'[c].what = NoMessage
       /\ Delivering(c)' /\ c # Runner => call'[c].what \in AlertIds \X {TestBar}
  BY <1>4, <1>5 DEF PassInv, Delivering
<1> QED
  BY <1>1, <1>3, <1>4, <1>5, <1>6, <1>7, <1>8 DEF PassInv

(* What is delivered leaves the queue.                                     *)
LEMMA DeliveredPass ==
  ASSUME TypeOK, PassInv, Delivered
  PROVE  /\ InPass /\ InPass' /\ UnderWay /\ ~UnderWay' /\ call[Runner].what \in Firings
         /\ Queued(call[Runner].what[1], call[Runner].what[2])
         /\ tick' \in Pass /\ tick'.rows = tick.rows /\ tick'.sent = tick.sent \cup {call[Runner].what}
         /\ tick'.events = tick.events \cup {Event(call[Runner].what[1], call[Runner].what[2], Recorded(call[Runner].result))}
         /\ \A a, b : Queued(a, b)' => Queued(a, b) /\ <<a, b>> # call[Runner].what
         /\ \A a, b : FiredInPass(a, b)' = FiredInPass(a, b)
         /\ \A d \in Callers \ {Runner} : call'[d] = call[d]
         /\ PassInv'
<1> DEFINE k == call[Runner].what
<1>1. /\ InPass /\ Delivering(Runner) /\ call[Runner].at = "sent"
      /\ tick \in Pass /\ tick'.at = "pass" /\ tick'.todo = tick.todo /\ tick'.rows = tick.rows
      /\ tick'.fired = Tail(tick.fired) /\ tick'.sent = tick.sent \cup {k}
      /\ tick'.events = tick.events \cup {Event(k[1], k[2], Recorded(call[Runner].result))}
      /\ tick' = [tick EXCEPT !.fired = tick'.fired, !.sent = tick'.sent, !.events = tick'.events]
      /\ TunnelStep(Runner, Idle)
  BY DeliveredIs
<1>2. UnderWay /\ tick.fired # <<>> /\ k = tick.fired[1] /\ InPass'
  BY <1>1 DEF UnderWay, PassInv, InPass
<1> PICK fired \in Seq(Firings) : fired = tick.fired
  BY <1>1, PassIs DEF TypeOK
<1> PICK n \in Nat : n = Len(fired)
  OBVIOUS
<1>3. n >= 1 /\ k \in Firings /\ k = fired[1] /\ DOMAIN fired = 1..n
  BY <1>2
<1>4. /\ DOMAIN tick'.fired = 1..(n - 1) /\ \A i \in 1..(n - 1) : tick'.fired[i] = fired[i + 1]
      /\ tick'.fired \in Seq(Firings)
  BY <1>1, <1>2, HeadTailProperties
<1> HIDE DEF k
<1>5. k = <<k[1], k[2]>> /\ k[1] \in AlertIds /\ k[2] \in Bars
  BY <1>3 DEF Firings
<1>6. Queued(k[1], k[2])
  <2>1. 1 \in DOMAIN tick.fired /\ tick.fired[1] = <<k[1], k[2]>>
    BY <1>3, <1>5
  <2> QED
    BY <2>1 DEF Queued
<1>7. /\ \A i, j \in 1..n : fired[i][1] = fired[j][1] => i = j
      /\ \A i \in 1..n, m \in tick.sent : fired[i][1] # m[1]
      /\ \A a \in tick.todo, b \in Bars : ~FiredInPass(a, b)
  BY <1>1, <1>3 DEF PassInv
<1>8. \A i \in 1..(n - 1) : i + 1 \in 1..n /\ fired[i + 1][1] # k[1]
  <2>1. \A i \in 1..(n - 1) : i + 1 \in 1..n /\ i + 1 # 1
    OBVIOUS
  <2>2. 1 \in 1..n
    BY <1>3
  <2> QED
    BY <1>3, <1>7, <2>1, <2>2
<1>9. \A a, b : Queued(a, b)' => Queued(a, b) /\ <<a, b>> # k
  <2> SUFFICES ASSUME NEW a, NEW b, Queued(a, b)' PROVE Queued(a, b) /\ <<a, b>> # k
    OBVIOUS
  <2>1. PICK i \in 1..(n - 1) : fired[i + 1] = <<a, b>>
    BY <1>4 DEF Queued
  <2>2. i + 1 \in DOMAIN tick.fired /\ fired[i + 1][1] # k[1]
    BY <1>3, <1>8
  <2> QED
    BY <2>1, <2>2 DEF Queued
<1>10. \A a, b : FiredInPass(a, b)' = FiredInPass(a, b)
  <2>1. \A a, b : Queued(a, b) => Queued(a, b)' \/ <<a, b>> = k
    <3> SUFFICES ASSUME NEW a, NEW b, Queued(a, b), <<a, b>> # k PROVE Queued(a, b)'
      OBVIOUS
    <3>1. PICK i \in 1..n : fired[i] = <<a, b>>
      BY <1>3 DEF Queued
    <3>2. i # 1
      BY <1>3, <3>1
    <3>3. i - 1 \in 1..(n - 1) /\ (i - 1) + 1 = i
      BY <3>2
    <3>4. tick'.fired[i - 1] = <<a, b>> /\ i - 1 \in DOMAIN tick'.fired
      BY <1>4, <3>1, <3>3
    <3> QED
      BY <3>4 DEF Queued
  <2>2. \A a, b : <<a, b>> = k => Queued(a, b)
    BY <1>6
  <2> QED
    BY <1>1, <1>9, <2>1, <2>2 DEF FiredInPass, k
<1>11. /\ \A i, j \in DOMAIN tick'.fired : tick'.fired[i][1] = tick'.fired[j][1] => i = j
       /\ \A i \in DOMAIN tick'.fired, m \in tick'.sent : tick'.fired[i][1] # m[1]
  <2>1. \A i, j \in 1..(n - 1) : fired[i + 1][1] = fired[j + 1][1] => i = j
    BY <1>7, <1>8
  <2>2. \A i \in 1..(n - 1), m \in tick.sent \cup {k} : fired[i + 1][1] # m[1]
    BY <1>7, <1>8
  <2> QED
    BY <1>1, <1>4, <2>1, <2>2 DEF k
<1>12. call'[Runner] = Idle /\ \A d \in Callers \ {Runner} : call'[d] = call[d]
  BY <1>1, CallersAre, CallersStand DEF TypeOK, TunnelStep
<1>13. ~Delivering(Runner)' /\ ~UnderWay' /\ call'[Runner].what = NoMessage
  BY <1>12 DEF Delivering, UnderWay, Idle
<1>14. \A c \in Callers :
       /\ ~Delivering(c)' => call'[c].what = NoMessage
       /\ Delivering(c)' /\ c # Runner => call'[c].what \in AlertIds \X {TestBar}
  BY <1>12, <1>13 DEF PassInv, Delivering
<1>15. PassInv'
  <2>1. \A a \in tick'.todo, b \in Bars : ~FiredInPass(a, b)'
    BY <1>1, <1>7, <1>10
  <2> QED
    BY <1>2, <1>11, <1>13, <1>14, <2>1 DEF PassInv
<1>16. tick' \in Pass
  <2> PICK r \in Pass : r = tick
    BY <1>1
  <2> PICK sent : sent = r.sent \cup {k}
    OBVIOUS
  <2> PICK said : said = r.events \cup {Event(k[1], k[2], Recorded(call[Runner].result))}
    OBVIOUS
  <2>1. sent \subseteq Firings
    BY <1>3 DEF Pass
  <2>2. said \subseteq EventRow
    <3>2. Event(k[1], k[2], Recorded(call[Runner].result)) \in EventRow
      BY <1>5, RecordedIs, BarsAre, EventType
    <3> QED
      BY <3>2 DEF Pass
  <2>3. tick' = [r EXCEPT !.fired = tick'.fired, !.sent = sent, !.events = said]
    BY <1>1 DEF k
  <2> QED
    BY <1>4, <2>1, <2>2, <2>3 DEF Pass
<1> QED
  BY <1>1, <1>2, <1>3, <1>6, <1>9, <1>10, <1>12, <1>13, <1>15, <1>16 DEF k

LEMMA CommitPass ==
  ASSUME TypeOK, PassInv, Commit
  PROVE  PassInv' /\ ~Delivering(Runner)' /\ ~UnderWay' /\ ~UnderWay
         /\ (\A a, b : ~Queued(a, b))
         /\ call' = call
<1>1. InPass /\ ~InPass' /\ tick.fired = <<>> /\ call' = call
  BY Zenon, CommitIs DEF tunnelVars
<1>2. ~Delivering(Runner)
  BY <1>1 DEF PassInv
<1>3. \A c \in Callers : Delivering(c)' = Delivering(c)
  BY <1>1 DEF Delivering
<1>4. ~Delivering(Runner)' /\ ~UnderWay' /\ ~UnderWay
  BY <1>1, <1>2 DEF Delivering, UnderWay
<1>5. \A a, b : ~Queued(a, b)
  BY <1>1 DEF Queued
<1> QED
  BY <1>1, <1>3, <1>4, <1>5 DEF PassInv

\* A step of the page that has nothing to do with the pass.
LEMMA PagePass ==
  ASSUME TunnelTypes, PassInv, tick' = tick, \A d \in Callers \ {Page} : call'[d] = call[d],
         Delivering(Page)' => call'[Page].what \in AlertIds \X {TestBar},
         ~Delivering(Page)' => call'[Page].what = NoMessage
  PROVE  PassInv' /\ Delivering(Runner)' = Delivering(Runner) /\ UnderWay' = UnderWay /\ call'[Runner] = call[Runner]
<1>1. call'[Runner] = call[Runner]
  BY CallersAre, RunnerIsNotThePage
<1>2. Delivering(Runner)' = Delivering(Runner) /\ UnderWay' = UnderWay
  BY <1>1 DEF Delivering, UnderWay
<1>3. \A c \in Callers :
       /\ ~Delivering(c)' => call'[c].what = NoMessage
       /\ Delivering(c)' /\ c # Runner => call'[c].what \in AlertIds \X {TestBar}
  BY DEF PassInv, Delivering
<1>4. InPass' = InPass /\ \A a, b : FiredInPass(a, b)' = FiredInPass(a, b)
  BY DEF InPass, FiredInPass, Queued
<1> QED
  BY <1>1, <1>2, <1>3, <1>4 DEF PassInv

LEMMA TestSendPass ==
  ASSUME TypeOK, PassInv, NEW a \in AlertIds, TestSend(a)
  PROVE  /\ PassInv' /\ Delivering(Runner)' = Delivering(Runner) /\ UnderWay' = UnderWay
         /\ call'[Runner] = call[Runner] /\ tick' = tick
<1>1. Begins(Page, <<a, TestBar>>) /\ tick' = tick
  BY DEF TestSend, alertVars
<1>2. <<a, TestBar>> \in AlertIds \X {TestBar}
  OBVIOUS
<1>3. /\ \A d \in Callers \ {Page} : call'[d] = call[d]
      /\ call'[Page].job = "deliver" /\ call'[Page].what = <<a, TestBar>>
  BY <1>1, <1>2, FiringsAreMessages, CallersAre, BeginsErrand DEF TypeOK
<1> QED
  BY <1>1, <1>2, <1>3, PagePass DEF TypeOK, Delivering

LEMMA TestSentPass ==
  ASSUME TypeOK, PassInv, TestSent
  PROVE  /\ PassInv' /\ Delivering(Runner)' = Delivering(Runner) /\ UnderWay' = UnderWay
         /\ call'[Runner] = call[Runner] /\ tick' = tick
         /\ call[Page].what \in AlertIds \X {TestBar}
<1>1. Delivering(Page) /\ call' = [call EXCEPT ![Page] = Idle] /\ tick' = tick
  BY DEF TestSent
<1>2. call'[Page] = Idle /\ \A d \in Callers \ {Page} : call'[d] = call[d]
  BY <1>1, CallersAre DEF TypeOK, TunnelTypes
<1>3. ~Delivering(Page)' /\ call'[Page].what = NoMessage
  BY <1>2 DEF Delivering, Idle
<1>4. call[Page].what \in AlertIds \X {TestBar}
  BY <1>1, CallersAre, RunnerIsNotThePage DEF PassInv
<1> QED
  BY <1>1, <1>2, <1>3, <1>4, PagePass DEF TypeOK

LEMMA CutPass ==
  ASSUME NEW orderly \in BOOLEAN, CutShort(orderly)
  PROVE  PassInv' /\ ~InPass' /\ ~Delivering(Runner)' /\ ~UnderWay'
<1>1. call' = [c \in Callers |-> Idle] /\ tick' = Resting
  BY DEF CutShort, Restart
<1>2. ~InPass'
  BY <1>1 DEF InPass, Resting
<1>3. \A c \in Callers : ~Delivering(c)' /\ call'[c].what = NoMessage
  BY <1>1 DEF Delivering, Idle
<1>4. ~UnderWay' /\ ~Delivering(Runner)'
  BY <1>3, CallersAre DEF UnderWay
<1> QED
  BY <1>2, <1>3, <1>4 DEF PassInv

-----------------------------------------------------------------------------
(* Types.                                                                  *)

LEMMA SameTunnels ==
  ASSUME TunnelTypes, UNCHANGED <<row, route, procs, live, running, mark, call>>
  PROVE  TunnelTypes'
  BY StandsIs, CallersAre, TypesStand DEF TunnelTypes

LEMMA OneCallerMoved ==
  ASSUME TunnelTypes, NEW c \in Callers, NEW q, TunnelStep(c, q),
         UNCHANGED <<row, route, procs, live, running, mark>>
  PROVE  TunnelTypes'
<1>t. /\ row \in [TunnelIds -> RowStates]
      /\ route \in Seq(TunnelIds) /\ Len(route) <= MaxRouteTunnels
      /\ procs \in Seq(TunnelIds) /\ live \subseteq DOMAIN procs
      /\ running \in [TunnelIds -> Nat] /\ mark \subseteq TunnelIds
  BY DEF TunnelTypes
<1> QED
  BY <1>t, TypesStand

LEMMA SendTypes ==
  ASSUME TunnelTypes, NEW c \in Callers, NEW outcome, Sends(c, outcome)
  PROVE  TunnelTypes'
<1>t. /\ row \in [TunnelIds -> RowStates]
      /\ route \in Seq(TunnelIds) /\ Len(route) <= MaxRouteTunnels
      /\ procs \in Seq(TunnelIds) /\ live \subseteq DOMAIN procs
      /\ running \in [TunnelIds -> Nat] /\ mark \subseteq TunnelIds
  BY DEF TunnelTypes
<1>1. \E pass, server : \E at \in {"sent", "route"} :
             TunnelStep(c, [call[c] EXCEPT !.at = at, !.result = Results(c, outcome), !.pass = pass,
               !.pending = Again(c, outcome), !.server = server])
  BY Zenon, SendsIs
<1>2. \E q : TunnelStep(c, q)
  BY <1>1
<1>3. mark' = mark \/ (call[c].t \in TunnelIds /\ mark' = mark \cup {call[c].t})
  BY Zenon, SendsIs
<1>4. mark' \subseteq TunnelIds
  BY <1>t, <1>3
<1>5. UNCHANGED <<row, route, procs, live, running>>
  BY Zenon DEF Sends
<1> QED
  BY <1>t, <1>2, <1>4, <1>5, TypesStand

LEMMA TunnelTypesKept ==
  ASSUME TypeOK, PassInv, Next
  PROVE  TunnelTypes'
<1> USE DEF TypeOK
<1>1. CASE TunnelsNext
  BY <1>1, TypesOfCallers, TypesOfTunnels, TypesOfRequests DEF TunnelsNext
<1>2. ASSUME NEW orderly \in BOOLEAN, CutShort(orderly) PROVE TunnelTypes'
  BY <1>2, TypesOfRestart DEF CutShort
<1>3. CASE BarCloses
  BY <1>3, SameTunnels DEF BarCloses
<1>4. CASE Due
  BY <1>4, SameTunnels DEF Due, tunnelVars
<1>5. CASE StartDelivery
  <2>1. /\ Begins(Runner, tick.fired[1]) /\ tick.fired[1] \in Messages
        /\ UNCHANGED <<row, route, procs, live, running, mark>>
    BY <1>5, StartPass, FiringsAreMessages
  <2> QED
    BY Zenon, <2>1, BeginsIs, CallersAre, OneCallerMoved
<1>6. CASE Delivered
  BY <1>6, DeliveredIs, CallersAre, OneCallerMoved
<1>7. CASE Commit
  BY <1>7, SameTunnels DEF Commit, tunnelVars
<1>8. CASE TestSent
  <2>1. TunnelStep(Page, Idle)
    BY <1>8, IdlesIs, CallersAre DEF TestSent
  <2> QED
    BY <1>8, <2>1, CallersAre, OneCallerMoved DEF TestSent
<1>9. ASSUME NEW a \in AlertIds, Evaluate(a) PROVE TunnelTypes'
  BY <1>9, SameTunnels DEF Evaluate, tunnelVars
<1>10. ASSUME NEW a \in AlertIds, DeleteAlert(a) PROVE TunnelTypes'
  BY <1>10, SameTunnels DEF DeleteAlert
<1>11. ASSUME NEW a \in AlertIds, TestSend(a) PROVE TunnelTypes'
  <2>1. /\ Begins(Page, <<a, TestBar>>) /\ <<a, TestBar>> \in Messages
        /\ UNCHANGED <<row, route, procs, live, running, mark>>
    BY <1>11, FiringsAreMessages DEF TestSend
  <2> QED
    BY Zenon, <2>1, BeginsIs, CallersAre, OneCallerMoved
<1>12. ASSUME NEW a \in AlertIds, NEW state \in {"on", "off"}, NEW mode \in Modes, Update(a, state, mode)
       PROVE  TunnelTypes'
  BY <1>12, SameTunnels DEF Update
<1>13. ASSUME NEW c \in Callers, NEW outcome, Send(c, outcome) PROVE TunnelTypes'
  BY <1>13, SendTypes DEF Send
<1> QED
  BY <1>1, <1>2, <1>3, <1>4, <1>5, <1>6, <1>7, <1>8, <1>9, <1>10, <1>11, <1>12, <1>13 DEF Next

LEMMA SameAlerts ==
  ASSUME AlertTypes, UNCHANGED <<bar, holds, alert, tick, events, took, unanswered, modes>>
  PROVE  AlertTypes'
  BY DEF AlertTypes, InPass

LEMMA SendTook ==
  ASSUME AlertTypes, NEW c \in Callers, NEW outcome, Send(c, outcome)
  PROVE  /\ took' \in [AlertIds -> [Bars -> [Dests -> 0..2]]]
         /\ \A a \in AlertIds, b \in Bars, d \in Dests :
              took'[a][b][d] = IF call[c].what = <<a, b>> /\ d \in Takers(outcome) /\ took[a][b][d] < 2
                               THEN took[a][b][d] + 1 ELSE took[a][b][d]
         /\ \A a \in AlertIds, b \in Bars, d \in Dests :
              call[c].what = <<a, b>> /\ d \in Takers(outcome) /\ outcome[d] = "unsure" => <<a, b, d>> \in unanswered'
         /\ unanswered \subseteq unanswered'
         /\ UNCHANGED <<bar, holds, alert, tick, events, cut, modes>>
<1> DEFINE next(a, b, d) == IF call[c].what = <<a, b>> /\ d \in Takers(outcome) /\ took[a][b][d] < 2
                            THEN took[a][b][d] + 1 ELSE took[a][b][d]
<1>1. \A a \in AlertIds, b \in Bars, d \in Dests : took[a][b][d] \in 0..2
  BY DEF AlertTypes
<1>2. \A a \in AlertIds, b \in Bars, d \in Dests : next(a, b, d) \in 0..2
  BY <1>1
<1>3. took' = [a \in AlertIds |-> [b \in Bars |-> [d \in Dests |-> next(a, b, d)]]]
  BY DEF Send
<1>4. \A a \in AlertIds, b \in Bars, d \in Dests : took'[a][b][d] = next(a, b, d)
  <2> HIDE DEF next
  <2> QED
    BY <1>3
<1>5. took' \in [AlertIds -> [Bars -> [Dests -> 0..2]]]
  <2> HIDE DEF next
  <2> QED
    BY <1>2, <1>3
<1>6. /\ \A a, b, d :
            call[c].what = <<a, b>> /\ d \in Takers(outcome) /\ outcome[d] = "unsure" => <<a, b, d>> \in unanswered'
      /\ unanswered \subseteq unanswered'
  BY DEF Send
<1> QED
  BY <1>4, <1>5, <1>6 DEF Send

LEMMA AlertTypesKept ==
  ASSUME TypeOK, PassInv, Next
  PROVE  AlertTypes'
<1>t. AlertTypes
  BY DEF TypeOK
<1>1. CASE TunnelsNext /\ UNCHANGED alertVars
  BY <1>1, <1>t, SameAlerts DEF alertVars
<1>2. ASSUME NEW orderly \in BOOLEAN, CutShort(orderly) PROVE AlertTypes'
  BY <1>2, <1>t, CutPass DEF CutShort, AlertTypes
<1>3. CASE BarCloses
  <2>1. bar' \in 0..MaxBar
    BY <1>3, <1>t, BarsAre DEF BarCloses, AlertTypes
  <2> QED
    BY <1>3, <1>t, <2>1 DEF BarCloses, AlertTypes, InPass
<1>4. CASE Due
  BY <1>4, <1>t, DueIs DEF AlertTypes
<1>5. CASE StartDelivery
  BY <1>5, <1>t, SameAlerts DEF StartDelivery, alertVars
<1>6. CASE Delivered
  BY <1>6, <1>t, DeliveredIs, DeliveredPass DEF AlertTypes
<1>7. CASE Commit
  <2>1. /\ InPass /\ tick \in Pass /\ ~InPass'
        /\ UNCHANGED <<bar, holds, took, unanswered, modes>>
    BY Zenon, <1>7, CommitIs
  <2>2. tick.rows \in [AlertIds -> AlertRow] /\ tick.events \subseteq EventRow
    BY <1>t, <2>1, PassIs
  <2>3. CASE UNCHANGED <<alert, events>>
    BY <1>t, <2>1, <2>3 DEF AlertTypes
  <2>4. CASE /\ events' = events \cup tick.events
             /\ alert' = [a \in AlertIds |->
                   [alert[a] EXCEPT !.lastBar = tick.rows[a].lastBar, !.count = tick.rows[a].count]]
    <3>1. \A a \in AlertIds :
            [alert[a] EXCEPT !.lastBar = tick.rows[a].lastBar, !.count = tick.rows[a].count] \in AlertRow
      BY Zenon, <1>t, <2>2, RecordedRow DEF AlertTypes
    <3>2. alert' \in [AlertIds -> AlertRow]
      BY Zenon, <2>4, <3>1
    <3> QED
      BY Zenon, <1>t, <2>1, <2>2, <2>4, <3>2 DEF AlertTypes
  <2> QED
    BY Zenon, <1>7, <2>3, <2>4, CommitIs
<1>8. CASE TestSent
  <2>1. call[Page].what \in AlertIds \X {TestBar} /\ tick' = tick
    BY <1>8, TestSentPass
  <2>2. call[Page].what[1] \in AlertIds
    BY <2>1
  <2>4. events' \subseteq EventRow
    <3>1. Event(call[Page].what[1], TestBar, Recorded(call[Page].result)) \in EventRow
      BY <2>2, RecordedIs, BarsAre, EventType
    <3> QED
      BY <1>8, <1>t, <3>1 DEF TestSent, AlertTypes
  <2> QED
    BY <1>8, <1>t, <2>1, <2>4 DEF TestSent, AlertTypes, InPass
<1>9. ASSUME NEW a \in AlertIds, Evaluate(a) PROVE AlertTypes'
  BY <1>9, <1>t, EvaluateIs DEF AlertTypes
<1>10. ASSUME NEW a \in AlertIds, DeleteAlert(a) PROVE AlertTypes'
  BY <1>10, <1>t, DeleteAlertIs DEF AlertTypes, InPass
<1>11. ASSUME NEW a \in AlertIds, TestSend(a) PROVE AlertTypes'
  BY <1>11, <1>t, SameAlerts DEF TestSend, alertVars
<1>12. ASSUME NEW a \in AlertIds, NEW state \in {"on", "off"}, NEW mode \in Modes, Update(a, state, mode)
       PROVE  AlertTypes'
  <2>1. modes' = [modes EXCEPT ![a] = modes[a] \cup {mode}]
    BY <1>12, <1>t, UpdateIs
  <2>2. modes[a] \cup {mode} \in SUBSET Modes /\ modes \in [AlertIds -> SUBSET Modes]
    BY <1>t DEF AlertTypes
  <2>3. modes' \in [AlertIds -> SUBSET Modes]
    BY <2>1, <2>2
  <2> QED
    BY <1>12, <1>t, <2>3, UpdateIs DEF AlertTypes, InPass
<1>13. ASSUME NEW c \in Callers, NEW outcome, Send(c, outcome) PROVE AlertTypes'
  BY <1>13, <1>t, SendTook DEF AlertTypes, InPass
<1> QED
  BY <1>1, <1>2, <1>3, <1>4, <1>5, <1>6, <1>7, <1>8, <1>9, <1>10, <1>11, <1>12, <1>13 DEF Next

-----------------------------------------------------------------------------
(* The processes.                                                          *)

ShutOrStarts(q) == q.at \in {"starting", "shut"}

\* Nothing changes but callers that do not start nor shut a tunnel.
LEMMA ProcsStand ==
  ASSUME ProcInv, UNCHANGED <<row, procs, live, running, late, stray>>,
         \A d \in Callers : \/ call'[d] = call[d]
                            \/ ~ShutOrStarts(call[d]) /\ ~ShutOrStarts(call'[d])
  PROVE  ProcInv'
<1>1. \A d \in Callers : \/ call'[d] = call[d]
                         \/ ~Starts(d) /\ ~Starts(d)'
  BY DEF ShutOrStarts, Starts
<1>2. \A d \in Callers : StartIsSole(d)'
  BY <1>1 DEF ProcInv, StartIsSole, Starts, Alive
<1>3. \A p \in live' : LiveIsKnown(p)'
  <2> SUFFICES ASSUME NEW p \in live' PROVE LiveIsKnown(p)'
    OBVIOUS
  <2>1. LiveIsKnown(p)
    BY DEF ProcInv
  <2>2. \A d \in Callers : Starts(d) /\ call[d].pid = p => Starts(d)' /\ call'[d].pid = p
    BY <1>1 DEF Starts
  <2> QED
    BY <2>1, <2>2 DEF LiveIsKnown
<1>4. \A t \in TunnelIds : RunningIsKnown(t)'
  BY DEF ProcInv, RunningIsKnown
<1>5. OffMeansStopped'
  BY CallersAre DEF ProcInv, OffMeansStopped, BeingShut, ShutOrStarts
<1> QED
  BY <1>2, <1>3, <1>4, <1>5 DEF ProcInv

LEMMA StepStands ==
  ASSUME TunnelTypes, ProcInv, UNCHANGED <<row, procs, live, running, late, stray>>,
         NEW c \in Callers, NEW q, TunnelStep(c, q), ~ShutOrStarts(call[c]), ~ShutOrStarts(q)
  PROVE  ProcInv'
<1>1. call'[c] = q /\ \A d \in Callers : d # c => call'[d] = call[d]
  BY Zenon, CallersStand DEF TunnelStep
<1> QED
  BY <1>1, ProcsStand

LEMMA ProcTypes ==
  ASSUME TunnelTypes
  PROVE  /\ procs \in Seq(TunnelIds) /\ live \subseteq DOMAIN procs /\ running \in [TunnelIds -> Nat]
         /\ \A p \in live : procs[p] \in TunnelIds
  BY DEF TunnelTypes

\* Beyond what callers do: a request that shuts one tunnel disturbs no other.
LEMMA EnsureProcs ==
  ASSUME TypeOK, ProcInv, NEW c \in Callers, Ensure(c)
  PROVE  ProcInv'
<1>r. call[c] \in Caller /\ TunnelTypes
  BY IsTheCallers DEF TypeOK
<1>1. /\ call[c].at = "ensure" /\ call[c].t \in TunnelIds /\ ~Locked(call[c].t)
      /\ UNCHANGED <<row, running, stray>>
  BY Zenon, <1>r, EnsureIs
<1>2. CASE Alive(call[c].t)
  <2>1. /\ TunnelStep(c, [call[c] EXCEPT !.at = "up", !.pid = running[call[c].t]])
        /\ UNCHANGED <<procs, live, late>>
    BY Zenon, <1>2, <1>r, EnsureIs
  <2> PICK e : e = [call[c] EXCEPT !.at = "up", !.pid = running[call[c].t]]
    OBVIOUS
  <2>2. e.at = "up"
    BY <1>r DEF Caller
  <2> QED
    BY Zenon, <1>1, <1>r, <2>1, <2>2, StepStands DEF ShutOrStarts
<1>3. CASE ~Alive(call[c].t)
  <2> DEFINE t == call[c].t
  <2>1. /\ procs' = Append(procs, t) /\ Len(procs') = Len(procs) + 1
        /\ live' = live \cup {Len(procs')}
        /\ late' = IF row[t] = "on" THEN late ELSE late \cup {Len(procs')}
        /\ TunnelStep(c, [call[c] EXCEPT !.at = "starting", !.pid = Len(procs')])
    BY Zenon, <1>3, <1>r, EnsureIs
  <2> PICK n \in Nat : n = Len(procs) + 1
    BY <1>r, ProcTypes
  <2> PICK e : e = [call[c] EXCEPT !.at = "starting", !.pid = Len(procs')]
    OBVIOUS
  <2>2. e.at = "starting" /\ e.pid = n /\ e.t = t
    BY <1>r, <2>1 DEF Caller
  <2>3. call'[c] = e /\ \A d \in Callers : d # c => call'[d] = call[d]
    BY <1>r, <2>1, CallersStand DEF TunnelStep
  <2>4. /\ DOMAIN procs' = 1..n /\ procs'[n] = t /\ DOMAIN procs = 1..(n - 1)
        /\ \A p \in DOMAIN procs : p \in 1..n /\ procs'[p] = procs[p] /\ p # n
        /\ live' = live \cup {n} /\ n \notin live /\ live \subseteq DOMAIN procs
    BY <1>r, <2>1, ProcTypes
  <2>5. \A d \in Callers : ~(Starts(d) /\ call[d].t = t)
    BY <1>1 DEF Locked, Starts
  <2>6. \A u \in TunnelIds : RunningIsKnown(u) /\ (running[u] # 0 => running[u] # n)
    BY <2>4 DEF ProcInv, RunningIsKnown
  <2>7. \A u \in TunnelIds : Alive(u)' => Alive(u)
    BY <1>1, <2>4, <2>6 DEF Alive
  <2>8. \A d \in Callers : StartIsSole(d)'
    <3> SUFFICES ASSUME NEW d \in Callers, Starts(d)' PROVE StartIsSole(d)'
      BY DEF StartIsSole
    <3>1. CASE d = c
      <4>1. call'[d].pid = n /\ call'[d].t = t /\ ~Alive(t)'
        BY <1>1, <1>3, <2>2, <2>3, <2>7, <3>1
      <4>2. \A f \in Callers : Starts(f)' /\ call'[f].t = t => f = c
        BY <2>3, <2>5 DEF Starts
      <4> QED
        BY <2>4, <3>1, <4>1, <4>2 DEF StartIsSole
    <3>2. CASE d # c
      <4>1. Starts(d) /\ call'[d] = call[d] /\ StartIsSole(d)
        BY <2>3, <3>2 DEF Starts, ProcInv
      <4>2. call[d].pid \in DOMAIN procs /\ procs[call[d].pid] = call[d].t /\ ~Alive(call[d].t)
        BY <4>1 DEF StartIsSole
      <4>3. call[d].t \in TunnelIds
        BY <1>r, <4>1, WorksOn DEF Starts, WithATunnel
      <4>4. \A f \in Callers : Starts(f)' /\ call'[f].t = call[d].t => d = f
        <5> SUFFICES ASSUME NEW f \in Callers, Starts(f)', call'[f].t = call[d].t PROVE d = f
          OBVIOUS
        <5>1. call[d].t # t
          BY <2>5, <4>1
        <5>2. f # c
          BY <2>2, <2>3, <5>1
        <5>3. Starts(f) /\ call[f].t = call[d].t
          BY <2>3, <5>2 DEF Starts
        <5> QED
          BY <4>1, <5>3 DEF StartIsSole
      <4> QED
        BY <2>4, <2>7, <4>1, <4>2, <4>3, <4>4 DEF StartIsSole
    <3> QED
      BY <3>1, <3>2
  <2>9. \A u \in TunnelIds : RunningIsKnown(u)'
    BY <1>1, <2>4 DEF ProcInv, RunningIsKnown
  <2>10. \A p \in live' : LiveIsKnown(p)'
    <3> SUFFICES ASSUME NEW p \in live' PROVE LiveIsKnown(p)'
      OBVIOUS
    <3>1. CASE p = n
      <4>1. Starts(c)' /\ call'[c].pid = p
        BY <2>2, <2>3, <3>1 DEF Starts
      <4> QED
        BY <4>1 DEF LiveIsKnown
    <3>2. CASE p # n
      <4>1. p \in live /\ LiveIsKnown(p) /\ procs'[p] = procs[p]
        BY <2>4, <3>2 DEF ProcInv
      <4>2. \A d \in Callers : Starts(d) /\ call[d].pid = p => Starts(d)' /\ call'[d].pid = p
        BY <1>1, <2>3 DEF Starts
      <4>3. p \in late \cup stray => p \in late' \cup stray'
        BY <1>1, <2>1
      <4> QED
        BY <1>1, <4>1, <4>2, <4>3 DEF LiveIsKnown
    <3> QED
      BY <3>1, <3>2
  <2>11. OffMeansStopped'
    <3> SUFFICES ASSUME NEW p \in live'
                 PROVE  (row[procs[p]] = "on" \/ BeingShut(procs[p]) \/ p \in late \cup stray)'
      BY DEF OffMeansStopped
    <3>1. CASE p = n
      BY <1>1, <2>1, <2>4, <3>1
    <3>2. CASE p # n
      <4>1. p \in live /\ procs'[p] = procs[p]
        BY <2>4, <3>2
      <4>2. row[procs[p]] = "on" \/ BeingShut(procs[p]) \/ p \in late \cup stray
        BY <4>1 DEF ProcInv, OffMeansStopped
      <4>3. BeingShut(procs[p]) => (call'[Page].at = "shut" /\ call'[Page].t = procs'[p])
        BY <1>1, <2>3, <4>1, CallersAre DEF BeingShut
      <4> QED
        BY <1>1, <2>1, <4>1, <4>2, <4>3 DEF BeingShut
    <3> QED
      BY <3>1, <3>2
  <2> QED
    BY <2>8, <2>9, <2>10, <2>11 DEF ProcInv
<1> QED
  BY <1>2, <1>3

LEMMA ListensProcs ==
  ASSUME TypeOK, ProcInv, NEW c \in Callers, Listens(c)
  PROVE  ProcInv'
<1>r. call[c] \in Caller /\ TunnelTypes
  BY IsTheCallers DEF TypeOK
<1> DEFINE t == call[c].t
<1>1. /\ Starts(c) /\ call[c].pid \in live /\ t \in TunnelIds
      /\ running' = [running EXCEPT ![t] = call[c].pid]
      /\ UNCHANGED <<row, procs, live, late, stray>>
  BY <1>r, WorksOn DEF Listens, Starts, WithATunnel
<1>2. /\ TunnelStep(c, [call[c] EXCEPT !.at = "up"])
  BY <1>r, <1>1, GoesIs DEF Listens, Stages, Trying
<1>3. call'[c].at = "up" /\ \A d \in Callers : d # c => call'[d] = call[d]
  BY <1>r, <1>2, CallersStand DEF TunnelStep, Caller
<1>4. ~Starts(c)' /\ \A d \in Callers : Starts(d)' => Starts(d) /\ call'[d] = call[d] /\ d # c
  BY <1>3 DEF Starts
<1>5. StartIsSole(c) /\ call[c].pid \in DOMAIN procs /\ procs[call[c].pid] = t /\ ~Alive(t)
  BY <1>1 DEF ProcInv, StartIsSole
<1>6. \A d \in Callers : Starts(d)' => call[d].t # t /\ call[d].t \in TunnelIds
  BY <1>1, <1>r, <1>4, <1>5, WorksOn DEF StartIsSole, Starts, WithATunnel
<1>7. running'[t] = call[c].pid /\ \A u \in TunnelIds : u # t => running'[u] = running[u]
  BY <1>1, <1>r, ProcTypes
<1>8. \A d \in Callers : StartIsSole(d)'
  <2> SUFFICES ASSUME NEW d \in Callers, Starts(d)' PROVE StartIsSole(d)'
    BY DEF StartIsSole
  <2>1. StartIsSole(d) /\ Starts(d) /\ call'[d] = call[d]
    BY <1>4 DEF ProcInv
  <2>2. ~Alive(call[d].t)'
    BY <1>1, <1>6, <1>7, <2>1 DEF StartIsSole, Alive
  <2> QED
    BY <1>1, <1>4, <2>1, <2>2 DEF StartIsSole
<1>9. \A u \in TunnelIds : RunningIsKnown(u)'
  BY <1>1, <1>5, <1>7 DEF ProcInv, RunningIsKnown
<1>10. \A p \in live' : LiveIsKnown(p)'
  <2> SUFFICES ASSUME NEW p \in live' PROVE LiveIsKnown(p)'
    OBVIOUS
  <2>1. p \in live /\ LiveIsKnown(p) /\ procs[p] \in TunnelIds
    BY <1>1, <1>r, ProcTypes DEF ProcInv
  <2>2. CASE running[procs[p]] = p
    <3>1. p # 0
      BY <1>r, <2>1, ProcTypes
    <3>2. procs[p] # t
      BY <1>5, <2>1, <2>2, <3>1 DEF Alive
    <3> QED
      BY <1>1, <1>7, <2>1, <2>2, <3>2 DEF LiveIsKnown
  <2>3. CASE \E d \in Callers : Starts(d) /\ call[d].pid = p
    <3>1. PICK d \in Callers : Starts(d) /\ call[d].pid = p
      BY <2>3
    <3>2. CASE d = c
      BY <1>1, <1>5, <1>7, <3>1, <3>2 DEF LiveIsKnown
    <3>3. CASE d # c
      BY <1>3, <3>1, <3>3 DEF LiveIsKnown, Starts
    <3> QED
      BY <3>2, <3>3
  <2>4. CASE p \in late \cup stray
    BY <1>1, <2>4 DEF LiveIsKnown
  <2> QED
    BY <2>1, <2>2, <2>3, <2>4 DEF LiveIsKnown
<1>11. OffMeansStopped'
  <2>1. \A u : BeingShut(u) => BeingShut(u)'
    BY <1>1, <1>3, CallersAre DEF BeingShut, Starts
  <2> QED
    BY <1>1, <2>1 DEF ProcInv, OffMeansStopped
<1> QED
  BY <1>8, <1>9, <1>10, <1>11 DEF ProcInv

\* A process that ends is known to nobody afterwards.
LEMMA FewerProcs ==
  ASSUME TypeOK, ProcInv, NEW gone, live' = live \ gone, UNCHANGED <<row, procs, running, late, stray>>,
         \A d \in Callers : \/ call'[d] = call[d]
                            \/ ~Starts(d)' /\ (Starts(d) => call[d].pid \in gone) /\ call[d].at # "shut"
  PROVE  ProcInv'
<1>1. \A d \in Callers : Starts(d)' => Starts(d) /\ call'[d] = call[d]
  BY DEF Starts
<1>2. \A t \in TunnelIds : Alive(t)' => Alive(t)
  BY DEF Alive
<1>3. \A d \in Callers : StartIsSole(d)'
  <2> SUFFICES ASSUME NEW d \in Callers, Starts(d)' PROVE StartIsSole(d)'
    BY DEF StartIsSole
  <2>1. Starts(d) /\ call'[d] = call[d] /\ StartIsSole(d) /\ call[d].t \in TunnelIds
    BY <1>1, WorksOn DEF ProcInv, Starts, WithATunnel, TypeOK
  <2> QED
    BY <1>1, <1>2, <2>1 DEF StartIsSole
<1>4. \A p \in live' : LiveIsKnown(p)'
  <2> SUFFICES ASSUME NEW p \in live' PROVE LiveIsKnown(p)'
    OBVIOUS
  <2>1. p \in live /\ p \notin gone /\ LiveIsKnown(p)
    BY DEF ProcInv
  <2>2. \A d \in Callers : Starts(d) /\ call[d].pid = p => Starts(d)' /\ call'[d].pid = p
    BY <2>1 DEF Starts
  <2> QED
    BY <2>1, <2>2 DEF LiveIsKnown
<1>5. \A t \in TunnelIds : RunningIsKnown(t)'
  BY DEF ProcInv, RunningIsKnown
<1>6. OffMeansStopped'
  <2>1. \A u : BeingShut(u) => BeingShut(u)'
    BY CallersAre DEF BeingShut
  <2> QED
    BY <2>1 DEF ProcInv, OffMeansStopped
<1> QED
  BY <1>3, <1>4, <1>5, <1>6 DEF ProcInv

LEMMA EndedProcs ==
  ASSUME TypeOK, ProcInv, NEW c \in Callers, NEW t \in TunnelIds, NeverListens(c) \/ Dies(t)
  PROVE  ProcInv'
<1>r. TunnelTypes /\ call[c] \in Caller
  BY IsTheCallers DEF TypeOK
<1>1. CASE NeverListens(c)
  <2>1. /\ call[c].at = "starting" /\ live' = live \ {call[c].pid}
        /\ UNCHANGED <<row, procs, running, late, stray>>
    BY <1>1 DEF NeverListens
  <2>2. TunnelStep(c, [call[c] EXCEPT !.at = "down"])
    BY <1>1, <1>r, <2>1, WorksOn, GoesIs DEF NeverListens, WithATunnel, Stages, Trying
  <2>3. call'[c].at = "down" /\ \A d \in Callers : d # c => call'[d] = call[d]
    BY <1>r, <2>2, CallersStand DEF TunnelStep, Caller
  <2> QED
    BY <2>1, <2>3, FewerProcs DEF Starts
<1>2. CASE Dies(t)
  <2>1. /\ live' = live \ {running[t]} /\ call' = call
        /\ UNCHANGED <<row, procs, running, late, stray>>
    BY <1>2 DEF Dies
  <2> QED
    BY <2>1, FewerProcs
<1> QED
  BY <1>1, <1>2

\* Resolving, and the bringing up of a tunnel, once it is over.
LEMMA ResolveProcs ==
  ASSUME TypeOK, ProcInv, NEW c \in Callers, ReadRoute(c) \/ Resolve(c) \/ Resolved(c)
  PROVE  ProcInv'
<1>r. TunnelTypes /\ call[c] \in Caller
  BY IsTheCallers DEF TypeOK
<1>1. UNCHANGED <<row, procs, live, running, late, stray>> /\ ~ShutOrStarts(call[c])
  BY DEF ReadRoute, Resolve, Resolved, ShutOrStarts
<1>2. CASE Resolve(c)
  <2>1. CASE call[c].todo = <<>>
    <3> PICK e : e = [call[c] EXCEPT !.at = "send", !.pid = 0]
      OBVIOUS
    <3>1. TunnelStep(c, e)
      BY Zenon, <1>2, <1>r, <2>1, ResolveIs
    <3>2. e.at = "send"
      BY <1>r DEF Caller
    <3> QED
      BY Zenon, <1>1, <1>r, <3>1, <3>2, StepStands DEF ShutOrStarts
  <2>2. CASE call[c].todo # <<>>
    <3>1. PICK at \in {"ensure", "resolve"} :
            TunnelStep(c, [call[c] EXCEPT !.at = at, !.t = Head(call[c].todo),
                                      !.todo = Tail(call[c].todo)])
      BY Zenon, <1>2, <1>r, <2>2, ResolveIs
    <3> PICK e : e = [call[c] EXCEPT !.at = at, !.t = Head(call[c].todo),
                                     !.todo = Tail(call[c].todo)]
      OBVIOUS
    <3>2. e.at = at
      BY <1>r DEF Caller
    <3> QED
      BY Zenon, <1>1, <1>r, <3>1, <3>2, StepStands DEF ShutOrStarts
  <2> QED
    BY <2>1, <2>2
<1>3. CASE Resolved(c)
  <2>1. PICK stage \in {"send", "resolve"} : Goes(c, stage) /\ (stage = "send" => call[c].at = "up")
    BY <1>3 DEF Resolved
  <2>2. TunnelStep(c, [call[c] EXCEPT !.at = stage])
    BY <1>r, <2>1, WorksOn, GoesIs DEF Stages, Trying, WithATunnel
  <2>3. ~ShutOrStarts([call[c] EXCEPT !.at = stage])
    BY <1>r DEF Caller, ShutOrStarts
  <2> QED
    BY <1>1, <1>r, <2>2, <2>3, StepStands
<1>4. CASE ReadRoute(c)
  <2> PICK e : e = [call[c] EXCEPT !.at = "resolve", !.todo = route]
    OBVIOUS
  <2>1. TunnelStep(c, e)
    BY Zenon, <1>4, <1>r, ReadRouteIs
  <2>2. e.at = "resolve"
    BY <1>r DEF Caller
  <2> QED
    BY Zenon, <1>1, <1>r, <2>1, <2>2, StepStands DEF ShutOrStarts
<1> QED
  BY <1>2, <1>3, <1>4

LEMMA SendProcs ==
  ASSUME TypeOK, ProcInv, NEW c \in Callers, NEW outcome, Sends(c, outcome)
  PROVE  ProcInv'
<1>1. /\ call[c].at = "send" /\ call'[c].at \in {"sent", "route"}
      /\ \A d \in Callers \ {c} : call'[d] = call[d]
  BY Zenon, SendErrands DEF TypeOK
<1>2. UNCHANGED <<row, procs, live, running, late, stray>>
  BY Zenon DEF Sends
<1> QED
  BY <1>1, <1>2, ProcsStand DEF ShutOrStarts

\* A tunnel is switched: off, it is about to be shut.
LEMMA SwitchProcs ==
  ASSUME TypeOK, ProcInv, NEW t \in TunnelIds, Switch(t)
  PROVE  ProcInv'
<1>r. TunnelTypes /\ call[Page] \in Caller /\ row \in [TunnelIds -> RowStates]
  BY IsTheCallers, CallersAre DEF TypeOK, TunnelTypes
<1>1. /\ call[Page].at = "idle" /\ UNCHANGED <<procs, live, running, late, stray>>
      /\ row' = [row EXCEPT ![t] = IF row[t] = "on" THEN "off" ELSE "on"]
  BY DEF Switch, Asks, PageIdle
<1>2. /\ \A d \in Callers : d # Page => call'[d] = call[d]
      /\ call'[Page].at \in {"idle", "shut"}
      /\ row[t] = "on" => call'[Page].at = "shut" /\ call'[Page].t = t
  <2>1. CASE row[t] = "on"
    <3> PICK e : e = [call[Page] EXCEPT !.at = "shut", !.job = "switch", !.t = t]
      OBVIOUS
    <3>1. TunnelStep(Page, e)
      BY Zenon, <1>r, <2>1, AsksIs DEF Switch, Jobs
    <3>2. e.at = "shut" /\ e.t = t
      BY <1>r DEF Caller
    <3> QED
      BY Zenon, <1>r, <3>1, <3>2, CallersAre, CallersStand DEF TunnelStep
  <2>2. CASE row[t] # "on"
    BY <1>1, <2>2 DEF Switch
  <2> QED
    BY <2>1, <2>2
<1>3. \A d \in Callers : Starts(d)' = Starts(d) /\ (Starts(d) => call'[d] = call[d])
  BY <1>1, <1>2 DEF Starts
<1>4. \A d \in Callers : StartIsSole(d)'
  BY <1>1, <1>3 DEF ProcInv, StartIsSole, Alive
<1>5. \A u \in TunnelIds : RunningIsKnown(u)'
  BY <1>1 DEF ProcInv, RunningIsKnown
<1>6. \A p \in live' : LiveIsKnown(p)'
  <2> SUFFICES ASSUME NEW p \in live' PROVE LiveIsKnown(p)'
    OBVIOUS
  <2>1. LiveIsKnown(p)
    BY <1>1 DEF ProcInv
  <2> QED
    BY <1>1, <1>3, <2>1 DEF LiveIsKnown
<1>7. OffMeansStopped'
  <2> SUFFICES ASSUME NEW p \in live'
               PROVE  (row[procs[p]] = "on" \/ BeingShut(procs[p]) \/ p \in late \cup stray)'
    BY DEF OffMeansStopped
  <2>1. row[procs[p]] = "on" \/ p \in late \cup stray
    BY <1>1 DEF ProcInv, OffMeansStopped, BeingShut
  <2>2. procs[p] \in TunnelIds
    BY <1>1, <1>r, ProcTypes
  <2>3. CASE procs[p] = t
    BY <1>1, <1>2, <1>r, <2>1, <2>3 DEF BeingShut
  <2>4. CASE procs[p] # t
    BY <1>1, <1>r, <2>1, <2>2, <2>4
  <2> QED
    BY <2>3, <2>4
<1> QED
  BY <1>4, <1>5, <1>6, <1>7 DEF ProcInv

\* Asking for a tunnel to be shut or tried disturbs no process.
LEMMA AskProcs ==
  ASSUME TypeOK, ProcInv, NEW what \in Jobs, NEW t \in TunnelIds, NEW stage \in {"shut", "ensure"},
         Asks(what, t, stage), UNCHANGED <<row, procs, live, running, late, stray>>
  PROVE  ProcInv'
<1>r. TunnelTypes /\ call[Page] \in Caller
  BY IsTheCallers, CallersAre DEF TypeOK
<1> PICK e : e = [call[Page] EXCEPT !.at = stage, !.job = what, !.t = t]
  OBVIOUS
<1>1. call[Page].at = "idle" /\ TunnelStep(Page, e) /\ e.at = stage
  BY Zenon, <1>r, AsksIs DEF Caller
<1>2. call'[Page] = e /\ \A d \in Callers : d # Page => call'[d] = call[d]
  BY <1>r, <1>1, CallersAre, CallersStand DEF TunnelStep
<1>3. \A d \in Callers : Starts(d)' = Starts(d) /\ (Starts(d) => call'[d] = call[d])
  BY <1>1, <1>2 DEF Starts
<1>4. \A d \in Callers : StartIsSole(d)'
  BY <1>3 DEF ProcInv, StartIsSole, Alive
<1>5. \A u \in TunnelIds : RunningIsKnown(u)'
  BY DEF ProcInv, RunningIsKnown
<1>6. \A p \in live' : LiveIsKnown(p)'
  <2> SUFFICES ASSUME NEW p \in live' PROVE LiveIsKnown(p)'
    OBVIOUS
  <2>1. LiveIsKnown(p)
    BY DEF ProcInv
  <2> QED
    BY <1>3, <2>1 DEF LiveIsKnown
<1>7. OffMeansStopped'
  BY <1>1 DEF ProcInv, OffMeansStopped, BeingShut
<1> QED
  BY <1>4, <1>5, <1>6, <1>7 DEF ProcInv

\* What is left of a tunnel that is shut is what was being started.
LEMMA ShutProcs ==
  ASSUME TypeOK, ProcInv, Shut
  PROVE  ProcInv'
<1>r. TunnelTypes /\ call[Page] \in Caller
  BY IsTheCallers, CallersAre DEF TypeOK
<1> DEFINE t == call[Page].t
<1>1. /\ call[Page].at = "shut" /\ t \in TunnelIds
      /\ running' = [running EXCEPT ![t] = 0] /\ live' = live \ {running[t]}
      /\ late' = late \cup {call[c].pid : c \in {d \in Callers : call[d].at = "starting" /\ call[d].t = t}}
      /\ UNCHANGED <<row, procs, stray>>
  BY <1>r, ShutIs DEF Stop, Killed
<1>2. call'[Page].at \in {"idle", "delete"} /\ \A d \in Callers : d # Page => call'[d] = call[d]
  <2>1. PICK q : TunnelStep(Page, q) /\ (q = Idle \/ q = [call[Page] EXCEPT !.at = "delete"])
    BY <1>r, ShutIs
  <2>2. q.at \in {"idle", "delete"}
    BY <1>r, <2>1 DEF Idle, Caller
  <2> QED
    BY <1>r, <2>1, <2>2, CallersAre, CallersStand DEF TunnelStep
<1>3. \A d \in Callers : Starts(d)' = Starts(d) /\ (Starts(d) => call'[d] = call[d])
  BY <1>1, <1>2 DEF Starts
<1>4. /\ running'[t] = 0 /\ running \in [TunnelIds -> Nat]
      /\ \A u \in TunnelIds : u # t => running'[u] = running[u]
  BY <1>1, <1>r, ProcTypes
<1> HIDE DEF t
<1>5. \A u \in TunnelIds : Alive(u)' => Alive(u)
  BY <1>1, <1>4 DEF Alive
<1>6. \A d \in Callers : StartIsSole(d)'
  <2> SUFFICES ASSUME NEW d \in Callers, Starts(d)' PROVE StartIsSole(d)'
    BY DEF StartIsSole
  <2>1. Starts(d) /\ call'[d] = call[d] /\ StartIsSole(d)
    BY <1>3 DEF ProcInv
  <2>2. call[d].t \in TunnelIds
    BY <1>r, <2>1, WorksOn DEF Starts, WithATunnel
  <2>3. ~Alive(call[d].t)'
    BY <1>5, <2>1, <2>2 DEF StartIsSole
  <2> QED
    BY <1>1, <1>3, <2>1, <2>3 DEF StartIsSole
<1>7. \A u \in TunnelIds : RunningIsKnown(u)'
  BY <1>1, <1>4 DEF ProcInv, RunningIsKnown
<1>8. \A p \in live : p # running[t] /\ procs[p] = t => p \in late' \cup stray'
  <2> SUFFICES ASSUME NEW p \in live, p # running[t], procs[p] = t PROVE p \in late' \cup stray'
    OBVIOUS
  <2>1. LiveIsKnown(p)
    BY DEF ProcInv
  <2>2. ASSUME NEW d \in Callers, Starts(d), call[d].pid = p PROVE p \in late'
    <3>1. call[d].t = t
      BY <2>2 DEF ProcInv, StartIsSole
    <3> QED
      BY <1>1, <2>2, <3>1 DEF Starts
  <2> QED
    BY <1>1, <2>1, <2>2 DEF LiveIsKnown
<1>9. \A p \in live' : LiveIsKnown(p)'
  <2> SUFFICES ASSUME NEW p \in live' PROVE LiveIsKnown(p)'
    OBVIOUS
  <2>1. p \in live /\ p # running[t] /\ LiveIsKnown(p) /\ procs[p] \in TunnelIds
    BY <1>1, <1>r, ProcTypes DEF ProcInv
  <2>2. CASE procs[p] = t
    BY <1>8, <2>1, <2>2 DEF LiveIsKnown
  <2>3. CASE procs[p] # t
    BY <1>1, <1>3, <1>4, <2>1, <2>3 DEF LiveIsKnown
  <2> QED
    BY <2>2, <2>3
<1>10. OffMeansStopped'
  <2> SUFFICES ASSUME NEW p \in live'
               PROVE  (row[procs[p]] = "on" \/ BeingShut(procs[p]) \/ p \in late \cup stray)'
    BY DEF OffMeansStopped
  <2>1. p \in live /\ p # running[t]
    BY <1>1
  <2>2. row[procs[p]] = "on" \/ BeingShut(procs[p]) \/ p \in late \cup stray
    BY <2>1 DEF ProcInv, OffMeansStopped
  <2>3. CASE procs[p] = t
    BY <1>8, <2>1, <2>3
  <2>4. CASE procs[p] # t
    BY <1>1, <2>2, <2>4 DEF BeingShut, t
  <2> QED
    BY <2>3, <2>4
<1> QED
  BY <1>6, <1>7, <1>9, <1>10 DEF ProcInv

LEMMA DeleteCommitProcs ==
  ASSUME TypeOK, ProcInv, DeleteCommit
  PROVE  ProcInv'
<1>r. TunnelTypes /\ call[Page] \in Caller /\ row \in [TunnelIds -> RowStates]
  BY IsTheCallers, CallersAre DEF TypeOK, TunnelTypes
<1> DEFINE t == call[Page].t
<1>1. /\ call[Page].at = "delete" /\ row' = [row EXCEPT ![t] = "gone"]
      /\ late' = late \cup {p \in live : procs[p] = t}
      /\ call' = [call EXCEPT ![Page] = Idle]
      /\ UNCHANGED <<procs, live, running, stray>>
  BY DEF DeleteCommit
<1>2. call'[Page] = Idle /\ \A d \in Callers : d # Page => call'[d] = call[d]
  BY <1>r, <1>1, CallersAre, IdlesIs, CallersStand DEF TunnelStep
<1>3. \A d \in Callers : Starts(d)' = Starts(d) /\ (Starts(d) => call'[d] = call[d])
  BY <1>1, <1>2 DEF Starts, Idle
<1> HIDE DEF t
<1>4. \A d \in Callers : StartIsSole(d)'
  BY <1>1, <1>3 DEF ProcInv, StartIsSole, Alive
<1>5. \A u \in TunnelIds : RunningIsKnown(u)'
  BY <1>1 DEF ProcInv, RunningIsKnown
<1>6. \A p \in live' : LiveIsKnown(p)'
  <2> SUFFICES ASSUME NEW p \in live' PROVE LiveIsKnown(p)'
    OBVIOUS
  <2>1. LiveIsKnown(p)
    BY <1>1 DEF ProcInv
  <2> QED
    BY <1>1, <1>3, <2>1 DEF LiveIsKnown
<1>7. OffMeansStopped'
  <2> SUFFICES ASSUME NEW p \in live'
               PROVE  (row[procs[p]] = "on" \/ BeingShut(procs[p]) \/ p \in late \cup stray)'
    BY DEF OffMeansStopped
  <2>1. row[procs[p]] = "on" \/ p \in late \cup stray
    BY <1>1 DEF ProcInv, OffMeansStopped, BeingShut
  <2>2. CASE procs[p] = t
    BY <1>1, <2>2
  <2>3. CASE procs[p] # t
    <3>1. procs[p] \in TunnelIds
      BY <1>1, <1>r, ProcTypes
    <3> QED
      BY <1>1, <1>r, <2>1, <2>3, <3>1
  <2> QED
    BY <2>2, <2>3
<1> QED
  BY <1>4, <1>5, <1>6, <1>7 DEF ProcInv

\* After a restart nothing is known: every process that runs is a stray one.
LEMMA RestartProcs ==
  ASSUME TypeOK, ProcInv, NEW orderly \in BOOLEAN, Restart(orderly)
  PROVE  ProcInv'
<1>1. /\ live' \subseteq stray' /\ running' = [t \in TunnelIds |-> 0]
      /\ call' = [c \in Callers |-> Idle]
  BY DEF Restart
<1>2. \A c \in Callers : ~Starts(c)'
  BY <1>1 DEF Starts, Idle
<1> QED
  BY <1>1, <1>2 DEF ProcInv, StartIsSole, RunningIsKnown, LiveIsKnown, OffMeansStopped

LEMMA IdleProcs ==
  ASSUME TypeOK, ProcInv, NEW c \in Callers, call' = [call EXCEPT ![c] = Idle], ~ShutOrStarts(call[c]),
         UNCHANGED <<row, procs, live, running, late, stray>>
  PROVE  ProcInv'
<1>1. TunnelStep(c, Idle) /\ ~ShutOrStarts(Idle)
  BY IdlesIs DEF TypeOK, Idle, ShutOrStarts
<1> QED
  BY <1>1, StepStands DEF TypeOK

LEMMA BeginsProcs ==
  ASSUME TypeOK, ProcInv, NEW c \in Callers, NEW what \in Messages, Begins(c, what), ~ShutOrStarts(call[c]),
         UNCHANGED <<row, procs, live, running, late, stray>>
  PROVE  ProcInv'
<1>1. call'[c].at = "route" /\ \A d \in Callers \ {c} : call'[d] = call[d]
  BY BeginsErrand DEF TypeOK
<1> QED
  BY <1>1, ProcsStand DEF ShutOrStarts

LEMMA TunnelProcs ==
  ASSUME TypeOK, ProcInv, TunnelsNext
  PROVE  ProcInv'
<1>1. ASSUME NEW c \in Callers,
             Ensure(c) \/ Listens(c) \/ NeverListens(c) \/ ReadRoute(c) \/ Resolve(c) \/ Resolved(c)
      PROVE  ProcInv'
  <2>1. CASE Ensure(c)
    BY <2>1, EnsureProcs
  <2>2. CASE Listens(c)
    BY <2>2, ListensProcs
  <2>3. CASE NeverListens(c)
    <3>1. call[c].t \in TunnelIds
      BY <2>3, WorksOn DEF NeverListens, WithATunnel, TypeOK
    <3> QED
      BY <2>3, <3>1, EndedProcs
  <2>4. CASE ReadRoute(c) \/ Resolve(c) \/ Resolved(c)
    BY <2>4, ResolveProcs
  <2> QED
    BY <1>1, <2>1, <2>2, <2>3, <2>4
<1>2. ASSUME NEW t \in TunnelIds, Dies(t) \/ MarkEnds(t) \/ Switch(t) \/ Delete(t) \/ Test(t)
      PROVE  ProcInv'
  <2>1. CASE Dies(t)
    BY <2>1, CallersAre, EndedProcs
  <2>2. CASE MarkEnds(t)
    BY <2>2, ProcsStand DEF MarkEnds
  <2>3. CASE Switch(t)
    BY <2>3, SwitchProcs
  <2>4. CASE Delete(t)
    BY <2>4, AskProcs DEF Delete, Jobs
  <2>5. CASE Test(t)
    BY <2>5, AskProcs DEF Test, Jobs
  <2> QED
    BY <1>2, <2>1, <2>2, <2>3, <2>4, <2>5
<1>3. ASSUME NEW s \in Routes, SetRoute(s) PROVE ProcInv'
  BY <1>3, ProcsStand DEF SetRoute
<1>4. ASSUME NEW answers \in BOOLEAN, Probed(answers) PROVE ProcInv'
  <2>1. /\ call' = [call EXCEPT ![Page] = Idle] /\ ~ShutOrStarts(call[Page])
        /\ UNCHANGED <<row, procs, live, running, late, stray>>
    BY <1>4 DEF Probed, ShutOrStarts
  <2> QED
    BY <2>1, CallersAre, IdleProcs
<1> QED
  BY <1>1, <1>2, <1>3, <1>4, ShutProcs, DeleteCommitProcs DEF TunnelsNext

LEMMA ProcsKept ==
  ASSUME TypeOK, RunnerInv, PassInv, ProcInv, Next
  PROVE  ProcInv'
<1>1. CASE TunnelsNext
  BY <1>1, TunnelProcs
<1>2. ASSUME NEW orderly \in BOOLEAN, CutShort(orderly) PROVE ProcInv'
  BY <1>2, RestartProcs DEF CutShort
<1>3. CASE BarCloses
  BY <1>3, ProcsStand DEF BarCloses
<1>4. CASE Due
  BY <1>4, ProcsStand DEF Due, tunnelVars
<1>5. CASE StartDelivery
  <2>1. /\ Begins(Runner, tick.fired[1]) /\ tick.fired[1] \in Messages
        /\ UNCHANGED <<row, procs, live, running, late, stray>>
    BY <1>5, StartPass, FiringsAreMessages
  <2>2. ~ShutOrStarts(call[Runner])
    BY <1>5 DEF StartDelivery, RunnerInv, ShutOrStarts
  <2> QED
    BY <2>1, <2>2, CallersAre, BeginsProcs
<1>6. CASE Delivered
  <2>1. ~ShutOrStarts(call[Runner])
    BY <1>6 DEF Delivered, ShutOrStarts
  <2> QED
    BY Zenon, <1>6, <2>1, CallersAre, IdleProcs DEF Delivered
<1>7. CASE Commit
  BY <1>7, ProcsStand DEF Commit, tunnelVars
<1>8. CASE TestSent
  <2>1. ~ShutOrStarts(call[Page])
    BY <1>8 DEF TestSent, ShutOrStarts
  <2> QED
    BY <1>8, <2>1, CallersAre, IdleProcs DEF TestSent
<1>9. ASSUME NEW a \in AlertIds, Evaluate(a) PROVE ProcInv'
  BY <1>9, ProcsStand DEF Evaluate, tunnelVars
<1>10. ASSUME NEW a \in AlertIds, DeleteAlert(a) PROVE ProcInv'
  BY <1>10, ProcsStand DEF DeleteAlert
<1>11. ASSUME NEW a \in AlertIds, TestSend(a) PROVE ProcInv'
  <2>1. /\ Begins(Page, <<a, TestBar>>) /\ <<a, TestBar>> \in Messages
        /\ UNCHANGED <<row, procs, live, running, late, stray>>
    BY <1>11, FiringsAreMessages DEF TestSend
  <2>2. ~ShutOrStarts(call[Page])
    BY <1>11 DEF TestSend, PageIdle, ShutOrStarts
  <2> QED
    BY <2>1, <2>2, CallersAre, BeginsProcs
<1>12. ASSUME NEW a \in AlertIds, NEW state \in {"on", "off"}, NEW mode \in Modes, Update(a, state, mode)
       PROVE  ProcInv'
  BY <1>12, ProcsStand DEF Update
<1>13. ASSUME NEW c \in Callers, NEW outcome, Send(c, outcome) PROVE ProcInv'
  BY <1>13, SendProcs DEF Send
<1> QED
  BY <1>1, <1>2, <1>3, <1>4, <1>5, <1>6, <1>7, <1>8, <1>9, <1>10, <1>11, <1>12, <1>13 DEF Next

-----------------------------------------------------------------------------
(* The route.                                                              *)

LEMMA SetOfSequence ==
  ASSUME NEW s \in Seq(TunnelIds)
  PROVE  /\ IsFiniteSet(ToSet(s)) /\ Cardinality(ToSet(s)) \in Nat /\ Cardinality(ToSet(s)) <= Len(s)
         /\ s # <<>> => Head(s) \in ToSet(s) /\ ToSet(Tail(s)) \subseteq ToSet(s)
<1> DEFINE n == Len(s)
<1>1. n \in Nat /\ DOMAIN s = 1..n
  OBVIOUS
<1>2. s \in Surjection(1..n, ToSet(s))
  BY <1>1 DEF ToSet, Surjection
<1>3. IsFiniteSet(1..n) /\ Cardinality(1..n) = n
  BY <1>1, FS_Interval
<1>4. IsFiniteSet(ToSet(s)) /\ Cardinality(ToSet(s)) <= n
  BY <1>2, <1>3, FS_Surjection
<1>5. ASSUME s # <<>> PROVE Head(s) \in ToSet(s) /\ ToSet(Tail(s)) \subseteq ToSet(s)
  <2>1. Head(s) = s[1] /\ 1 \in DOMAIN s
    BY <1>5
  <2>2. DOMAIN Tail(s) = 1..(n - 1) /\ \A i \in 1..(n - 1) : Tail(s)[i] = s[i + 1]
    BY <1>5, HeadTailProperties
  <2>3. \A i \in 1..(n - 1) : i + 1 \in DOMAIN s
    BY <1>1
  <2> QED
    BY <2>1, <2>2, <2>3 DEF ToSet
<1> QED
  BY <1>4, <1>5, FS_CardinalityType

LEMMA TriedGrows ==
  ASSUME NEW q, NEW m, NEW n, Tried(q, m), m \subseteq n
  PROVE  Tried(q, n)
  BY DEF Tried

\* A caller that stands still goes on as before, unless a mark was disturbed.
LEMMA SameWay ==
  ASSUME NEW c \in Callers, OnItsWay(c), call'[c] = call[c], c \in disturbed => c \in disturbed',
         mark \subseteq mark' \/ (Delivering(c) => c \in disturbed'),
         Delivering(c) => \/ c \in disturbed' \/ ToSet(route') \subseteq ToSet(route)
                          \/ ToSet(route') \subseteq ToSet(call[c].list)
  PROVE  OnItsWay(c)'
<1>1. Delivering(c)' = Delivering(c)
  BY DEF Delivering
<1>2. CASE Delivering(c) => c \in disturbed'
  BY <1>1, <1>2 DEF OnItsWay
<1>3. CASE mark \subseteq mark' /\ Delivering(c) /\ c \notin disturbed'
  <2>1. Tried(call[c], mark) => Tried(call'[c], mark')
    BY <1>3, TriedGrows
  <2>2. OnList(call[c]) => OnList(call[c])'
    BY <1>3 DEF OnList, Holding
  <2> QED
    BY <1>1, <1>3, <2>1, <2>2 DEF OnItsWay
<1> QED
  BY <1>2, <1>3

\* A caller on its way from one stage to the next.
LEMMA MovesOnItsWay ==
  ASSUME NEW c \in Callers, OnItsWay(c), route' = route, mark' = mark, disturbed' = disturbed,
         NEW q, q = call[c], NEW e, e = call'[c],
         q.at \in Trying, e.at \in Trying, e.job = q.job,
         e.list = q.list, e.pass = q.pass, e.pending = q.pending, e.result = q.result,
         ToSet(e.todo) \subseteq ToSet(q.todo) \cup ToSet(route),
         Holding(e) => (Holding(q) /\ e.t = q.t) \/ (e.t \in ToSet(q.todo) /\ e.t \notin mark),
         e.at \in {"starting", "up"} => e.pid # 0
  PROVE  OnItsWay(c)'
<1> SUFFICES ASSUME Delivering(c)' PROVE /\ OnRoute(e)
                                         /\ c \in disturbed \/ (OnList(e) /\ Tried(e, mark) /\ ServerTried(e))
  BY DEF OnItsWay, OnList
<1>1. Delivering(c) /\ OnRoute(q)
  BY DEF OnItsWay, Delivering
<1>2. OnRoute(e)
  BY <1>1 DEF OnRoute
<1>3. ServerTried(e)
  BY DEF ServerTried, Trying
<1>4. ASSUME Tried(q, mark) PROVE Tried(e, mark)
  <2>1. PICK T \in SUBSET (mark \cap ToSet(q.list)) :
          IsFiniteSet(T) /\ Cardinality(T) = q.pass - 1 /\ (Holding(q) => q.t \notin T)
    BY <1>4 DEF Tried
  <2>2. Holding(e) => e.t \notin T
    BY <2>1
  <2> QED
    BY <2>1, <2>2 DEF Tried
<1>5. OnList(q) => OnList(e)
  BY DEF OnList
<1> QED
  BY <1>1, <1>2, <1>3, <1>4, <1>5 DEF OnItsWay

\* What a step along the way does to its caller.
LEMMA StepsOnItsWay ==
  ASSUME TypeOK, NEW c \in Callers, OnItsWay(c),
         Ensure(c) \/ Listens(c) \/ NeverListens(c) \/ ReadRoute(c) \/ Resolve(c) \/ (Resolved(c) /\ Delivering(c))
  PROVE  OnItsWay(c)'
<1>r. TunnelTypes /\ call[c] \in Caller /\ procs \in Seq(TunnelIds)
  BY IsTheCallers DEF TypeOK, TunnelTypes
<1> PICK q \in Caller : q = call[c]
  BY <1>r
<1> PICK e : e = call'[c]
  OBVIOUS
<1> SUFFICES /\ route' = route /\ mark' = mark /\ disturbed' = disturbed
             /\ q.at \in Trying /\ e.at \in Trying /\ e.job = q.job
             /\ e.list = q.list /\ e.pass = q.pass /\ e.pending = q.pending /\ e.result = q.result
             /\ ToSet(e.todo) \subseteq ToSet(q.todo) \cup ToSet(route)
             /\ Holding(e) => (Holding(q) /\ e.t = q.t) \/ (e.t \in ToSet(q.todo) /\ e.t \notin mark)
             /\ e.at \in {"starting", "up"} => e.pid # 0 \/ (q.at = "starting" /\ e.pid = q.pid)
             \/ ~Delivering(c)
  <2>1. CASE ~Delivering(c)
    <3>1. SameErrand(c)
      BY <1>r, CallerErrands
    <3> QED
      BY <2>1, <3>1 DEF OnItsWay, SameErrand, Delivering
  <2>2. CASE Delivering(c)
    <3>1. q.at = "starting" => q.pid # 0
      BY <2>2 DEF OnItsWay, OnRoute
    <3> QED
      BY <2>2, <3>1, MovesOnItsWay
  <2> QED
    BY <2>1, <2>2
<1>1. CASE Ensure(c)
  <2>1. q.at = "ensure" /\ UNCHANGED <<route, mark, disturbed>>
    BY Zenon, <1>1, <1>r, EnsureIs
  <2>2. CASE Alive(call[c].t)
    <3>1. TunnelStep(c, [q EXCEPT !.at = "up", !.pid = running[q.t]]) /\ running[q.t] # 0
      BY Zenon, <1>1, <1>r, <2>2, EnsureIs DEF Alive
    <3>2. e = [q EXCEPT !.at = "up", !.pid = running[q.t]]
      BY <1>r, <3>1, CallersStand DEF TunnelStep
    <3>3. /\ e.at = "up" /\ e.pid # 0 /\ e.job = q.job /\ e.t = q.t /\ e.todo = q.todo
          /\ e.list = q.list /\ e.pass = q.pass /\ e.pending = q.pending /\ e.result = q.result
      BY <3>1, <3>2 DEF Caller
    <3> QED
      BY <2>1, <3>3 DEF Holding, Trying
  <2>3. CASE ~Alive(call[c].t)
    <3>1. TunnelStep(c, [q EXCEPT !.at = "starting", !.pid = Len(procs')]) /\ Len(procs') = Len(procs) + 1
      BY Zenon, <1>1, <1>r, <2>3, EnsureIs
    <3>2. e = [q EXCEPT !.at = "starting", !.pid = Len(procs')]
      BY <1>r, <3>1, CallersStand DEF TunnelStep
    <3>3. Len(procs') # 0
      <4>1. Len(procs) \in Nat
        BY <1>r
      <4> QED
        BY <3>1, <4>1
    <3>4. /\ e.at = "starting" /\ e.pid # 0 /\ e.job = q.job /\ e.t = q.t /\ e.todo = q.todo
          /\ e.list = q.list /\ e.pass = q.pass /\ e.pending = q.pending /\ e.result = q.result
      BY <3>2, <3>3 DEF Caller
    <3> QED
      BY <2>1, <3>4 DEF Holding, Trying
  <2> QED
    BY <2>2, <2>3
<1>2. CASE Listens(c) \/ NeverListens(c)
  <2>1. /\ q.at = "starting" /\ UNCHANGED <<route, mark, disturbed>>
        /\ Goes(c, "up") \/ Goes(c, "down")
    BY <1>2 DEF Listens, NeverListens
  <2>2. PICK stage \in {"up", "down"} : Goes(c, stage)
    BY <2>1
  <2>3. TunnelStep(c, [q EXCEPT !.at = stage])
    BY <1>r, <2>1, <2>2, WorksOn, GoesIs DEF WithATunnel, Stages, Trying
  <2>4. e = [q EXCEPT !.at = stage]
    BY <1>r, <2>3, CallersStand DEF TunnelStep
  <2>5. /\ e.at = stage /\ e.pid = q.pid /\ e.job = q.job /\ e.t = q.t /\ e.todo = q.todo
        /\ e.list = q.list /\ e.pass = q.pass /\ e.pending = q.pending /\ e.result = q.result
    BY <2>4 DEF Caller
  <2> QED
    BY <2>1, <2>5 DEF Holding, Trying
<1>3. CASE Resolve(c)
  <2>1. q.at = "resolve" /\ UNCHANGED <<route, mark, disturbed>>
    BY Zenon, <1>3, <1>r, ResolveIs
  <2>2. CASE q.todo = <<>>
    <3>1. TunnelStep(c, [q EXCEPT !.at = "send", !.pid = 0])
      BY Zenon, <1>3, <1>r, <2>2, ResolveIs
    <3>2. e = [q EXCEPT !.at = "send", !.pid = 0]
      BY <1>r, <3>1, CallersStand DEF TunnelStep
    <3>3. /\ e.at = "send" /\ e.pid = 0 /\ e.job = q.job /\ e.t = q.t /\ e.todo = q.todo
          /\ e.list = q.list /\ e.pass = q.pass /\ e.pending = q.pending /\ e.result = q.result
      BY <3>2 DEF Caller
    <3> QED
      BY <2>1, <3>3 DEF Holding, Trying
  <2>3. CASE q.todo # <<>>
    <3>1. PICK at \in {"ensure", "resolve"} :
            /\ TunnelStep(c, [q EXCEPT !.at = at, !.t = Head(q.todo), !.todo = Tail(q.todo)])
            /\ at = "ensure" => Head(q.todo) \notin mark
      BY Zenon, <1>3, <1>r, <2>3, ResolveIs
    <3>2. e = [q EXCEPT !.at = at, !.t = Head(q.todo), !.todo = Tail(q.todo)]
      BY <1>r, <3>1, CallersStand DEF TunnelStep
    <3>3. /\ e.at = at /\ e.pid = q.pid /\ e.job = q.job /\ e.t = Head(q.todo) /\ e.todo = Tail(q.todo)
          /\ e.list = q.list /\ e.pass = q.pass /\ e.pending = q.pending /\ e.result = q.result
      BY <3>2 DEF Caller
    <3>4. Head(q.todo) \in ToSet(q.todo) /\ ToSet(Tail(q.todo)) \subseteq ToSet(q.todo)
      <4>1. q.todo \in Seq(TunnelIds)
        BY DEF Caller
      <4> QED
        BY <2>3, <4>1, SetOfSequence
    <3> QED
      BY <2>1, <3>1, <3>3, <3>4 DEF Holding, Trying
  <2> QED
    BY <2>2, <2>3
<1>4. CASE Resolved(c)
  <2>1. /\ UNCHANGED <<route, mark, disturbed>>
        /\ (q.at = "up" /\ Goes(c, "send")) \/ (q.at = "down" /\ Goes(c, "resolve"))
    BY <1>4 DEF Resolved
  <2>2. PICK stage \in {"send", "resolve"} : Goes(c, stage) /\ q.at = (IF stage = "send" THEN "up" ELSE "down")
    BY <2>1
  <2>3. TunnelStep(c, [q EXCEPT !.at = stage])
    BY <1>r, <2>2, WorksOn, GoesIs DEF WithATunnel, Stages, Trying
  <2>4. e = [q EXCEPT !.at = stage]
    BY <1>r, <2>3, CallersStand DEF TunnelStep
  <2>5. /\ e.at = stage /\ e.pid = q.pid /\ e.job = q.job /\ e.t = q.t /\ e.todo = q.todo
        /\ e.list = q.list /\ e.pass = q.pass /\ e.pending = q.pending /\ e.result = q.result
    BY <2>4 DEF Caller
  <2> QED
    BY <2>1, <2>2, <2>5 DEF Holding, Trying
<1>5. CASE ReadRoute(c)
  <2>1. /\ q.at = "route" /\ UNCHANGED <<route, mark, disturbed>>
        /\ TunnelStep(c, [q EXCEPT !.at = "resolve", !.todo = route])
    BY Zenon, <1>5, <1>r, ReadRouteIs
  <2>2. e = [q EXCEPT !.at = "resolve", !.todo = route]
    BY <1>r, <2>1, CallersStand DEF TunnelStep
  <2>3. /\ e.at = "resolve" /\ e.pid = q.pid /\ e.job = q.job /\ e.t = q.t /\ e.todo = route
        /\ e.list = q.list /\ e.pass = q.pass /\ e.pending = q.pending /\ e.result = q.result
    BY <2>2 DEF Caller
  <2> QED
    BY <2>1, <2>3 DEF Holding, Trying
<1> QED
  BY <1>1, <1>2, <1>3, <1>4, <1>5

LEMMA BeginsOnItsWay ==
  ASSUME TypeOK, NEW c \in Callers, NEW what \in Messages, Begins(c, what), route' = route
  PROVE  OnItsWay(c)'
<1> PICK e : e = call'[c]
  OBVIOUS
<1>1. /\ e.at = "route" /\ e.result = NoResults /\ e.list = route /\ e.todo = <<>> /\ e.pass = 1
      /\ e.pending = Dests
  BY BeginsErrand DEF TypeOK
<1>2. OnRoute(e) /\ ServerTried(e)
  BY <1>1 DEF OnRoute, ServerTried, NoResults, Holding, Trying, InThePath
<1>3. Tried(e, mark')
  <2>1. {} \in SUBSET (mark' \cap ToSet(e.list)) /\ IsFiniteSet({}) /\ Cardinality({}) = e.pass - 1
    BY <1>1, FS_EmptySet
  <2> QED
    BY <2>1 DEF Tried
<1>4. OnList(e)
  BY <1>1 DEF OnList, Holding, ToSet
<1> QED
  BY <1>2, <1>3, <1>4 DEF OnItsWay, OnList

\* A pass that fails in the path has tried, and marks, one more tunnel of the
\* route; there are no more passes than tunnels on it, and one.
LEMMA SendsOnItsWay ==
  ASSUME TypeOK, NEW c \in Callers, NEW outcome, Sends(c, outcome), OnItsWay(c)
  PROVE  OnItsWay(c)'
<1>r. TunnelTypes /\ call[c] \in Caller
  BY IsTheCallers DEF TypeOK
<1> PICK q \in Caller : q = call[c]
  BY <1>r
<1> PICK e : e = call'[c]
  OBVIOUS
<1> DEFINE over == Again(c, outcome) = {} \/ q.pid = 0
<1>1. /\ q.at = "send" /\ e.at \in {"sent", "route"} /\ e.job = q.job
      /\ e.at = IF over \/ q.pass = MaxRouteTunnels + 1 THEN "sent" ELSE "route"
      /\ e.result = Results(c, outcome) /\ e.pending = Again(c, outcome)
      /\ e.pass = (IF over THEN q.pass ELSE q.pass + 1)
      /\ e.list = q.list /\ e.todo = q.todo /\ e.t = q.t /\ e.pid = q.pid
      /\ e.server = (IF q.pid = 0 THEN q.server \cup q.pending ELSE q.server)
  BY Zenon, <1>r, SendErrands
<1>2. mark' = (IF over THEN mark ELSE mark \cup {q.t}) /\ disturbed' = disturbed /\ route' = route
  BY Zenon DEF Sends, Marked
<1>3. /\ q.list \in Seq(TunnelIds) /\ Len(q.list) <= MaxRouteTunnels /\ Len(q.list) \in Nat
      /\ q.pass \in Nat /\ q.pending \subseteq Dests
  BY <1>r DEF TunnelTypes, IsCaller, Caller
<1> SUFFICES ASSUME Delivering(c) PROVE /\ OnRoute(e)
                                        /\ c \in disturbed \/ (/\ e.at \in Trying => OnList(e) /\ Tried(e, mark')
                                                              /\ ServerTried(e))
  BY <1>1, <1>2 DEF OnItsWay, OnList, Delivering
<1>4. OnRoute(q) /\ (c \in disturbed \/ (OnList(q) /\ Tried(q, mark) /\ ServerTried(q)))
  BY <1>1 DEF OnItsWay, Trying
<1>5. \A d \in Dests : e.result[d] = IF d \in q.pending THEN outcome[d] ELSE q.result[d]
  BY <1>1 DEF Results
<1>6. \A d \in Dests : d \in e.pending <=> d \in q.pending /\ InThePath(outcome[d])
  BY <1>1, <1>3 DEF Again
<1>7. e.pending \subseteq q.pending
  BY <1>1 DEF Again
<1>8. \A d \in Dests \ e.pending : ~InThePath(e.result[d])
  BY <1>1, <1>4, <1>5, <1>6 DEF OnRoute, Trying
<1>9. OnRoute(e)
  <2>1. \A d \in e.pending : e.result[d] \in {"none", "path", "unsure"}
    BY <1>3, <1>5, <1>6, <1>7 DEF InThePath
  <2> QED
    BY <1>1, <1>8, <2>1 DEF OnRoute, Holding, Trying
<1>10. CASE over
  <2>1. \A d \in Dests : InThePath(e.result[d]) => d \in e.pending /\ d \in q.pending
    BY <1>7, <1>8
  <2>2. \A d \in Dests : InThePath(e.result[d]) => d \in e.server
    BY <1>1, <1>10, <2>1
  <2> QED
    BY <1>1, <1>9, <1>10, <2>2 DEF ServerTried, Trying
<1>11. CASE ~over /\ c \notin disturbed
  <2>1. Holding(q) /\ q.t \in ToSet(q.list)
    BY <1>1, <1>4, <1>11 DEF Holding, OnList
  <2>2. PICK T \in SUBSET (mark \cap ToSet(q.list)) :
          IsFiniteSet(T) /\ Cardinality(T) = q.pass - 1 /\ q.t \notin T
    BY <1>4, <1>11, <2>1 DEF Tried
  <2> PICK U : U = T \cup {q.t}
    OBVIOUS
  <2>3. IsFiniteSet(U) /\ Cardinality(U) = q.pass
    <3>1. IsFiniteSet(U) /\ Cardinality(U) = Cardinality(T) + 1
      BY <2>2, FS_AddElement
    <3> QED
      BY <1>3, <2>2, <3>1
  <2>4. U \in SUBSET (mark' \cap ToSet(q.list))
    BY <1>2, <1>11, <2>1, <2>2
  <2>5. q.pass <= MaxRouteTunnels
    <3>1. IsFiniteSet(ToSet(q.list)) /\ Cardinality(ToSet(q.list)) \in Nat /\ Cardinality(ToSet(q.list)) <= Len(q.list)
      BY <1>3, SetOfSequence
    <3>2. Cardinality(U) <= Cardinality(ToSet(q.list))
      BY <2>4, <3>1, FS_Subset
    <3> QED
      BY <1>3, <2>3, <3>1, <3>2, CallersAre
  <2>6. e.at = "route"
    BY <1>1, <1>3, <1>11, <2>5, CallersAre
  <2>7. Tried(e, mark')
    BY <1>1, <1>3, <1>11, <2>3, <2>4, <2>6 DEF Tried, Holding
  <2>8. OnList(e)
    BY <1>1, <1>4, <1>11, <2>6 DEF OnList, Holding
  <2> QED
    BY <1>9, <2>6, <2>7, <2>8 DEF ServerTried
<1> QED
  BY <1>9, <1>10, <1>11

\* The steps that are nobody's way.
LEMMA LiftedWay ==
  ASSUME RouteInv, \A c \in Callers : call'[c] = call[c] \/ ~Delivering(c)', NEW S,
         mark \ S \subseteq mark', Lifting(S), route' = route
  PROVE  RouteInv'
<1> SUFFICES ASSUME NEW c \in Callers, Delivering(c)' PROVE OnItsWay(c)'
  BY DEF RouteInv, OnItsWay
<1>1. call'[c] = call[c] /\ OnItsWay(c)
  BY DEF RouteInv
<1>2. c \in disturbed => c \in disturbed'
  BY DEF Lifting
<1>3. mark \subseteq mark' \/ (Delivering(c) => c \in disturbed')
  BY DEF Lifting
<1> QED
  BY <1>1, <1>2, <1>3, SameWay

LEMMA StillWay ==
  ASSUME RouteInv, NEW c \in Callers, OnItsWay(c)', \A d \in Callers \ {c} : call'[d] = call[d],
         mark \subseteq mark', ToSet(route') \subseteq ToSet(route),
         disturbed' = disturbed \/ disturbed' = disturbed \ {c}
  PROVE  RouteInv'
<1> SUFFICES ASSUME NEW d \in Callers, d # c PROVE OnItsWay(d)'
  BY DEF RouteInv
<1>1. call'[d] = call[d] /\ OnItsWay(d) /\ (d \in disturbed => d \in disturbed')
  BY DEF RouteInv
<1> QED
  BY <1>1, SameWay

LEMMA NobodysWay ==
  ASSUME RouteInv, call' = call, mark \subseteq mark', route' = route, disturbed' = disturbed
  PROVE  RouteInv'
<1> SUFFICES ASSUME NEW c \in Callers PROVE OnItsWay(c)'
  BY DEF RouteInv
<1> QED
  BY SameWay DEF RouteInv

LEMMA IdleWay ==
  ASSUME TypeOK, NEW c \in Callers, call' = [call EXCEPT ![c] = Idle]
  PROVE  /\ ~Delivering(c)' /\ OnItsWay(c)'
         /\ \A d \in Callers \ {c} : call'[d] = call[d]
<1>1. call'[c] = Idle /\ \A d \in Callers \ {c} : call'[d] = call[d]
  BY DEF TypeOK, TunnelTypes
<1> QED
  BY <1>1 DEF Idle, Delivering, OnItsWay

LEMMA AskWay ==
  ASSUME TypeOK, RouteInv, NEW what \in Jobs, what # "deliver", NEW t \in TunnelIds,
         NEW stage \in {"shut", "ensure"}, Asks(what, t, stage), route' = route, mark' = mark, disturbed' = disturbed
  PROVE  RouteInv'
<1>1. \A d \in Callers : (d # Page /\ SameErrand(d)) \/ OtherErrand(d)
  BY AskErrands DEF TypeOK
<1>2. ~Delivering(Page)'
  BY <1>1, CallersAre DEF OtherErrand
<1>3. \A d \in Callers \ {Page} : call'[d] = call[d]
  <2>1. TunnelStep(Page, [call[Page] EXCEPT !.at = stage, !.job = what, !.t = t])
    BY Zenon, AsksIs DEF TypeOK
  <2> QED
    BY <2>1, CallersAre, CallersStand DEF TypeOK, TunnelStep
<1>4. OnItsWay(Page)'
  BY <1>2 DEF OnItsWay
<1> QED
  BY <1>3, <1>4, StillWay, CallersAre

LEMMA TunnelWay ==
  ASSUME TypeOK, RouteInv, TunnelsNext
  PROVE  RouteInv'
<1>1. ASSUME NEW c \in Callers,
             Ensure(c) \/ Listens(c) \/ NeverListens(c) \/ ReadRoute(c) \/ Resolve(c) \/ Resolved(c)
      PROVE  RouteInv'
  <2>1. \A d \in Callers \ {c} : call'[d] = call[d]
    BY <1>1, CallerErrands DEF TypeOK
  <2>2. OnItsWay(c)'
    BY <1>1, StepsOnItsWay DEF Resolved, Delivering, RouteInv
  <2>3. route' = route /\ mark' = mark /\ disturbed' = disturbed
    BY <1>1 DEF Ensure, Listens, NeverListens, ReadRoute, Resolve, Resolved
  <2> QED
    BY <2>1, <2>2, <2>3, StillWay, CallersAre
<1>2. ASSUME NEW t \in TunnelIds, Dies(t) \/ MarkEnds(t) \/ Switch(t) \/ Delete(t) \/ Test(t)
      PROVE  RouteInv'
  <2>1. CASE Dies(t)
    BY <2>1, NobodysWay DEF Dies
  <2>2. CASE MarkEnds(t)
    BY <2>2, LiftedWay DEF MarkEnds
  <2>3. CASE Switch(t)
    <3>1. CASE row[t] = "on"
      BY <2>3, <3>1, AskWay DEF Switch, Jobs
    <3>2. CASE row[t] # "on"
      BY <2>3, <3>2, NobodysWay DEF Switch
    <3> QED
      BY <3>1, <3>2
  <2>4. CASE Delete(t)
    BY <2>4, AskWay DEF Delete, Jobs
  <2>5. CASE Test(t)
    BY <2>5, AskWay DEF Test, Jobs
  <2> QED
    BY <1>2, <2>1, <2>2, <2>3, <2>4, <2>5
<1>3. ASSUME NEW s \in Routes, SetRoute(s) PROVE RouteInv'
  <2> SUFFICES ASSUME NEW c \in Callers PROVE OnItsWay(c)'
    BY DEF RouteInv
  <2>1. /\ call' = call /\ mark' = mark /\ route' = s /\ disturbed \subseteq disturbed'
        /\ Delivering(c) => c \in disturbed' \/ ToSet(s) \subseteq ToSet(call[c].list)
    BY <1>3 DEF SetRoute
  <2> QED
    BY <2>1, SameWay DEF RouteInv
<1>4. ASSUME NEW answers \in BOOLEAN, Probed(answers) PROVE RouteInv'
  <2>1. call' = [call EXCEPT ![Page] = Idle]
    BY <1>4 DEF Probed
  <2>2. OnItsWay(Page)' /\ ~Delivering(Page)' /\ \A d \in Callers \ {Page} : call'[d] = call[d]
    BY <2>1, CallersAre, IdleWay
  <2>3. /\ route' = route
        /\ \/ mark \subseteq mark' /\ disturbed' = disturbed
           \/ mark' = mark \ {call[Page].t} /\ Lifting({call[Page].t})
    BY <1>4 DEF Probed
  <2> QED
    BY <2>2, <2>3, StillWay, CallersAre, LiftedWay
<1>5. CASE Shut
  <2>1. mark' = mark \ {call[Page].t} /\ Lifting({call[Page].t}) /\ call[Page].at = "shut" /\ route' = route
    BY <1>5 DEF Shut, Stop
  <2>2. \A c \in Callers \ {Page} : call'[c] = call[c]
    <3>1. \E q : TunnelStep(Page, q)
      BY <1>5, ShutIs DEF TypeOK
    <3> QED
      BY <3>1, CallersAre, CallersStand DEF TypeOK, TunnelStep
  <2>3. ~Delivering(Page)'
    <3>1. ~Delivering(Page) /\ call[Page] \in Caller
      BY <2>1, CallersAre, DoesNotDeliver, IsTheCallers DEF TypeOK
    <3>2. PICK q : TunnelStep(Page, q) /\ (q = Idle \/ q = [call[Page] EXCEPT !.at = "delete"])
      BY <1>5, ShutIs DEF TypeOK
    <3>3. q.job # "deliver"
      BY <3>1, <3>2 DEF Idle, Caller, Delivering
    <3>4. call'[Page] = q
      BY <3>2, CallersAre, CallersStand DEF TypeOK, TunnelStep
    <3> QED
      BY <3>3, <3>4 DEF Delivering
  <2> QED
    BY <2>1, <2>2, <2>3, LiftedWay
<1>6. CASE DeleteCommit
  <2>1. call' = [call EXCEPT ![Page] = Idle] /\ mark' = mark /\ disturbed' = disturbed
    BY <1>6 DEF DeleteCommit
  <2>2. OnItsWay(Page)' /\ \A d \in Callers \ {Page} : call'[d] = call[d]
    BY <2>1, CallersAre, IdleWay
  <2>3. ToSet(route') \subseteq ToSet(route)
    BY <1>6, WithoutIsOfIt DEF DeleteCommit, TypeOK, TunnelTypes
  <2> QED
    BY <2>1, <2>2, <2>3, StillWay, CallersAre
<1> QED
  BY <1>1, <1>2, <1>3, <1>4, <1>5, <1>6 DEF TunnelsNext

LEMMA RouteKept ==
  ASSUME TypeOK, RouteInv, PassInv, Next
  PROVE  RouteInv'
<1>s. ASSUME call' = call, route' = route, mark' = mark, disturbed' = disturbed PROVE RouteInv'
  BY <1>s, NobodysWay
<1>1. CASE TunnelsNext
  BY <1>1, TunnelWay
<1>2. ASSUME NEW orderly \in BOOLEAN, CutShort(orderly) PROVE RouteInv'
  <2>1. call' = [c \in Callers |-> Idle]
    BY <1>2 DEF CutShort, Restart
  <2> QED
    BY <2>1 DEF RouteInv, OnItsWay, Delivering, Idle
<1>3. CASE BarCloses
  BY <1>3, <1>s DEF BarCloses
<1>4. CASE Due
  BY <1>4, <1>s DEF Due, tunnelVars
<1>5. CASE StartDelivery
  <2>1. /\ Begins(Runner, tick.fired[1]) /\ tick.fired[1] \in Messages
        /\ \A d \in Callers \ {Runner} : call'[d] = call[d]
        /\ UNCHANGED <<route, mark, disturbed>>
    BY <1>5, StartPass, FiringsAreMessages
  <2>2. OnItsWay(Runner)'
    BY <2>1, CallersAre, BeginsOnItsWay
  <2> QED
    BY <2>1, <2>2, StillWay, CallersAre
<1>6. CASE Delivered
  <2>1. call' = [call EXCEPT ![Runner] = Idle] /\ UNCHANGED <<route, mark>> /\ disturbed' = disturbed \ {Runner}
    BY <1>6 DEF Delivered
  <2>2. OnItsWay(Runner)' /\ \A d \in Callers \ {Runner} : call'[d] = call[d]
    BY <2>1, CallersAre, IdleWay
  <2> QED
    BY <2>1, <2>2, StillWay, CallersAre
<1>7. CASE Commit
  BY <1>7, <1>s DEF Commit, tunnelVars
<1>8. CASE TestSent
  <2>1. call' = [call EXCEPT ![Page] = Idle] /\ UNCHANGED <<route, mark>> /\ disturbed' = disturbed \ {Page}
    BY <1>8 DEF TestSent
  <2>2. OnItsWay(Page)' /\ \A d \in Callers \ {Page} : call'[d] = call[d]
    BY <2>1, CallersAre, IdleWay
  <2> QED
    BY <2>1, <2>2, StillWay, CallersAre
<1>9. ASSUME NEW a \in AlertIds, Evaluate(a) PROVE RouteInv'
  BY <1>9, <1>s DEF Evaluate, tunnelVars
<1>10. ASSUME NEW a \in AlertIds, DeleteAlert(a) PROVE RouteInv'
  BY <1>10, <1>s DEF DeleteAlert
<1>11. ASSUME NEW a \in AlertIds, TestSend(a) PROVE RouteInv'
  <2>1. /\ Begins(Page, <<a, TestBar>>) /\ <<a, TestBar>> \in Messages
        /\ UNCHANGED <<route, mark, disturbed>>
    BY <1>11, FiringsAreMessages DEF TestSend
  <2>2. OnItsWay(Page)' /\ \A d \in Callers \ {Page} : call'[d] = call[d]
    BY <2>1, CallersAre, BeginsOnItsWay, BeginsErrand DEF TypeOK
  <2> QED
    BY <2>1, <2>2, StillWay, CallersAre
<1>12. ASSUME NEW a \in AlertIds, NEW state \in {"on", "off"}, NEW mode \in Modes, Update(a, state, mode)
       PROVE  RouteInv'
  BY <1>12, <1>s DEF Update
<1>13. ASSUME NEW c \in Callers, NEW outcome, Send(c, outcome) PROVE RouteInv'
  <2>1. Sends(c, outcome)
    BY <1>13 DEF Send
  <2>2. OnItsWay(c)' /\ \A d \in Callers \ {c} : call'[d] = call[d]
    BY Zenon, <2>1, SendsOnItsWay, SendErrands DEF TypeOK, RouteInv
  <2>3. mark \subseteq mark' /\ disturbed' = disturbed /\ route' = route
    BY Zenon, <2>1 DEF Sends, Marked
  <2> QED
    BY <2>2, <2>3, StillWay, CallersAre
<1> QED
  BY <1>1, <1>2, <1>3, <1>4, <1>5, <1>6, <1>7, <1>8, <1>9, <1>10, <1>11, <1>12, <1>13 DEF Next

-----------------------------------------------------------------------------
(* What every step keeps of the runner and its pass.                       *)

LEMMA PassKept ==
  ASSUME TypeOK, RouteInv, PassInv, Next
  PROVE  PassInv'
<1>1. CASE TunnelsNext /\ UNCHANGED alertVars
  <2>1. \A d \in Callers : SameErrand(d) \/ OtherErrand(d)
    BY <1>1, TunnelErrands DEF TypeOK
  <2>2. tick' = tick
    BY <1>1 DEF alertVars
  <2> QED
    BY <2>1, <2>2, PassStands
<1>s. ASSUME call' = call, tick' = tick PROVE PassInv'
  <2>1. \A d \in Callers : SameErrand(d)
    BY <1>s, NobodysErrand
  <2> QED
    BY <1>s, <2>1, PassStands
<1>2. CASE BarCloses
  BY <1>2, <1>s DEF BarCloses
<1>3. ASSUME NEW a \in AlertIds, Evaluate(a) \/ DeleteAlert(a) \/ TestSend(a) PROVE PassInv'
  BY <1>3, <1>s, EvaluatePass, TestSendPass DEF DeleteAlert
<1>4. ASSUME NEW a \in AlertIds, NEW state \in {"on", "off"}, NEW mode \in Modes, Update(a, state, mode)
      PROVE  PassInv'
  BY <1>4, <1>s DEF Update
<1>5. ASSUME NEW c \in Callers, NEW outcome, Send(c, outcome) PROVE PassInv'
  BY <1>5, SendPass DEF Send, TypeOK
<1>6. CASE Commit
  BY <1>6, CommitPass
<1> QED
  BY <1>1, <1>2, <1>3, <1>4, <1>5, <1>6, CutPass, DuePass, StartPass, DeliveredPass, TestSentPass DEF Next

LEMMA RunnerKept ==
  ASSUME TypeOK, RunnerInv, RouteInv, PassInv, Next
  PROVE  RunnerInv'
<1>s. ASSUME call'[Runner] = call[Runner] PROVE RunnerInv'
  BY <1>s DEF RunnerInv, Delivering
<1>1. CASE TunnelsNext
  <2>1. ASSUME NEW c \in Callers,
               Ensure(c) \/ Listens(c) \/ NeverListens(c) \/ ReadRoute(c) \/ Resolve(c) \/ Resolved(c)
        PROVE  RunnerInv'
    <3>1. /\ SameErrand(Runner) /\ call[c].at # "idle"
          /\ c # Runner => call'[Runner] = call[Runner]
      BY <2>1, CallersAre, CallerErrands DEF TypeOK
    <3> QED
      BY <1>s, <3>1 DEF RunnerInv, SameErrand, Delivering
  <2>2. ASSUME NEW t \in TunnelIds, Dies(t) \/ MarkEnds(t) PROVE RunnerInv'
    BY <2>2, <1>s DEF Dies, MarkEnds
  <2>p. ASSUME NEW q, TunnelStep(Page, q) PROVE RunnerInv'
    BY <2>p, <1>s, CallersAre, RunnerIsNotThePage, CallersStand DEF TypeOK, TunnelStep
  <2>3. ASSUME NEW t \in TunnelIds, Switch(t) PROVE RunnerInv'
    <3>1. CASE row[t] = "on"
      BY Zenon, <2>3, <2>p, <3>1, AsksIs DEF Switch, Jobs, TypeOK
    <3>2. CASE row[t] # "on"
      BY <2>3, <1>s, <3>2 DEF Switch
    <3> QED
      BY <3>1, <3>2
  <2>4. ASSUME NEW t \in TunnelIds, Delete(t) PROVE RunnerInv'
    BY Zenon, <2>4, <2>p, AsksIs DEF Delete, Jobs, TypeOK
  <2>5. ASSUME NEW t \in TunnelIds, Test(t) PROVE RunnerInv'
    BY Zenon, <2>5, <2>p, AsksIs DEF Test, Jobs, TypeOK
  <2>6. ASSUME NEW s \in Routes, SetRoute(s) PROVE RunnerInv'
    BY <2>6, <1>s DEF SetRoute
  <2>7. ASSUME NEW answers \in BOOLEAN, Probed(answers) PROVE RunnerInv'
    BY <2>7, <2>p, CallersAre, IdlesIs DEF Probed, TypeOK
  <2>8. CASE Shut
    BY <2>8, <2>p, ShutIs DEF TypeOK
  <2>9. CASE DeleteCommit
    BY <2>9, <2>p, CallersAre, IdlesIs DEF DeleteCommit, TypeOK
  <2> QED
    BY <1>1, <2>1, <2>2, <2>3, <2>4, <2>5, <2>6, <2>7, <2>8, <2>9 DEF TunnelsNext
<1>2. ASSUME NEW orderly \in BOOLEAN, CutShort(orderly) PROVE RunnerInv'
  BY <1>2, CallersAre DEF CutShort, Restart, RunnerInv, Idle
<1>3. CASE BarCloses \/ Due
  BY <1>3, <1>s DEF BarCloses, Due, tunnelVars
<1>4. CASE StartDelivery
  BY <1>4, StartPass DEF RunnerInv
<1>5. CASE Delivered
  <2>1. call'[Runner] = Idle
    BY <1>5, CallersAre DEF Delivered, TypeOK, TunnelTypes
  <2> QED
    BY <2>1 DEF RunnerInv, Idle
<1>6. CASE Commit
  BY <1>6, <1>s DEF Commit, tunnelVars
<1>7. CASE TestSent
  BY <1>7, <1>s, TestSentPass
<1>8. ASSUME NEW a \in AlertIds, Evaluate(a) \/ DeleteAlert(a) \/ TestSend(a) PROVE RunnerInv'
  BY <1>8, <1>s, TestSendPass DEF Evaluate, DeleteAlert, tunnelVars
<1>9. ASSUME NEW a \in AlertIds, NEW state \in {"on", "off"}, NEW mode \in Modes, Update(a, state, mode)
      PROVE  RunnerInv'
  BY <1>9, <1>s DEF Update
<1>10. ASSUME NEW c \in Callers, NEW outcome, Send(c, outcome) PROVE RunnerInv'
  <2>1. /\ call[c].at = "send" /\ call'[c].job = call[c].job
        /\ c # Runner => call'[Runner] = call[Runner]
    BY Zenon, <1>10, CallersAre, SendErrands DEF TypeOK, Send
  <2> QED
    BY <1>s, <2>1 DEF RunnerInv, Delivering
<1> QED
  BY <1>1, <1>2, <1>3, <1>4, <1>5, <1>6, <1>7, <1>8, <1>9, <1>10 DEF Next

Core == TypeOK /\ RunnerInv /\ ProcInv /\ RouteInv /\ PassInv

LEMMA CoreAtFirst == Init => Core
<1> SUFFICES ASSUME Init PROVE Core
  OBVIOUS
<1>1. /\ row = [t \in TunnelIds |-> "on"] /\ route \in Routes
      /\ procs = <<>> /\ live = {} /\ running = [t \in TunnelIds |-> 0] /\ mark = {}
      /\ call = [c \in Callers |-> Idle]
      /\ bar = 0 /\ holds \in [AlertIds -> SUBSET Bars]
      /\ alert \in [AlertIds -> [state : {"on"}, mode : Modes, lastBar : {0}, count : {0}]]
      /\ tick = Resting /\ events = {}
      /\ took = [a \in AlertIds |-> [b \in Bars |-> [d \in Dests |-> 0]]]
      /\ modes = [a \in AlertIds |-> {alert[a].mode}]
  BY DEF Init, TunnelsInit
<1>2. ~InPass
  BY <1>1 DEF InPass, Resting
<1>3. TunnelTypes
  <2>1. /\ procs \in Seq(TunnelIds) /\ live \subseteq DOMAIN procs /\ mark \subseteq TunnelIds
        /\ running \in [TunnelIds -> Nat] /\ row \in [TunnelIds -> RowStates]
    BY <1>1 DEF RowStates
  <2>2. DOMAIN call = Callers /\ call = [c \in Callers |-> call[c]] /\ \A c \in Callers : IsCaller(call[c])
    BY <1>1, IdleIsACaller
  <2>3. route \in Seq(TunnelIds) /\ Len(route) <= MaxRouteTunnels
    BY <1>1, RoutesAreShort
  <2> QED
    BY <2>1, <2>2, <2>3 DEF TunnelTypes
<1>4. AlertTypes
  <2>1. bar \in 0..MaxBar
    BY <1>1, BarsAre
  <2>2. alert \in [AlertIds -> AlertRow]
    <3>1. [state : {"on"}, mode : Modes, lastBar : {0}, count : {0}] \subseteq AlertRow
      BY BarsAre DEF AlertRow, RowStates
    <3> QED
      BY <1>1, <3>1
  <2>3. took \in [AlertIds -> [Bars -> [Dests -> 0..2]]]
    BY <1>1
  <2>4. modes \in [AlertIds -> SUBSET Modes]
    BY <1>1
  <2> QED
    BY <1>1, <1>2, <2>1, <2>2, <2>3, <2>4 DEF AlertTypes
<1>5. \A c \in Callers : call[c].at = "idle" /\ ~Delivering(c) /\ call[c].what = NoMessage
  BY <1>1 DEF Idle, Delivering
<1>6. RunnerInv /\ RouteInv /\ PassInv
  BY <1>2, <1>5, CallersAre DEF RunnerInv, RouteInv, OnItsWay, PassInv
<1>7. ProcInv
  BY <1>1, <1>5 DEF ProcInv, StartIsSole, Starts, RunningIsKnown, LiveIsKnown, OffMeansStopped
<1> QED
  BY <1>3, <1>4, <1>6, <1>7 DEF Core, TypeOK

LEMMA CoreStands ==
  ASSUME Core, UNCHANGED vars
  PROVE  Core'
<1> USE DEF vars, tunnelVars, alertVars
<1>1. TypeOK'
  BY SameTunnels, SameAlerts DEF Core, TypeOK
<1>2. ProcInv'
  BY ProcsStand DEF Core
<1>3. RouteInv'
  BY NobodysWay DEF Core
<1>4. PassInv'
  BY NobodysErrand, PassStands DEF Core
<1>5. RunnerInv'
  BY DEF Core, RunnerInv, Delivering
<1> QED
  BY <1>1, <1>2, <1>3, <1>4, <1>5 DEF Core

LEMMA CoreKept ==
  ASSUME Core, Next
  PROVE  Core'
  BY TunnelTypesKept, AlertTypesKept, RunnerKept, ProcsKept, RouteKept, PassKept DEF Core, TypeOK

LEMMA CoreAlways == Spec => []Core
<1>1. Init => Core
  BY CoreAtFirst
<1>2. Core /\ [Next]_vars => Core'
  BY CoreStands, CoreKept
<1> QED
  BY <1>1, <1>2, PTL DEF Spec

(* Types, for what the tunnels and the alerts keep.                        *)
THEOREM TypeCorrect == Spec => []TypeOK
<1>1. Core => TypeOK
  BY DEF Core
<1> QED
  BY <1>1, CoreAlways, PTL

(* services/tunnels.py: a tunnel that was switched off or deleted has no   *)
(* process left, but for those the model excepts by name.                  *)
THEOREM OffAlwaysMeansStopped == Spec => []OffMeansStopped
<1>1. Core => OffMeansStopped
  BY DEF Core, ProcInv
<1> QED
  BY <1>1, CoreAlways, PTL

(* services/routing.py: nobody is given up on before the server's own      *)
(* route was tried, unless a mark was lifted or a tunnel added meanwhile:  *)
(* until then every pass goes by a tunnel of the first route, unmarked     *)
(* before and marked after.                                                *)
THEOREM ServerAlwaysTriedLast == Spec => []ServerTriedLast
<1>1. Core => ServerTriedLast
  BY DEF Core, RouteInv, OnItsWay, ServerTried, ServerTriedLast
<1> QED
  BY <1>1, CoreAlways, PTL

-----------------------------------------------------------------------------
(* What the steps do to the alerts, their rows and the runner's errand.    *)

RunnerSame ==
  UnderWay' = UnderWay /\ call'[Runner].what = call[Runner].what /\ call'[Runner].result = call[Runner].result

\* A step that has nothing to do with what is taken of the alerts.
Quiet ==
  /\ RunnerSame /\ UNCHANGED <<alert, tick, cut, modes>>
  /\ bar' = bar \/ bar' = bar + 1
  /\ \A a \in AlertIds, b \in Bars, d \in Dests : took'[a][b][d] = took[a][b][d]
  /\ unanswered \subseteq unanswered'
  /\ events' = events \/ \E x \in AlertIds : \E r : events' = events \cup {Event(x, TestBar, r)}

(* A message of the runner goes out: what it is of, who takes it, and what  *)
(* is heard of that.                                                        *)
HeardOf(a, b, d, outcome) ==
  /\ d \in Takers(outcome) => /\ call[Runner].result[d] # "sent"
                              /\ call'[Runner].result[d] = "sent" \/ <<a, b, d>> \in unanswered'
  /\ call[Runner].result[d] = "sent" => call'[Runner].result[d] = "sent"
  /\ call'[Runner].result[d] = "sent" =>
       call[Runner].result[d] = "sent" \/ d \in Takers(outcome) \cup Unwired
RunnerSends(a, b, outcome) ==
  /\ a \in AlertIds /\ b \in Bars /\ InPass /\ UnderWay /\ UnderWay'
  /\ tick.fired # <<>> /\ tick.fired[1] = <<a, b>> /\ Queued(a, b)
  /\ call[Runner].what = <<a, b>> /\ call'[Runner].what = <<a, b>>
  /\ \A d \in Dests : HeardOf(a, b, d, outcome)
  /\ unanswered \subseteq unanswered'
  /\ \A x \in AlertIds, y \in Bars, d \in Dests :
       took'[x][y][d] = IF x = a /\ y = b /\ d \in Takers(outcome) /\ took[x][y][d] < 2
                        THEN took[x][y][d] + 1 ELSE took[x][y][d]
  /\ UNCHANGED <<bar, alert, tick, events, cut, modes>>

LEMMA SendKinds ==
  ASSUME TypeOK, RunnerInv, RouteInv, PassInv, NEW c \in Callers,
         NEW outcome \in [call[c].pending -> {"sent", "refused", "path", "unsure"}], Send(c, outcome)
  PROVE  Quiet \/ \E a \in AlertIds, b \in Bars : RunnerSends(a, b, outcome)
<1>1. /\ \A a \in AlertIds, b \in Bars, d \in Dests :
              took'[a][b][d] = IF call[c].what = <<a, b>> /\ d \in Takers(outcome) /\ took[a][b][d] < 2
                               THEN took[a][b][d] + 1 ELSE took[a][b][d]
      /\ \A a \in AlertIds, b \in Bars, d \in Dests :
           call[c].what = <<a, b>> /\ d \in Takers(outcome) /\ outcome[d] = "unsure" => <<a, b, d>> \in unanswered'
      /\ unanswered \subseteq unanswered'
      /\ UNCHANGED <<bar, alert, tick, events, cut, modes>>
  BY SendTook DEF TypeOK
<1>2. Sends(c, outcome)
  BY DEF Send
<1>3. /\ UnderWay' = UnderWay /\ call'[Runner].what = call[Runner].what
      /\ \A d \in Callers \ {c} : call'[d] = call[d]
      /\ call[c].at = "send" /\ call'[c].result = Results(c, outcome)
  BY <1>1, <1>2, SendPass, SendErrands DEF TypeOK
<1>4. CASE c # Runner
  <2>1. \A a \in AlertIds, b \in Bars : call[c].what # <<a, b>>
    <3>1. CASE Delivering(c)
      <4>1. call[c].what \in AlertIds \X {TestBar}
        BY <1>4, <3>1 DEF PassInv
      <4> QED
        BY <4>1, BarsAre
    <3>2. CASE ~Delivering(c)
      <4>1. call[c].what = <<>>
        BY <3>2 DEF PassInv, NoMessage
      <4> QED
        BY <4>1
    <3> QED
      BY <3>1, <3>2
  <2>2. RunnerSame
    BY <1>3, <1>4, CallersAre DEF RunnerSame
  <2> QED
    BY <1>1, <2>1, <2>2 DEF Quiet
<1>5. CASE c = Runner
  <2>1. Delivering(Runner) /\ UnderWay /\ InPass /\ tick.fired # <<>> /\ call[Runner].what = tick.fired[1]
    BY <1>3, <1>5 DEF RunnerInv, UnderWay, PassInv
  <2>2. tick.fired \in Seq(Firings)
    BY <2>1, PassIs DEF TypeOK
  <2>3. 1 \in DOMAIN tick.fired /\ tick.fired[1] \in AlertIds \X Bars
    BY <2>1, <2>2 DEF Firings
  <2>4. PICK a \in AlertIds, b \in Bars : tick.fired[1] = <<a, b>>
    BY <2>3
  <2>5. Queued(a, b)
    BY <2>3, <2>4 DEF Queued
  <2>6. OnRoute(call[Runner]) /\ call[Runner].at \in Trying
    BY <1>3, <1>5, <2>1, CallersAre DEF RouteInv, OnItsWay, Trying
  <2>7. \A d : (d \in Takers(outcome))
                 <=> (d \in call[Runner].pending \ Unwired /\ (outcome[d] = "sent" \/ outcome[d] = "unsure"))
    BY <1>5 DEF Takers
  <2>8. \A d \in Dests : HeardOf(a, b, d, outcome)
    <3> SUFFICES ASSUME NEW d \in Dests PROVE HeardOf(a, b, d, outcome)
      OBVIOUS
    <3>1. call'[Runner].result[d] = IF d \in call[Runner].pending THEN outcome[d] ELSE call[Runner].result[d]
      BY <1>3, <1>5 DEF Results
    <3>2. d \in call[Runner].pending => call[Runner].result[d] \in {"none", "path", "unsure"}
      BY <2>6 DEF OnRoute
    <3>3. d \in Takers(outcome) /\ outcome[d] = "unsure" => <<a, b, d>> \in unanswered'
      BY <1>1, <1>5, <2>1, <2>4
    <3> QED
      BY <2>7, <3>1, <3>2, <3>3 DEF HeardOf
  <2>9. \A x \in AlertIds, y \in Bars : call[Runner].what = <<x, y>> <=> x = a /\ y = b
    BY <2>1, <2>4
  <2>10. \A x \in AlertIds, y \in Bars, d \in Dests :
           took'[x][y][d] = IF x = a /\ y = b /\ d \in Takers(outcome) /\ took[x][y][d] < 2
                            THEN took[x][y][d] + 1 ELSE took[x][y][d]
    BY <1>1, <1>5, <2>9
  <2> QED
    BY <1>1, <1>3, <1>5, <2>1, <2>4, <2>5, <2>8, <2>10 DEF RunnerSends
<1> QED
  BY <1>4, <1>5

LEMMA Kinds ==
  ASSUME TypeOK, RunnerInv, RouteInv, PassInv, Next
  PROVE  \/ Quiet
         \/ \E orderly \in BOOLEAN : CutShort(orderly)
         \/ Due \/ StartDelivery \/ Delivered \/ Commit
         \/ \E a \in AlertIds : Evaluate(a) \/ DeleteAlert(a)
         \/ \E a \in AlertIds, state \in {"on", "off"}, mode \in Modes : Update(a, state, mode)
         \/ \E a \in AlertIds, b \in Bars : \E outcome : RunnerSends(a, b, outcome)
<1>1. CASE TunnelsNext /\ UNCHANGED alertVars
  <2>1. \A d \in Callers : SameErrand(d) \/ OtherErrand(d)
    BY <1>1, TunnelErrands DEF TypeOK
  <2>2. RunnerSame
    BY <1>1, <2>1, PassStands DEF alertVars, RunnerSame
  <2> QED
    BY <1>1, <2>2 DEF alertVars, Quiet
<1>2. CASE BarCloses
  <2>1. RunnerSame
    BY <1>2 DEF BarCloses, RunnerSame, UnderWay, Delivering
  <2> QED
    BY <1>2, <2>1 DEF BarCloses, Quiet
<1>3. ASSUME NEW a \in AlertIds, TestSend(a) PROVE Quiet
  <2>1. RunnerSame
    BY <1>3, TestSendPass DEF RunnerSame
  <2> QED
    BY <1>3, <2>1 DEF TestSend, alertVars, Quiet
<1>4. CASE TestSent
  <2>1. RunnerSame /\ call[Page].what \in AlertIds \X {TestBar}
    BY <1>4, TestSentPass DEF RunnerSame
  <2>2. call[Page].what[1] \in AlertIds
    BY <2>1
  <2> QED
    BY <1>4, <2>1, <2>2 DEF TestSent, Quiet
<1>5. ASSUME NEW c \in Callers,
             NEW outcome \in [call[c].pending -> {"sent", "refused", "path", "unsure"}], Send(c, outcome)
      PROVE  Quiet \/ \E a \in AlertIds, b \in Bars : RunnerSends(a, b, outcome)
  BY <1>5, SendKinds
<1> QED
  BY <1>1, <1>2, <1>3, <1>4, <1>5 DEF Next

-----------------------------------------------------------------------------
(* The rows.                                                               *)

LEMMA RowsAre ==
  ASSUME AlertTypes, NEW a \in AlertIds
  PROVE  /\ bar \in Nat /\ alert[a].lastBar \in Nat /\ alert[a].count \in {0, 1} /\ alert[a].mode \in Modes
         /\ InPass => /\ tick.rows[a].lastBar \in Nat /\ tick.rows[a].count \in {0, 1}
                      /\ tick.rows[a].mode \in Modes
<1>1. bar \in 0..MaxBar /\ alert[a] \in AlertRow
  BY DEF AlertTypes
<1>2. InPass => tick.rows[a] \in AlertRow
  BY PassIs
<1> QED
  BY <1>1, <1>2, BarsAre DEF AlertRow

RowsInv == \A a \in AlertIds : RowInv(a)

LEMMA RowsKept ==
  ASSUME TypeOK, RunnerInv, RouteInv, PassInv, RowsInv, Next
  PROVE  RowsInv'
<1>t. AlertTypes
  BY DEF TypeOK
<1> SUFFICES ASSUME NEW a \in AlertIds PROVE RowInv(a)'
  BY DEF RowsInv
<1>r. /\ bar \in Nat /\ alert[a].lastBar \in Nat /\ alert[a].count \in {0, 1}
      /\ InPass => tick.rows[a].lastBar \in Nat /\ tick.rows[a].count \in {0, 1}
      /\ RowInv(a)
  BY <1>t, RowsAre DEF RowsInv
<1>s. ASSUME UNCHANGED <<alert, tick, modes>>, bar' = bar \/ bar' = bar + 1 PROVE RowInv(a)'
  <2>1. InPass' = InPass /\ \A b : FiredInPass(a, b)' = FiredInPass(a, b)
    BY <1>s DEF InPass, FiredInPass, Queued
  <2> QED
    BY <1>r, <1>s, <2>1 DEF RowInv
<1>1. CASE Quiet
  BY <1>1, <1>s DEF Quiet
<1>2. ASSUME NEW orderly \in BOOLEAN, CutShort(orderly) PROVE RowInv(a)'
  BY <1>2, <1>r, CutPass DEF CutShort, RowInv
<1>3. CASE Due
  <2>1. \A b : ~FiredInPass(a, b)'
    BY <1>3, DuePass
  <2> QED
    BY <1>3, <1>t, <1>r, <2>1, DueIs DEF RowInv
<1>4. CASE StartDelivery
  BY <1>4, <1>s DEF StartDelivery, alertVars
<1>5. CASE Delivered
  <2>1. /\ InPass /\ InPass' /\ tick'.rows = tick.rows /\ \A b : FiredInPass(a, b)' = FiredInPass(a, b)
        /\ UNCHANGED <<bar, alert, modes>>
    BY <1>5, DeliveredPass, DeliveredIs
  <2> QED
    BY <1>r, <2>1 DEF RowInv
<1>6. CASE Commit
  <2>1. InPass /\ ~InPass' /\ UNCHANGED <<bar, modes>>
    BY Zenon, <1>6, CommitIs
  <2>2. CASE UNCHANGED alert
    BY <1>r, <2>1, <2>2 DEF RowInv
  <2>3. CASE alert' = [x \in AlertIds |->
                     [alert[x] EXCEPT !.lastBar = tick.rows[x].lastBar, !.count = tick.rows[x].count]]
    <3>1. alert[a] \in AlertRow /\ tick.rows[a] \in AlertRow
      BY <1>t, <2>1, PassIs DEF AlertTypes
    <3>2. alert'[a].lastBar = tick.rows[a].lastBar /\ alert'[a].mode = alert[a].mode
      BY Zenon, <2>3, <3>1, RecordedRow
    <3> QED
      BY <1>r, <2>1, <3>2 DEF RowInv
  <2> QED
    BY Zenon, <1>6, <2>2, <2>3, CommitIs
<1>7. ASSUME NEW x \in AlertIds, Evaluate(x) PROVE RowInv(a)'
  <2>1. /\ InPass /\ InPass' /\ UNCHANGED <<bar, alert, modes>>
        /\ \/ tick'.rows = [tick.rows EXCEPT ![x] = Fired(tick.rows[x], bar)]
           \/ tick'.rows = tick.rows /\ tick'.fired = tick.fired /\ tick'.sent = tick.sent
    BY <1>7, <1>t, EvaluateIs
  <2>2. \A y, b : FiredInPass(y, b)' => FiredInPass(y, b) \/ (y = x /\ b = bar)
    BY <1>7, EvaluatePass
  <2>3. CASE tick'.rows = tick.rows /\ tick'.fired = tick.fired /\ tick'.sent = tick.sent
    <3>1. \A b : FiredInPass(a, b)' = FiredInPass(a, b)
      BY <2>3 DEF FiredInPass, Queued
    <3> QED
      BY <1>r, <2>1, <2>3, <3>1 DEF RowInv
  <2>4. CASE tick'.rows = [tick.rows EXCEPT ![x] = Fired(tick.rows[x], bar)]
    <3>1. tick.rows \in [AlertIds -> AlertRow] /\ bar \in 0..MaxBar
      BY <1>t, <2>1, PassIs DEF AlertTypes
    <3>2. CASE a # x
      <4>1. tick'.rows[a] = tick.rows[a] /\ \A b : FiredInPass(a, b)' => FiredInPass(a, b)
        BY <2>2, <2>4, <3>1, <3>2
      <4> QED
        BY <1>r, <2>1, <4>1 DEF RowInv
    <3>3. CASE a = x
      <4>1. tick'.rows[a].lastBar = bar /\ tick'.rows[a].count = 1 /\ tick'.rows[a].mode = tick.rows[a].mode
        BY <2>4, <3>1, <3>3, RowType
      <4>2. \A b \in Bars : FiredInPass(a, b)' => b <= bar
        BY <1>r, <2>1, <2>2, BarsAre DEF RowInv, Bars
      <4> QED
        BY <1>r, <2>1, <4>1, <4>2 DEF RowInv
    <3> QED
      BY <3>2, <3>3
  <2> QED
    BY <2>1, <2>3, <2>4
<1>8. ASSUME NEW x \in AlertIds, DeleteAlert(x) PROVE RowInv(a)'
  <2>1. /\ alert'[a].lastBar = alert[a].lastBar /\ alert'[a].count = alert[a].count
        /\ alert'[a].mode = alert[a].mode
        /\ UNCHANGED <<bar, tick, modes>>
    BY <1>8, <1>t, DeleteAlertIs
  <2>2. InPass' = InPass /\ \A b : FiredInPass(a, b)' = FiredInPass(a, b)
    BY <2>1 DEF InPass, FiredInPass, Queued
  <2> QED
    BY <1>r, <2>1, <2>2 DEF RowInv
<1>9. ASSUME NEW x \in AlertIds, NEW state \in {"on", "off"}, NEW mode \in Modes, Update(x, state, mode)
      PROVE  RowInv(a)'
  <2>1. /\ alert'[a].lastBar = alert[a].lastBar /\ alert'[a].count = alert[a].count
        /\ modes' = [modes EXCEPT ![x] = modes[x] \cup {mode}]
        /\ a = x => alert'[a].mode = mode
        /\ a # x => alert'[a].mode = alert[a].mode
        /\ UNCHANGED <<bar, tick>>
    BY <1>9, <1>t, UpdateIs
  <2>2. modes[a] \subseteq modes'[a] /\ (a = x => mode \in modes'[a])
    BY <1>t, <2>1 DEF AlertTypes
  <2>3. InPass' = InPass /\ \A b : FiredInPass(a, b)' = FiredInPass(a, b)
    BY <2>1 DEF InPass, FiredInPass, Queued
  <2> QED
    BY <1>r, <2>1, <2>2, <2>3 DEF RowInv
<1>10. ASSUME NEW x \in AlertIds, NEW y \in Bars, NEW outcome, RunnerSends(x, y, outcome) PROVE RowInv(a)'
  BY <1>10, <1>s DEF RunnerSends
<1> QED
  BY <1>1, <1>2, <1>3, <1>4, <1>5, <1>6, <1>7, <1>8, <1>9, <1>10, Kinds

-----------------------------------------------------------------------------
(* Once for the bar.                                                       *)

LEMMA HistoriesGrow ==
  ASSUME TypeOK, RunnerInv, RouteInv, PassInv, Next
  PROVE  cut \subseteq cut' /\ unanswered \subseteq unanswered' /\ \A a \in AlertIds : modes[a] \subseteq modes'[a]
<1>1. CASE Quiet \/ Due \/ StartDelivery \/ Delivered \/ Commit
  BY Zenon, <1>1 DEF Quiet, Due, StartDelivery, Delivered, Commit, alertVars
<1>2. ASSUME NEW orderly \in BOOLEAN, CutShort(orderly)
      PROVE  cut \subseteq cut' /\ unanswered \subseteq unanswered' /\ \A a \in AlertIds : modes[a] \subseteq modes'[a]
  BY <1>2 DEF CutShort
<1>3. ASSUME NEW a \in AlertIds, Evaluate(a) \/ DeleteAlert(a)
      PROVE  cut \subseteq cut' /\ unanswered \subseteq unanswered' /\ \A x \in AlertIds : modes[x] \subseteq modes'[x]
  BY <1>3 DEF Evaluate, DeleteAlert
<1>4. ASSUME NEW x \in AlertIds, NEW state \in {"on", "off"}, NEW mode \in Modes, Update(x, state, mode)
      PROVE  cut \subseteq cut' /\ unanswered \subseteq unanswered' /\ \A a \in AlertIds : modes[a] \subseteq modes'[a]
  <2>1. UNCHANGED <<cut, unanswered>> /\ modes' = [modes EXCEPT ![x] = modes[x] \cup {mode}] /\ DOMAIN modes = AlertIds
    BY <1>4 DEF Update, TypeOK, AlertTypes
  <2> QED
    BY <2>1
<1>5. ASSUME NEW x \in AlertIds, NEW y \in Bars, NEW outcome, RunnerSends(x, y, outcome)
      PROVE  cut \subseteq cut' /\ unanswered \subseteq unanswered' /\ \A a \in AlertIds : modes[a] \subseteq modes'[a]
  BY <1>5 DEF RunnerSends
<1> QED
  BY <1>1, <1>2, <1>3, <1>4, <1>5, Kinds

\* Where the row may fire, nothing was taken of the bar, nor, if the alert
\* fires once, of any other.
LEMMA MayFireUntold ==
  ASSUME TypeOK, PassInv, RowsInv, OnceInv, NEW a \in AlertIds, Kept(a), InPass, a \in tick.todo,
         bar \in Bars, MayFire(tick.rows[a], bar), NEW d \in Dests
  PROVE  ~Took(a, bar, d) /\ OnlyOne(a, bar, d)
<1>r. /\ bar \in Nat /\ alert[a].lastBar \in Nat /\ alert[a].count \in {0, 1}
      /\ tick.rows[a].lastBar \in Nat /\ tick.rows[a].count \in {0, 1} /\ tick.rows[a].mode \in Modes
      /\ RowInv(a)
  BY RowsAre DEF RowsInv, TypeOK
<1>1. /\ tick.rows[a].lastBar <= bar /\ tick.rows[a].mode \in modes[a]
      /\ alert[a].lastBar <= tick.rows[a].lastBar /\ alert[a].count <= tick.rows[a].count
  BY <1>r DEF RowInv
<1>2. tick.rows[a].mode \in {"once", "once_per_bar"} /\ (modes[a] = {"once"} => tick.rows[a].mode = "once")
  BY <1>r, <1>1, AlertsAssumption DEF Kept
<1>3. \A x \in Bars : ~FiredInPass(a, x)
  BY DEF PassInv
<1>4. \A x \in Bars : Noted(a, x) => x <= alert[a].lastBar /\ alert[a].count = 1
  <2> SUFFICES ASSUME NEW x \in Bars, Noted(a, x) PROVE x <= alert[a].lastBar /\ alert[a].count = 1
    OBVIOUS
  <2>1. <<a, x>> \notin tick.sent
    BY <1>3 DEF FiredInPass
  <2>2. ~(UnderWay /\ call[Runner].what = <<a, x>>)
    <3> SUFFICES ASSUME UnderWay, call[Runner].what = <<a, x>> PROVE FALSE
      OBVIOUS
    <3>1. tick.fired # <<>> /\ tick.fired[1] = <<a, x>> /\ tick.fired \in Seq(Firings)
      BY PassIs DEF PassInv, UnderWay, TypeOK
    <3>2. 1 \in DOMAIN tick.fired
      BY <3>1
    <3> QED
      BY <1>3, <3>1, <3>2 DEF FiredInPass, Queued
  <2> QED
    BY <2>1, <2>2 DEF Noted
<1>5. \A x \in Bars : Took(a, x, d) => x <= alert[a].lastBar /\ alert[a].count = 1
  BY <1>4 DEF OnceInv
<1>6. ~Took(a, bar, d)
  <2> SUFFICES ASSUME Took(a, bar, d) PROVE FALSE
    OBVIOUS
  <2>1. tick.rows[a].lastBar = bar /\ tick.rows[a].count = 1
    BY <1>r, <1>1, <1>5
  <2> QED
    BY <1>2, <2>1 DEF MayFire
<1>7. modes[a] = {"once"} => \A x \in Bars : ~Took(a, x, d)
  <2> SUFFICES ASSUME modes[a] = {"once"}, NEW x \in Bars, Took(a, x, d) PROVE FALSE
    OBVIOUS
  <2>1. tick.rows[a].count = 1
    BY <1>r, <1>1, <1>5
  <2> QED
    BY <1>2, <2>1 DEF MayFire
<1> QED
  BY <1>6, <1>7 DEF OnlyOne

LEMMA OnceKept ==
  ASSUME TypeOK, RunnerInv, RouteInv, PassInv, RowsInv, OnceInv, Next
  PROVE  OnceInv'
<1>t. AlertTypes
  BY DEF TypeOK
<1> SUFFICES ASSUME NEW a \in AlertIds, Kept(a)', NEW b \in Bars, NEW d \in Dests
             PROVE  /\ Took(a, b, d)' => Noted(a, b)'
                    /\ InPass' => Fresh(a, b, d)' /\ (Queued(a, b)' => OnlyOne(a, b, d)')
  BY DEF OnceInv
<1>h. cut \subseteq cut' /\ unanswered \subseteq unanswered' /\ modes[a] \subseteq modes'[a]
  BY HistoriesGrow
<1>k. Kept(a)
  BY <1>h DEF Kept
<1>m. modes'[a] = {"once"} => modes[a] = {"once"}
  <2>1. alert[a].mode \in modes[a]
    BY DEF RowsInv, RowInv
  <2> QED
    BY <1>h, <2>1
<1>p. /\ \A x \in Bars : Took(a, x, d) => Noted(a, x)
      /\ InPass => \A x \in Bars : Fresh(a, x, d) /\ (Queued(a, x) => OnlyOne(a, x, d))
  BY <1>k DEF OnceInv
<1>o. ASSUME \A x \in Bars : took'[a][x][d] = took[a][x][d]
      PROVE  /\ \A x \in Bars : Took(a, x, d)' <=> Took(a, x, d)
             /\ OnlyOne(a, b, d) => OnlyOne(a, b, d)'
  BY <1>m, <1>o DEF Took, OnlyOne
<1>s. ASSUME RunnerSame, tick' = tick, \A x \in Bars : took'[a][x][d] = took[a][x][d],
             alert'[a].lastBar = alert[a].lastBar, alert'[a].count = alert[a].count
      PROVE  /\ Took(a, b, d)' => Noted(a, b)'
             /\ InPass' => Fresh(a, b, d)' /\ (Queued(a, b)' => OnlyOne(a, b, d)')
  <2>1. InPass' = InPass /\ Queued(a, b)' = Queued(a, b)
    BY <1>s DEF InPass, Queued
  <2>2. /\ Took(a, b, d)' <=> Took(a, b, d)
        /\ OnlyOne(a, b, d) => OnlyOne(a, b, d)'
    BY <1>o, <1>s
  <2>3. Noted(a, b) => Noted(a, b)'
    BY <1>s, <2>1 DEF Noted, RunnerSame
  <2>4. Fresh(a, b, d) => Fresh(a, b, d)'
    BY <1>h, <1>s, <2>1, <2>2 DEF Fresh, RunnerSame
  <2> QED
    BY <1>p, <2>1, <2>2, <2>3, <2>4
<1>1. CASE Quiet
  BY <1>1, <1>s DEF Quiet
<1>2. ASSUME NEW orderly \in BOOLEAN, CutShort(orderly)
      PROVE  (Took(a, b, d)' => Noted(a, b)') /\ ~InPass'
  <2>1. /\ ~InPass' /\ UNCHANGED <<alert, took>>
        /\ tick # Resting => tick.sent \subseteq cut' /\ (Delivering(Runner) => call[Runner].what \in cut')
    BY <1>2, CutPass DEF CutShort
  <2>2. InPass => tick # Resting
    BY DEF InPass, Resting
  <2>3. <<a, b>> \notin cut'
    BY DEF Kept
  <2>4. Noted(a, b) => b <= alert[a].lastBar /\ alert[a].count = 1
    BY <2>1, <2>2, <2>3 DEF Noted, UnderWay
  <2> QED
    BY <1>p, <2>1, <2>4 DEF Took, Noted
<1>3. CASE Due
  <2>1. ~InPass /\ tick'.fired = <<>> /\ UNCHANGED <<alert, took, modes>>
    BY <1>3, <1>t, DueIs
  <2>2. ~Queued(a, b)'
    BY <2>1 DEF Queued
  <2> QED
    BY <1>p, <2>1, <2>2 DEF Noted, Fresh, Took
<1>4. CASE StartDelivery
  <2>1. ~UnderWay /\ tick' = tick /\ UNCHANGED <<alert, took, modes>>
    BY <1>4, StartPass DEF alertVars
  <2>2. InPass' = InPass /\ Queued(a, b)' = Queued(a, b)
    BY <2>1 DEF InPass, Queued
  <2>3. Took(a, b, d)' = Took(a, b, d) /\ OnlyOne(a, b, d)' = OnlyOne(a, b, d)
    BY <2>1 DEF Took, OnlyOne
  <2>4. Noted(a, b) => Noted(a, b)'
    BY <2>1, <2>2 DEF Noted
  <2>5. Fresh(a, b, d) => Fresh(a, b, d)'
    BY <1>h, <2>1, <2>2, <2>3 DEF Fresh
  <2> QED
    BY <1>p, <2>2, <2>3, <2>4, <2>5
<1>5. CASE Delivered
  <2>1. /\ InPass /\ UnderWay /\ ~UnderWay'
        /\ tick'.sent = tick.sent \cup {call[Runner].what}
        /\ Queued(a, b)' => Queued(a, b) /\ <<a, b>> # call[Runner].what
        /\ UNCHANGED <<alert, took, modes>> /\ InPass'
    BY <1>5, DeliveredPass, DeliveredIs
  <2>2. Took(a, b, d)' = Took(a, b, d) /\ OnlyOne(a, b, d)' = OnlyOne(a, b, d)
    BY <2>1 DEF Took, OnlyOne
  <2>3. Noted(a, b) => Noted(a, b)'
    BY <2>1 DEF Noted
  <2>4. Fresh(a, b, d) => Fresh(a, b, d)'
    BY <1>h, <2>1, <2>2 DEF Fresh
  <2> QED
    BY <1>p, <2>1, <2>2, <2>3, <2>4
<1>6. CASE Commit
  <2>1. InPass /\ ~InPass' /\ ~UnderWay /\ took' = took
    BY Zenon, <1>6, CommitIs, CommitPass
  <2>2. Noted(a, b) => (b <= alert[a].lastBar /\ alert[a].count = 1) \/ <<a, b>> \in tick.sent
    BY <2>1 DEF Noted
  <2>3. Noted(a, b) => b <= alert'[a].lastBar /\ alert'[a].count = 1
    <3> SUFFICES ASSUME Noted(a, b) PROVE b <= alert'[a].lastBar /\ alert'[a].count = 1
      OBVIOUS
    <3>1. CASE cut' = cut \cup tick.sent /\ UNCHANGED <<alert, events>>
      BY <2>2, <3>1 DEF Kept
    <3>2. CASE alert' = [x \in AlertIds |->
                     [alert[x] EXCEPT !.lastBar = tick.rows[x].lastBar, !.count = tick.rows[x].count]]
      <4>1. alert[a] \in AlertRow /\ tick.rows[a] \in AlertRow
        BY <1>t, <2>1, PassIs DEF AlertTypes
      <4>2. alert'[a].lastBar = tick.rows[a].lastBar /\ alert'[a].count = tick.rows[a].count
        BY Zenon, <3>2, <4>1, RecordedRow
      <4>3. b \in Nat /\ alert[a].lastBar \in Nat /\ tick.rows[a].lastBar \in Nat /\ tick.rows[a].count \in {0, 1}
        BY <1>t, <2>1, RowsAre, BarsAre DEF Bars
      <4>4. /\ alert[a].lastBar <= tick.rows[a].lastBar /\ alert[a].count <= tick.rows[a].count
            /\ <<a, b>> \in tick.sent => b <= tick.rows[a].lastBar /\ tick.rows[a].count = 1
        BY <2>1 DEF RowsInv, RowInv, FiredInPass
      <4> QED
        BY <2>2, <4>2, <4>3, <4>4
    <3> QED
      BY Zenon, <1>6, <3>1, <3>2, CommitIs
  <2> QED
    BY <1>p, <2>1, <2>3 DEF Noted, Took
<1>7. ASSUME NEW x \in AlertIds, Evaluate(x)
      PROVE  /\ Took(a, b, d)' => Noted(a, b)'
             /\ InPass' => Fresh(a, b, d)' /\ (Queued(a, b)' => OnlyOne(a, b, d)')
  <2>1. /\ InPass /\ InPass' /\ x \in tick.todo /\ tick'.sent = tick.sent
        /\ UNCHANGED <<call, alert, took, modes>>
        /\ \/ tick'.fired = tick.fired
           \/ bar \in Bars /\ MayFire(tick.rows[x], bar)
    BY <1>7, <1>t, EvaluateIs DEF tunnelVars
  <2>2. UnderWay' = UnderWay /\ Took(a, b, d)' = Took(a, b, d) /\ OnlyOne(a, b, d)' = OnlyOne(a, b, d)
    BY <2>1 DEF UnderWay, Delivering, Took, OnlyOne
  <2>3. Noted(a, b) => Noted(a, b)'
    BY <2>1, <2>2 DEF Noted
  <2>4. CASE Queued(a, b) \/ ~Queued(a, b)'
    BY <1>h, <1>p, <2>1, <2>2, <2>3, <2>4 DEF Fresh
  <2>5. CASE ~Queued(a, b) /\ Queued(a, b)'
    <3>1. tick'.fired # tick.fired
      BY <2>5 DEF Queued
    <3>2. FiredInPass(a, b)'
      BY <2>5 DEF FiredInPass
    <3>3. FiredInPass(a, b) \/ (a = x /\ b = bar)
      BY <1>7, <3>2, EvaluatePass
    <3>4. a = x /\ b = bar
      <4>1. CASE <<a, b>> \in tick.sent
        <5>1. PICK i \in DOMAIN tick'.fired : tick'.fired[i] = <<a, b>>
          BY <2>5 DEF Queued
        <5>2. PassInv'
          BY <1>7, EvaluatePass
        <5>3. tick'.fired[i][1] # <<a, b>>[1]
          BY <2>1, <4>1, <5>2 DEF PassInv
        <5> QED
          BY <5>1, <5>3
      <4> QED
        BY <2>5, <3>3, <4>1 DEF FiredInPass
    <3>5. ~Took(a, b, d) /\ OnlyOne(a, b, d)
      BY <1>k, <2>1, <3>1, <3>4, MayFireUntold
    <3> QED
      BY <1>p, <2>2, <2>3, <3>5 DEF Fresh
  <2> QED
    BY <2>4, <2>5
<1>8. ASSUME NEW x \in AlertIds, DeleteAlert(x)
      PROVE  /\ Took(a, b, d)' => Noted(a, b)'
             /\ InPass' => Fresh(a, b, d)' /\ (Queued(a, b)' => OnlyOne(a, b, d)')
  <2>1. /\ alert'[a].lastBar = alert[a].lastBar /\ alert'[a].count = alert[a].count
        /\ UNCHANGED <<call, tick, took>>
    BY <1>8, <1>t, DeleteAlertIs
  <2>2. RunnerSame
    BY <2>1 DEF RunnerSame, UnderWay, Delivering
  <2> QED
    BY <1>s, <2>1, <2>2
<1>9. ASSUME NEW x \in AlertIds, NEW state \in {"on", "off"}, NEW mode \in Modes, Update(x, state, mode)
      PROVE  /\ Took(a, b, d)' => Noted(a, b)'
             /\ InPass' => Fresh(a, b, d)' /\ (Queued(a, b)' => OnlyOne(a, b, d)')
  <2>1. /\ alert'[a].lastBar = alert[a].lastBar /\ alert'[a].count = alert[a].count
        /\ UNCHANGED <<call, tick, took>>
    BY <1>9, <1>t, UpdateIs
  <2>2. RunnerSame
    BY <2>1 DEF RunnerSame, UnderWay, Delivering
  <2> QED
    BY <1>s, <2>1, <2>2
<1>10. ASSUME NEW x \in AlertIds, NEW y \in Bars, NEW outcome, RunnerSends(x, y, outcome)
       PROVE  /\ Took(a, b, d)' => Noted(a, b)'
              /\ InPass' => Fresh(a, b, d)' /\ (Queued(a, b)' => OnlyOne(a, b, d)')
  <2>1. /\ InPass /\ UnderWay /\ UnderWay' /\ Queued(x, y)
        /\ tick.fired # <<>> /\ tick.fired[1] = <<x, y>>
        /\ call[Runner].what = <<x, y>> /\ call'[Runner].what = <<x, y>>
        /\ HeardOf(x, y, d, outcome)
        /\ UNCHANGED <<alert, tick, modes>>
    BY <1>10 DEF RunnerSends
  <2>2. \A z \in Bars : took'[a][z][d] = IF a = x /\ z = y /\ d \in Takers(outcome) /\ took[a][z][d] < 2
                                       THEN took[a][z][d] + 1 ELSE took[a][z][d]
    BY <1>10 DEF RunnerSends
  <2>3. InPass' = InPass /\ Queued(a, b)' = Queued(a, b)
    BY <2>1 DEF InPass, Queued
  <2>4. \A z \in Bars : took[a][z][d] \in 0..2
    BY <1>t DEF AlertTypes
  <2>5. \A z \in Bars : Took(a, z, d)' => Took(a, z, d) \/ (a = x /\ z = y /\ d \in Takers(outcome))
    BY <2>2, <2>4 DEF Took
  <2>6. Took(a, b, d)' => Noted(a, b)'
    <3>1. Noted(a, b) => Noted(a, b)'
      BY <2>1, <2>3 DEF Noted
    <3>2. a = x /\ b = y => Noted(a, b)'
      BY <2>1, <2>3 DEF Noted
    <3> QED
      BY <1>p, <2>5, <3>1, <3>2
  <2>7. Fresh(a, b, d)'
    <3> SUFFICES ASSUME Queued(a, b)' PROVE \/ UnderWay' /\ call'[Runner].what = <<a, b>> /\ call'[Runner].result[d] = "sent"
                                           \/ ~Took(a, b, d)' \/ <<a, b, d>> \in unanswered'
      BY DEF Fresh
    <3>1. Fresh(a, b, d) /\ Queued(a, b)
      BY <1>p, <2>1, <2>3
    <3>2. CASE a = x /\ b = y
      BY <1>h, <2>1, <2>5, <3>1, <3>2 DEF Fresh, HeardOf
    <3>3. CASE ~(a = x /\ b = y)
      <4>1. <<x, y>> # <<a, b>>
        BY <3>3
      <4> QED
        BY <1>h, <2>1, <2>5, <3>1, <3>3, <4>1 DEF Fresh
    <3> QED
      BY <3>2, <3>3
  <2>8. Queued(a, b)' => OnlyOne(a, b, d)'
    <3> SUFFICES ASSUME Queued(a, b), modes[a] = {"once"}, NEW z \in Bars \ {b} PROVE ~Took(a, z, d)'
      BY <2>1, <2>3 DEF OnlyOne
    <3>1. ~Took(a, z, d)
      BY <1>p, <2>1 DEF OnlyOne
    <3>2. a = x => z # y
      <4> SUFFICES ASSUME a = x PROVE b = y
        OBVIOUS
      <4>1. PICK i \in DOMAIN tick.fired : tick.fired[i] = <<a, b>>
        BY DEF Queued
      <4>2. 1 \in DOMAIN tick.fired
        <5>1. tick.fired \in Seq(Firings)
          BY <1>t, <2>1, PassIs
        <5> QED
          BY <2>1, <5>1
      <4>3. tick.fired[i][1] = tick.fired[1][1]
        BY <2>1, <4>1
      <4>4. i = 1
        BY <2>1, <4>1, <4>2, <4>3 DEF PassInv
      <4> QED
        BY <2>1, <4>1, <4>4
    <3> QED
      BY <2>5, <3>1, <3>2
  <2> QED
    BY <2>6, <2>7, <2>8
<1>11. \/ Quiet
       \/ \E orderly \in BOOLEAN : CutShort(orderly)
       \/ Due \/ StartDelivery \/ Delivered \/ Commit
       \/ \E x \in AlertIds : Evaluate(x) \/ DeleteAlert(x)
       \/ \E x \in AlertIds, state \in {"on", "off"}, mode \in Modes : Update(x, state, mode)
       \/ \E x \in AlertIds, y \in Bars : \E outcome : RunnerSends(x, y, outcome)
  BY Kinds
<1> QED
  BY <1>1, <1>2, <1>3, <1>4, <1>5, <1>6, <1>7, <1>8, <1>9, <1>10, <1>11

(* The property itself: what is taken of an alert whose firings count.     *)
OnceFor(a, b, d) ==
  /\ took[a][b][d] <= 1 \/ <<a, b, d>> \in unanswered
  /\ modes[a] = {"once"} => \A x \in Bars \ {b} : took[a][b][d] = 0 \/ took[a][x][d] = 0

LEMMA OnceMeans ==
  SentOncePerBar <=> \A a \in AlertIds : Kept(a) => \A b \in Bars, d \in Dests : OnceFor(a, b, d)
  BY Zenon DEF SentOncePerBar, Kept, OnceFor

LEMMA SentKept ==
  ASSUME TypeOK, RunnerInv, RouteInv, PassInv, RowsInv, OnceInv, SentOncePerBar, Next
  PROVE  SentOncePerBar'
<1>t. AlertTypes
  BY DEF TypeOK
<1> SUFFICES ASSUME NEW a \in AlertIds, Kept(a)', NEW b \in Bars, NEW d \in Dests PROVE OnceFor(a, b, d)'
  BY DEF SentOncePerBar, Kept, OnceFor
<1>h. cut \subseteq cut' /\ unanswered \subseteq unanswered' /\ modes[a] \subseteq modes'[a]
  BY HistoriesGrow
<1>k. Kept(a)
  BY <1>h DEF Kept
<1>m. modes'[a] = {"once"} => modes[a] = {"once"}
  <2>1. alert[a].mode \in modes[a]
    BY DEF RowsInv, RowInv
  <2> QED
    BY <1>h, <2>1
<1>p. \A x \in Bars : OnceFor(a, x, d)
  BY <1>k, OnceMeans
<1>s. ASSUME \A x \in Bars : took'[a][x][d] = took[a][x][d] PROVE OnceFor(a, b, d)'
  BY <1>h, <1>p, <1>s, <1>m DEF OnceFor
<1>1. CASE Quiet
  BY <1>1, <1>s DEF Quiet
<1>2. ASSUME NEW orderly \in BOOLEAN, CutShort(orderly) PROVE OnceFor(a, b, d)'
  BY <1>2, <1>s DEF CutShort
<1>3. CASE Due \/ StartDelivery \/ Delivered \/ Commit
  BY Zenon, <1>3, <1>s DEF Due, StartDelivery, Delivered, Commit, alertVars
<1>4. ASSUME NEW x \in AlertIds, Evaluate(x) \/ DeleteAlert(x) PROVE OnceFor(a, b, d)'
  BY <1>4, <1>s DEF Evaluate, DeleteAlert
<1>5. ASSUME NEW x \in AlertIds, NEW state \in {"on", "off"}, NEW mode \in Modes, Update(x, state, mode)
      PROVE  OnceFor(a, b, d)'
  BY <1>5, <1>s DEF Update
<1>6. ASSUME NEW x \in AlertIds, NEW y \in Bars, NEW outcome, RunnerSends(x, y, outcome)
      PROVE  OnceFor(a, b, d)'
  <2>1. /\ InPass /\ Queued(x, y) /\ call[Runner].what = <<x, y>>
        /\ d \in Takers(outcome) => call[Runner].result[d] # "sent"
    BY <1>6 DEF RunnerSends, HeardOf
  <2>2. \A z \in Bars : took'[a][z][d] = IF a = x /\ z = y /\ d \in Takers(outcome) /\ took[a][z][d] < 2
                                       THEN took[a][z][d] + 1 ELSE took[a][z][d]
    BY <1>6 DEF RunnerSends
  <2>3. \A z \in Bars : took[a][z][d] \in 0..2
    BY <1>t DEF AlertTypes
  <2>4. CASE a # x \/ d \notin Takers(outcome)
    BY <1>s, <2>2, <2>4
  <2>5. CASE a = x /\ d \in Takers(outcome)
    <3>1. Fresh(a, y, d) /\ OnlyOne(a, y, d)
      BY <1>k, <2>1, <2>5 DEF OnceInv
    <3>2. ~Took(a, y, d) \/ <<a, y, d>> \in unanswered
      BY <2>1, <2>5, <3>1 DEF Fresh
    <3>3. \A z \in Bars \ {y} : took'[a][z][d] = took[a][z][d]
      BY <2>2, <2>3, <2>5
    <3>4. modes[a] = {"once"} => \A z \in Bars \ {y} : took[a][z][d] = 0
      BY <2>3, <3>1 DEF OnlyOne, Took
    <3>5. took'[a][b][d] <= 1 \/ <<a, b, d>> \in unanswered'
      <4>1. CASE b # y
        BY <1>h, <1>p, <3>3, <4>1 DEF OnceFor
      <4>2. CASE b = y /\ <<a, y, d>> \in unanswered
        BY <1>h, <4>2
      <4>3. CASE b = y /\ ~Took(a, y, d)
        <5>1. took[a][b][d] = 0
          BY <2>3, <4>3 DEF Took
        <5> QED
          BY <2>2, <2>5, <4>3, <5>1
      <4> QED
        BY <3>2, <4>1, <4>2, <4>3
    <3>6. ASSUME modes[a] = {"once"}, NEW z \in Bars \ {b} PROVE took'[a][b][d] = 0 \/ took'[a][z][d] = 0
      <4>1. CASE b = y
        BY <3>3, <3>4, <3>6, <4>1
      <4>2. CASE b # y
        BY <3>3, <3>4, <3>6, <4>2
      <4> QED
        BY <4>1, <4>2
    <3> QED
      BY <1>m, <3>5, <3>6 DEF OnceFor
  <2> QED
    BY <2>4, <2>5
<1>7. \/ Quiet
      \/ \E orderly \in BOOLEAN : CutShort(orderly)
      \/ Due \/ StartDelivery \/ Delivered \/ Commit
      \/ \E x \in AlertIds : Evaluate(x) \/ DeleteAlert(x)
      \/ \E x \in AlertIds, state \in {"on", "off"}, mode \in Modes : Update(x, state, mode)
      \/ \E x \in AlertIds, y \in Bars : \E outcome : RunnerSends(x, y, outcome)
  BY Kinds
<1> QED
  BY <1>1, <1>2, <1>3, <1>4, <1>5, <1>6, <1>7

-----------------------------------------------------------------------------
(* The feed.                                                               *)

LEMMA SaysMore ==
  ASSUME NEW E, NEW x, NEW y, NEW r, NEW a, NEW b, NEW d
  PROVE  Says(E \cup {Event(x, y, r)}, a, b, d) <=> Says(E, a, b, d) \/ (x = a /\ y = b /\ r[d] = "sent")
<1> DEFINE new == Event(x, y, r)
<1>1. new.alert = x /\ new.bar = y /\ new.result = r
  BY DEF Event
<1> HIDE DEF new
<1>2. ASSUME Says(E \cup {new}, a, b, d)
      PROVE  Says(E, a, b, d) \/ (x = a /\ y = b /\ r[d] = "sent")
  <2>1. PICK e \in E \cup {new} : e.alert = a /\ e.bar = b /\ e.result[d] = "sent"
    BY <1>2 DEF Says
  <2>2. CASE e \in E
    BY <2>1, <2>2 DEF Says
  <2>3. CASE e = new
    BY <1>1, <2>1, <2>3
  <2> QED
    BY <2>1, <2>2, <2>3
<1>3. ASSUME Says(E, a, b, d)
      PROVE  Says(E \cup {new}, a, b, d)
  BY <1>3 DEF Says
<1>4. ASSUME x = a, y = b, r[d] = "sent"
      PROVE  Says(E \cup {new}, a, b, d)
  <2>1. new \in E \cup {new} /\ new.alert = a /\ new.bar = b /\ new.result[d] = "sent"
    BY <1>1, <1>4
  <2> QED
    BY <2>1 DEF Says
<1>5. Says(E \cup {new}, a, b, d) <=> Says(E, a, b, d) \/ (x = a /\ y = b /\ r[d] = "sent")
  BY <1>2, <1>3, <1>4
<1> QED
  BY <1>5 DEF new

SaidIsSent == InPass => \A a \in AlertIds, b \in Bars, d \in Dests : Says(tick.events, a, b, d) => <<a, b>> \in tick.sent
FeedIs(a, b, d) ==
  \/ <<a, b>> \in cut \/ alert[a].state = "gone"
  \/ /\ Reported(a, b, d) => Took(a, b, d)
     /\ Took(a, b, d) => Reported(a, b, d) \/ <<a, b, d>> \in unanswered

LEMMA FeedMeans == FeedInv <=> SaidIsSent /\ \A a \in AlertIds, b \in Bars, d \in Dests \ Unwired : FeedIs(a, b, d)
  BY DEF FeedInv, SaidIsSent, FeedIs

LEMMA SuppressedSaysNothing ==
  ASSUME NEW E, NEW x, NEW y, NEW a, NEW b, NEW d \in Dests
  PROVE  Says(E \cup {Event(x, y, Suppressed)}, a, b, d) <=> Says(E, a, b, d)
<1>1. Suppressed[d] # "sent"
  BY DEF Suppressed
<1> QED
  BY <1>1, SaysMore

LEMMA SaidKept ==
  ASSUME TypeOK, RunnerInv, RouteInv, PassInv, SaidIsSent, Next
  PROVE  SaidIsSent'
<1>t. AlertTypes
  BY DEF TypeOK
<1>s. ASSUME tick' = tick PROVE SaidIsSent'
  BY <1>s DEF SaidIsSent, InPass, Says
<1>1. CASE Quiet \/ StartDelivery
  BY <1>1, <1>s DEF Quiet, StartDelivery, alertVars
<1>2. ASSUME NEW orderly \in BOOLEAN, CutShort(orderly) PROVE SaidIsSent'
  BY <1>2, CutPass DEF SaidIsSent
<1>3. CASE Due
  BY <1>3, <1>t, DueIs DEF SaidIsSent, Says
<1>4. CASE Delivered
  <2> DEFINE k == call[Runner].what
  <2>1. /\ InPass /\ k \in AlertIds \X Bars /\ tick'.sent = tick.sent \cup {k}
        /\ tick'.events = tick.events \cup {Event(k[1], k[2], Recorded(call[Runner].result))}
    BY <1>4, DeliveredPass DEF Firings
  <2> SUFFICES ASSUME NEW a \in AlertIds, NEW b \in Bars, NEW d \in Dests, Says(tick'.events, a, b, d)
               PROVE  <<a, b>> \in tick'.sent
    BY DEF SaidIsSent, Says
  <2>2. Says(tick.events, a, b, d) \/ (k[1] = a /\ k[2] = b)
    BY <2>1, SaysMore
  <2>3. k[1] = a /\ k[2] = b => k = <<a, b>>
    BY <2>1
  <2> QED
    BY <2>1, <2>2, <2>3 DEF SaidIsSent
<1>5. CASE Commit
  BY Zenon, <1>5, CommitIs DEF SaidIsSent
<1>6. ASSUME NEW x \in AlertIds, Evaluate(x) PROVE SaidIsSent'
  <2>1. /\ InPass /\ tick'.sent = tick.sent
        /\ \/ tick'.events = tick.events
           \/ tick'.events = tick.events \cup {Event(x, bar, Suppressed)}
    BY <1>6, <1>t, EvaluateIs
  <2>2. \A a \in AlertIds, b \in Bars, d \in Dests : Says(tick'.events, a, b, d) => Says(tick.events, a, b, d)
    BY <2>1, SuppressedSaysNothing
  <2> QED
    BY <2>1, <2>2 DEF SaidIsSent, Says
<1>7. ASSUME NEW x \in AlertIds, DeleteAlert(x) PROVE SaidIsSent'
  BY <1>7, <1>s DEF DeleteAlert
<1>8. ASSUME NEW x \in AlertIds, NEW state \in {"on", "off"}, NEW mode \in Modes, Update(x, state, mode)
      PROVE  SaidIsSent'
  BY <1>8, <1>s DEF Update
<1>9. ASSUME NEW x \in AlertIds, NEW y \in Bars, NEW outcome, RunnerSends(x, y, outcome) PROVE SaidIsSent'
  BY <1>9, <1>s DEF RunnerSends
<1> QED
  BY <1>1, <1>2, <1>3, <1>4, <1>5, <1>6, <1>7, <1>8, <1>9, Kinds

LEMMA FeedKept ==
  ASSUME TypeOK, RunnerInv, RouteInv, PassInv, FeedInv, Next
  PROVE  FeedInv'
<1>t. AlertTypes
  BY DEF TypeOK
<1>i. SaidIsSent /\ \A a \in AlertIds, b \in Bars, d \in Dests \ Unwired : FeedIs(a, b, d)
  BY FeedMeans
<1>j. SaidIsSent'
  BY <1>i, SaidKept
<1> SUFFICES ASSUME NEW a \in AlertIds, NEW b \in Bars, NEW d \in Dests \ Unwired PROVE FeedIs(a, b, d)'
  BY <1>j DEF FeedInv, SaidIsSent, FeedIs
<1>h. cut \subseteq cut' /\ unanswered \subseteq unanswered'
  BY HistoriesGrow
<1>c. ASSUME alert[a].state = "gone" => alert'[a].state = "gone",
             <<a, b>> \notin cut' /\ alert'[a].state # "gone"
               => /\ Took(a, b, d)' <=> Took(a, b, d)
                  /\ Reported(a, b, d)' <=> Reported(a, b, d)
      PROVE  FeedIs(a, b, d)'
  BY <1>c, <1>h, <1>i DEF FeedIs
<1>1. CASE Quiet
  <2>1. /\ RunnerSame /\ alert' = alert /\ tick' = tick /\ took'[a][b][d] = took[a][b][d]
        /\ events' = events \/ \E x \in AlertIds : \E r : events' = events \cup {Event(x, TestBar, r)}
    BY <1>1 DEF Quiet
  <2>2. Says(events', a, b, d) <=> Says(events, a, b, d)
    BY <2>1, SaysMore, BarsAre
  <2>3. InPass' = InPass
    BY <2>1 DEF InPass
  <2>4. Reported(a, b, d)' <=> Reported(a, b, d)
    BY <2>1, <2>2, <2>3 DEF Reported, RunnerSame, Says
  <2> QED
    BY <1>c, <2>1, <2>4 DEF Took
<1>2. ASSUME NEW orderly \in BOOLEAN, CutShort(orderly) PROVE FeedIs(a, b, d)'
  <2>1. /\ ~InPass' /\ ~UnderWay' /\ UNCHANGED <<alert, took, events>>
        /\ tick # Resting => tick.sent \subseteq cut' /\ (Delivering(Runner) => call[Runner].what \in cut')
    BY <1>2, CutPass DEF CutShort
  <2>2. (InPass => tick # Resting) /\ (UnderWay => InPass /\ Delivering(Runner))
    BY DEF InPass, Resting, UnderWay, PassInv
  <2>3. <<a, b>> \notin cut' => (Reported(a, b, d) <=> Says(events, a, b, d))
    BY <1>i, <2>1, <2>2 DEF Reported, SaidIsSent
  <2>4. Reported(a, b, d)' <=> Says(events, a, b, d)
    BY <2>1 DEF Reported, Says
  <2> QED
    BY <1>c, <2>1, <2>3, <2>4 DEF Took
<1>3. CASE Due
  <2>1. /\ ~InPass /\ tick'.events = {} /\ UNCHANGED <<alert, took, events>> /\ ~UnderWay'
    BY <1>3, <1>t, DueIs, DuePass
  <2>2. ~UnderWay
    BY <2>1 DEF PassInv, UnderWay
  <2>3. Reported(a, b, d)' <=> Reported(a, b, d)
    BY <2>1, <2>2 DEF Reported, Says
  <2> QED
    BY <1>c, <2>1, <2>3 DEF Took
<1>4. CASE StartDelivery
  <2>1. /\ ~UnderWay /\ tick' = tick /\ call'[Runner].result = NoResults
        /\ UNCHANGED <<alert, took, events>>
    BY <1>4, StartPass DEF alertVars
  <2>2. Reported(a, b, d)' <=> Reported(a, b, d)
    <3>1. call'[Runner].result[d] # "sent"
      BY <2>1 DEF NoResults
    <3>2. InPass' = InPass
      BY <2>1 DEF InPass
    <3> QED
      BY <2>1, <3>1, <3>2 DEF Reported, Says
  <2> QED
    BY <1>c, <2>1, <2>2 DEF Took
<1>5. CASE Delivered
  <2> DEFINE k == call[Runner].what
  <2>1. /\ InPass /\ InPass' /\ UnderWay /\ ~UnderWay' /\ k \in AlertIds \X Bars
        /\ tick'.events = tick.events \cup {Event(k[1], k[2], Recorded(call[Runner].result))}
        /\ UNCHANGED <<alert, took, events>>
    BY <1>5, DeliveredPass, DeliveredIs DEF Firings
  <2>2. k = <<a, b>> <=> k[1] = a /\ k[2] = b
    BY <2>1
  <2>3. Says(tick'.events, a, b, d) <=> Says(tick.events, a, b, d) \/ (k = <<a, b>> /\ call[Runner].result[d] = "sent")
    BY <2>1, <2>2, SaysMore, RecordedIs
  <2>4. Reported(a, b, d)' <=> Reported(a, b, d)
    BY <2>1, <2>3 DEF Reported, Says
  <2> QED
    BY <1>c, <2>1, <2>4 DEF Took
<1>6. CASE Commit
  <2>1. InPass /\ ~InPass' /\ ~UnderWay /\ ~UnderWay' /\ took' = took
    BY Zenon, <1>6, CommitIs, CommitPass
  <2>2. Reported(a, b, d) <=> Says(events, a, b, d) \/ Says(tick.events, a, b, d)
    BY <2>1 DEF Reported
  <2>3. Reported(a, b, d)' <=> Says(events', a, b, d)
    BY <2>1 DEF Reported, Says
  <2>4. CASE cut' = cut \cup tick.sent /\ UNCHANGED <<alert, events>>
    <3>1. <<a, b>> \notin cut' => ~Says(tick.events, a, b, d)
      BY <1>i, <2>1, <2>4 DEF SaidIsSent
    <3>2. Says(events', a, b, d) <=> Says(events, a, b, d)
      BY <2>4
    <3> QED
      BY <1>c, <2>1, <2>2, <2>3, <2>4, <3>1, <3>2 DEF Took
  <2>5. CASE /\ events' = events \cup tick.events
             /\ alert' = [x \in AlertIds |->
                   [alert[x] EXCEPT !.lastBar = tick.rows[x].lastBar, !.count = tick.rows[x].count]]
    <3>1. alert[a] \in AlertRow /\ tick.rows[a] \in AlertRow
      BY <1>t, <2>1, PassIs DEF AlertTypes
    <3>2. alert'[a].state = alert[a].state
      BY Zenon, <2>5, <3>1, RecordedRow
    <3>3. Says(events', a, b, d) <=> Says(events, a, b, d) \/ Says(tick.events, a, b, d)
      BY Zenon, <2>5 DEF Says
    <3> QED
      BY <1>c, <2>1, <2>2, <2>3, <3>2, <3>3 DEF Took
  <2> QED
    BY Zenon, <1>6, <2>4, <2>5, CommitIs
<1>7. ASSUME NEW x \in AlertIds, Evaluate(x) PROVE FeedIs(a, b, d)'
  <2>1. /\ InPass /\ InPass' /\ UNCHANGED <<call, alert, took, events>>
        /\ \/ tick'.events = tick.events
           \/ tick'.events = tick.events \cup {Event(x, bar, Suppressed)}
    BY <1>7, <1>t, EvaluateIs DEF tunnelVars
  <2>2. Says(tick'.events, a, b, d) <=> Says(tick.events, a, b, d)
    BY <2>1, SuppressedSaysNothing
  <2>3. Reported(a, b, d)' <=> Reported(a, b, d)
    BY <2>1, <2>2 DEF Reported, Says, UnderWay, Delivering
  <2> QED
    BY <1>c, <2>1, <2>3 DEF Took
<1>8. ASSUME NEW x \in AlertIds, DeleteAlert(x) PROVE FeedIs(a, b, d)'
  <2>1. /\ alert'[x].state = "gone" /\ \A y \in AlertIds \ {x} : alert'[y] = alert[y]
        /\ events' = {e \in events : e.alert # x}
        /\ UNCHANGED <<call, tick, took>>
    BY <1>8, <1>t, DeleteAlertIs
  <2>2. CASE a = x
    BY <2>1, <2>2 DEF FeedIs
  <2>3. CASE a # x
    <3>1. Says(events', a, b, d) <=> Says(events, a, b, d)
      BY <2>1, <2>3 DEF Says
    <3>2. InPass' = InPass /\ UnderWay' = UnderWay
      BY <2>1 DEF InPass, UnderWay, Delivering
    <3>3. Reported(a, b, d)' <=> Reported(a, b, d)
      BY <2>1, <3>1, <3>2 DEF Reported, Says
    <3> QED
      BY <1>c, <2>1, <2>3, <3>3 DEF Took
  <2> QED
    BY <2>2, <2>3
<1>9. ASSUME NEW x \in AlertIds, NEW state \in {"on", "off"}, NEW mode \in Modes, Update(x, state, mode)
      PROVE  FeedIs(a, b, d)'
  <2>1. /\ alert[x].state # "gone" /\ \A y \in AlertIds \ {x} : alert'[y] = alert[y]
        /\ UNCHANGED <<call, tick, took, events>>
    BY <1>9, <1>t, UpdateIs
  <2>2. InPass' = InPass /\ UnderWay' = UnderWay
    BY <2>1 DEF InPass, UnderWay, Delivering
  <2>3. Reported(a, b, d)' <=> Reported(a, b, d)
    BY <2>1, <2>2 DEF Reported, Says
  <2>4. alert[a].state = "gone" => alert'[a].state = "gone"
    BY <2>1
  <2> QED
    BY <1>c, <2>1, <2>3, <2>4 DEF Took
<1>10. ASSUME NEW x \in AlertIds, NEW y \in Bars, NEW outcome, RunnerSends(x, y, outcome) PROVE FeedIs(a, b, d)'
  <2>1. /\ UnderWay /\ UnderWay' /\ call[Runner].what = <<x, y>> /\ call'[Runner].what = <<x, y>>
        /\ HeardOf(x, y, d, outcome)
        /\ UNCHANGED <<alert, tick, events, cut>>
    BY <1>10 DEF RunnerSends
  <2>2. took'[a][b][d] = IF a = x /\ b = y /\ d \in Takers(outcome) /\ took[a][b][d] < 2
                         THEN took[a][b][d] + 1 ELSE took[a][b][d]
    BY <1>10 DEF RunnerSends
  <2>3. took[a][b][d] \in 0..2
    BY <1>t DEF AlertTypes
  <2>4. Took(a, b, d)' <=> Took(a, b, d) \/ (a = x /\ b = y /\ d \in Takers(outcome))
    BY <2>2, <2>3 DEF Took
  <2>5. <<x, y>> = <<a, b>> <=> a = x /\ b = y
    OBVIOUS
  <2>6. InPass' = InPass
    BY <2>1 DEF InPass
  <2>7. /\ Reported(a, b, d) => Reported(a, b, d)'
        /\ Reported(a, b, d)' => Reported(a, b, d) \/ (a = x /\ b = y /\ d \in Takers(outcome))
        /\ a = x /\ b = y /\ d \in Takers(outcome) => Reported(a, b, d)' \/ <<a, b, d>> \in unanswered'
    BY <2>1, <2>5, <2>6 DEF Reported, Says, HeardOf
  <2> QED
    BY <1>h, <1>i, <2>1, <2>4, <2>7 DEF FeedIs
<1>11. \/ Quiet
       \/ \E orderly \in BOOLEAN : CutShort(orderly)
       \/ Due \/ StartDelivery \/ Delivered \/ Commit
       \/ \E x \in AlertIds : Evaluate(x) \/ DeleteAlert(x)
       \/ \E x \in AlertIds, state \in {"on", "off"}, mode \in Modes : Update(x, state, mode)
       \/ \E x \in AlertIds, y \in Bars : \E outcome : RunnerSends(x, y, outcome)
  BY Kinds
<1> QED
  BY <1>1, <1>2, <1>3, <1>4, <1>5, <1>6, <1>7, <1>8, <1>9, <1>10, <1>11

-----------------------------------------------------------------------------
(* The invariants of the alerts.                                           *)

LEMMA AlertsAtFirst == Init => RowsInv /\ OnceInv /\ SentOncePerBar /\ FeedInv
<1> SUFFICES ASSUME Init PROVE RowsInv /\ OnceInv /\ SentOncePerBar /\ FeedInv
  OBVIOUS
<1>1. /\ bar = 0 /\ tick = Resting /\ events = {}
      /\ alert \in [AlertIds -> [state : {"on"}, mode : Modes, lastBar : {0}, count : {0}]]
      /\ modes = [a \in AlertIds |-> {alert[a].mode}]
      /\ took = [a \in AlertIds |-> [b \in Bars |-> [d \in Dests |-> 0]]]
      /\ call = [c \in Callers |-> Idle]
  BY DEF Init, TunnelsInit
<1>2. ~InPass /\ ~UnderWay
  BY <1>1, CallersAre DEF InPass, Resting, UnderWay, Delivering, Idle
<1>3. \A a \in AlertIds, b \in Bars, d \in Dests : took[a][b][d] = 0 /\ ~Took(a, b, d)
  BY <1>1 DEF Took
<1>4. RowsInv
  BY <1>1, <1>2 DEF RowsInv, RowInv
<1>5. OnceInv /\ SentOncePerBar
  BY <1>2, <1>3 DEF OnceInv, SentOncePerBar
<1>6. FeedInv
  BY <1>1, <1>2, <1>3 DEF FeedInv, Reported, Says
<1> QED
  BY <1>4, <1>5, <1>6

LEMMA AlertsStand ==
  ASSUME RowsInv, OnceInv, SentOncePerBar, FeedInv, UNCHANGED vars
  PROVE  RowsInv' /\ OnceInv' /\ SentOncePerBar' /\ FeedInv'
<1> USE DEF vars, tunnelVars
<1>1. /\ InPass' = InPass /\ UnderWay' = UnderWay
      /\ \A a, b : FiredInPass(a, b)' = FiredInPass(a, b) /\ Queued(a, b)' = Queued(a, b)
  BY DEF InPass, UnderWay, Delivering, FiredInPass, Queued
<1>2. RowsInv'
  BY <1>1 DEF RowsInv, RowInv
<1>3. OnceInv'
  BY <1>1 DEF OnceInv, Kept, Took, Noted, Fresh, OnlyOne
<1>4. SentOncePerBar'
  <2>1. cut' = cut /\ modes' = modes /\ took' = took /\ unanswered' = unanswered
    OBVIOUS
  <2> HIDE DEF vars, tunnelVars
  <2> DEFINE Once(C, M, T, U, a, b, d) ==
               \/ \E x \in Bars : <<a, x>> \in C
               \/ "every" \in M[a]
               \/ /\ T[a][b][d] <= 1 \/ <<a, b, d>> \in U
                  /\ M[a] = {"once"} => \A x \in Bars \ {b} : T[a][b][d] = 0 \/ T[a][x][d] = 0
  <2>2. \A a \in AlertIds, b \in Bars, d \in Dests : Once(cut, modes, took, unanswered, a, b, d)
    BY DEF SentOncePerBar
  <2>3. SentOncePerBar' <=> \A a \in AlertIds, b \in Bars, d \in Dests : Once(cut', modes', took', unanswered', a, b, d)
    BY DEF SentOncePerBar
  <2> HIDE DEF Once
  <2> QED
    BY <2>1, <2>2, <2>3
<1>5. \A a, b, d : Reported(a, b, d)' = Reported(a, b, d) /\ Took(a, b, d)' = Took(a, b, d)
                   /\ Says(tick.events, a, b, d)' = Says(tick.events, a, b, d)
  BY <1>1 DEF Took, Reported, Says
<1>6. FeedInv'
  BY <1>1, <1>5 DEF FeedInv
<1> QED
  BY <1>2, <1>3, <1>4, <1>6

LEMMA Inductive == Spec => []IInv
<1>0. IInv <=> Core /\ RowsInv /\ OnceInv /\ SentOncePerBar /\ FeedInv
  BY DEF IInv, Core, RowsInv
<1>1. Init => IInv
  BY <1>0, CoreAtFirst, AlertsAtFirst
<1>2. IInv /\ [Next]_vars => IInv'
  <2>0. ASSUME Core', RowsInv', OnceInv', SentOncePerBar', FeedInv' PROVE IInv'
    BY <2>0 DEF IInv, Core, RowsInv
  <2>1. ASSUME IInv, Next PROVE IInv'
    <3>1. TypeOK /\ RunnerInv /\ RouteInv /\ PassInv /\ Core /\ RowsInv /\ OnceInv /\ SentOncePerBar /\ FeedInv
      BY <1>0, <2>1 DEF Core
    <3> QED
      BY <2>0, <2>1, <3>1, CoreKept, RowsKept, OnceKept, SentKept, FeedKept
  <2>2. ASSUME IInv, UNCHANGED vars PROVE IInv'
    BY <1>0, <2>0, <2>2, CoreStands, AlertsStand
  <2> QED
    BY <2>1, <2>2
<1> QED
  BY <1>1, <1>2, PTL DEF Spec

(* services/alert_runner.py, alert_service.py: an alert that does not      *)
(* repeat on a bar is taken once for the bar by each destination, or again *)
(* where its answer was lost, and one that fires once, of one bar, unless  *)
(* a pass was lost.                                                        *)
THEOREM AlwaysSentOncePerBar == Spec => []SentOncePerBar
<1>1. IInv => SentOncePerBar
  BY DEF IInv
<1> QED
  BY <1>1, Inductive, PTL

(* services/alert_runner.py: between passes the feed says "sent" of no     *)
(* message that was not taken, web_push and email aside, and of every one  *)
(* that was, but for those whose answer was lost.                          *)
THEOREM FeedAlwaysTellsTruth == Spec => []FeedTellsTruth
<1>1. ASSUME IInv PROVE FeedTellsTruth
  <2>1. ASSUME NEW a \in AlertIds, NEW b \in Bars, NEW d \in Dests \ Unwired,
               <<a, b>> \notin cut, alert[a].state # "gone", tick = Resting
        PROVE  /\ Says(events, a, b, d) => took[a][b][d] > 0
               /\ took[a][b][d] > 0 => Says(events, a, b, d) \/ <<a, b, d>> \in unanswered
    <3>1. ~InPass
      BY <2>1 DEF InPass, Resting
    <3>2. ~UnderWay
      BY <1>1, <3>1 DEF IInv, PassInv, UnderWay
    <3>3. /\ Reported(a, b, d) => Took(a, b, d)
          /\ Took(a, b, d) => Reported(a, b, d) \/ <<a, b, d>> \in unanswered
      BY <1>1, <2>1 DEF IInv, FeedInv
    <3> QED
      BY <3>1, <3>2, <3>3 DEF Took, Reported
  <2> QED
    BY Zenon, <2>1 DEF FeedTellsTruth
<1>2. IInv => FeedTellsTruth
  BY <1>1
<1> QED
  BY <1>2, Inductive, PTL
=============================================================================
