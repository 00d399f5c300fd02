--------------------------- MODULE RiskMemoryProofs ---------------------------
(***************************************************************************)
(* Proofs about the risk guard and the risk memory of a bot's row, for     *)
(* every number of overlapping arms, every length of a day and every limit *)
(* the settings allow.                                                     *)
(***************************************************************************)
EXTENDS RiskMemory, TLAPS

-----------------------------------------------------------------------------
(* Days.                                                                   *)

LEMMA DayOfType ==
  ASSUME NEW at \in Nat
  PROVE  DayOf(at) \in Nat
  BY DayAssumption DEF DayOf

(* Time does not go back a day.                                            *)
LEMMA DayOfMonotone ==
  ASSUME NEW early \in Nat, NEW late \in Nat, early <= late
  PROVE  DayOf(early) <= DayOf(late)
  BY DayAssumption DEF DayOf

LEMMA DayOfClock ==
  ASSUME NEW at \in 0..MaxClock
  PROVE  DayOf(at) \in Days
<1>1. at \in Nat /\ MaxClock \in Nat /\ at <= MaxClock
  BY BoundsAssumption
<1>2. DayOf(at) \in Nat /\ DayOf(MaxClock) \in Nat /\ DayOf(at) <= DayOf(MaxClock)
  BY <1>1, DayOfType, DayOfMonotone
<1> QED  BY <1>2 DEF Days

-----------------------------------------------------------------------------
(* The guard.                                                              *)

Memory == [day : Nat, dayStart : Nat, peak : Nat]

LEMMA ObserveType ==
  ASSUME NEW memory \in Memory, NEW equity \in Nat, NEW at \in Nat
  PROVE  Observe(memory, equity, at) \in Memory
  BY DayOfType DEF Observe, Memory, Greater

(* What an observation leaves: the day's first equity is only replaced by  *)
(* a later day's, and the peak is never lowered.                           *)
LEMMA ObserveKeeps ==
  ASSUME NEW memory \in Memory, NEW equity \in Nat, NEW at \in Nat
  PROVE  LET seen == Observe(memory, equity, at) IN
         /\ seen.day >= memory.day /\ seen.day >= DayOf(at)
         /\ seen.day = memory.day => seen.dayStart = memory.dayStart
         /\ seen.peak >= memory.peak /\ seen.peak >= equity
  BY DayOfType DEF Observe, Memory, Greater

(* A drawdown is measured from the peak: from a higher one it is larger.   *)
LEMMA HigherPeakDrawsDown ==
  ASSUME NEW low \in Memory, NEW high \in Memory, NEW equity \in Nat,
         low.peak <= high.peak, DrawsDown(Limits, low, equity)
  PROVE  DrawsDown(Limits, high, equity)
<1> DEFINE l == low.peak
           h == high.peak
<1>1. l \in Nat /\ h \in Nat /\ l <= h
  BY DEF Memory
<1>2. l > 0 /\ (l - equity) * 100 >= Drawdown * l
  BY DEF DrawsDown, Limits
<1>3. Drawdown \in 1..100
  BY DrawdownAssumption
<1>4. Drawdown * (h - l) <= 100 * (h - l)
  BY <1>1, <1>3
<1>5. Drawdown * h = Drawdown * l + Drawdown * (h - l)
  BY <1>1, <1>3
<1>6. (h - equity) * 100 >= Drawdown * h
  BY <1>1, <1>2, <1>3, <1>4, <1>5
<1> QED  BY <1>1, <1>2, <1>6 DEF DrawsDown, Limits

(* An equity that the guard lets pass today it lets pass with less memory. *)
LEMMA MoreMemoryForgivesNothing ==
  ASSUME NEW before \in Memory, NEW after \in Memory,
         NEW equity \in Nat, NEW at \in Nat,
         before.peak <= after.peak,
         DayOf(at) <= before.day =>
            DayOf(at) <= after.day /\ after.dayStart = before.dayStart,
         CheckEquity(Limits, before, equity, at) # "ok"
  PROVE  CheckEquity(Limits, after, equity, at) # "ok"
<1> DEFINE was == Observe(before, equity, at)
           is  == Observe(after, equity, at)
<1>1. was \in Memory /\ is \in Memory
  BY ObserveType
<1>2. was.peak <= is.peak
  BY DEF Observe, Memory, Greater
<1>3. LosesDay(Limits, was, equity) \/ DrawsDown(Limits, was, equity)
  BY DEF CheckEquity
<1>4. CASE DrawsDown(Limits, was, equity)
  <2>1. DrawsDown(Limits, is, equity)
    BY <1>1, <1>2, <1>4, HigherPeakDrawsDown
  <2> QED  BY <2>1 DEF CheckEquity
<1>5. CASE LosesDay(Limits, was, equity)
  <2>1. DayOf(at) <= before.day
    BY <1>5, DayOfType, DailyLossAssumption DEF LosesDay, Observe, Memory, Limits
  <2>2. is.dayStart = was.dayStart
    BY <2>1, DayOfType DEF Observe, Memory
  <2>3. LosesDay(Limits, is, equity)
    BY <1>5, <2>2 DEF LosesDay
  <2> QED  BY <2>3 DEF CheckEquity
<1> QED  BY <1>3, <1>4, <1>5

-----------------------------------------------------------------------------
(* The bars of the bot card.                                               *)

(* A bar is full exactly when its limit is crossed.                        *)
LEMMA BarFull ==
  ASSUME NEW used \in Int, NEW room \in Nat \ {0}
  PROVE  Lesser(100, (Greater(0, used) * 100) \div room) = 100 <=> used >= room
<1>1. CASE used <= 0
  <2>1. (Greater(0, used) * 100) \div room = 0
    BY <1>1 DEF Greater
  <2> QED  BY <1>1, <2>1 DEF Lesser
<1>2. CASE used > 0
  <2> DEFINE bar == (used * 100) \div room
  <2>1. bar \in Nat /\ room * bar <= used * 100 /\ used * 100 < room * (bar + 1)
    BY <1>2
  <2>2. CASE used >= room
    <3>1. bar >= 100
      BY <1>2, <2>1, <2>2
    <3> QED  BY <1>2, <2>2, <2>1, <3>1 DEF Lesser, Greater
  <2>3. CASE used < room
    <3>1. bar < 100
      BY <1>2, <2>1, <2>3
    <3> QED  BY <1>2, <2>3, <2>1, <3>1 DEF Lesser, Greater
  <2> QED  BY <1>2, <2>2, <2>3
<1> QED  BY <1>1, <1>2

-----------------------------------------------------------------------------
(* Types.                                                                  *)

LEMMA BlankType == Blank \in Columns
<1>1. 0 \in Equities /\ 0 \in Days
  BY BoundsAssumption, DayOfType DEF Equities, Days
<1> QED  BY <1>1 DEF Blank, Columns

LEMMA ColumnsAreNaturals ==
  ASSUME NEW columns \in Columns
  PROVE  /\ columns.equity \in Nat /\ columns.dayStart \in Nat
         /\ columns.peak \in Nat /\ columns.day \in Nat
  BY BoundsAssumption, DayOfType DEF Columns, Equities, Days

LEMMA GuardForType ==
  ASSUME NEW columns \in Columns, NEW at \in Nat
  PROVE  GuardFor(columns, at) \in Memory
  BY ColumnsAreNaturals, DayOfType DEF GuardFor, Memory

(* What a commit sets out to write is a row's columns.                     *)
LEMMA RememberedType ==
  ASSUME NEW columns \in Columns, NEW e \in Equities, NEW at \in 0..MaxClock
  PROVE  Remember(Observe(GuardFor(columns, at), e, at), e) \in Columns
<1>1. DayOf(at) \in Days
  BY DayOfClock
<1> QED  BY <1>1, DayOfType, BoundsAssumption
         DEF Remember, Observe, GuardFor, Greater, Columns, Equities, Days

LEMMA WrittenType ==
  ASSUME row \in Columns, NEW old \in Columns, NEW new \in Columns
  PROVE  Written(old, new) \in Columns
  BY DEF Written, Column, Columns

LEMMA TypeInit == Init => TypeOK
<1> SUFFICES ASSUME Init PROVE TypeOK
  OBVIOUS
<1>1. 0 \in Equities /\ 0 \in Days /\ 0 \in 0..MaxClock
  BY BoundsAssumption, DayOfType DEF Equities, Days
<1>2. ArmIdle \in Arm
  BY <1>1, BlankType DEF ArmIdle, Arm
<1> QED  BY <1>1, <1>2, BlankType DEF Init, TypeOK

LEMMA TypeStep == TypeOK /\ [Next]_vars => TypeOK'
<1> SUFFICES ASSUME TypeOK, [Next]_vars PROVE TypeOK'
  OBVIOUS
<1>0. ArmIdle \in Arm
  BY BlankType, BoundsAssumption DEF ArmIdle, Arm, Equities
<1>1. CASE Tick
  BY <1>1, BoundsAssumption DEF Tick, TypeOK
<1>2. CASE \E p \in Arms : ArmLoad(p)
  <2>1. PICK p \in Arms : ArmLoad(p)
    BY <1>2
  <2>2. [ArmIdle EXCEPT !.pc = "venue", !.copy = row] \in Arm
    BY <1>0 DEF Arm, TypeOK
  <2> QED  BY <2>1, <2>2 DEF ArmLoad, TypeOK
<1>3. CASE \E p \in Arms : ArmSnapshot(p)
  <2>1. PICK p \in Arms : ArmSnapshot(p)
    BY <1>3
  <2>2. PICK e \in Equities : arm' = [arm EXCEPT ![p].pc = "answered", ![p].equity = e]
    BY <2>1 DEF ArmSnapshot
  <2>3. arm' \in [Arms -> Arm]
    BY <2>2 DEF TypeOK, Arm
  <2> QED  BY <2>1, <2>3 DEF ArmSnapshot, TypeOK
<1>4. CASE \E p \in Arms : ArmCommit(p)
  <2>1. PICK p \in Arms : ArmCommit(p)
    BY <1>4
  <2>2. arm[p] \in Arm /\ arm[p].copy \in Columns /\ arm[p].equity \in Equities
    BY DEF TypeOK, Arm
  <2>3. row' \in Columns
    BY <2>1, <2>2, RememberedType, WrittenType DEF ArmCommit, TypeOK
  <2>4. arm' \in [Arms -> Arm]
    BY <2>1, <1>0 DEF ArmCommit, TypeOK, Arm
  <2>5. base' \in [day : Days, equity : Equities, first : BOOLEAN]
    BY <2>1, <2>2, DayOfClock DEF ArmCommit, TypeOK, Columns
  <2>6. lost' \in BOOLEAN
    BY <2>1, <2>2 DEF ArmCommit, TypeOK, Arm
  <2> QED  BY <2>1, <2>3, <2>4, <2>5, <2>6 DEF ArmCommit, TypeOK
<1>5. CASE \E p \in Arms : ArmAbort(p)
  BY <1>0, <1>5 DEF ArmAbort, TypeOK
<1>6. CASE UNCHANGED vars
  BY <1>6 DEF vars, TypeOK
<1> QED  BY <1>1, <1>2, <1>3, <1>4, <1>5, <1>6 DEF Next

(* The wall clock, the row, the handlers and the history keep their types. *)
THEOREM TypeCorrect == Spec => []TypeOK
  BY TypeInit, TypeStep, PTL DEF Spec

-----------------------------------------------------------------------------
(* The inductive invariant: an arm that is not outdated holds the row as   *)
(* it is, a row that was never armed is blank, and, while no arm wrote     *)
(* from an outdated copy, the row's day is the day of the last arm and its *)
(* day start the equity of that day's first.                               *)

CopiesAreTheRow ==
  \A p \in Arms : arm[p].pc # "idle" /\ ~arm[p].outdated => arm[p].copy = row

UnarmedIsBlank == ~row.remembered => row = Blank

DayIsTheArms ==
  row.remembered /\ ~lost =>
    /\ row.day = base.day
    /\ ~base.first => row.dayStart = base.equity

IInv == TypeOK /\ CopiesAreTheRow /\ UnarmedIsBlank /\ DayIsTheArms

(* From a copy that is not outdated a commit writes just what the guard    *)
(* has seen.                                                               *)
LEMMA CommitWrites ==
  ASSUME IInv, NEW p \in Arms, ArmCommit(p), ~arm[p].outdated
  PROVE  /\ row' = Remember(Observe(GuardFor(row, clock), arm[p].equity, clock), arm[p].equity)
         /\ arm[p].equity \in Equities
<1>1. arm[p].copy = row /\ arm[p].equity \in Equities
  BY DEF IInv, CopiesAreTheRow, ArmCommit, TypeOK, Arm
<1> DEFINE new == Remember(Observe(GuardFor(row, clock), arm[p].equity, clock), arm[p].equity)
<1>2. row' = Written(row, new)
  BY <1>1 DEF ArmCommit
<1>3. row \in Columns /\ new \in Columns /\ new.remembered
  BY <1>1, RememberedType DEF IInv, TypeOK, Remember
<1>4. Written(row, new) = new
  BY <1>3 DEF Written, Column, Columns
<1> QED  BY <1>1, <1>2, <1>4

LEMMA InvInit == Init => IInv
  BY TypeInit DEF Init, IInv, CopiesAreTheRow, UnarmedIsBlank, DayIsTheArms, Blank, ArmIdle

LEMMA InvStep == IInv /\ [Next]_vars => IInv'
<1> SUFFICES ASSUME IInv, [Next]_vars PROVE IInv'
  OBVIOUS
<1> USE DEF IInv
<1>0. TypeOK /\ TypeOK'
  BY TypeStep
<1>1. CASE Tick
  BY <1>0, <1>1 DEF Tick, CopiesAreTheRow, UnarmedIsBlank, DayIsTheArms
<1>2. CASE \E p \in Arms : ArmLoad(p)
  BY <1>0, <1>2 DEF ArmLoad, ArmIdle, CopiesAreTheRow, UnarmedIsBlank, DayIsTheArms, TypeOK
<1>3. CASE \E p \in Arms : ArmSnapshot(p)
  BY <1>0, <1>3 DEF ArmSnapshot, CopiesAreTheRow, UnarmedIsBlank, DayIsTheArms, TypeOK, Arm
<1>4. CASE \E p \in Arms : ArmCommit(p)
  <2>1. PICK p \in Arms : ArmCommit(p)
    BY <1>4
  <2>2. CopiesAreTheRow'
    BY <2>1 DEF ArmCommit, ArmIdle, CopiesAreTheRow, TypeOK, Arm
  <2>3. UnarmedIsBlank'
    BY <2>1 DEF ArmCommit, Written, UnarmedIsBlank
  <2>4. DayIsTheArms'
    <3> SUFFICES ASSUME ~lost' PROVE /\ row'.day = base'.day
                                     /\ ~base'.first => row'.dayStart = base'.equity
      BY DEF DayIsTheArms
    <3> DEFINE e == arm[p].equity
               today == DayOf(clock)
    <3>1. ~lost /\ ~arm[p].outdated
      BY <2>1 DEF ArmCommit
    <3>2. row' = Remember(Observe(GuardFor(row, clock), e, clock), e)
      BY <2>1, <3>1, CommitWrites
    <3>3. today \in Nat /\ row.day \in Nat /\ row.dayStart \in Nat
      BY ColumnsAreNaturals, DayOfType, BoundsAssumption DEF TypeOK
    <3>4. CASE ~row.remembered
      <4>1. base' = [day |-> today, equity |-> e, first |-> TRUE]
        BY <2>1, <3>4 DEF ArmCommit
      <4>2. row'.day = today
        BY <3>2, <3>3, <3>4 DEF Remember, Observe, GuardFor, Greater
      <4> QED  BY <4>1, <4>2
    <3>5. CASE row.remembered
      <4>1. base.day = row.day /\ (~base.first => row.dayStart = base.equity)
        BY <3>1, <3>5 DEF DayIsTheArms
      <4>2. row'.day = Greater(row.day, today)
            /\ row'.dayStart = IF today > row.day THEN e ELSE row.dayStart
        BY <3>2, <3>5 DEF Remember, Observe, GuardFor
      <4>3. CASE today > row.day
        BY <2>1, <3>3, <3>5, <4>1, <4>2, <4>3 DEF ArmCommit, Greater
      <4>4. CASE ~(today > row.day)
        BY <2>1, <3>3, <3>5, <4>1, <4>2, <4>4 DEF ArmCommit, Greater
      <4> QED  BY <4>3, <4>4
    <3> QED  BY <3>4, <3>5 DEF TypeOK, Columns
  <2> QED  BY <1>0, <2>2, <2>3, <2>4
<1>5. CASE \E p \in Arms : ArmAbort(p)
  BY <1>0, <1>5 DEF ArmAbort, ArmIdle, CopiesAreTheRow, UnarmedIsBlank, DayIsTheArms, TypeOK
<1>6. CASE UNCHANGED vars
  BY <1>0, <1>6 DEF vars, CopiesAreTheRow, UnarmedIsBlank, DayIsTheArms
<1> QED  BY <1>1, <1>2, <1>3, <1>4, <1>5, <1>6 DEF Next

LEMMA Invariance == Spec => []IInv
  BY InvInit, InvStep, PTL DEF Spec

-----------------------------------------------------------------------------
(* A loss of max_daily_loss since the day's first arm halts the bot that   *)
(* was armed before that day, however its arms overlapped, unless one of   *)
(* them wrote from an outdated copy of the row.                            *)
THEOREM LossIsMeasured == Spec => []LossSinceArmingHalts
<1>1. IInv => LossSinceArmingHalts
  <2> SUFFICES ASSUME IInv, NEW e \in Equities,
                      row.remembered, ~lost, ~base.first,
                      base.day = DayOf(clock), base.equity - e >= DailyLoss
               PROVE  Verdict(row, e, clock) = "daily_loss"
    BY DEF LossSinceArmingHalts
  <2>1. row.day = DayOf(clock) /\ row.dayStart = base.equity
    BY DEF IInv, DayIsTheArms
  <2>2. DayOf(clock) \in Nat
    BY DayOfType, BoundsAssumption DEF IInv, TypeOK
  <2>3. Observe(GuardFor(row, clock), e, clock).dayStart = base.equity
    BY <2>1, <2>2 DEF Observe, GuardFor
  <2> QED  BY <2>3 DEF Verdict, CheckEquity, LosesDay, Limits
<1> QED  BY <1>1, Invariance, PTL

(* A bar of the bot card is full, on the day it was measured, only if the  *)
(* guard halts at the equity shown, and one of them is if the guard does.  *)
THEOREM BarsTellTheVerdict == Spec => []BarsMatchGuard
<1>1. TypeOK => BarsMatchGuard
  <2> SUFFICES ASSUME TypeOK, row.remembered, row.day = DayOf(clock)
               PROVE  LET memory == GuardFor(row, clock) IN
                      Verdict(row, row.equity, clock) # "ok"
                        <=> \/ DailyLossUsed(Limits, memory, row.equity) = 100
                            \/ DrawdownUsed(Limits, memory, row.equity) = 100
    BY DEF BarsMatchGuard
  <2> DEFINE memory == GuardFor(row, clock)
             seen == Observe(memory, row.equity, clock)
  <2>1. row.equity \in Nat /\ memory \in Memory /\ DayOf(clock) \in Nat
    BY ColumnsAreNaturals, GuardForType, DayOfType, BoundsAssumption DEF TypeOK
  <2>2. memory.dayStart \in Nat /\ memory.peak \in Nat
    BY <2>1 DEF Memory
  <2>3. seen.dayStart = memory.dayStart /\ seen.peak = Greater(memory.peak, row.equity)
    BY <2>1 DEF Observe, GuardFor
  <2>4. DailyLossUsed(Limits, memory, row.equity) = 100 <=> LosesDay(Limits, seen, row.equity)
    BY <2>1, <2>2, <2>3, BarFull, DailyLossAssumption DEF DailyLossUsed, LosesDay, Limits
  <2>5. DrawdownUsed(Limits, memory, row.equity) = 100 <=> DrawsDown(Limits, seen, row.equity)
    <3> DEFINE lag == memory.peak - row.equity
    <3>1. CASE memory.peak = 0
      BY <2>1, <2>3, <3>1, DrawdownAssumption DEF DrawdownUsed, DrawsDown, Limits, Greater
    <3>2. CASE memory.peak > 0 /\ row.equity > memory.peak
      <4>1. DrawsDown(Limits, seen, row.equity) = FALSE
        BY <2>1, <2>2, <2>3, <3>2, DrawdownAssumption DEF DrawsDown, Limits, Greater
      <4>2. DrawdownUsed(Limits, memory, row.equity) # 100
        <5>1. memory.peak * Drawdown \in Nat \ {0}
          BY <2>2, <3>2, DrawdownAssumption
        <5>2. Greater(0, lag) = 0
          BY <2>1, <2>2, <3>2 DEF Greater
        <5>3. 0 \div (memory.peak * Drawdown) = 0
          BY <5>1
        <5> QED  BY <2>2, <3>2, <5>2, <5>3 DEF DrawdownUsed, Limits, Lesser
      <4> QED  BY <4>1, <4>2
    <3>3. CASE memory.peak > 0 /\ row.equity <= memory.peak
      <4> DEFINE room == memory.peak * Drawdown
      <4>1. room \in Nat \ {0} /\ room = Drawdown * memory.peak
        BY <2>2, <3>3, DrawdownAssumption
      <4>2. seen.peak = memory.peak
        BY <2>1, <2>2, <2>3, <3>3 DEF Greater
      <4>3. lag \in Nat /\ Greater(0, lag) = lag /\ Greater(0, lag * 100) = lag * 100
        BY <2>1, <2>2, <3>3 DEF Greater
      <4>4. Lesser(100, (Greater(0, lag * 100) * 100) \div room) = 100 <=> lag * 100 >= room
        BY <4>1, <4>3, BarFull
      <4>5. DrawdownUsed(Limits, memory, row.equity)
              = Lesser(100, (Greater(0, lag * 100) * 100) \div room)
        BY <2>2, <3>3, <4>3 DEF DrawdownUsed, Limits
      <4>6. DrawsDown(Limits, seen, row.equity) <=> lag * 100 >= room
        BY <2>2, <3>3, <4>1, <4>2 DEF DrawsDown, Limits
      <4> QED  BY <4>4, <4>5, <4>6
    <3> QED  BY <2>1, <2>2, <3>1, <3>2, <3>3
  <2>6. Verdict(row, row.equity, clock) # "ok"
          <=> LosesDay(Limits, seen, row.equity) \/ DrawsDown(Limits, seen, row.equity)
    BY DEF Verdict, CheckEquity
  <2> QED  BY <2>4, <2>5, <2>6
<1> QED  BY <1>1, TypeCorrect, PTL

(* No write to the row forgives: an equity that would have halted the bot  *)
(* before an arm committed still does after it, unless an arm wrote from   *)
(* an outdated copy of the row.                                            *)
THEOREM ArmsForgiveNothing == Spec => ArmingNeverForgives
<1> DEFINE Keeps == ~lost' => \A e \in Equities :
                      Verdict(row, e, clock) # "ok" => Verdict(row', e, clock) # "ok"
<1>1. IInv /\ [Next]_vars => [Keeps]_row
  <2> SUFFICES ASSUME IInv, [Next]_vars, row' # row, ~lost', NEW e \in Equities,
                      Verdict(row, e, clock) # "ok"
               PROVE  Verdict(row', e, clock) # "ok"
    OBVIOUS
  <2>1. PICK p \in Arms : ArmCommit(p)
    BY DEF Next, vars, Tick, ArmLoad, ArmSnapshot, ArmAbort
  <2>2. ~arm[p].outdated
    BY <2>1 DEF ArmCommit
  <2> DEFINE seen == Observe(GuardFor(row, clock), arm[p].equity, clock)
  <2>3. row' = Remember(seen, arm[p].equity) /\ arm[p].equity \in Nat
    BY <2>1, <2>2, CommitWrites, BoundsAssumption DEF Equities
  <2>4. clock \in Nat /\ e \in Nat /\ row \in Columns /\ DayOf(clock) \in Nat
    BY BoundsAssumption, DayOfType DEF IInv, TypeOK, Equities
  <2>5. row.remembered
    <3> SUFFICES ASSUME ~row.remembered PROVE FALSE
      OBVIOUS
    <3>1. row = Blank
      BY DEF IInv, UnarmedIsBlank
    <3>2. Observe(GuardFor(row, clock), e, clock)
            = [day |-> DayOf(clock), dayStart |-> 0, peak |-> e]
      BY <2>4, <3>1 DEF Observe, GuardFor, Blank, Greater
    <3> QED  BY <2>4, <3>2, DailyLossAssumption, DrawdownAssumption
             DEF Verdict, CheckEquity, LosesDay, DrawsDown, Limits
  <2> DEFINE before == GuardFor(row, clock)
             after  == GuardFor(row', clock)
  <2>6. before \in Memory /\ seen \in Memory
    BY <2>3, <2>4, GuardForType, ObserveType
  <2>7. after = seen
    BY <2>3, <2>6 DEF GuardFor, Remember, Memory
  <2>8. before.peak <= after.peak
        /\ (DayOf(clock) <= before.day =>
              DayOf(clock) <= after.day /\ after.dayStart = before.dayStart)
    BY <2>3, <2>4, <2>6, <2>7 DEF Observe, Memory, Greater
  <2>9. CheckEquity(Limits, after, e, clock) # "ok"
    BY <2>4, <2>6, <2>7, <2>8, MoreMemoryForgivesNothing DEF Verdict
  <2> QED  BY <2>9 DEF Verdict
<1> QED  BY <1>1, Invariance, PTL DEF Spec, ArmingNeverForgives
=============================================================================
