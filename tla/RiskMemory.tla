----------------------------- MODULE RiskMemory -----------------------------
(***************************************************************************)
(* The risk memory of one bot's row, and the only code that writes it:     *)
(* arming.  The arm handler loads the row, waits for the venue, rebuilds a *)
(* guard from what it loaded, shows it the equity the venue reported, and  *)
(* commits the columns that changed.  list_bots draws the budget bars from *)
(* the same columns.                                                       *)
(*                                                                         *)
(* Two arms of the bot may overlap, and a day may end between the venue's  *)
(* answer and the commit.  The state column and the races on it are in  *)
(* BotControl.                                                             *)
(***************************************************************************)
EXTENDS Integers, RiskGuard

CONSTANTS
  Arms,          \* request slots for arm handlers
  MaxClock,      \* bound: the last tick
  MaxEquity,     \* bound: the equities are 0..MaxEquity
  DailyLoss,     \* max_daily_loss of the bot
  Drawdown       \* max_drawdown_percent of the bot

ASSUME DailyLossAssumption == DailyLoss \in Nat \ {0}
ASSUME DrawdownAssumption == Drawdown \in 1..100
ASSUME BoundsAssumption == MaxClock \in Nat /\ MaxEquity \in Nat

VARIABLES
  clock,         \* the wall clock
  row,           \* the row's risk columns
  arm,           \* arm[p]: the arm handler in slot p
  base,          \* history: the equity at the first arm of base.day, and
                 \* whether that arm was the bot's first ever
  lost           \* history: an arm wrote the row from an outdated copy

vars == <<clock, row, arm, base, lost>>

-----------------------------------------------------------------------------
Equities == 0..MaxEquity
Days == 0..DayOf(MaxClock)

(* The columns equity, day_start_equity, peak_equity and day_started_at,   *)
(* which are all NULL until the first arm (remembered says which).         *)
Columns == [remembered : BOOLEAN, equity : Equities, dayStart : Equities,
            peak : Equities, day : Days]

Blank == [remembered |-> FALSE, equity |-> 0, dayStart |-> 0, peak |-> 0, day |-> 0]

Limits == [dailyLoss |-> DailyLoss, drawdown |-> Drawdown]

(* Mutant: every arm starts the guard afresh, from the last equity seen.   *)
GuardStartingAt(columns, at) ==
  [day |-> DayOf(at), dayStart |-> columns.equity, peak |-> columns.equity]

(* A guard rebuilt from the columns.  NULL columns read as no equity, and  *)
(* as the day in which they are read.                                      *)
GuardFor(columns, at) ==
  [day |-> IF columns.remembered THEN columns.day ELSE DayOf(at),
   dayStart |-> columns.dayStart, peak |-> columns.peak]

(* remember_state, onto the copy the handler holds.                        *)
Remember(memory, e) ==
  [remembered |-> TRUE, equity |-> e, dayStart |-> memory.dayStart,
   peak |-> memory.peak, day |-> memory.day]

ArmIdle == [pc |-> "idle", copy |-> Blank, equity |-> 0, outdated |-> FALSE]

Arm == [pc : {"idle", "venue", "answered"}, copy : Columns, equity : Equities,
        outdated : BOOLEAN]

TypeOK ==
  /\ clock \in 0..MaxClock
  /\ row \in Columns
  /\ arm \in [Arms -> Arm]
  /\ base \in [day : Days, equity : Equities, first : BOOLEAN]
  /\ lost \in BOOLEAN

Init ==
  /\ clock = 0
  /\ row = Blank
  /\ arm = [p \in Arms |-> ArmIdle]
  /\ base = [day |-> 0, equity |-> 0, first |-> TRUE]
  /\ lost = FALSE

-----------------------------------------------------------------------------
Tick ==
  /\ clock < MaxClock
  /\ clock' = clock + 1
  /\ UNCHANGED <<row, arm, base, lost>>

ArmLoad(p) ==
  /\ arm[p].pc = "idle"
  /\ arm' = [arm EXCEPT ![p] = [ArmIdle EXCEPT !.pc = "venue", !.copy = row]]
  /\ UNCHANGED <<clock, row, base, lost>>

(* The venue reports the account's equity, which the market and the bot's  *)
(* trades may have taken anywhere.                                         *)
ArmSnapshot(p) ==
  /\ arm[p].pc = "venue"
  /\ \E e \in Equities : arm' = [arm EXCEPT ![p].pc = "answered", ![p].equity = e]
  /\ UNCHANGED <<clock, row, base, lost>>

Column(now, old, new) == IF new = old THEN now ELSE new

(* Only the columns that differ from the copy are written.                 *)
Written(old, new) ==
  [remembered |-> TRUE,
   equity |-> IF old.remembered THEN Column(row.equity, old.equity, new.equity) ELSE new.equity,
   dayStart |-> IF old.remembered THEN Column(row.dayStart, old.dayStart, new.dayStart)
                                  ELSE new.dayStart,
   peak |-> IF old.remembered THEN Column(row.peak, old.peak, new.peak) ELSE new.peak,
   day |-> IF old.remembered THEN Column(row.day, old.day, new.day) ELSE new.day]

(* Pre-flight passed: the guard observes the equity the venue reported,    *)
(* at the time of the commit, and the row remembers it.                    *)
ArmCommit(p) ==
  LET copy == arm[p].copy
      seen == Observe(GuardFor(copy, clock), arm[p].equity, clock) IN
  /\ arm[p].pc = "answered"
  /\ row' = Written(copy, Remember(seen, arm[p].equity))
  /\ arm' = [q \in Arms |-> IF q = p THEN ArmIdle
                            ELSE IF arm[q].pc = "idle" THEN arm[q]
                            ELSE [arm[q] EXCEPT !.outdated = TRUE]]
  /\ lost' = (lost \/ arm[p].outdated)
  /\ base' = IF ~row.remembered \/ DayOf(clock) > base.day
               THEN [day |-> DayOf(clock), equity |-> arm[p].equity, first |-> ~row.remembered]
               ELSE base
  /\ UNCHANGED clock

(* Refused by pre-flight, failed, or disconnected: nothing is written.     *)
ArmAbort(p) ==
  /\ arm[p].pc # "idle"
  /\ arm' = [arm EXCEPT ![p] = ArmIdle]
  /\ UNCHANGED <<clock, row, base, lost>>

Next ==
  \/ Tick
  \/ \E p \in Arms : ArmLoad(p) \/ ArmSnapshot(p) \/ ArmCommit(p) \/ ArmAbort(p)

Spec == Init /\ [][Next]_vars

-----------------------------------------------------------------------------
(* What a guard rebuilt from the row says of equity e at time `at`.        *)
Verdict(columns, e, at) == CheckEquity(Limits, GuardFor(columns, at), e, at)

(* risk.py: "a restart cannot be used to reset a daily loss limit".  No    *)
(* write to the row forgives: an equity that would have halted the bot     *)
(* before an arm committed still does after it, unless an arm wrote from   *)
(* an outdated copy of the row.                                            *)
ArmingNeverForgives ==
  [][~lost' => \A e \in Equities :
       Verdict(row, e, clock) # "ok" => Verdict(row', e, clock) # "ok"]_row

(* A loss of max_daily_loss since the day's first arm halts the bot that   *)
(* was armed before that day, whatever was armed again in between.         *)
LossSinceArmingHalts ==
  \A e \in Equities :
    (/\ row.remembered /\ ~lost /\ ~base.first
     /\ base.day = DayOf(clock)
     /\ base.equity - e >= DailyLoss)
    => Verdict(row, e, clock) = "daily_loss"

(* A bar of the bot card is full, on the day it was measured, only if the  *)
(* guard halts at the equity shown, and one of them is if the guard does.  *)
BarsMatchGuard ==
  row.remembered /\ row.day = DayOf(clock) =>
    LET memory == GuardFor(row, clock) IN
    Verdict(row, row.equity, clock) # "ok"
      <=> \/ DailyLossUsed(Limits, memory, row.equity) = 100
          \/ DrawdownUsed(Limits, memory, row.equity) = 100

(* risk.py: "Daily loss is measured from the equity at the UTC day         *)
(* boundary": a loss of max_daily_loss since the day's first arm halts the *)
(* bot on its first day too, by whichever of the limits.                   *)
LossSinceFirstArmHalts ==
  \A e \in Equities :
    (/\ row.remembered /\ ~lost
     /\ base.day = DayOf(clock)
     /\ base.equity - e >= DailyLoss)
    => Verdict(row, e, clock) # "ok"
=============================================================================
