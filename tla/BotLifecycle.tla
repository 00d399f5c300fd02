---------------------------- MODULE BotLifecycle ----------------------------
(***************************************************************************)
(* What a trading bot's row promises about its state, with no requests, no *)
(* sessions and no snapshots: each bot is in one state, and each change of *)
(* state is one of a few kinds.                                            *)
(*                                                                         *)
(* The promise covers a bot until a request writes its row from a copy     *)
(* that another request has changed in the meantime.  From then on the bot *)
(* is "overwritten" and nothing is promised of it: BotControl shows where  *)
(* that happens.                                                           *)
(***************************************************************************)
CONSTANT Bots          \* every bot that exists or will be created

VARIABLE life          \* the state of each bot

(* A bot is unborn until it is created and deleted for good; the rest are  *)
(* BOT_STATES (running is declared by the model and set by no code).       *)
Lives == {"unborn", "stopped", "armed", "running", "halted", "deleted", "overwritten"}

Init == life \in [Bots -> {"unborn", "stopped"}]

(* from -> to, for one bot.  A halt is left only for stopped, or by        *)
(* deleting the bot: never for armed.                                      *)
Moves ==
  { <<"unborn", "stopped">>,                                \* created
    <<"stopped", "armed">>,                                 \* armed
    <<"armed", "stopped">>, <<"halted", "stopped">>,        \* stopped or cleared
    <<"stopped", "halted">>, <<"armed", "halted">>,         \* halted
    <<"stopped", "deleted">>, <<"halted", "deleted">>,      \* deleted
    <<"armed", "deleted">> }                                \* with its strategy

MayMove(b) ==
  \/ life'[b] = life[b]
  \/ <<life[b], life'[b]>> \in Moves
  \/ /\ life[b] \in {"stopped", "armed", "halted"}
     /\ life'[b] = "overwritten"

(* One request may move several bots at once (the kill switch does).       *)
Next ==
  /\ life' \in [Bots -> Lives]
  /\ \A b \in Bots : MayMove(b)

Spec == Init /\ [][Next]_life
=============================================================================
