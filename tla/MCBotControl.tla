---------------------------- MODULE MCBotControl ----------------------------
(* BotControl on two bots of one key and symbol, set up from two strategies, *)
(* neither in hedge mode.                                                    *)
EXTENDS BotControl, TLC

CONSTANTS b1, b2

MCMarket == [b \in Bots |-> "market"]
MCStrategy == (b1 :> "s1") @@ (b2 :> "s2")

Symmetry == Permutations(Requests)
=============================================================================
