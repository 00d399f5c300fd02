----------------------------- MODULE MCAutosave -----------------------------
(***************************************************************************)
(* Two devices, two requests in flight.  One unnamed revision is kept, so  *)
(* that a third save prunes the first, and a handler has outlived the      *)
(* guard of its copy when three others have saved.                         *)
(***************************************************************************)
EXTENDS Autosave, TLC

CONSTANTS d1, d2, r1, r2
TheDevices  == {d1, d2}
TheRequests == {r1, r2}

\* Devices and requests are alike; Register is a safety property, so that this is sound.
Symmetry == Permutations(TheDevices) \cup Permutations(TheRequests)

\* Five requests without a disturbance, three with one.
Budget == sent <= IF faults = 0 THEN 5 ELSE 3
=============================================================================
