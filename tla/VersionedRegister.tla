------------------------- MODULE VersionedRegister -------------------------
(***************************************************************************)
(* What the document store promises its clients: a document is a register  *)
(* that is created at revision 1, replaced one revision at a time and      *)
(* deleted as a whole, and whose accepted contents are all remembered.     *)
(***************************************************************************)
EXTENDS Naturals

CONSTANT Absent

VARIABLES
  register,   \* the document as it stands, or Absent
  accepted    \* everything the register ever held

Init == register = Absent /\ accepted = {}

Create ==
  /\ register = Absent
  /\ register' # Absent
  /\ register'.rev = 1
  /\ \A old \in accepted : old.id # register'.id
  /\ accepted' = accepted \cup {register'}

Replace ==
  /\ register # Absent
  /\ register' = [register EXCEPT !.rev = @ + 1, !.data = register'.data]
  /\ accepted' = accepted \cup {register'}

Delete ==
  /\ register # Absent
  /\ register' = Absent
  /\ UNCHANGED accepted

Next == Create \/ Replace \/ Delete

Spec == Init /\ [][Next]_<<register, accepted>>
============================================================================
