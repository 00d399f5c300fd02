---------------------------- MODULE SecondFactor ----------------------------
(***************************************************************************)
(* The second factor of an account (services/auth_service.py and the totp  *)
(* routes), as functions of the copy of the users row a handler works on.  *)
(*                                                                         *)
(* A secret is a number; the recovery codes made with it are the pairs of  *)
(* that number and an index.  A one-time code is the 30-second step it was *)
(* shown in, together with the secret it was computed from.                *)
(***************************************************************************)
EXTENDS Integers

CONSTANT CodesPerSecret   \* how many recovery codes an enrolment makes

ASSUME CodesAssumption == CodesPerSecret \in Nat

NoSecret == 0
NoCounter == -1

Blank == [enabled |-> FALSE, secret |-> NoSecret, pending |-> NoSecret,
          codes |-> {}, counter |-> NoCounter]

FreshCodes(secret) == {<<secret, i>> : i \in 1..CodesPerSecret}
Enrolled(secret) == [enabled |-> TRUE, secret |-> secret, pending |-> NoSecret,
                     codes |-> FreshCodes(secret), counter |-> NoCounter]

OneTime(secret, step) == [kind |-> "totp", secret |-> secret, step |-> step]
Recovery(code) == [kind |-> "recovery", code |-> code]
NoCode == Recovery(<<0, 0>>)

\* verify_totp: one step of clock drift either way.
Shown(secret, code, step) ==
  /\ code.kind = "totp"
  /\ code.secret = secret
  /\ code.step \in (step - 1)..(step + 1)

\* verify_second_factor, what it accepts ...
Accepts(u, code, step) ==
  /\ u.enabled
  /\ IF code.kind = "totp" THEN Shown(u.secret, code, step) /\ step > u.counter
                           ELSE code.code \in u.codes

\* ... and what it leaves on the copy: the step in which the code came, or
\* one recovery code fewer.
\* Mutant: a used recovery code stays.
VerifiedKeeps(u, code, step) ==
  IF code.kind = "totp" THEN [u EXCEPT !.counter = step] ELSE u
\* Mutant: the step of an accepted code is not recorded.
VerifiedForgets(u, code, step) ==
  IF code.kind = "totp" THEN u ELSE [u EXCEPT !.codes = @ \ {code.code}]
Verified(u, code, step) ==
  IF code.kind = "totp" THEN [u EXCEPT !.counter = step]
                        ELSE [u EXCEPT !.codes = @ \ {code.code}]

\* start_totp_enrolment and confirm_totp_enrolment
Started(u, secret) == [u EXCEPT !.pending = secret]
Confirms(u, code, step) == u.pending # NoSecret /\ Shown(u.pending, code, step)
Confirmed(u) == Enrolled(u.pending)

\* totp_disable
Disabled(u) == Blank

\* The UPDATE at commit: the columns of the copy that the handler changed,
\* over the row as it stands by then.
Merge(row, old, new) ==
  [c \in DOMAIN row |-> IF new[c] = old[c] THEN row[c] ELSE new[c]]
=============================================================================
