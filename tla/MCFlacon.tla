------------------------------ MODULE MCFlacon ------------------------------
(* Values of the constants of Flacon for TLC.                              *)
EXTENDS Flacon, TLC

CONSTANTS auth, shop

Reading(tamper, heat, fill) ==
  [tamper |-> tamper, heat |-> heat, hum |-> "INTACT", fill |-> fill]

\* One reading each for grades A, C and VOID, and
\* one that is refused.
SomeGrades == {Reading("CLOSED", "INTACT", 90), Reading("CLOSED", "INTACT", 101),
               Reading("CLOSED", "TRIGGERED", 90), Reading("OPENED_BEFORE", "INTACT", 90)}

Claim(role, tier, site) == [role |-> role, tier |-> tier, site |-> site]

\* An owner's scan, a partner's with a site, and one that is refused.
AllClaims == {Claim("OWNER", 2, 0), Claim("OWNER", 3, 0),
              Claim("PARTNER", 3, 1)}

Term(from, to) == [from |-> from, to |-> to]

\* A key without an end, and one with its last second.
TwoTerms == {Term(0, 0), Term(1, 1)}

SealsAlike == Permutations(Seals)

=============================================================================
