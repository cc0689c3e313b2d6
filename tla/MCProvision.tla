----------------------------- MODULE MCProvision -----------------------------
(* Provision and Registrar for TLC: one bottle of the seed file with two    *)
(* seals, the first one dead, and one bottle that is bound by hand; a       *)
(* registry for two server keys, where a key that is added by hand is       *)
(* valid from the second time on.  The two modules share no state: a        *)
(* behaviour takes steps of one of them only.                               *)
EXTENDS Provision, Registrar, TLC

CONSTANTS s1, s2, u1, u2, u3

Chips == (u1 :> s1) @@ (u2 :> s1) @@ (u3 :> s2)
SeedFile == s1 :> <<u1, u2>>
HandTerms == {[from |-> 3, to |-> 0]}

\* One thing goes wrong - a fault, an asset that is given away, a rival's
\* passport, a stray transfer to the bottle that is bound by hand or its chip -
\* or a fault and a stray transfer.
Strays == {a \in Addresses : \E i \in 1..Len(touched[a]) : touched[a][i] = "stray"}
OtherTroubles == Cardinality({s \in Serials : passports[s].issuer = "other"})
          + Cardinality({a \in 1..Len(owner) : owner[a] = "other"})
Bounded == /\ Strays \subseteq {s2, u3}
           /\ OtherTroubles > 0 => faults + Cardinality(Strays) + OtherTroubles <= 1

\* bind-chip is for the bottle that is not in the seed file; the file names
\* the asset from before, or none.
Arguments ==
  LET r == run["script"] IN
  AtStep("script", "asset") =>
    /\ r.prog = "bind" => Where("script") = s2
    /\ r.prog = "seed" => r.asset \in {0, 1}

MCInit == Init /\ RegistrarInit
MCNext ==
  \/ /\ RegistrarInit /\ wantedId = 0 /\ Next /\ UNCHANGED registrarVars
     /\ Bounded' /\ Arguments'
  \/ Init /\ RegistrarNext /\ UNCHANGED vars
MCSpec == MCInit /\ [][MCNext]_<<vars, registrarVars>>

=============================================================================
