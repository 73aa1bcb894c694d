--------------------------- MODULE MCModelGateway ---------------------------
(* Small instances of ModelGateway: three registrations of one provider, the   *)
(* third with another egress, and two requests that may carry the same key.    *)
EXTENDS ModelGateway, TLC

CONSTANTS c1, c2, c3, first, changed, r1, r2, r3

MCEgress == r1 :> "wide" @@ r2 :> "wide" @@ r3 :> "narrow"

Symmetric == Permutations(Call)
             \cup Permutations({r \in Registration : Egress[r] = "wide"})
=============================================================================
