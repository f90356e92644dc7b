------------------------------ MODULE MCWheel ------------------------------
(* Instances of the wheel for TLC: the two spins of u1 race each other for  *)
(* drops of every kind of reward.                                           *)
EXTENDS Wheel, TLC

CONSTANTS u1, s1, s2, dNone, dPhysical, dToken, dComic, iItem, iToken, iComic

MCUserOf == [s \in Spins |-> u1]
MCTypeOf == dNone :> "None" @@ dPhysical :> "Physical" @@ dToken :> "Fungible"
            @@ dComic :> "Collectible"
MCWeightOf == [d \in Drops |-> 1]
MCItemOf == dNone :> iItem @@ dPhysical :> iItem @@ dToken :> iToken
            @@ dComic :> iComic
=============================================================================
