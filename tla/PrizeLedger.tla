---------------------------- MODULE PrizeLedger ----------------------------
(***************************************************************************)
(* What the wheel promises, without handlers, receipts or a chain: every   *)
(* drop offered goes to at most one spin, for ever, every spin wins at     *)
(* most one drop, and only a spin that won is paid, once.                  *)
(***************************************************************************)
CONSTANTS Spins, Drops

VARIABLES
    offered,    \* drops that can still be won
    award,      \* pairs <<spin, drop>>
    paid        \* spins that received what they won

vars == <<offered, award, paid>>

Awarded == {a[2] : a \in award}
Winners == {a[1] : a \in award}

Init ==
    /\ offered \subseteq Drops
    /\ award = {}
    /\ paid = {}

\* Drops never seen before are put on the wheel.
Offer ==
    /\ \E new \in SUBSET (Drops \ (offered \cup Awarded)) :
        offered' = offered \cup new
    /\ UNCHANGED <<award, paid>>

Award(s, d) ==
    /\ d \in offered
    /\ s \notin Winners
    /\ offered' = offered \ {d}
    /\ award' = award \cup {<<s, d>>}
    /\ UNCHANGED paid

Pay(s) ==
    /\ s \in Winners \ paid
    /\ paid' = paid \cup {s}
    /\ UNCHANGED <<offered, award>>

Next ==
    \/ Offer
    \/ \E s \in Spins : Pay(s) \/ \E d \in Drops : Award(s, d)

Spec == Init /\ [][Next]_vars
=============================================================================
