---- MODULE ClaimSet ----
(***************************************************************************)
(* What the resume accumulator promises, as plain sets of bytes: claims    *)
(* grow by what was recorded, a saved sidecar gives them back after a      *)
(* restart, and a trim only takes away.                                    *)
(***************************************************************************)
CONSTANT
    Ranges      \* the byte sets one task can stand for

VARIABLES
    claimed,    \* bytes the process holds for complete
    durable     \* bytes a restart holds for complete

Claim(r) == claimed' = claimed \cup r /\ UNCHANGED durable

\* A save adds the written part of one task in progress.
Save(r) == durable' = claimed \cup r /\ UNCHANGED claimed

Restart == claimed' = durable /\ UNCHANGED durable

\* A size mismatch, a mirror switch, a truncation: nothing is reused.
Discard == claimed' = {} /\ durable' \in {durable, {}}

Trim ==
    /\ claimed' \subseteq claimed
    /\ durable' = claimed'

Next ==
    \/ \E r \in Ranges : Claim(r) \/ Save(r)
    \/ Save({}) \/ Restart \/ Discard \/ Trim

Spec == claimed = {} /\ durable = {} /\ [][Next]_<<claimed, durable>>
====
