----------------------------- MODULE AtomicFile -----------------------------
(***************************************************************************)
(* What the sidecar is meant to be: a file whose contents are replaced as  *)
(* a whole.  After a crash of the machine a reader finds what it had at    *)
(* some earlier time, never a mixture or a part.                           *)
(***************************************************************************)
CONSTANT Values

VARIABLES
    now,   \* what a reader finds: {} for no file, or {v} for its contents v
    disk   \* what it finds if the machine crashes now

Init == now = {} /\ disk = {}

Put == (\E v \in Values : now' = {v}) /\ disk' = disk

Remove == now' = {} /\ disk' = disk

Persist == disk' = now /\ now' = now

Crash == now' = disk /\ disk' = disk

Next == Put \/ Remove \/ Persist \/ Crash

Spec == Init /\ [][Next]_<<now, disk>>

=============================================================================
