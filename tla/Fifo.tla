---- MODULE Fifo ----
(***************************************************************************)
(* What the work queue promises: tasks leave it in the order they came in, *)
(* each exactly once, and none is refused (Queue in internal/fetch/task.go)*)
(***************************************************************************)
EXTENDS Sequences

CONSTANTS
    Batches,    \* what PushMany may be given; Push is a batch of one
    Nothing     \* what Pop returns when there is nothing

VARIABLES
    items,      \* the queue, oldest first
    call        \* the last call: the batch it pushed, or what it popped

Init == items = <<>> /\ call = [popped |-> Nothing]

\* A batch goes in as a whole, in order.
Put(batch) ==
    /\ items' = items \o batch
    /\ call' = [pushed |-> batch]

Take ==
    /\ items # <<>>
    /\ call' = [popped |-> Head(items)]
    /\ items' = Tail(items)

TakeNothing ==
    /\ items = <<>>
    /\ call' = [popped |-> Nothing]
    /\ UNCHANGED items

Next == (\E batch \in Batches : Put(batch)) \/ Take \/ TakeNothing

Spec == Init /\ [][Next]_<<items, call>>
====
