-------------------------------- MODULE Fifo --------------------------------
(* What queue.c promises: items leave in the order in which they came. *)
EXTENDS Sequences

CONSTANT Data
VARIABLE items

Put(d) == items' = Append(items, d)
Take == items # <<>> /\ items' = Tail(items)

Spec == items = <<>> /\ [][(\E d \in Data : Put(d)) \/ Take]_items
=============================================================================
