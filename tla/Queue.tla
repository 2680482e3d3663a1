-------------------------------- MODULE Queue --------------------------------
(***************************************************************************)
(* The linked list behind the two queues of every protocol handler         *)
(* (queue.c), node by node: malloc picks any free node and leaves what was *)
(* in it, free gives the node back.                                        *)
(***************************************************************************)
EXTENDS Naturals, Sequences

CONSTANTS Nodes,   \* bound: the memory for nodes
          Data,    \* what is queued
          NULL

ASSUME NullAssumption == NULL \notin Nodes

VARIABLES front, rear, length,  \* struct queue
          next, data,           \* the fields of every node
          unused,               \* the nodes that are not allocated
          order                 \* history: the allocated nodes, oldest first

vars == <<front, rear, length, next, data, unused, order>>
-----------------------------------------------------------------------------
QInit ==
  /\ front = NULL /\ rear = NULL /\ length = 0
  /\ next \in [Nodes -> {NULL}]
  /\ data \in [Nodes -> Data]
  /\ unused = Nodes
  /\ order = <<>>

\* Mutation: the new node is linked and rear stays.
EnqueueKeepsRear(d) ==
  \E n \in unused :
    /\ unused' = unused \ {n}
    /\ data' = [data EXCEPT ![n] = d]
    /\ order' = Append(order, n)
    /\ length' = length + 1
    /\ IF length = 0
       THEN front' = n /\ rear' = n /\ next' = [next EXCEPT ![n] = NULL]
       ELSE next' = [next EXCEPT ![n] = NULL, ![rear] = n] /\ UNCHANGED <<front, rear>>

\* queue_enqueue.  A queue of length 0 gets new ends; otherwise the node is linked to
\* rear, which is only then looked at.
Enqueue(d) ==
  \E n \in unused :
    /\ unused' = unused \ {n}
    /\ data' = [data EXCEPT ![n] = d]
    /\ order' = Append(order, n)
    /\ length' = length + 1
    /\ rear' = n
    /\ IF length = 0
       THEN front' = n /\ next' = [next EXCEPT ![n] = NULL]
       ELSE next' = [next EXCEPT ![n] = NULL, ![rear] = n] /\ UNCHANGED front

\* queue_dequeue of a queue that is not empty.
Dequeue ==
  /\ length > 0
  /\ front' = next[front]
  /\ unused' = unused \cup {front}
  /\ rear' = IF length = 1 THEN NULL ELSE rear
  /\ length' = length - 1
  /\ order' = Tail(order)
  /\ UNCHANGED <<next, data>>

QNext == Dequeue \/ \E d \in Data : Enqueue(d)

QSpec == QInit /\ [][QNext]_vars
-----------------------------------------------------------------------------
(* Properties *)

Items == [i \in 1..Len(order) |-> data[order[i]]]
Abstract == INSTANCE Fifo WITH items <- Items

\* queue_peek walks the list from the front.
Peek(index) ==
  LET node[i \in 0..index] == IF i = 0 THEN front ELSE next[node[i - 1]]
  IN  IF index + 1 > length THEN NULL ELSE node[index]

\* The nodes reached from front through next are the allocated ones, oldest first, rear
\* is the last of them and length their number.
Linked ==
  /\ length = Len(order)
  /\ \A i \in 1..Len(order) : order[i] \notin unused
  /\ \A i, j \in 1..Len(order) : order[i] = order[j] => i = j
  /\ \A i \in 1..Len(order) - 1 : next[order[i]] = order[i + 1]
  /\ IF order = <<>> THEN front = NULL /\ rear = NULL
     ELSE /\ front = order[1] /\ rear = order[Len(order)]
          /\ next[order[Len(order)]] = NULL

\* The list is linked, and every index leads to the item of that age.
QueueKeepsOrder == Linked /\ \A i \in 1..Len(order) : Peek(i - 1) = order[i]
=============================================================================
