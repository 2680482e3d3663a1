---------------------------- MODULE RequestBatch ----------------------------
(***************************************************************************)
(* What one outgoing connection promises to the code that opened it.       *)
(*                                                                         *)
(* The caller queues a batch of requests on one protocol handler.  The     *)
(* peer answers them in the order they were queued, and commits the effect *)
(* of each before it answers the next; an answered request is reported OK  *)
(* to the caller, again in order; and at most once, when the handler is    *)
(* destroyed, every request still without an outcome is reported FAIL.  A  *)
(* request may thus be answered by the peer and reported FAIL to the       *)
(* caller, never the reverse, and whatever stops the peer loses the effect *)
(* of one answered request.  A request may be spoiled before it is         *)
(* answered: its answer then says nothing about its effect.                *)
(***************************************************************************)
EXTENDS Naturals

CONSTANT N                       \* number of requests in the batch, a natural number

VARIABLES result,                \* what the caller's hooks were told
          answered,              \* the requests the peer has answered
          applied,               \* the requests the peer has committed
          spoiled                \* the requests it may answer and never commit

vars == <<result, answered, applied, spoiled>>

Requests == 1..N

TypeOK == /\ result \in [Requests -> {"pending", "ok", "fail"}]
          /\ answered \subseteq Requests
          /\ applied \subseteq answered
          /\ spoiled \subseteq Requests

Init == /\ result = [r \in Requests |-> "pending"]
        /\ answered = {}
        /\ applied = {}
        /\ spoiled = {}

\* The peer answers the first request it has not answered yet, when nothing it
\* answered before is left to commit.
Answer(r) == /\ r \notin answered
             /\ \A q \in 1..(r - 1) : q \in answered /\ q \in applied \cup spoiled
             /\ answered' = answered \cup {r}
             /\ UNCHANGED <<result, applied, spoiled>>

Commit(r) == /\ r \in answered
             /\ applied' = applied \cup {r}
             /\ UNCHANGED <<result, answered, spoiled>>

Spoil(r) == /\ r \notin answered
            /\ spoiled' = spoiled \cup {r}
            /\ UNCHANGED <<result, answered, applied>>

\* The first pending request is reported OK; the peer has answered it.
Confirm(r) == /\ result[r] = "pending"
              /\ r \in answered
              /\ \A q \in 1..(r - 1) : result[q] = "ok"
              /\ result' = [result EXCEPT ![r] = "ok"]
              /\ UNCHANGED <<answered, applied, spoiled>>

\* The connection is gone: everything still pending is reported FAIL.
Abandon == /\ result' = [r \in Requests |->
                           IF result[r] = "pending" THEN "fail" ELSE result[r]]
           /\ UNCHANGED <<answered, applied, spoiled>>

Next == Abandon \/ \E r \in Requests : Answer(r) \/ Commit(r) \/ Spoil(r) \/ Confirm(r)

Spec == Init /\ [][Next]_vars

\* The requests are answered in order, and whatever stops the peer, all it answered but one
\* is committed or spoiled: the caller is told OK of at most one request of the others that
\* comes to nothing.
OneLost == /\ \A r \in answered : 1..(r - 1) \subseteq answered
           /\ \A q, r \in answered \ (applied \cup spoiled) : q = r
           /\ \A r \in Requests : result[r] = "ok" => r \in answered
=============================================================================
