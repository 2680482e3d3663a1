-------------------------- MODULE ProtMainPipeline --------------------------
(***************************************************************************)
(* The inductive invariant behind the safety properties of ProtMain.       *)
(*                                                                         *)
(* Four positions in 0..N+1 locate every message of a connection: the      *)
(* initiator has handled the responses below a, the acceptor has handed to *)
(* its kernel those below b; the acceptor has handled the requests below   *)
(* c, the initiator has handed to its kernel those below d.  The queues of *)
(* both ends and the network hold intervals between these positions.       *)
(***************************************************************************)
EXTENDS ProtMain

Positions == 0..(N + 1)

\* The values of f from x up to, but not including, y.
Span(f, x, y) == [i \in 1..(y - x) |-> f[x + i - 1]]

Numbers == [r \in Messages |-> r]

\* Requests and responses on the wire, when the transaction id is g.
ReqMsgs(g) == [r \in Messages |-> [req |-> r, id |-> IF r = 0 THEN NoTxn ELSE g]]
ResMsgs(g) == [r \in Messages |-> [req |-> r, id |-> g]]

\* The id the acceptor drew for this connection.
Gen == pmain[A].genId

\* 1 while the message at the head of tran_q is already in the kernel.
Late(e) == IF flushed[e] THEN 1 ELSE 0

\* The initiator's struct prot_main when its tran_q starts at s.
InitiatorShape(p, a, s, g) ==
  /\ p.tranQ = Span(Numbers, s, N + 1)
  /\ p.tranEnabled = (a > 0 \/ s = 0)
  /\ p.txnStarted = (a > 0)
  /\ a > 0 => p.txnId = g

InitiatorOutput(p, a, d, g) ==
  p.output # <<>> => /\ d < N + 1
                     /\ a > 0 \/ d = 0
                     /\ p.output = <<ReqMsgs(g)[d]>>

InitiatorInv(a, d) ==
  /\ a <= d - Late(I)
  /\ pmain[I].recvQ = Span(Numbers, a, d - Late(I))
  /\ InitiatorShape(pmain[I], a, d - Late(I), Gen)
  /\ InitiatorOutput(pmain[I], a, d, Gen)

\* The acceptor's struct prot_main when its tran_q starts at s.
AcceptorShape(p, s, c) ==
  /\ p.tranQ = Span(Numbers, s, c)
  /\ p.txnStarted = (s > 0)
  /\ s > 0 => p.txnId = p.genId

AcceptorOutput(p, b, c) ==
  p.output # <<>> => b < c /\ p.output = <<ResMsgs(p.genId)[b]>>

AcceptorInv(b, c) ==
  /\ pmain[A].recvQ \in {<<>>, <<c>>}
  /\ AcceptorShape(pmain[A], b - Late(A), c)
  /\ AcceptorOutput(pmain[A], b, c)

NetworkInv(a, b, c, d) ==
  /\ a <= b /\ b <= c /\ c <= d
  /\ a = 0 => d <= 1
  /\ flushed[I] => d > 0
  /\ flushed[A] => b > 0 /\ Head(pmain[A].tranQ) = b - 1
  /\ wire[I] = Span(ReqMsgs(Gen), c, d)
  /\ wire[A] = Span(ResMsgs(Gen), a, b)

HistoryInv(a, b) ==
  /\ answered = {r \in Requests : r < b}
  /\ \A r \in Requests :
       /\ nOk[r] = IF r < a THEN 1 ELSE 0
       /\ r < a => okBy[r] = r
       /\ nFail[r] = IF pmain[I].life = "freed" /\ r >= a THEN 1 ELSE 0
       /\ r < b - Late(A) => r \in applied \cup dangling

PipelineAt(a, b, c, d) ==
  /\ NetworkInv(a, b, c, d)
  /\ pmain[I].life \in {"connecting", "ready"} => InitiatorInv(a, d)
  /\ pmain[A].life \in {"none", "pending", "ready"} => AcceptorInv(b, c)
  /\ HistoryInv(a, b)

\* Some four positions account for all of a reachable state: no request or
\* response is lost, duplicated or out of order while both ends live, whatever
\* callbacks, failures and crashes came before.
Pipeline == \E a, b, c, d \in Positions : PipelineAt(a, b, c, d)
=============================================================================
