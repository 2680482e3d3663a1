------------------------------ MODULE ProtMain ------------------------------
(***************************************************************************)
(* The protocol engine (prot_main.c) at both ends of one connection, with  *)
(* the transaction handshake (prot_transaction.c) and the request/response *)
(* discipline every message handler (prot_*.c) follows.                    *)
(*                                                                         *)
(* The initiator queues a TRANSACTION REQUEST and a batch of N requests,   *)
(* connects through SOCKS and destroys its handler once both of its queues *)
(* are empty.  The acceptor builds a receive handler for each request as   *)
(* its header arrives, queues the response, and commits the effect of the  *)
(* request to its database only when the response has left its output      *)
(* buffer.                                                                 *)
(*                                                                         *)
(* Message number r stands for the transaction handshake when r = 0 and    *)
(* for the r-th request otherwise; the response to message r is also       *)
(* numbered r, but the engine never looks at that number: as in the code   *)
(* it compares message codes and transaction ids only.                     *)
(*                                                                         *)
(* Each process runs one libevent loop, so a callback is one action and    *)
(* callbacks of one end never interleave.  Handing the output buffer to    *)
(* the kernel and running the write callback are two actions nothing else  *)
(* of that process can separate, because the peer, or a crash, can.        *)
(***************************************************************************)
EXTENDS Naturals, Sequences

CONSTANTS N,        \* number of requests queued on the connection
          Code,     \* Code[r] is the message code of request r
          AccMode,  \* pmain->mode of the acceptor
          TxnIds,   \* transaction ids RAND_bytes can return
          NoTxn,    \* the all zero transaction id of a fresh prot_main
          Faults    \* which of FaultKinds may happen

ClientCodes  == {"FRIEND_REQUEST", "MESSAGE_CONTAINER", "CLIENT_FETCH"}
MailboxCodes == {"MAILBOX_REGISTER", "MAILBOX_DEL_ACCOUNT", "MAILBOX_SET_CONTACTS",
                 "MESSAGE_CONTAINER", "MAILBOX_FETCH"}
FaultKinds   == {"socks",    \* the SOCKS proxy cannot reach the onion service
                 "reset",    \* an end sees a socket error
                 "crash",    \* a process dies
                 "reject",   \* a handler finds the message invalid
                 "split"}    \* a message arrives in more than one read

ASSUME NAssumption      == N \in Nat
ASSUME CodeAssumption   == Code \in [1..N -> ClientCodes \cup MailboxCodes]
ASSUME ModeAssumption   == AccMode \in {"CLIENT", "MAILBOX"}
ASSUME TxnAssumption    == NoTxn \notin TxnIds
ASSUME FaultsAssumption == Faults \subseteq FaultKinds

I == "initiator"
A == "acceptor"
Ends == {I, A}
Peer(e) == IF e = I THEN A ELSE I

Requests == 1..N
Messages == 0..N

VARIABLES
  pmain,     \* pmain[e]: the struct prot_main of end e
  wire,      \* wire[e]: messages e handed to its kernel, not yet read by the peer
  flushed,   \* flushed[e]: e's kernel took the output, the write callback is due
  close,     \* close[e]: argument of prot_main_fail and pmain->status its hooks saw
  dangling,  \* requests whose ACK points to a message object already freed
  nOk, nFail,\* number of OK and FAIL hook calls for each request
  okBy,      \* number of the response whose arrival reported the request OK
  answered,  \* requests whose response the acceptor handed to its kernel
  applied    \* requests whose effect the acceptor committed

history == <<nOk, nFail, okBy, answered, applied>>
vars == <<pmain, wire, flushed, close, dangling, history>>
-----------------------------------------------------------------------------
(* Message codes *)

ReqCode(r) == IF r = 0 THEN "TRANSACTION_REQUEST" ELSE Code[r]

\* The response the initiator's done_cb expects and the acceptor's handle_cb
\* sends: both sides derive it from the request and the kind of the acceptor.
ResCode(r) ==
  CASE r = 0                               -> "TRANSACTION_RESPONSE"
    [] ReqCode(r) = "MESSAGE_CONTAINER"    -> IF AccMode = "CLIENT" THEN "ACK_SIGNATURE"
                                                                    ELSE "ACK_ONION"
    [] ReqCode(r) = "MAILBOX_REGISTER"     -> "MAILBOX_GRANTED"
    [] ReqCode(r) \in {"MAILBOX_FETCH", "CLIENT_FETCH"} -> "MESSAGE_LIST"
    [] OTHER                               -> "ACK_ONION"

\* Code of message number r as end e receives it.
CodeAt(e, r) == IF e = A THEN ReqCode(r) ELSE ResCode(r)

\* Codes for which end e can build a receive handler out of nothing.
Autogen(e) == {"TRANSACTION_REQUEST"} \cup
              (IF e = A /\ AccMode = "MAILBOX" THEN MailboxCodes ELSE ClientCodes)

Msg == [req : Messages, id : TxnIds \cup {NoTxn}]

-----------------------------------------------------------------------------
(* prot_main as a record, and its functions as operators on that record *)

Life == {"none",        \* acceptor: no connection yet
         "connecting",  \* initiator: SOCKS negotiation, bev_ready = 0
         "pending",     \* acceptor: connection waits to be accepted
         "ready",       \* bev_ready = 1
         "freed",       \* prot_main_free has run
         "crashed"}     \* the process died

Pmain == [life : Life, tranQ : Seq(Messages), recvQ : Seq(Messages),
          tranInProgress : BOOLEAN, tranEnabled : BOOLEAN,
          txnStarted : BOOLEAN, txnId : TxnIds \cup {NoTxn},
          genId : TxnIds \cup {NoTxn},
          checkDone : BOOLEAN, output : Seq(Msg)]

Fresh(life, q) ==
  [life |-> life, tranQ |-> q, recvQ |-> <<>>, tranInProgress |-> FALSE,
   tranEnabled |-> TRUE, txnStarted |-> FALSE, txnId |-> NoTxn, genId |-> NoTxn,
   checkDone |-> FALSE, output |-> <<>>]

\* setup_cb: a transaction response draws its id, a transaction request carries
\* none, every other message carries the id its sender holds now.
Setup(e, p, id) ==
  LET r == Head(p.tranQ) IN
  IF r = 0
  THEN IF e = A THEN [p EXCEPT !.genId = id, !.output = <<[req |-> 0, id |-> id]>>]
                ELSE [p EXCEPT !.output = <<[req |-> 0, id |-> NoTxn]>>]
  ELSE [p EXCEPT !.output = <<[req |-> r, id |-> p.txnId]>>]

\* Second half of the write callback: start the next transmission.
WriteNext(e, p, id) ==
  IF /\ p.output = <<>>
     /\ p.tranQ # <<>>
     /\ ~p.tranInProgress
     /\ p.tranEnabled
  THEN [Setup(e, p, id) EXCEPT !.tranInProgress = TRUE]
  ELSE p

\* Mutation of Sent: the transaction request does not stop transmission.
SentStaysEnabled(e, p) ==
  LET r == Head(p.tranQ)
      done == IF e = I
              THEN [p EXCEPT !.recvQ = Append(@, r)]
              ELSE [p EXCEPT !.txnStarted = @ \/ r = 0,
                             !.txnId = IF r = 0 THEN p.genId ELSE @]
  IN [done EXCEPT !.tranQ = Tail(@), !.tranInProgress = FALSE]

\* done_cb of the first handler in tran_q, which is then dequeued.  The initiator
\* queues the handler of the response, and stops transmission after a transaction
\* request; the acceptor starts the transaction once it has announced its id.
Sent(e, p) ==
  LET r == Head(p.tranQ)
      done == IF e = I
              THEN [p EXCEPT !.recvQ = Append(@, r), !.tranEnabled = @ /\ r # 0]
              ELSE [p EXCEPT !.txnStarted = @ \/ r = 0,
                             !.txnId = IF r = 0 THEN p.genId ELSE @]
  IN [done EXCEPT !.tranQ = Tail(@), !.tranInProgress = FALSE]

\* Mutations of PushTran: the message jumps the queue; the message is queued but
\* an idle transmitter is not started.
PushTranFirst(e, p, r, id) == WriteNext(e, [p EXCEPT !.tranQ = <<r>> \o @], id)
PushTranWaits(e, p, r, id) == [p EXCEPT !.tranQ = Append(@, r)]

PushTran(e, p, r, id) == WriteNext(e, [p EXCEPT !.tranQ = Append(@, r)], id)

\* prot_main_done_check: only initiators are set to free themselves when done.
DoneCheck(e, p) ==
  IF e = I /\ p.tranQ = <<>> /\ p.recvQ = <<>>
  THEN [p EXCEPT !.life = "freed"]
  ELSE p

Freed(p) == [p EXCEPT !.life = "freed", !.tranQ = <<>>, !.recvQ = <<>>, !.output = <<>>]

Occurs(r, q) == \E i \in 1..Len(q) : q[i] = r
-----------------------------------------------------------------------------
\* Mutation of Script: the handshake is left out of the numbering.
ScriptNoHandshake == [i \in 1..(N + 1) |-> i]

Script == [i \in 1..(N + 1) |-> i - 1]   \* handshake, then the requests in order

Init ==
  /\ pmain = [e \in Ends |-> IF e = I THEN Fresh("connecting", Script)
                                      ELSE Fresh("none", <<>>)]
  /\ wire = [e \in Ends |-> <<>>]
  /\ flushed = [e \in Ends |-> FALSE]
  /\ close = [e \in Ends |-> [code |-> "NONE", status |-> "NONE"]]
  /\ dangling = {}
  /\ nOk = [r \in Requests |-> 0]
  /\ nFail = [r \in Requests |-> 0]
  /\ okBy = [r \in Requests |-> 0]
  /\ answered = {}
  /\ applied = {}

\* e is in its event loop with a usable connection.
Ready(e) == pmain[e].life = "ready" /\ ~flushed[e]

\* Mutation of Fail: only tran_q is cleaned up.
FailForgetsAwaited(e, code, status) ==
  LET p == pmain[e] IN
  /\ pmain' = [pmain EXCEPT ![e] = Freed(p)]
  /\ close' = [close EXCEPT ![e] = [code |-> code, status |-> status]]
  /\ nFail' = [r \in Requests |->
                 nFail[r] + IF e = I /\ Occurs(r, p.tranQ) THEN 1 ELSE 0]
  /\ UNCHANGED <<wire, flushed, dangling, nOk, okBy, answered, applied>>

\* prot_main_fail: CLOSE hooks, then prot_main_free runs the cleanup callback of
\* every queued handler.  At the initiator each of them reports its request FAIL.
\* At the acceptor an ACK reports 0 to its callback, which frees the message once
\* more if the receive handler already did: the process may not survive that.
Fail(e, code, status) ==
  LET p == pmain[e]
      queued(r) == Occurs(r, p.tranQ)
      awaited(r) == Occurs(r, p.recvQ)
  IN
  /\ \/ pmain' = [pmain EXCEPT ![e] = Freed(p)]
     \/ /\ e = A
        /\ \E r \in dangling : queued(r)
        /\ pmain' = [pmain EXCEPT ![e] = [Freed(p) EXCEPT !.life = "crashed"]]
  /\ close' = [close EXCEPT ![e] = [code |-> code, status |-> status]]
  /\ nFail' = [r \in Requests |->
                 IF e = I
                 THEN nFail[r] + (IF queued(r) THEN 1 ELSE 0) + (IF awaited(r) THEN 1 ELSE 0)
                 ELSE nFail[r]]
  /\ UNCHANGED <<wire, flushed, dangling, nOk, okBy, answered, applied>>

-----------------------------------------------------------------------------
(* Connecting *)

\* prot_main_socks5_cb without error: the stream to the onion service is open.
SocksOk ==
  /\ pmain[I].life = "connecting"
  /\ pmain' = [pmain EXCEPT ![I] = WriteNext(I, [@ EXCEPT !.life = "ready"], NoTxn),
                            ![A].life = "pending"]
  /\ UNCHANGED <<wire, flushed, close, dangling, history>>

\* prot_main_connect or prot_main_socks5_cb fails.
SocksFail ==
  /\ "socks" \in Faults
  /\ pmain[I].life = "connecting"
  /\ Fail(I, "SOCKS_CONN_FAIL", "OK")

\* The listener hands the accepted socket to a new prot_main.
AcceptConn ==
  /\ pmain[A].life = "pending"
  /\ pmain' = [pmain EXCEPT ![A].life = "ready"]
  /\ UNCHANGED <<wire, flushed, close, dangling, history>>

-----------------------------------------------------------------------------
(* Transmitting *)

\* The kernel takes the whole output buffer.
Flush(e) ==
  /\ Ready(e)
  /\ pmain[e].output # <<>>
  /\ wire' = [wire EXCEPT ![e] = @ \o pmain[e].output]
  /\ pmain' = [pmain EXCEPT ![e].output = <<>>]
  /\ flushed' = [flushed EXCEPT ![e] = TRUE]
  /\ answered' = IF e = A THEN answered \cup ({Head(pmain[e].output).req} \cap Requests)
                          ELSE answered
  /\ UNCHANGED <<close, dangling, nOk, nFail, okBy, applied>>

\* Mutation of RequestSent: done_cb leaves cleanup_cb in place, which reports FAIL.
RequestSentReportsFail ==
  /\ pmain[I].life = "ready"
  /\ flushed[I]
  /\ pmain' = [pmain EXCEPT ![I] = WriteNext(I, DoneCheck(I, Sent(I, @)), NoTxn)]
  /\ nFail' = [r \in Requests |-> nFail[r] + IF r = Head(pmain[I].tranQ) THEN 1 ELSE 0]
  /\ flushed' = [flushed EXCEPT ![I] = FALSE]
  /\ UNCHANGED <<wire, close, dangling, nOk, okBy, answered, applied>>

\* Mutation of RequestSent: done_cb reports OK without waiting for the response.
RequestSentReportsOk ==
  /\ pmain[I].life = "ready"
  /\ flushed[I]
  /\ pmain' = [pmain EXCEPT ![I] = WriteNext(I, DoneCheck(I, Sent(I, @)), NoTxn)]
  /\ nOk' = [r \in Requests |-> nOk[r] + IF r = Head(pmain[I].tranQ) THEN 1 ELSE 0]
  /\ flushed' = [flushed EXCEPT ![I] = FALSE]
  /\ UNCHANGED <<wire, close, dangling, nFail, okBy, answered, applied>>

\* Write callback of the initiator: the message is out, start the next one.
RequestSent ==
  /\ pmain[I].life = "ready"
  /\ flushed[I]
  /\ pmain' = [pmain EXCEPT ![I] = WriteNext(I, DoneCheck(I, Sent(I, @)), NoTxn)]
  /\ flushed' = [flushed EXCEPT ![I] = FALSE]
  /\ UNCHANGED <<wire, close, dangling, history>>

\* Mutation of ResponseSent: the commit is one response late.
ResponseSentCommitsLate ==
  /\ pmain[A].life = "ready"
  /\ flushed[A]
  /\ \E id \in TxnIds :
       pmain' = [pmain EXCEPT ![A] = WriteNext(A, DoneCheck(A, Sent(A, @)), id)]
  /\ applied' = applied \cup {r \in Requests : r + 1 = Head(pmain[A].tranQ)}
  /\ flushed' = [flushed EXCEPT ![A] = FALSE]
  /\ UNCHANGED <<wire, close, dangling, nOk, nFail, okBy, answered>>

\* Write callback of the acceptor: the response is out, done_cb commits the effect
\* of the request it answers; then the next response.
\* An ACK whose message object is gone may commit nothing.
ResponseSent ==
  /\ pmain[A].life = "ready"
  /\ flushed[A]
  /\ \E id \in TxnIds :
       pmain' = [pmain EXCEPT ![A] = WriteNext(A, DoneCheck(A, Sent(A, @)), id)]
  /\ LET r == Head(pmain[A].tranQ) IN
        /\ \/ applied' = applied \cup ({r} \cap Requests)
           \/ r \in dangling /\ applied' = applied
  /\ flushed' = [flushed EXCEPT ![A] = FALSE]
  /\ UNCHANGED <<wire, close, dangling, nOk, nFail, okBy, answered>>

\* The ACK callback works on a message object that is already free, and dies of it.
AckUsesFreed ==
  /\ pmain[A].life = "ready"
  /\ flushed[A]
  /\ Head(pmain[A].tranQ) \in dangling
  /\ pmain' = [pmain EXCEPT ![A].life = "crashed"]
  /\ UNCHANGED <<wire, flushed, close, dangling, history>>

-----------------------------------------------------------------------------
(* Receiving *)

\* Checks on version, code and transaction id of the next message.
HeaderCheck(e, m) ==
  LET p == pmain[e]
      code == CodeAt(e, m.req)
  IN CASE p.recvQ = <<>> /\ code \notin Autogen(e)                 -> "INVALID_MSG"
       [] p.recvQ # <<>> /\ CodeAt(e, Head(p.recvQ)) # code        -> "UNEXPECTED_MSG"
       [] m.req # 0 /\ (~p.txnStarted \/ m.id # p.txnId)           -> "TRANSACTION"
       [] OTHER                                                    -> "OK"

\* message_check_done skips the checks once the beginning of the message passed.
Check(e, m) == IF pmain[e].checkDone THEN "OK" ELSE HeaderCheck(e, m)

\* The handler in charge: the first in recv_q, or a new one queued on the spot.
WithHandler(p, m) == IF p.recvQ = <<>> THEN [p EXCEPT !.recvQ = <<m.req>>] ELSE p

\* Bytes of e's peer that can reach e: a message still in the output buffer may
\* have been taken by the kernel in part.
Incoming(e) ==
  LET q == Peer(e) IN
  IF pmain[q].life = "ready" THEN wire[q] \o pmain[q].output ELSE wire[q]

\* The beginning of a message arrives and the rest does not: the header alone, or
\* what the checks need.  A transaction request is nothing but a header.
ReadHead(e) ==
  /\ "split" \in Faults
  /\ Ready(e)
  /\ ~pmain[e].checkDone
  /\ Incoming(e) # <<>>
  /\ LET m == Head(Incoming(e)) IN
       /\ CodeAt(e, m.req) # "TRANSACTION_REQUEST"
       /\ HeaderCheck(e, m) = "OK"
       /\ \E checked \in IF m.req = 0 THEN {TRUE} ELSE BOOLEAN :
            pmain' = [pmain EXCEPT ![e] = [WithHandler(@, m) EXCEPT !.checkDone = checked]]
  /\ UNCHANGED <<wire, flushed, close, dangling, history>>

\* The whole message is there and its header is refused.
ReadRefused(e) ==
  /\ Ready(e)
  /\ wire[Peer(e)] # <<>>
  /\ LET check == Check(e, Head(wire[Peer(e)])) IN
       /\ check # "OK"
       /\ Fail(e, check, "OK")

\* The handler finds the message invalid and sets the error.
HandlerRejects(e) ==
  /\ "reject" \in Faults
  /\ Ready(e)
  /\ wire[Peer(e)] # <<>>
  /\ LET m == Head(wire[Peer(e)]) IN
       /\ m.req # 0
       /\ Check(e, m) = "OK"
  /\ Fail(e, "INVALID_MSG", "INVALID_MSG")

\* The acceptor's handler queues the response to the request.  A container for a
\* client disables the cleanup of the handler inside the message object; when the
\* handler was queued by an earlier read the engine runs the copy in its queue,
\* whose cleanup still frees the object the queued ACK refers to.
HandleRequest ==
  /\ Ready(A)
  /\ wire[I] # <<>>
  /\ LET m == Head(wire[I])
         p == WithHandler(pmain[A], m)
         r == Head(p.recvQ)
     IN /\ Check(A, m) = "OK"
        /\ \E id \in TxnIds :
             pmain' = [pmain EXCEPT ![A] =
                         DoneCheck(A, [PushTran(A, p, r, id) EXCEPT !.recvQ = Tail(@),
                                                                    !.checkDone = FALSE])]
        /\ dangling' = IF /\ ReqCode(r) = "MESSAGE_CONTAINER"
                          /\ AccMode = "CLIENT"
                          /\ pmain[A].recvQ # <<>>
                       THEN dangling \cup {r}
                       ELSE dangling
  /\ wire' = [wire EXCEPT ![I] = Tail(@)]
  /\ UNCHANGED <<flushed, close, history>>

\* The initiator's handler adopts the transaction id and resumes transmission, or
\* reports its request OK; the connection is closed when nothing is left to do.
HandleResponse ==
  /\ Ready(I)
  /\ wire[A] # <<>>
  /\ pmain[I].recvQ # <<>>
  /\ LET m == Head(wire[A])
         p == pmain[I]
         r == Head(p.recvQ)
         handled == IF r = 0
                    THEN WriteNext(I, [p EXCEPT !.txnStarted = TRUE, !.txnId = m.id,
                                                !.tranEnabled = TRUE], NoTxn)
                    ELSE p
     IN /\ Check(I, m) = "OK"
        /\ pmain' = [pmain EXCEPT ![I] =
                       DoneCheck(I, [handled EXCEPT !.recvQ = Tail(@), !.checkDone = FALSE])]
        /\ nOk' = [q \in Requests |-> IF q = r THEN nOk[q] + 1 ELSE nOk[q]]
        /\ okBy' = [q \in Requests |-> IF q = r THEN m.req ELSE okBy[q]]
  /\ wire' = [wire EXCEPT ![A] = Tail(@)]
  /\ UNCHANGED <<flushed, close, dangling, nFail, answered, applied>>

-----------------------------------------------------------------------------
(* Losing the connection *)

\* Mutation of PeerClosed: an acceptor ignores the end of file.
PeerClosedInitiator(e) ==
  /\ e = I
  /\ Ready(e)
  /\ pmain[Peer(e)].life \in {"freed", "crashed"}
  /\ wire[Peer(e)] = <<>>
  /\ Fail(e, "CONN_CLOSED", "OK")

\* End of file: the peer's socket is closed and everything it sent has been read.
PeerClosed(e) ==
  /\ Ready(e)
  /\ pmain[Peer(e)].life \in {"freed", "crashed"}
  /\ wire[Peer(e)] = <<>>
  /\ Fail(e, "CONN_CLOSED", "OK")

\* Socket error, whatever is in flight.
Reset(e) ==
  /\ "reset" \in Faults
  /\ Ready(e)
  /\ Fail(e, "CONN_CLOSED", "OK")

\* The process dies between, or inside, callbacks: nothing of it runs any more.
Crash(e) ==
  /\ "crash" \in Faults
  /\ pmain[e].life \in {"connecting", "pending", "ready"}
  /\ pmain' = [pmain EXCEPT ![e].life = "crashed"]
  /\ UNCHANGED <<wire, flushed, close, dangling, history>>

-----------------------------------------------------------------------------
Connect == SocksOk \/ SocksFail

Read(e) == ReadRefused(e) \/ HandlerRejects(e) \/ (e = A /\ HandleRequest)
                                               \/ (e = I /\ HandleResponse)

WriteCallback(e) == IF e = I THEN RequestSent ELSE ResponseSent \/ AckUsesFreed

Next ==
  \/ Connect \/ AcceptConn
  \/ \E e \in Ends : \/ Flush(e) \/ WriteCallback(e)
                     \/ ReadHead(e) \/ Read(e)
                     \/ PeerClosed(e) \/ Reset(e) \/ Crash(e)

Spec == Init /\ [][Next]_vars

\* Each event loop dispatches what is pending: the SOCKS reply, the listener, a
\* writable or readable socket, the end of file left by a closed or dead peer.
Fairness ==
  /\ WF_vars(Connect) /\ WF_vars(AcceptConn)
  /\ \A e \in Ends : /\ WF_vars(Flush(e)) /\ WF_vars(WriteCallback(e))
                     /\ WF_vars(Read(e)) /\ WF_vars(PeerClosed(e))

FairSpec == Spec /\ Fairness
-----------------------------------------------------------------------------
(* Properties *)

\* Every variable has its type: queues hold message numbers, the output buffer
\* holds messages of this connection, hook calls are counted per request.
TypeOK ==
  /\ pmain \in [Ends -> Pmain]
  /\ wire \in [Ends -> Seq(Msg)]
  /\ flushed \in [Ends -> BOOLEAN]
  /\ close \in [Ends -> [code : {"NONE", "SOCKS_CONN_FAIL", "CONN_CLOSED", "TRANSACTION",
                                 "UNEXPECTED_MSG", "INVALID_MSG"},
                         status : {"NONE", "OK", "INVALID_MSG"}]]
  /\ dangling \subseteq Messages
  /\ nOk \in [Requests -> Nat]
  /\ nFail \in [Requests -> Nat]
  /\ okBy \in [Requests -> Messages]
  /\ answered \subseteq Requests
  /\ applied \subseteq Requests

\* The caller of the initiator hears of a request at most once, OK or FAIL, and
\* once its handler has been freed it has heard of every request: done_cb hands
\* each request over from tran_q to recv_q and cleanup_cb reports what is left.
OneOutcome ==
  \A r \in Requests :
    /\ nOk[r] + nFail[r] <= 1
    /\ pmain[I].life = "freed" => nOk[r] + nFail[r] = 1

\* A request reported OK has been committed by the acceptor, but for the single
\* response whose write callback is still due: the callback that commits runs
\* after the kernel took the response, and a crash between the two loses the
\* effect of one confirmed request, never of two.  A request whose ACK refers to a
\* freed message object (dangling) is left out: its callback is undefined.
OkMeansApplied ==
  \A r \in Requests \ dangling :
    nOk[r] > 0 /\ r \notin applied => flushed[A] /\ Head(pmain[A].tranQ) = r

\* The response that reports request r OK is the acceptor's response to r.  The
\* engine compares only codes and the transaction id, so with several requests of
\* one kind in a batch this rests on the order of the two queues at both ends.
ResponsesPaired == \A r \in Requests : nOk[r] > 0 => okBy[r] = r

\* Two unmodified peers never refuse each other's messages for their order or
\* their transaction id: no request leaves before the id it must carry is known,
\* and no response overtakes another.
NoProtocolError ==
  \A e \in Ends : close[e].code \notin {"TRANSACTION", "UNEXPECTED_MSG"}

\* What the hooks have told the caller about each request.
Result == [r \in Requests |-> IF nOk[r] > 0 THEN "ok"
                              ELSE IF nFail[r] > 0 THEN "fail" ELSE "pending"]

Batch == INSTANCE RequestBatch WITH result <- Result, spoiled <- dangling

\* The connection implements RequestBatch: seen by its caller it reports the
\* requests in order, OK only after the peer answered, and the rest FAIL at once;
\* and the peer answers none before it has committed the one it answered before.
ImplementsBatch == Batch!Spec

\* Every request gets an outcome unless the process that asked dies: whatever
\* fails on the way ends in the cleanup callbacks of prot_main_free.
Settled ==
  \A r \in Requests : <>(nOk[r] + nFail[r] = 1 \/ pmain[I].life = "crashed")

\* An acceptor never asks to be freed, so it must be the end of file or an error
\* that releases every handler the listener created.
AcceptorReleased ==
  pmain[A].life = "ready" ~> pmain[A].life \in {"freed", "crashed"}
=============================================================================
