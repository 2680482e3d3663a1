--------------------------- MODULE ProtMainProofs ---------------------------
(* Theorems about ProtMain, for every batch, both kinds of acceptor and every *)
(* combination of faults.                                                     *)
EXTENDS ProtMain, SequenceTheorems, TLAPS

USE DEF I, A
-----------------------------------------------------------------------------
(* Types of the operators on struct prot_main *)

LEMMA EndsFacts == /\ I \in Ends /\ A \in Ends /\ I # A
                   /\ \A e \in Ends : Peer(e) \in Ends /\ (e = I \/ e = A)
BY DEF Ends, Peer

LEMMA TailType ==
  ASSUME NEW S, NEW s \in Seq(S), s # <<>>
  PROVE  Head(s) \in S /\ Tail(s) \in Seq(S)
BY HeadTailProperties

\* The fields of a struct prot_main, for terms the provers do not look into.
LEMMA PmainFields ==
  ASSUME NEW p \in Pmain
  PROVE  /\ p.life \in Life
         /\ p.tranQ \in Seq(Messages) /\ p.recvQ \in Seq(Messages)
         /\ p.tranInProgress \in BOOLEAN /\ p.tranEnabled \in BOOLEAN
         /\ p.txnStarted \in BOOLEAN /\ p.checkDone \in BOOLEAN
         /\ p.txnId \in TxnIds \cup {NoTxn} /\ p.genId \in TxnIds \cup {NoTxn}
         /\ p.output \in Seq(Msg)
BY DEF Pmain

LEMMA SetupType ==
  ASSUME NEW e, NEW p \in Pmain, p.tranQ # <<>>, NEW id \in TxnIds \cup {NoTxn}
  PROVE  /\ Setup(e, p, id) \in Pmain
         /\ Setup(e, p, id).output # <<>>
         /\ Setup(e, p, id).tranQ = p.tranQ
         /\ Setup(e, p, id).life = p.life
<1>1. Head(p.tranQ) \in Messages
  BY TailType DEF Pmain
<1>2. 0 \in Messages
  BY NAssumption DEF Messages
<1> DEFINE m == [req |-> Head(p.tranQ), id |-> p.txnId]
<1>3. m \in Msg
  BY <1>1 DEF Pmain, Msg
<1>4. [req |-> 0, id |-> id] \in Msg /\ [req |-> 0, id |-> NoTxn] \in Msg
  BY <1>2 DEF Msg
<1>5. \A x \in Msg : <<x>> \in Seq(Msg) /\ <<x>> # <<>>
  OBVIOUS
<1> QED
  BY <1>1, <1>3, <1>4, <1>5 DEF Setup, Pmain

LEMMA WriteNextType ==
  ASSUME NEW e, NEW p \in Pmain, NEW id \in TxnIds \cup {NoTxn},
         p.output # <<>> => p.tranQ # <<>>
  PROVE  /\ WriteNext(e, p, id) \in Pmain
         /\ WriteNext(e, p, id).output # <<>> => WriteNext(e, p, id).tranQ # <<>>
         /\ WriteNext(e, p, id).tranQ = p.tranQ
         /\ WriteNext(e, p, id).life = p.life
<1>1. CASE p.tranQ # <<>>
  <2>1. /\ Setup(e, p, id) \in Pmain /\ Setup(e, p, id).tranQ = p.tranQ
        /\ Setup(e, p, id).life = p.life
    BY <1>1, SetupType
  <2> DEFINE s == Setup(e, p, id)
  <2>2. /\ [s EXCEPT !.tranInProgress = TRUE] \in Pmain
        /\ [s EXCEPT !.tranInProgress = TRUE].tranQ = p.tranQ
        /\ [s EXCEPT !.tranInProgress = TRUE].life = p.life
    BY <2>1 DEF Pmain
  <2> QED
    BY <1>1, <2>2 DEF WriteNext
<1>2. CASE p.tranQ = <<>>
  BY <1>2 DEF WriteNext
<1> QED
  BY <1>1, <1>2

LEMMA SentType ==
  ASSUME NEW e, NEW p \in Pmain, p.tranQ # <<>>
  PROVE  /\ Sent(e, p) \in Pmain
         /\ Sent(e, p).output = p.output
         /\ Sent(e, p).life = p.life
<1>1. Head(p.tranQ) \in Messages /\ Tail(p.tranQ) \in Seq(Messages)
  BY TailType DEF Pmain
<1>2. Append(p.recvQ, Head(p.tranQ)) \in Seq(Messages)
  BY <1>1, AppendProperties DEF Pmain
<1> QED
  BY <1>1, <1>2 DEF Sent, Pmain

LEMMA PushTranType ==
  ASSUME NEW e, NEW p \in Pmain, NEW r \in Messages, NEW id \in TxnIds \cup {NoTxn}
  PROVE  /\ PushTran(e, p, r, id) \in Pmain
         /\ PushTran(e, p, r, id).tranQ # <<>>
         /\ PushTran(e, p, r, id).life = p.life
<1> DEFINE q == [p EXCEPT !.tranQ = Append(@, r)]
<1>1. Append(p.tranQ, r) \in Seq(Messages) /\ Append(p.tranQ, r) # <<>>
  BY AppendProperties DEF Pmain
<1>2. q \in Pmain /\ q.tranQ # <<>> /\ q.life = p.life
  BY <1>1 DEF Pmain
<1>3. /\ WriteNext(e, q, id) \in Pmain
      /\ WriteNext(e, q, id).tranQ = q.tranQ
      /\ WriteNext(e, q, id).life = q.life
  <2> HIDE DEF q
  <2> QED
    BY <1>2, WriteNextType
<1> QED
  BY <1>2, <1>3 DEF PushTran

LEMMA DoneCheckType ==
  ASSUME NEW e, NEW p \in Pmain
  PROVE  /\ DoneCheck(e, p) \in Pmain
         /\ DoneCheck(e, p).output = p.output
         /\ DoneCheck(e, p).tranQ = p.tranQ
         /\ DoneCheck(e, p).life \in {p.life, "freed"}
BY DEF DoneCheck, Pmain, Life

LEMMA FreedType ==
  ASSUME NEW p \in Pmain
  PROVE  /\ Freed(p) \in Pmain /\ Freed(p).output = <<>> /\ Freed(p).life = "freed"
         /\ [Freed(p) EXCEPT !.life = "crashed"] \in Pmain
         /\ [Freed(p) EXCEPT !.life = "crashed"].output = <<>>
         /\ [Freed(p) EXCEPT !.life = "crashed"].life = "crashed"
<1>1. <<>> \in Seq(Messages) /\ <<>> \in Seq(Msg)
  BY EmptySeq
<1>2. Freed(p) \in Pmain /\ Freed(p).output = <<>> /\ Freed(p).life = "freed"
  BY <1>1 DEF Freed, Pmain, Life
<1> DEFINE q == Freed(p)
<1>3. /\ [q EXCEPT !.life = "crashed"] \in Pmain
      /\ [q EXCEPT !.life = "crashed"].output = q.output
      /\ [q EXCEPT !.life = "crashed"].life = "crashed"
  <2>1. q \in Pmain
    BY <1>2
  <2> HIDE DEF q
  <2> QED
    BY <2>1 DEF Pmain, Life
<1> QED
  BY <1>2, <1>3

LEMMA WithHandlerType ==
  ASSUME NEW p \in Pmain, NEW m \in Msg
  PROVE  /\ WithHandler(p, m) \in Pmain
         /\ WithHandler(p, m).recvQ # <<>>
         /\ Head(WithHandler(p, m).recvQ) \in Messages
         /\ Tail(WithHandler(p, m).recvQ) \in Seq(Messages)
         /\ WithHandler(p, m).tranQ = p.tranQ
         /\ WithHandler(p, m).output = p.output
         /\ WithHandler(p, m).life = p.life
<1>1. <<m.req>> \in Seq(Messages) /\ <<m.req>> # <<>>
  <2>1. m.req \in Messages
    BY DEF Msg
  <2> QED
    BY <2>1
<1>2. /\ WithHandler(p, m) \in Pmain
      /\ WithHandler(p, m).recvQ # <<>>
      /\ WithHandler(p, m).tranQ = p.tranQ
      /\ WithHandler(p, m).output = p.output
      /\ WithHandler(p, m).life = p.life
  BY <1>1 DEF WithHandler, Pmain
<1>3. WithHandler(p, m).recvQ \in Seq(Messages)
  BY <1>2, PmainFields
<1> QED
  BY <1>2, <1>3, TailType
-----------------------------------------------------------------------------
(* Type correctness.  TypeOK alone is not inductive: the write callback takes *)
(* the head of tran_q, so it must not run on an empty queue.                  *)

Busy ==
  /\ \A e \in Ends :
       /\ pmain[e].output # <<>> => pmain[e].tranQ # <<>>
       /\ flushed[e] => /\ pmain[e].output = <<>>
                        /\ pmain[e].life \in {"ready", "crashed"}
                        /\ pmain[e].life = "ready" => pmain[e].tranQ # <<>>
  /\ pmain[I].life = "connecting" => pmain[A].life = "none"

TypeInv == TypeOK /\ Busy

LEMMA FreshType ==
  ASSUME NEW life \in Life, NEW q \in Seq(Messages)
  PROVE  Fresh(life, q) \in Pmain /\ Fresh(life, q).output = <<>>
BY DEF Fresh, Pmain

LEMMA TypeInit == Init => TypeInv
<1> SUFFICES ASSUME Init PROVE TypeInv
  OBVIOUS
<1>1. Script \in Seq(Messages)
  <2>1. N + 1 \in Nat /\ \A i \in 1..(N + 1) : i - 1 \in Messages
    BY NAssumption DEF Messages
  <2> QED
    BY <2>1, SeqDef DEF Script
<1>2. 0 \in Messages /\ <<>> \in Seq(Messages) /\ <<>> \in Seq(Msg)
  BY NAssumption DEF Messages
<1>3. /\ Fresh("connecting", Script) \in Pmain /\ Fresh("none", <<>>) \in Pmain
      /\ Fresh("connecting", Script).output = <<>> /\ Fresh("none", <<>>).output = <<>>
  BY <1>1, <1>2, FreshType DEF Life
<1>4. pmain \in [Ends -> Pmain] /\ \A e \in Ends : pmain[e].output = <<>>
  BY <1>3 DEF Init
<1>5. pmain[A].life = "none"
  BY EndsFacts DEF Init, Fresh
<1>6. TypeOK
  BY <1>2, <1>4 DEF Init, TypeOK
<1>7. Busy
  BY <1>4, <1>5 DEF Init, Busy
<1> QED
  BY <1>6, <1>7 DEF TypeInv

\* prot_main_fail keeps the types, on a handler whose write callback is not due.
LEMMA FailType ==
  ASSUME TypeInv, NEW e \in Ends, ~flushed[e], pmain[e].life # "none",
         NEW code \in {"SOCKS_CONN_FAIL", "CONN_CLOSED", "TRANSACTION",
                       "UNEXPECTED_MSG", "INVALID_MSG"},
         NEW status \in {"OK", "INVALID_MSG"},
         Fail(e, code, status)
  PROVE  TypeInv'
<1>1. pmain[e] \in Pmain
  BY DEF TypeInv, TypeOK
<1>2. PICK q \in Pmain : /\ pmain' = [pmain EXCEPT ![e] = q]
                         /\ q.output = <<>>
                         /\ q.life \in {"freed", "crashed"}
  BY <1>1, FreedType DEF Fail
<1>3. pmain' \in [Ends -> Pmain]
  BY <1>2 DEF TypeInv, TypeOK
<1>4. nFail' \in [Requests -> Nat]
  BY DEF Fail, TypeInv, TypeOK
<1>5. TypeOK'
  BY <1>3, <1>4 DEF Fail, TypeInv, TypeOK
<1>6. Busy'
  BY <1>2, EndsFacts DEF Fail, TypeInv, TypeOK, Busy
<1> QED
  BY <1>5, <1>6 DEF TypeInv

\* An action that changes pmain at e only, within the types, and nothing else that
\* Busy reads, keeps both.
LEMMA LocalStep ==
  ASSUME TypeInv, NEW e \in Ends, NEW q \in Pmain,
         pmain' = [pmain EXCEPT ![e] = q],
         pmain[e].life # "none", q.life # "connecting",
         q.output # <<>> => q.tranQ # <<>>,
         flushed' \in [Ends -> BOOLEAN],
         \A x \in Ends \ {e} : flushed'[x] = flushed[x],
         flushed'[e] => /\ q.output = <<>>
                        /\ q.life \in {"ready", "crashed"}
                        /\ q.life = "ready" => q.tranQ # <<>>
  PROVE  pmain' \in [Ends -> Pmain] /\ Busy'
BY EndsFacts DEF TypeInv, TypeOK, Busy

\* queue_dequeue of recv_q after a handler is done.
LEMMA RecvDoneType ==
  ASSUME NEW p \in Pmain, p.recvQ # <<>>
  PROVE  /\ [p EXCEPT !.recvQ = Tail(@), !.checkDone = FALSE] \in Pmain
         /\ [p EXCEPT !.recvQ = Tail(@), !.checkDone = FALSE].output = p.output
         /\ [p EXCEPT !.recvQ = Tail(@), !.checkDone = FALSE].tranQ = p.tranQ
         /\ [p EXCEPT !.recvQ = Tail(@), !.checkDone = FALSE].life = p.life
<1>1. Tail(p.recvQ) \in Seq(Messages)
  BY TailType, PmainFields
<1> QED
  BY <1>1 DEF Pmain

LEMMA HeadOfWire ==
  ASSUME TypeOK, NEW e \in Ends, wire[e] # <<>>
  PROVE  Head(wire[e]) \in Msg /\ Tail(wire[e]) \in Seq(Msg)
BY TailType DEF TypeOK

LEMMA LifeStepType ==
  ASSUME TypeInv, NEW e \in Ends, NEW life \in Life,
         pmain' = [pmain EXCEPT ![e].life = life],
         pmain[e].life # "none", life # "connecting",
         ~flushed[e] \/ life = "crashed",
         UNCHANGED <<wire, flushed, close, dangling, history>>
  PROVE  TypeInv'
<1> DEFINE q == [pmain[e] EXCEPT !.life = life]
<1>1. pmain[e] \in Pmain
  BY DEF TypeInv, TypeOK
<1>2. q \in Pmain /\ q.life = life /\ q.output = pmain[e].output /\ q.tranQ = pmain[e].tranQ
  BY <1>1 DEF Pmain
<1>3. pmain' = [pmain EXCEPT ![e] = q]
  BY DEF TypeInv, TypeOK
<1>4. flushed' = flushed /\ flushed \in [Ends -> BOOLEAN]
  BY DEF TypeInv, TypeOK
<1>5. /\ pmain[e].output # <<>> => pmain[e].tranQ # <<>>
      /\ flushed[e] => pmain[e].output = <<>> /\ life = "crashed"
  BY DEF TypeInv, Busy
<1>6. pmain' \in [Ends -> Pmain] /\ Busy'
  <2> HIDE DEF q
  <2> QED
    BY <1>2, <1>3, <1>4, <1>5, LocalStep
<1> QED
  BY <1>6 DEF TypeInv, TypeOK, history

LEMMA SocksOkType == TypeInv /\ SocksOk => TypeInv'
<1> SUFFICES ASSUME TypeInv, SocksOk PROVE TypeInv'
  OBVIOUS
<1> DEFINE p == [pmain[I] EXCEPT !.life = "ready"]
           q == WriteNext(I, p, NoTxn)
           a == [pmain[A] EXCEPT !.life = "pending"]
<1>1. pmain[I] \in Pmain /\ pmain[A] \in Pmain
  BY EndsFacts DEF TypeInv, TypeOK
<1>2. p \in Pmain /\ p.output = pmain[I].output /\ p.tranQ = pmain[I].tranQ
  BY <1>1 DEF Pmain, Life
<1>3. q \in Pmain /\ (q.output # <<>> => q.tranQ # <<>>) /\ q.life = "ready"
  <2>1. p.output # <<>> => p.tranQ # <<>>
    BY <1>2, EndsFacts DEF TypeInv, Busy
  <2>2. p.life = "ready"
    BY <1>1 DEF Pmain
  <2> HIDE DEF p
  <2> QED
    BY <1>2, <2>1, <2>2, WriteNextType
<1>4. a \in Pmain /\ a.output = pmain[A].output /\ a.tranQ = pmain[A].tranQ
  BY <1>1 DEF Pmain, Life
<1>5. pmain' = [pmain EXCEPT ![I] = q, ![A] = a]
  BY EndsFacts DEF SocksOk, TypeInv, TypeOK
<1>6. ~flushed[I] /\ ~flushed[A]
  BY EndsFacts DEF SocksOk, TypeInv, Busy
<1>7. /\ flushed' = flushed
      /\ pmain[A].output # <<>> => pmain[A].tranQ # <<>>
      /\ UNCHANGED <<wire, close, dangling, nOk, nFail, okBy, answered, applied>>
  BY EndsFacts DEF SocksOk, TypeInv, Busy, history
<1> HIDE DEF p, q, a
<1>8. pmain' \in [Ends -> Pmain] /\ pmain'[I] = q /\ pmain'[A] = a
  BY <1>3, <1>4, <1>5, EndsFacts DEF TypeInv, TypeOK
<1>9. Busy'
  BY <1>3, <1>4, <1>6, <1>7, <1>8, EndsFacts DEF Busy
<1> QED
  BY <1>7, <1>8, <1>9 DEF TypeInv, TypeOK

LEMMA FlushType == \A e \in Ends : TypeInv /\ Flush(e) => TypeInv'
<1> SUFFICES ASSUME NEW e \in Ends, TypeInv, Flush(e) PROVE TypeInv'
  OBVIOUS
<1> DEFINE q == [pmain[e] EXCEPT !.output = <<>>]
<1>1. /\ pmain[e] \in Pmain /\ pmain[e].output \in Seq(Msg) /\ pmain[e].output # <<>>
      /\ pmain[e].tranQ # <<>> /\ pmain[e].life = "ready"
  BY PmainFields DEF Flush, Ready, TypeInv, TypeOK, Busy
<1>2. /\ q \in Pmain /\ q.output = <<>> /\ q.tranQ = pmain[e].tranQ
      /\ q.life = pmain[e].life
  BY <1>1, EmptySeq DEF Pmain
<1>3. pmain' = [pmain EXCEPT ![e] = q]
  BY DEF Flush, TypeInv, TypeOK
<1>4. /\ flushed' \in [Ends -> BOOLEAN]
      /\ \A x \in Ends \ {e} : flushed'[x] = flushed[x]
  BY DEF Flush, TypeInv, TypeOK
<1>5. pmain' \in [Ends -> Pmain] /\ Busy'
  <2> HIDE DEF q
  <2> QED
    BY <1>1, <1>2, <1>3, <1>4, LocalStep
<1>6. wire' \in [Ends -> Seq(Msg)]
  <2>1. wire[e] \o pmain[e].output \in Seq(Msg)
    BY <1>1, ConcatProperties DEF TypeInv, TypeOK
  <2> QED
    BY <2>1 DEF Flush, TypeInv, TypeOK
<1>7. answered' \subseteq Requests
  BY DEF Flush, TypeInv, TypeOK
<1> QED
  BY <1>4, <1>5, <1>6, <1>7 DEF Flush, TypeInv, TypeOK

\* What both write callbacks make of struct prot_main.
LEMMA WriteDoneType ==
  ASSUME TypeInv, NEW e \in Ends, NEW id \in TxnIds \cup {NoTxn},
         pmain[e].life = "ready", flushed[e],
         pmain' = [pmain EXCEPT ![e] = WriteNext(e, DoneCheck(e, Sent(e, @)), id)],
         flushed' = [flushed EXCEPT ![e] = FALSE]
  PROVE  pmain' \in [Ends -> Pmain] /\ Busy'
<1> DEFINE p == Sent(e, pmain[e])
           d == DoneCheck(e, p)
           q == WriteNext(e, d, id)
<1>1. pmain[e] \in Pmain /\ pmain[e].tranQ # <<>> /\ pmain[e].output = <<>>
  BY DEF TypeInv, TypeOK, Busy
<1>2. p \in Pmain /\ p.output = <<>> /\ p.life = "ready"
  BY <1>1, SentType
<1>3. d \in Pmain /\ d.output = <<>> /\ d.life \in {"ready", "freed"}
  <2> HIDE DEF p
  <2> QED
    BY <1>2, DoneCheckType
<1>4. q \in Pmain /\ (q.output # <<>> => q.tranQ # <<>>) /\ q.life \in {"ready", "freed"}
  <2> HIDE DEF d
  <2> QED
    BY <1>3, WriteNextType
<1>5. pmain' = [pmain EXCEPT ![e] = q]
  BY DEF TypeInv, TypeOK
<1>6. /\ flushed' \in [Ends -> BOOLEAN] /\ ~flushed'[e]
      /\ \A x \in Ends \ {e} : flushed'[x] = flushed[x]
  BY DEF TypeInv, TypeOK
<1> HIDE DEF q
<1> QED
  BY <1>4, <1>5, <1>6, LocalStep

LEMMA RequestSentType == TypeInv /\ RequestSent => TypeInv'
<1> SUFFICES ASSUME TypeInv, RequestSent PROVE TypeInv'
  OBVIOUS
<1>1. pmain' \in [Ends -> Pmain] /\ Busy'
  BY WriteDoneType, EndsFacts DEF RequestSent
<1> QED
  BY <1>1 DEF RequestSent, TypeInv, TypeOK, history

LEMMA ResponseSentType == TypeInv /\ ResponseSent => TypeInv'
<1> SUFFICES ASSUME TypeInv, ResponseSent PROVE TypeInv'
  OBVIOUS
<1>1. pmain' \in [Ends -> Pmain] /\ Busy'
  BY WriteDoneType, EndsFacts DEF ResponseSent
<1>2. applied' \subseteq Requests
  BY DEF ResponseSent, TypeInv, TypeOK
<1> QED
  BY <1>1, <1>2 DEF ResponseSent, TypeInv, TypeOK

\* Any message Incoming shows to e is a message of this connection.
LEMMA IncomingType ==
  ASSUME TypeOK, NEW e \in Ends, Incoming(e) # <<>>
  PROVE  Head(Incoming(e)) \in Msg
<1>1. Peer(e) \in Ends
  BY EndsFacts
<1>2. wire[Peer(e)] \in Seq(Msg) /\ pmain[Peer(e)].output \in Seq(Msg)
  BY <1>1, PmainFields DEF TypeOK
<1>3. Incoming(e) \in Seq(Msg)
  BY <1>2, ConcatProperties DEF Incoming
<1> QED
  BY <1>3, TailType

LEMMA ReadHeadType == \A e \in Ends : TypeInv /\ ReadHead(e) => TypeInv'
<1> SUFFICES ASSUME NEW e \in Ends, TypeInv, ReadHead(e) PROVE TypeInv'
  OBVIOUS
<1>1. Head(Incoming(e)) \in Msg
  BY IncomingType DEF ReadHead, TypeInv
<1> DEFINE p == WithHandler(pmain[e], Head(Incoming(e)))
<1>2. pmain[e] \in Pmain
  BY DEF TypeInv, TypeOK
<1>3. PICK checked \in BOOLEAN :
        pmain' = [pmain EXCEPT ![e] = [p EXCEPT !.checkDone = checked]]
  BY DEF ReadHead
<1>4. /\ p \in Pmain /\ p.output = pmain[e].output /\ p.tranQ = pmain[e].tranQ
      /\ p.life = pmain[e].life
  BY <1>1, <1>2, WithHandlerType
<1> DEFINE q == [p EXCEPT !.checkDone = checked]
<1>5. q \in Pmain /\ q.output = p.output /\ q.tranQ = p.tranQ /\ q.life = p.life
  <2> HIDE DEF p
  <2> QED
    BY <1>4 DEF Pmain
<1>6. /\ pmain[e].life = "ready" /\ ~flushed[e] /\ flushed' = flushed
      /\ flushed \in [Ends -> BOOLEAN]
      /\ (pmain[e].output # <<>> => pmain[e].tranQ # <<>>)
  BY DEF ReadHead, Ready, TypeInv, TypeOK, Busy
<1>7. pmain' \in [Ends -> Pmain] /\ Busy'
  <2>1. pmain' = [pmain EXCEPT ![e] = q]
    BY <1>3
  <2> HIDE DEF p, q
  <2> QED
    BY <1>4, <1>5, <1>6, <2>1, LocalStep
<1> QED
  BY <1>7 DEF ReadHead, TypeInv, TypeOK, history

LEMMA ReadRefusedType == \A e \in Ends : TypeInv /\ ReadRefused(e) => TypeInv'
<1> SUFFICES ASSUME NEW e \in Ends, TypeInv, ReadRefused(e) PROVE TypeInv'
  OBVIOUS
<1> DEFINE check == Check(e, Head(wire[Peer(e)]))
<1>1. check \in {"INVALID_MSG", "UNEXPECTED_MSG", "TRANSACTION"}
  BY DEF ReadRefused, Check, HeaderCheck
<1>2. Fail(e, check, "OK") /\ ~flushed[e] /\ pmain[e].life # "none"
  BY DEF ReadRefused, Ready
<1> QED
  BY <1>1, <1>2, FailType

LEMMA HandlerRejectsType == \A e \in Ends : TypeInv /\ HandlerRejects(e) => TypeInv'
BY FailType DEF HandlerRejects, Ready

LEMMA HandleRequestType == TypeInv /\ HandleRequest => TypeInv'
<1> SUFFICES ASSUME TypeInv, HandleRequest PROVE TypeInv'
  OBVIOUS
<1> DEFINE m == Head(wire[I])
           p == WithHandler(pmain[A], m)
           r == Head(p.recvQ)
<1>1. m \in Msg /\ Tail(wire[I]) \in Seq(Msg) /\ pmain[A] \in Pmain
  BY HeadOfWire, EndsFacts DEF HandleRequest, TypeInv, TypeOK
<1>2. /\ p \in Pmain /\ p.recvQ # <<>> /\ r \in Messages /\ p.output = pmain[A].output
      /\ p.tranQ = pmain[A].tranQ /\ p.life = pmain[A].life
  BY <1>1, WithHandlerType
<1>3. PICK id \in TxnIds :
        pmain' = [pmain EXCEPT ![A] =
                    DoneCheck(A, [PushTran(A, p, r, id) EXCEPT !.recvQ = Tail(@),
                                                               !.checkDone = FALSE])]
  BY DEF HandleRequest
<1> DEFINE s == PushTran(A, p, r, id)
           d == [s EXCEPT !.recvQ = Tail(@), !.checkDone = FALSE]
           q == DoneCheck(A, d)
<1>4. s \in Pmain /\ s.tranQ # <<>> /\ s.life = p.life /\ s.recvQ = p.recvQ
  <2> HIDE DEF p
  <2>1. s.recvQ = p.recvQ
    BY <1>2 DEF PushTran, WriteNext, Setup, Pmain
  <2> QED
    BY <1>2, <2>1, PushTranType
<1>5. d \in Pmain /\ d.tranQ # <<>> /\ d.life = p.life
  <2> HIDE DEF p, s
  <2> QED
    BY <1>2, <1>4, RecvDoneType
<1>6. q \in Pmain /\ q.tranQ # <<>> /\ q.life \in {p.life, "freed"}
  <2> HIDE DEF d, p
  <2> QED
    BY <1>5, DoneCheckType
<1>7. /\ pmain[A].life = "ready" /\ ~flushed[A] /\ flushed' = flushed
      /\ flushed \in [Ends -> BOOLEAN]
  BY DEF HandleRequest, Ready, TypeInv, TypeOK
<1>8. pmain' \in [Ends -> Pmain] /\ Busy'
  <2>1. pmain' = [pmain EXCEPT ![A] = q]
    BY <1>3
  <2> HIDE DEF p, q
  <2> QED
    BY <1>2, <1>6, <1>7, <2>1, LocalStep, EndsFacts
<1>9. wire' \in [Ends -> Seq(Msg)]
  BY <1>1 DEF HandleRequest, TypeInv, TypeOK
<1>10. dangling' \subseteq Messages
  <2>1. dangling' \in {dangling \cup {r}, dangling}
    BY DEF HandleRequest
  <2> QED
    BY <1>2, <2>1 DEF TypeInv, TypeOK
<1> QED
  BY <1>8, <1>9, <1>10 DEF HandleRequest, TypeInv, TypeOK, history

LEMMA HandleResponseType == TypeInv /\ HandleResponse => TypeInv'
<1> SUFFICES ASSUME TypeInv, HandleResponse PROVE TypeInv'
  OBVIOUS
<1> DEFINE m == Head(wire[A])
           p == pmain[I]
           s == [p EXCEPT !.txnStarted = TRUE, !.txnId = m.id, !.tranEnabled = TRUE]
           h == IF Head(p.recvQ) = 0 THEN WriteNext(I, s, NoTxn) ELSE p
           d == [h EXCEPT !.recvQ = Tail(@), !.checkDone = FALSE]
           q == DoneCheck(I, d)
<1>1. /\ m \in Msg /\ m.id \in TxnIds \cup {NoTxn} /\ m.req \in Messages
      /\ Tail(wire[A]) \in Seq(Msg) /\ p \in Pmain /\ p.recvQ # <<>>
      /\ p.life = "ready" /\ ~flushed[I] /\ (p.output # <<>> => p.tranQ # <<>>)
  BY HeadOfWire, EndsFacts DEF HandleResponse, Ready, TypeInv, TypeOK, Busy, Msg
<1>2. /\ s \in Pmain /\ s.recvQ = p.recvQ /\ s.tranQ = p.tranQ /\ s.output = p.output
      /\ s.life = p.life
  BY <1>1 DEF Pmain
<1>3. /\ h \in Pmain /\ h.recvQ = p.recvQ /\ (h.output # <<>> => h.tranQ # <<>>)
      /\ h.life = "ready"
  <2> HIDE DEF s
  <2>1. WriteNext(I, s, NoTxn).recvQ = s.recvQ
    BY <1>2 DEF WriteNext, Setup, Pmain
  <2> QED
    BY <1>1, <1>2, <2>1, WriteNextType
<1>4. d \in Pmain /\ (d.output # <<>> => d.tranQ # <<>>) /\ d.life = "ready"
  <2> HIDE DEF h
  <2> QED
    BY <1>1, <1>3, RecvDoneType
<1>5. q \in Pmain /\ (q.output # <<>> => q.tranQ # <<>>) /\ q.life \in {"ready", "freed"}
  <2> HIDE DEF d
  <2> QED
    BY <1>4, DoneCheckType
<1>6. pmain' = [pmain EXCEPT ![I] = q]
  BY DEF HandleResponse
<1>7. pmain' \in [Ends -> Pmain] /\ Busy'
  <2>1. flushed' = flushed /\ flushed \in [Ends -> BOOLEAN]
    BY DEF HandleResponse, TypeInv, TypeOK
  <2> HIDE DEF q
  <2> QED
    BY <1>1, <1>5, <1>6, <2>1, LocalStep, EndsFacts
<1>8. wire' \in [Ends -> Seq(Msg)]
  BY <1>1 DEF HandleResponse, TypeInv, TypeOK
<1>9. nOk' \in [Requests -> Nat] /\ okBy' \in [Requests -> Messages]
  BY <1>1 DEF HandleResponse, TypeInv, TypeOK
<1> QED
  BY <1>7, <1>8, <1>9 DEF HandleResponse, TypeInv, TypeOK

LEMMA TypeNext == TypeInv /\ [Next]_vars => TypeInv'
<1> SUFFICES ASSUME TypeInv, [Next]_vars PROVE TypeInv'
  OBVIOUS
<1>1. CASE SocksOk
  BY <1>1, SocksOkType
<1>2. CASE SocksFail
  <2>1. ~flushed[I] /\ pmain[I].life # "none"
    BY <1>2, EndsFacts DEF SocksFail, TypeInv, Busy
  <2> QED
    BY <1>2, <2>1, FailType, EndsFacts DEF SocksFail
<1>3. CASE AcceptConn
  <2>1. ~flushed[A] /\ pmain[A].life # "none" /\ "ready" \in Life
    BY <1>3, EndsFacts DEF AcceptConn, TypeInv, Busy, Life
  <2> QED
    BY <1>3, <2>1, LifeStepType, EndsFacts DEF AcceptConn
<1>4. ASSUME NEW e \in Ends, Flush(e) PROVE TypeInv'
  BY <1>4, FlushType
<1>5. CASE RequestSent
  BY <1>5, RequestSentType
<1>6. CASE ResponseSent
  BY <1>6, ResponseSentType
<1>7. CASE AckUsesFreed
  <2>1. pmain[A].life # "none" /\ "crashed" \in Life
    BY <1>7 DEF AckUsesFreed, Life
  <2> QED
    BY <1>7, <2>1, LifeStepType, EndsFacts DEF AckUsesFreed
<1>8. ASSUME NEW e \in Ends, ReadHead(e) PROVE TypeInv'
  BY <1>8, ReadHeadType
<1>9. ASSUME NEW e \in Ends, Read(e) PROVE TypeInv'
  BY <1>9, ReadRefusedType, HandlerRejectsType, HandleRequestType, HandleResponseType
     DEF Read
<1>10. ASSUME NEW e \in Ends, PeerClosed(e) \/ Reset(e) PROVE TypeInv'
  <2>1. ~flushed[e] /\ pmain[e].life # "none" /\ Fail(e, "CONN_CLOSED", "OK")
    BY <1>10 DEF PeerClosed, Reset, Ready
  <2> QED
    BY <2>1, FailType
<1>11. ASSUME NEW e \in Ends, Crash(e) PROVE TypeInv'
  <2>1. pmain[e].life # "none" /\ "crashed" \in Life
    BY <1>11 DEF Crash, Life
  <2> QED
    BY <1>11, <2>1, LifeStepType DEF Crash
<1>12. CASE UNCHANGED vars
  BY <1>12 DEF vars, history, TypeInv, TypeOK, Busy
<1> QED
  BY <1>1, <1>2, <1>3, <1>4, <1>5, <1>6, <1>7, <1>8, <1>9, <1>10, <1>11, <1>12
     DEF Next, Connect, WriteCallback

LEMMA TypeInvariant == Spec => []TypeInv
BY TypeInit, TypeNext, PTL DEF Spec

\* Every reachable state is well typed: queues hold messages of the connection,
\* and no callback takes the head of an empty one.
THEOREM TypeCorrect == Spec => []TypeOK
<1>1. TypeInv => TypeOK
  BY DEF TypeInv
<1> QED
  BY <1>1, TypeInvariant, PTL
=============================================================================
