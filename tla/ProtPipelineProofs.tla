------------------------- MODULE ProtPipelineProofs -------------------------
(* The pipeline is an invariant of ProtMain, and with it the safety properties and the
   refinement of RequestBatch. *)
EXTENDS ProtMainPipeline, ProtMainProofs
-----------------------------------------------------------------------------
(* Intervals *)

LEMMA PositionsFacts == /\ N \in Nat /\ 0 \in Messages /\ 0 \in Positions
                        /\ N + 1 \in Positions
                        /\ \A x \in Positions : x \in Nat /\ (x \in Messages <=> x < N + 1)
                        /\ \A x \in Messages : x + 1 \in Positions /\ x \in Positions
                        /\ \A r \in Messages : r = 0 \/ r \in Requests
                        /\ \A r \in Requests : r \in Messages /\ r > 0
BY NAssumption DEF Positions, Messages, Requests

\* The values an interval of f can hold.
Vals(f) == {f[r] : r \in Messages}

LEMMA SpanSeq ==
  ASSUME NEW f, NEW x \in Positions, NEW y \in Positions, x <= y
  PROVE  /\ Span(f, x, y) \in Seq(Vals(f))
         /\ Len(Span(f, x, y)) = y - x
         /\ \A i \in 1..(y - x) : Span(f, x, y)[i] = f[x + i - 1]
<1>1. y - x \in Nat /\ \A i \in 1..(y - x) : x + i - 1 \in Messages
  BY PositionsFacts, NAssumption DEF Positions, Messages
<1>2. Span(f, x, y) \in [1..(y - x) -> Vals(f)]
  BY <1>1 DEF Span, Vals
<1>3. Span(f, x, y) \in Seq(Vals(f))
  BY <1>1, <1>2, SeqDef
<1>4. Len(Span(f, x, y)) \in Nat /\ DOMAIN Span(f, x, y) = 1..Len(Span(f, x, y))
  BY <1>3, LenProperties
<1>5. 1..(y - x) = 1..Len(Span(f, x, y))
  BY <1>2, <1>4
<1>6. Len(Span(f, x, y)) = y - x
  BY <1>1, <1>4, <1>5
<1> QED
  BY <1>3, <1>6 DEF Span

LEMMA SpanEmpty ==
  ASSUME NEW f, NEW x \in Positions, NEW y \in Positions, x <= y
  PROVE  Span(f, x, y) = <<>> <=> x = y
<1>1. Span(f, x, y) \in Seq(Vals(f)) /\ Len(Span(f, x, y)) = y - x
  BY SpanSeq
<1>2. \A s \in Seq(Vals(f)) : s = <<>> <=> Len(s) = 0
  BY EmptySeq
<1> QED
  BY <1>1, <1>2, PositionsFacts

LEMMA SpanHeadTail ==
  ASSUME NEW f, NEW x \in Positions, NEW y \in Positions, x < y
  PROVE  /\ Span(f, x, y) # <<>>
         /\ Head(Span(f, x, y)) = f[x]
         /\ Tail(Span(f, x, y)) = Span(f, x + 1, y)
<1> DEFINE s == Span(f, x, y)
           t == Span(f, x + 1, y)
<1>0. x \in Nat /\ y \in Nat /\ x <= y /\ x + 1 <= y /\ x + 1 \in Positions /\ 1 \in 1..(y - x)
  BY NAssumption DEF Positions
<1>1. /\ s \in Seq(Vals(f)) /\ Len(s) = y - x
      /\ \A i \in 1..(y - x) : s[i] = f[x + i - 1]
  BY <1>0, SpanSeq
<1>2. /\ t \in Seq(Vals(f)) /\ Len(t) = y - (x + 1)
      /\ \A i \in 1..(y - (x + 1)) : t[i] = f[x + 1 + i - 1]
  BY <1>0, SpanSeq
<1>3. s # <<>>
  BY <1>0, SpanEmpty
<1> HIDE DEF s, t
<1>4. Head(s) = s[1]
  BY <1>1, <1>3
<1>5. s[1] = f[x]
  BY <1>0, <1>1
<1>6. /\ Tail(s) \in Seq(Vals(f)) /\ Len(Tail(s)) = Len(s) - 1
      /\ \A i \in 1..Len(Tail(s)) : Tail(s)[i] = s[i + 1]
  BY <1>1, <1>3, HeadTailProperties
<1>7. Tail(s) = t
  <2>1. Len(Tail(s)) = Len(t)
    BY <1>0, <1>1, <1>2, <1>6
  <2>2. \A i \in 1..Len(Tail(s)) : Tail(s)[i] = t[i]
    BY <1>0, <1>1, <1>2, <1>6
  <2> QED
    BY <1>2, <1>6, <2>1, <2>2, SeqEqual
<1> QED
  BY <1>3, <1>4, <1>5, <1>7 DEF s, t

LEMMA SpanAppend ==
  ASSUME NEW f, NEW x \in Positions, NEW y \in Messages, x <= y
  PROVE  /\ Append(Span(f, x, y), f[y]) = Span(f, x, y + 1)
         /\ Span(f, x, y) \o <<f[y]>> = Span(f, x, y + 1)
<1> DEFINE s == Span(f, x, y)
           t == Span(f, x, y + 1)
<1>0. x \in Nat /\ y \in Nat /\ y \in Positions /\ y + 1 \in Positions /\ x <= y + 1
  BY PositionsFacts, NAssumption DEF Positions, Messages
<1>1. /\ s \in Seq(Vals(f)) /\ Len(s) = y - x
      /\ \A i \in 1..(y - x) : s[i] = f[x + i - 1]
  BY <1>0, SpanSeq
<1>2. /\ t \in Seq(Vals(f)) /\ Len(t) = y + 1 - x
      /\ \A i \in 1..(y + 1 - x) : t[i] = f[x + i - 1]
  <2>1. \A z \in Positions : x <= z =>
          /\ Span(f, x, z) \in Seq(Vals(f)) /\ Len(Span(f, x, z)) = z - x
          /\ \A i \in 1..(z - x) : Span(f, x, z)[i] = f[x + i - 1]
    BY SpanSeq
  <2> QED
    BY <1>0, <2>1
<1>3. f[y] \in Vals(f)
  BY DEF Vals
<1> HIDE DEF s, t
<1>4. /\ Append(s, f[y]) \in Seq(Vals(f))
      /\ Len(Append(s, f[y])) = Len(s) + 1
      /\ \A i \in 1..Len(s) : Append(s, f[y])[i] = s[i]
      /\ Append(s, f[y])[Len(s) + 1] = f[y]
  BY <1>1, <1>3, AppendProperties
<1>5. Append(s, f[y]) = t
  <2>1. Len(Append(s, f[y])) = Len(t)
    BY <1>0, <1>1, <1>2, <1>4
  <2>2. ASSUME NEW i \in 1..Len(Append(s, f[y])) PROVE Append(s, f[y])[i] = t[i]
    <3>1. CASE i <= y - x
      BY <1>0, <1>1, <1>2, <1>4, <3>1
    <3>2. CASE i = y - x + 1
      BY <1>0, <1>1, <1>2, <1>4, <3>2
    <3> QED
      BY <1>0, <1>1, <1>4, <3>1, <3>2
  <2> QED
    BY <1>2, <1>4, <2>1, <2>2, SeqEqual
<1>6. s \o <<f[y]>> = Append(s, f[y])
  BY <1>1, <1>3, AppendIsConcat
<1> QED
  BY <1>5, <1>6 DEF s, t

LEMMA SpanAgree ==
  ASSUME NEW f, NEW g, NEW x \in Positions, NEW y \in Positions,
         \A r \in Messages : x <= r /\ r < y => f[r] = g[r]
  PROVE  Span(f, x, y) = Span(g, x, y)
<1>1. \A i \in 1..(y - x) : f[x + i - 1] = g[x + i - 1]
  BY PositionsFacts, NAssumption DEF Positions, Messages
<1> QED
  BY <1>1 DEF Span
-----------------------------------------------------------------------------
(* The operators on struct prot_main, in terms of positions *)

LEMMA MsgsFacts ==
  /\ \A r \in Messages : Numbers[r] = r
  /\ \A g : \A r \in Messages :
       /\ ReqMsgs(g)[r] = [req |-> r, id |-> IF r = 0 THEN NoTxn ELSE g]
       /\ ResMsgs(g)[r] = [req |-> r, id |-> g]
BY DEF Numbers, ReqMsgs, ResMsgs

LEMMA NumbersSpan ==
  ASSUME NEW x \in Positions, NEW y \in Positions, x < y
  PROVE  /\ Span(Numbers, x, y) # <<>> /\ Head(Span(Numbers, x, y)) = x
         /\ Tail(Span(Numbers, x, y)) = Span(Numbers, x + 1, y)
<1>1. x \in Messages
  BY NAssumption DEF Positions, Messages
<1> QED
  BY <1>1, SpanHeadTail, MsgsFacts

LEMMA NumbersAppend ==
  ASSUME NEW x \in Positions, NEW y \in Messages, x <= y
  PROVE  Append(Span(Numbers, x, y), y) = Span(Numbers, x, y + 1)
BY SpanAppend, MsgsFacts

LEMMA WriteNextInitiator ==
  ASSUME NEW p \in Pmain, NEW a \in Positions, NEW d \in Positions, NEW g,
         InitiatorShape(p, a, d, g), InitiatorOutput(p, a, d, g)
  PROVE  /\ InitiatorShape(WriteNext(I, p, NoTxn), a, d, g)
         /\ InitiatorOutput(WriteNext(I, p, NoTxn), a, d, g)
         /\ WriteNext(I, p, NoTxn).recvQ = p.recvQ
         /\ WriteNext(I, p, NoTxn).life = p.life
<1>1. CASE /\ p.output = <<>> /\ p.tranQ # <<>> /\ ~p.tranInProgress /\ p.tranEnabled
  <2> DEFINE id == IF d = 0 THEN NoTxn ELSE p.txnId
             q == [p EXCEPT !.output = <<[req |-> d, id |-> id]>>, !.tranInProgress = TRUE]
  <2>1. d < N + 1
    BY <1>1, PositionsFacts, SpanEmpty DEF InitiatorShape, Positions
  <2>2. Head(p.tranQ) = d
    BY <2>1, NumbersSpan, PositionsFacts DEF InitiatorShape
  <2>3. a > 0 \/ d = 0
    BY <1>1 DEF InitiatorShape
  <2>4. WriteNext(I, p, NoTxn) = q
    BY <1>1, <2>2, EndsFacts DEF WriteNext, Setup, Pmain
  <2>5. [req |-> d, id |-> id] = ReqMsgs(g)[d]
    <3>1. id = IF d = 0 THEN NoTxn ELSE g
      BY <2>3 DEF InitiatorShape
    <3>2. ReqMsgs(g)[d] = [req |-> d, id |-> IF d = 0 THEN NoTxn ELSE g]
      BY <2>1, MsgsFacts, PositionsFacts
    <3> HIDE DEF id
    <3> QED
      BY <3>1, <3>2
  <2>6. /\ q.output = <<ReqMsgs(g)[d]>> /\ q.tranQ = p.tranQ /\ q.recvQ = p.recvQ
        /\ q.tranEnabled = p.tranEnabled /\ q.txnStarted = p.txnStarted
        /\ q.txnId = p.txnId /\ q.life = p.life
    BY <2>5 DEF Pmain
  <2> HIDE DEF q
  <2> QED
    BY <2>1, <2>3, <2>4, <2>6 DEF InitiatorShape, InitiatorOutput
<1>2. CASE ~(/\ p.output = <<>> /\ p.tranQ # <<>> /\ ~p.tranInProgress /\ p.tranEnabled)
  <2>1. WriteNext(I, p, NoTxn) = p
    BY <1>2 DEF WriteNext
  <2> QED
    BY <2>1
<1> QED
  BY <1>1, <1>2

LEMMA WriteNextAcceptor ==
  ASSUME NEW p \in Pmain, NEW b \in Positions, NEW c \in Positions, b <= c, NEW id,
         AcceptorShape(p, b, c), AcceptorOutput(p, b, c)
  PROVE  /\ AcceptorShape(WriteNext(A, p, id), b, c)
         /\ AcceptorOutput(WriteNext(A, p, id), b, c)
         /\ WriteNext(A, p, id).recvQ = p.recvQ
         /\ WriteNext(A, p, id).life = p.life
         /\ b > 0 => WriteNext(A, p, id).genId = p.genId
<1>1. CASE /\ p.output = <<>> /\ p.tranQ # <<>> /\ ~p.tranInProgress /\ p.tranEnabled
  <2> DEFINE g == IF b = 0 THEN id ELSE p.genId
             q == [p EXCEPT !.genId = g, !.output = <<[req |-> b, id |-> g]>>,
                            !.tranInProgress = TRUE]
  <2>1. b < c /\ b \in Messages
    BY <1>1, PositionsFacts, SpanEmpty DEF AcceptorShape, Positions
  <2>2. Head(p.tranQ) = b
    BY <2>1, NumbersSpan DEF AcceptorShape
  <2>3. b # 0 => p.txnId = p.genId
    BY PositionsFacts DEF AcceptorShape
  <2>4. WriteNext(A, p, id) = q
    BY <1>1, <2>2, <2>3, EndsFacts DEF WriteNext, Setup, Pmain
  <2>5. /\ q.output = <<[req |-> b, id |-> g]>> /\ q.tranQ = p.tranQ /\ q.recvQ = p.recvQ
        /\ q.txnStarted = p.txnStarted /\ q.genId = g
        /\ q.txnId = p.txnId /\ q.life = p.life
    BY DEF Pmain
  <2>6. [req |-> b, id |-> g] = ResMsgs(g)[b]
    BY <2>1, MsgsFacts
  <2>7. b > 0 => g = p.genId
    BY PositionsFacts
  <2> HIDE DEF q, g
  <2> QED
    BY <2>1, <2>4, <2>5, <2>6, <2>7 DEF AcceptorShape, AcceptorOutput
<1>2. CASE ~(/\ p.output = <<>> /\ p.tranQ # <<>> /\ ~p.tranInProgress /\ p.tranEnabled)
  <2>1. WriteNext(A, p, id) = p
    BY <1>2 DEF WriteNext
  <2> QED
    BY <2>1
<1> QED
  BY <1>1, <1>2

LEMMA SentInitiator ==
  ASSUME NEW p \in Pmain, NEW a \in Positions, NEW s \in Positions, NEW g,
         a <= s, s < N + 1, InitiatorShape(p, a, s, g), p.recvQ = Span(Numbers, a, s)
  PROVE  /\ InitiatorShape(Sent(I, p), a, s + 1, g)
         /\ Sent(I, p).recvQ = Span(Numbers, a, s + 1)
         /\ Sent(I, p).output = p.output /\ Sent(I, p).life = p.life
<1>1. Head(p.tranQ) = s /\ Tail(p.tranQ) = Span(Numbers, s + 1, N + 1)
  BY NumbersSpan, PositionsFacts DEF InitiatorShape
<1>2. Append(p.recvQ, s) = Span(Numbers, a, s + 1)
  BY NumbersAppend, PositionsFacts
<1> DEFINE q == [p EXCEPT !.recvQ = Append(@, s), !.tranEnabled = @ /\ s # 0,
                          !.tranQ = Tail(@), !.tranInProgress = FALSE]
<1>3. Sent(I, p) = q
  BY <1>1, EndsFacts DEF Sent, Pmain
<1>4. /\ q.recvQ = Append(p.recvQ, s) /\ q.tranEnabled = (p.tranEnabled /\ s # 0)
      /\ q.tranQ = Tail(p.tranQ) /\ q.txnStarted = p.txnStarted /\ q.txnId = p.txnId
      /\ q.output = p.output /\ q.life = p.life
  BY DEF Pmain
<1>5. (p.tranEnabled /\ s # 0) = (a > 0 \/ s + 1 = 0)
  <2>1. ((a > 0 \/ s = 0) /\ s # 0) <=> (a > 0 \/ s + 1 = 0)
    BY PositionsFacts
  <2>2. p.tranEnabled = (a > 0 \/ s = 0)
    BY DEF InitiatorShape
  <2> QED
    BY <2>1, <2>2
<1> HIDE DEF q
<1> QED
  BY <1>1, <1>2, <1>3, <1>4, <1>5 DEF InitiatorShape

LEMMA SentAcceptor ==
  ASSUME NEW p \in Pmain, NEW s \in Positions, NEW c \in Positions, s < c,
         AcceptorShape(p, s, c)
  PROVE  /\ AcceptorShape(Sent(A, p), s + 1, c)
         /\ Sent(A, p).recvQ = p.recvQ /\ Sent(A, p).genId = p.genId
         /\ Sent(A, p).output = p.output /\ Sent(A, p).life = p.life
<1>1. Head(p.tranQ) = s /\ Tail(p.tranQ) = Span(Numbers, s + 1, c)
  BY NumbersSpan DEF AcceptorShape
<1> DEFINE q == [p EXCEPT !.txnStarted = @ \/ s = 0,
                          !.txnId = IF s = 0 THEN p.genId ELSE @,
                          !.tranQ = Tail(@), !.tranInProgress = FALSE]
<1>2. Sent(A, p) = q
  BY <1>1, EndsFacts DEF Sent, Pmain
<1>3. /\ q.txnStarted = (p.txnStarted \/ s = 0) /\ q.genId = p.genId
      /\ q.txnId = (IF s = 0 THEN p.genId ELSE p.txnId)
      /\ q.tranQ = Tail(p.tranQ) /\ q.recvQ = p.recvQ
      /\ q.output = p.output /\ q.life = p.life
  BY DEF Pmain
<1>4. (p.txnStarted \/ s = 0) = (s + 1 > 0) /\ (s > 0 \/ s = 0)
  <2>1. s > 0 \/ s = 0
    BY PositionsFacts
  <2>2. s + 1 > 0
    BY PositionsFacts
  <2>3. p.txnStarted = (s > 0)
    BY DEF AcceptorShape
  <2> QED
    BY <2>1, <2>2, <2>3
<1> HIDE DEF q
<1> QED
  BY <1>1, <1>2, <1>3, <1>4 DEF AcceptorShape
-----------------------------------------------------------------------------
(* The pipeline is inductive *)

LEMMA PipelineInit == Init => Pipeline
<1> SUFFICES ASSUME Init PROVE PipelineAt(0, 0, 0, 0)
  BY PositionsFacts DEF Pipeline
<1>1. \A f : Span(f, 0, 0) = <<>>
  BY SpanEmpty, PositionsFacts
<1>2. Script = Span(Numbers, 0, N + 1)
  BY NAssumption, MsgsFacts DEF Script, Span, Messages
<1>3. pmain[I] = Fresh("connecting", Script) /\ pmain[A] = Fresh("none", <<>>)
  BY EndsFacts DEF Init
<1>4. /\ wire[I] = <<>> /\ wire[A] = <<>> /\ ~flushed[I] /\ ~flushed[A]
      /\ Late(I) = 0 /\ Late(A) = 0
  BY EndsFacts DEF Init, Late
<1>5. NetworkInv(0, 0, 0, 0)
  BY <1>1, <1>4 DEF NetworkInv
<1>6. /\ pmain[I].tranQ = Script /\ pmain[I].recvQ = <<>> /\ pmain[I].tranEnabled
      /\ pmain[I].tranEnabled = TRUE /\ pmain[I].txnStarted = FALSE
      /\ pmain[I].output = <<>> /\ pmain[I].life = "connecting"
      /\ pmain[A].tranQ = <<>> /\ pmain[A].recvQ = <<>>
      /\ pmain[A].txnStarted = FALSE /\ pmain[A].output = <<>>
  BY <1>3 DEF Fresh
<1>7. 0 - 0 = 0 /\ (0 > 0) = FALSE /\ 0 <= 0
  OBVIOUS
<1>8. InitiatorInv(0, 0)
  BY <1>1, <1>2, <1>4, <1>6, <1>7 DEF InitiatorInv, InitiatorShape, InitiatorOutput
<1>9. AcceptorInv(0, 0)
  BY <1>1, <1>4, <1>6, <1>7 DEF AcceptorInv, AcceptorShape, AcceptorOutput
<1>10. HistoryInv(0, 0)
  <2>1. \A r \in Requests : ~(r < 0)
    BY PositionsFacts
  <2>2. answered = {r \in Requests : r < 0}
    BY <2>1 DEF Init
  <2> QED
    BY <1>4, <1>6, <1>7, <2>1, <2>2 DEF HistoryInv, Init
<1> QED
  BY <1>5, <1>8, <1>9, <1>10 DEF PipelineAt

LEMMA PipelineSocksOk ==
  ASSUME TypeInv, NEW a \in Positions, NEW b \in Positions, NEW c \in Positions,
         NEW d \in Positions, PipelineAt(a, b, c, d), SocksOk
  PROVE  Pipeline'
<1> DEFINE p == [pmain[I] EXCEPT !.life = "ready"]
           q == WriteNext(I, p, NoTxn)
           t == [pmain[A] EXCEPT !.life = "pending"]
<1>1. pmain[I] \in Pmain /\ pmain[A] \in Pmain
  BY EndsFacts DEF TypeInv, TypeOK
<1>2. /\ p \in Pmain /\ p.output = pmain[I].output /\ p.tranQ = pmain[I].tranQ
      /\ p.recvQ = pmain[I].recvQ /\ p.tranEnabled = pmain[I].tranEnabled
      /\ p.txnStarted = pmain[I].txnStarted /\ p.txnId = pmain[I].txnId
      /\ p.life = "ready"
  BY <1>1 DEF Pmain, Life
<1>3. /\ t.output = pmain[A].output /\ t.tranQ = pmain[A].tranQ
      /\ t.recvQ = pmain[A].recvQ /\ t.genId = pmain[A].genId
      /\ t.txnStarted = pmain[A].txnStarted /\ t.txnId = pmain[A].txnId
      /\ t.life = "pending"
  BY <1>1 DEF Pmain
<1>4. /\ ~flushed[I] /\ ~flushed[A] /\ pmain[I].life = "connecting" /\ pmain[A].life = "none"
      /\ Late(I) = 0 /\ Late(A) = 0
  BY EndsFacts DEF SocksOk, TypeInv, Busy, Late
<1>5. InitiatorInv(a, d) /\ AcceptorInv(b, c) /\ d - 0 = d /\ b - 0 = b
  BY <1>4, PositionsFacts DEF PipelineAt
<1>6. /\ a <= d /\ pmain[I].recvQ = Span(Numbers, a, d)
      /\ InitiatorShape(p, a, d, Gen) /\ InitiatorOutput(p, a, d, Gen)
  <2> HIDE DEF p
  <2> QED
    BY <1>2, <1>4, <1>5 DEF InitiatorInv, InitiatorShape, InitiatorOutput
<1>7. /\ InitiatorShape(q, a, d, Gen) /\ InitiatorOutput(q, a, d, Gen)
      /\ q.recvQ = pmain[I].recvQ /\ q.life = "ready"
  <2> HIDE DEF p
  <2> QED
    BY <1>2, <1>6, WriteNextInitiator
<1>8. /\ pmain'[I] = q /\ pmain'[A] = t /\ flushed' = flushed /\ wire' = wire
      /\ UNCHANGED <<nOk, nFail, okBy, answered, applied, dangling>>
  BY EndsFacts DEF SocksOk, TypeInv, TypeOK, history
<1> HIDE DEF p, q, t
<1>9. Gen' = Gen /\ Late(I)' = 0 /\ Late(A)' = 0
  BY <1>3, <1>4, <1>8 DEF Gen, Late
<1>10. NetworkInv(a, b, c, d)'
  BY <1>3, <1>4, <1>8, <1>9 DEF NetworkInv, PipelineAt
<1>11. InitiatorInv(a, d)'
  BY <1>4, <1>5, <1>6, <1>7, <1>8, <1>9 DEF InitiatorInv
<1>12. AcceptorInv(b, c)'
  BY <1>3, <1>4, <1>5, <1>8, <1>9 DEF AcceptorInv, AcceptorShape, AcceptorOutput
<1>13. HistoryInv(a, b)'
  BY <1>4, <1>7, <1>8, <1>9 DEF HistoryInv, PipelineAt
<1> QED
  BY <1>10, <1>11, <1>12, <1>13 DEF Pipeline, PipelineAt

\* An action that changes no more than the life of one handler: a crash, or the
\* listener's accept.
LEMMA PipelineLife ==
  ASSUME TypeInv, NEW a \in Positions, NEW b \in Positions, NEW c \in Positions,
         NEW d \in Positions, PipelineAt(a, b, c, d),
         NEW e \in Ends, NEW life,
         pmain' = [pmain EXCEPT ![e].life = life], pmain[e].life # "freed",
         life = "crashed" \/ (e = A /\ pmain[A].life = "pending" /\ life = "ready"),
         UNCHANGED <<wire, flushed, close, dangling, history>>
  PROVE  Pipeline'
<1>1. pmain[I] \in Pmain /\ pmain[A] \in Pmain
  BY EndsFacts DEF TypeInv, TypeOK
<1>2. \A x \in Ends :
        /\ pmain'[x].tranQ = pmain[x].tranQ /\ pmain'[x].recvQ = pmain[x].recvQ
        /\ pmain'[x].tranEnabled = pmain[x].tranEnabled
        /\ pmain'[x].txnStarted = pmain[x].txnStarted /\ pmain'[x].txnId = pmain[x].txnId
        /\ pmain'[x].genId = pmain[x].genId /\ pmain'[x].output = pmain[x].output
        /\ pmain'[x].life = (IF x = e THEN life ELSE pmain[x].life)
  BY <1>1, EndsFacts DEF TypeInv, TypeOK, Pmain
<1>3. /\ flushed' = flushed /\ wire' = wire
      /\ UNCHANGED <<nOk, nFail, okBy, answered, applied, dangling>>
  BY DEF history
<1>4. Gen' = Gen /\ Late(I)' = Late(I) /\ Late(A)' = Late(A)
  BY <1>2, <1>3, EndsFacts DEF Gen, Late
<1>5. NetworkInv(a, b, c, d)'
  BY <1>2, <1>3, <1>4, EndsFacts DEF NetworkInv, PipelineAt
<1>6. ASSUME pmain'[I].life \in {"connecting", "ready"} PROVE InitiatorInv(a, d)'
  <2>1. InitiatorInv(a, d)
    BY <1>2, <1>6, EndsFacts DEF PipelineAt
  <2> QED
    BY <1>2, <1>4, <2>1, EndsFacts DEF InitiatorInv, InitiatorShape, InitiatorOutput
<1>7. ASSUME pmain'[A].life \in {"none", "pending", "ready"} PROVE AcceptorInv(b, c)'
  <2>1. AcceptorInv(b, c)
    BY <1>2, <1>7, EndsFacts DEF PipelineAt
  <2> QED
    BY <1>2, <1>4, <2>1, EndsFacts DEF AcceptorInv, AcceptorShape, AcceptorOutput
<1>8. (pmain'[I].life = "freed") <=> (pmain[I].life = "freed")
  BY <1>2, EndsFacts
<1>9. HistoryInv(a, b)'
  BY <1>3, <1>4, <1>8 DEF HistoryInv, PipelineAt
<1> QED
  BY <1>5, <1>6, <1>7, <1>9 DEF Pipeline, PipelineAt

LEMMA OccursSpan ==
  ASSUME NEW x \in Positions, NEW y \in Positions, x <= y, NEW r \in Messages
  PROVE  Occurs(r, Span(Numbers, x, y)) <=> x <= r /\ r < y
<1>1. /\ Len(Span(Numbers, x, y)) = y - x
      /\ \A i \in 1..(y - x) : Span(Numbers, x, y)[i] = Numbers[x + i - 1]
  BY SpanSeq
<1>2. \A i \in 1..(y - x) : x + i - 1 \in Messages
  BY NAssumption DEF Positions, Messages
<1>3. \A i \in 1..(y - x) : Span(Numbers, x, y)[i] = x + i - 1
  BY <1>1, <1>2, MsgsFacts
<1>4. ASSUME x <= r, r < y PROVE r - x + 1 \in 1..(y - x) /\ x + (r - x + 1) - 1 = r
  BY <1>4, PositionsFacts
<1>5. ASSUME NEW i \in 1..(y - x), x + i - 1 = r PROVE x <= r /\ r < y
  BY <1>5, PositionsFacts
<1> QED
  BY <1>1, <1>3, <1>4, <1>5 DEF Occurs

LEMMA PipelineFail ==
  ASSUME TypeInv, NEW a \in Positions, NEW b \in Positions, NEW c \in Positions,
         NEW d \in Positions, PipelineAt(a, b, c, d),
         NEW e \in Ends, NEW code, NEW status, Fail(e, code, status),
         ~flushed[e], pmain[e].life \in {"connecting", "ready"}
  PROVE  Pipeline'
<1>1. pmain[I] \in Pmain /\ pmain[A] \in Pmain
  BY EndsFacts DEF TypeInv, TypeOK
<1>2. PICK q \in Pmain : /\ pmain' = [pmain EXCEPT ![e] = q]
                         /\ q.life \in {"freed", "crashed"}
                         /\ e = I => q.life = "freed"
                         /\ q.genId = pmain[e].genId
  <2>1. pmain[e] \in Pmain
    BY DEF TypeInv, TypeOK
  <2>2. /\ Freed(pmain[e]).genId = pmain[e].genId
        /\ [Freed(pmain[e]) EXCEPT !.life = "crashed"].genId = pmain[e].genId
    BY <2>1 DEF Freed, Pmain
  <2> QED
    BY <2>1, <2>2, FreedType, EndsFacts DEF Fail
<1>3. /\ flushed' = flushed /\ wire' = wire
      /\ UNCHANGED <<nOk, okBy, answered, applied, dangling>>
  BY DEF Fail
<1>4. \A x \in Ends : pmain'[x] = IF x = e THEN q ELSE pmain[x]
  BY <1>2 DEF TypeInv, TypeOK
<1>5. Gen' = Gen /\ Late(I)' = Late(I) /\ Late(A)' = Late(A)
  BY <1>2, <1>3, <1>4, EndsFacts DEF Gen, Late
<1>6. NetworkInv(a, b, c, d)'
  BY <1>3, <1>4, <1>5, EndsFacts DEF NetworkInv, PipelineAt
<1>7. ASSUME pmain'[I].life \in {"connecting", "ready"} PROVE InitiatorInv(a, d)'
  <2>1. pmain'[I] = pmain[I]
    BY <1>2, <1>4, <1>7, EndsFacts
  <2> QED
    BY <1>5, <1>7, <2>1 DEF InitiatorInv, PipelineAt
<1>8. ASSUME pmain'[A].life \in {"none", "pending", "ready"} PROVE AcceptorInv(b, c)'
  <2>1. pmain'[A] = pmain[A]
    BY <1>2, <1>4, <1>8, EndsFacts
  <2> QED
    BY <1>5, <1>8, <2>1 DEF AcceptorInv, PipelineAt
<1>9. \A r \in Requests : nFail'[r] = IF pmain'[I].life = "freed" /\ r >= a THEN 1 ELSE 0
  <2>1. CASE e = I
    <3>1. InitiatorInv(a, d) /\ pmain[I].life # "freed" /\ Late(I) = 0 /\ d - 0 = d
      BY <2>1, PositionsFacts DEF PipelineAt, Late
    <3>2. /\ a <= d /\ d <= N + 1
          /\ pmain[I].recvQ = Span(Numbers, a, d) /\ pmain[I].tranQ = Span(Numbers, d, N + 1)
      BY <3>1, PositionsFacts DEF InitiatorInv, InitiatorShape, Positions
    <3>3. ASSUME NEW r \in Requests
          PROVE  nFail'[r] = IF r >= a THEN 1 ELSE 0
      <4>1. nFail[r] = 0
        BY <3>1 DEF HistoryInv, PipelineAt
      <4>2. /\ Occurs(r, pmain[I].recvQ) <=> a <= r /\ r < d
            /\ Occurs(r, pmain[I].tranQ) <=> d <= r /\ r < N + 1
        BY <3>2, OccursSpan, PositionsFacts
      <4>3. nFail'[r] = nFail[r] + (IF Occurs(r, pmain[I].tranQ) THEN 1 ELSE 0)
                                 + (IF Occurs(r, pmain[I].recvQ) THEN 1 ELSE 0)
        BY <2>1 DEF Fail
      <4>4. r < N + 1 /\ r \in Nat
        BY NAssumption DEF Requests
      <4> QED
        BY <3>2, <4>1, <4>2, <4>3, <4>4, PositionsFacts
    <3> QED
      BY <1>2, <1>4, <2>1, <3>3
  <2>2. CASE e = A
    <3>1. \A r \in Requests : nFail'[r] = nFail[r]
      BY <2>2, EndsFacts DEF Fail
    <3> QED
      BY <1>4, <2>2, <3>1, EndsFacts DEF HistoryInv, PipelineAt
  <2> QED
    BY <2>1, <2>2, EndsFacts
<1>10. HistoryInv(a, b)'
  BY <1>3, <1>5, <1>9 DEF HistoryInv, PipelineAt
<1> QED
  BY <1>6, <1>7, <1>8, <1>10 DEF Pipeline, PipelineAt

LEMMA PipelineFlushInitiator ==
  ASSUME TypeInv, NEW a \in Positions, NEW b \in Positions, NEW c \in Positions,
         NEW d \in Positions, PipelineAt(a, b, c, d), Flush(I)
  PROVE  Pipeline'
<1> DEFINE q == [pmain[I] EXCEPT !.output = <<>>]
<1>1. pmain[I] \in Pmain /\ pmain[I].life = "ready" /\ ~flushed[I] /\ pmain[I].output # <<>>
  BY EndsFacts DEF Flush, Ready, TypeInv, TypeOK
<1>2. /\ q.output = <<>> /\ q.tranQ = pmain[I].tranQ /\ q.recvQ = pmain[I].recvQ
      /\ q.tranEnabled = pmain[I].tranEnabled /\ q.txnStarted = pmain[I].txnStarted
      /\ q.txnId = pmain[I].txnId /\ q.life = "ready"
  BY <1>1 DEF Pmain
<1>3. InitiatorInv(a, d) /\ Late(I) = 0 /\ d - 0 = d
  BY <1>1, PositionsFacts DEF PipelineAt, Late
<1>4. /\ d < N + 1 /\ (a > 0 \/ d = 0) /\ pmain[I].output = <<ReqMsgs(Gen)[d]>>
  BY <1>1, <1>3 DEF InitiatorInv, InitiatorOutput
<1>5. d \in Messages /\ d + 1 \in Positions /\ d + 1 > 0 /\ (d + 1) - 1 = d
  BY <1>4, PositionsFacts
<1>6. /\ pmain'[I] = q /\ pmain'[A] = pmain[A] /\ flushed'[I] /\ flushed'[A] = flushed[A]
      /\ wire'[I] = wire[I] \o pmain[I].output /\ wire'[A] = wire[A]
      /\ UNCHANGED <<nOk, nFail, okBy, answered, applied, dangling>>
  BY EndsFacts DEF Flush, TypeInv, TypeOK
<1> HIDE DEF q
<1>7. Gen' = Gen /\ Late(I)' = 1 /\ Late(A)' = Late(A)
  BY <1>6 DEF Gen, Late
<1>8. NetworkInv(a, b, c, d)
  BY DEF PipelineAt
<1>9. wire'[I] = Span(ReqMsgs(Gen), c, d + 1)
  BY <1>4, <1>5, <1>6, <1>8, SpanAppend DEF NetworkInv
<1>10. NetworkInv(a, b, c, d + 1)'
  <2>1. c <= d + 1 /\ (a = 0 => d + 1 <= 1)
    BY <1>4, <1>8, PositionsFacts DEF NetworkInv
  <2> QED
    BY <1>5, <1>6, <1>7, <1>8, <1>9, <2>1 DEF NetworkInv
<1>11. InitiatorInv(a, d + 1)'
  BY <1>2, <1>3, <1>5, <1>6, <1>7 DEF InitiatorInv, InitiatorShape, InitiatorOutput
<1>12. pmain[A].life \in {"none", "pending", "ready"} => AcceptorInv(b, c)'
  BY <1>6, <1>7 DEF AcceptorInv, PipelineAt
<1>13. HistoryInv(a, b)'
  BY <1>1, <1>2, <1>6, <1>7 DEF HistoryInv, PipelineAt
<1> QED
  BY <1>5, <1>6, <1>10, <1>11, <1>12, <1>13 DEF Pipeline, PipelineAt

LEMMA PipelineFlushAcceptor ==
  ASSUME TypeInv, NEW a \in Positions, NEW b \in Positions, NEW c \in Positions,
         NEW d \in Positions, PipelineAt(a, b, c, d), Flush(A)
  PROVE  Pipeline'
<1> DEFINE q == [pmain[A] EXCEPT !.output = <<>>]
<1>1. pmain[A] \in Pmain /\ pmain[A].life = "ready" /\ ~flushed[A] /\ pmain[A].output # <<>>
  BY EndsFacts DEF Flush, Ready, TypeInv, TypeOK
<1>2. /\ q.output = <<>> /\ q.tranQ = pmain[A].tranQ /\ q.recvQ = pmain[A].recvQ
      /\ q.txnStarted = pmain[A].txnStarted /\ q.genId = pmain[A].genId
      /\ q.txnId = pmain[A].txnId /\ q.life = "ready"
  BY <1>1 DEF Pmain
<1>3. AcceptorInv(b, c) /\ Late(A) = 0 /\ b - 0 = b
  BY <1>1, PositionsFacts DEF PipelineAt, Late
<1>4. b < c /\ pmain[A].output = <<ResMsgs(Gen)[b]>>
  BY <1>1, <1>3 DEF AcceptorInv, AcceptorOutput, Gen
<1>5. b \in Messages /\ b + 1 \in Positions /\ b + 1 > 0 /\ (b + 1) - 1 = b /\ b + 1 <= c
  BY <1>4, NAssumption DEF Positions, Messages
<1>6. /\ pmain'[A] = q /\ pmain'[I] = pmain[I] /\ flushed'[A] /\ flushed'[I] = flushed[I]
      /\ wire'[A] = wire[A] \o pmain[A].output /\ wire'[I] = wire[I]
      /\ UNCHANGED <<nOk, nFail, okBy, applied, dangling>>
  BY EndsFacts DEF Flush, TypeInv, TypeOK
<1> HIDE DEF q
<1>7. Gen' = Gen /\ Late(A)' = 1 /\ Late(I)' = Late(I)
  BY <1>2, <1>6 DEF Gen, Late
<1>8. NetworkInv(a, b, c, d)
  BY DEF PipelineAt
<1>9. wire'[A] = Span(ResMsgs(Gen), a, b + 1)
  BY <1>4, <1>5, <1>6, <1>8, SpanAppend DEF NetworkInv
<1>10. Head(pmain'[A].tranQ) = b
  <2>1. pmain[A].tranQ = Span(Numbers, b, c)
    BY <1>3 DEF AcceptorInv, AcceptorShape
  <2> QED
    BY <1>2, <1>4, <1>6, <2>1, NumbersSpan
<1>11. NetworkInv(a, b + 1, c, d)'
  <2>1. a <= b + 1
    BY <1>8, PositionsFacts DEF NetworkInv
  <2> QED
    BY <1>5, <1>6, <1>7, <1>8, <1>9, <1>10, <2>1 DEF NetworkInv
<1>12. AcceptorInv(b + 1, c)'
  BY <1>2, <1>3, <1>5, <1>6, <1>7 DEF AcceptorInv, AcceptorShape, AcceptorOutput
<1>13. pmain[I].life \in {"connecting", "ready"} => InitiatorInv(a, d)'
  BY <1>6, <1>7 DEF InitiatorInv, PipelineAt
<1>14. HistoryInv(a, b + 1)'
  <2>1. HistoryInv(a, b)
    BY DEF PipelineAt
  <2>2. Head(pmain[A].output).req = b
    <3>1. ResMsgs(Gen)[b] = [req |-> b, id |-> Gen]
      BY <1>5, MsgsFacts
    <3>2. Head(pmain[A].output) = [req |-> b, id |-> Gen]
      BY <1>4, <3>1
    <3> QED
      BY <3>2
  <2>3. answered' = answered \cup ({b} \cap Requests)
    BY <2>2, EndsFacts DEF Flush
  <2>4. \A r \in Requests : r < b + 1 <=> r < b \/ r = b
    BY PositionsFacts
  <2>5. answered' = {r \in Requests : r < b + 1}
    BY <2>1, <2>3, <2>4 DEF HistoryInv
  <2> QED
    BY <1>3, <1>5, <1>6, <1>7, <2>1, <2>5 DEF HistoryInv
<1> QED
  BY <1>5, <1>6, <1>11, <1>12, <1>13, <1>14 DEF Pipeline, PipelineAt

LEMMA PipelineRequestSent ==
  ASSUME TypeInv, NEW a \in Positions, NEW b \in Positions, NEW c \in Positions,
         NEW d \in Positions, PipelineAt(a, b, c, d), RequestSent
  PROVE  Pipeline'
<1> DEFINE s == Sent(I, pmain[I])
           t == DoneCheck(I, s)
           q == WriteNext(I, t, NoTxn)
<1>1. /\ pmain[I] \in Pmain /\ pmain[I].life = "ready" /\ flushed[I]
      /\ pmain[I].tranQ # <<>> /\ pmain[I].output = <<>>
  BY EndsFacts DEF RequestSent, TypeInv, TypeOK, Busy
<1>2. InitiatorInv(a, d) /\ Late(I) = 1 /\ NetworkInv(a, b, c, d) /\ HistoryInv(a, b)
  BY <1>1 DEF PipelineAt, Late
<1>3. /\ d - 1 \in Positions /\ d - 1 < N + 1 /\ a <= d - 1 /\ (d - 1) + 1 = d /\ d - 0 = d
      /\ a <= d /\ d <= N + 1
  BY <1>1, <1>2, NAssumption DEF InitiatorInv, NetworkInv, Positions
<1>4. /\ pmain[I].recvQ = Span(Numbers, a, d - 1)
      /\ InitiatorShape(pmain[I], a, d - 1, Gen)
  BY <1>2 DEF InitiatorInv
<1>5. /\ s \in Pmain /\ InitiatorShape(s, a, d, Gen) /\ s.recvQ = Span(Numbers, a, d)
      /\ s.output = <<>> /\ s.life = "ready"
  <2>1. s \in Pmain
    BY <1>1, SentType
  <2>2. /\ InitiatorShape(s, a, (d - 1) + 1, Gen) /\ s.recvQ = Span(Numbers, a, (d - 1) + 1)
        /\ s.output = <<>> /\ s.life = "ready"
    BY <1>1, <1>3, <1>4, SentInitiator
  <2> QED
    BY <1>3, <2>1, <2>2
<1>6. /\ t \in Pmain /\ InitiatorShape(t, a, d, Gen) /\ t.recvQ = s.recvQ /\ t.output = <<>>
      /\ \/ t.life = "ready"
         \/ t.life = "freed" /\ a = d /\ d = N + 1
  <2> HIDE DEF s
  <2>1. CASE s.tranQ = <<>> /\ s.recvQ = <<>>
    <3>1. d = N + 1 /\ a = d
      <4>1. Span(Numbers, a, d) = <<>> /\ Span(Numbers, d, N + 1) = <<>>
        BY <1>5, <2>1 DEF InitiatorShape
      <4>2. a = d
        BY <1>3, <4>1, SpanEmpty
      <4>3. d = N + 1
        BY <1>3, <4>1, SpanEmpty, PositionsFacts
      <4> QED
        BY <4>2, <4>3
    <3>2. t = [s EXCEPT !.life = "freed"]
      BY <2>1 DEF DoneCheck
    <3>3. t \in Pmain
      BY <1>5, DoneCheckType
    <3>4. /\ t.tranQ = s.tranQ /\ t.recvQ = s.recvQ /\ t.tranEnabled = s.tranEnabled
          /\ t.txnStarted = s.txnStarted /\ t.txnId = s.txnId /\ t.output = s.output
          /\ t.life = "freed"
      BY <1>5, <3>2 DEF Pmain
    <3> QED
      BY <1>5, <3>1, <3>3, <3>4 DEF InitiatorShape
  <2>2. CASE ~(s.tranQ = <<>> /\ s.recvQ = <<>>)
    BY <1>5, <2>2 DEF DoneCheck
  <2> QED
    BY <2>1, <2>2
<1>7. /\ InitiatorShape(q, a, d, Gen) /\ InitiatorOutput(q, a, d, Gen)
      /\ q.recvQ = t.recvQ /\ q.life = t.life
  <2> HIDE DEF t
  <2>1. InitiatorOutput(t, a, d, Gen)
    BY <1>6 DEF InitiatorOutput
  <2> QED
    BY <1>6, <2>1, WriteNextInitiator
<1>8. /\ pmain'[I] = q /\ pmain'[A] = pmain[A] /\ ~flushed'[I] /\ flushed'[A] = flushed[A]
      /\ wire' = wire /\ UNCHANGED <<nOk, nFail, okBy, answered, applied, dangling>>
  BY EndsFacts DEF RequestSent, TypeInv, TypeOK, history
<1> HIDE DEF s, t, q
<1>9. Gen' = Gen /\ Late(I)' = 0 /\ Late(A)' = Late(A)
  BY <1>8 DEF Gen, Late
<1>10. NetworkInv(a, b, c, d)'
  BY <1>2, <1>8, <1>9 DEF NetworkInv
<1>11. InitiatorInv(a, d)'
  BY <1>3, <1>5, <1>6, <1>7, <1>8, <1>9 DEF InitiatorInv
<1>12. pmain[A].life \in {"none", "pending", "ready"} => AcceptorInv(b, c)'
  BY <1>8, <1>9 DEF AcceptorInv, PipelineAt
<1>13. HistoryInv(a, b)'
  <2>1. \A r \in Requests : pmain'[I].life = "freed" => ~(r >= a)
    BY <1>6, <1>7, <1>8, NAssumption DEF Requests
  <2> QED
    BY <1>1, <1>2, <1>8, <1>9, <2>1 DEF HistoryInv
<1> QED
  BY <1>8, <1>10, <1>11, <1>12, <1>13 DEF Pipeline, PipelineAt

LEMMA PipelineResponseSent ==
  ASSUME TypeInv, NEW a \in Positions, NEW b \in Positions, NEW c \in Positions,
         NEW d \in Positions, PipelineAt(a, b, c, d), ResponseSent
  PROVE  Pipeline'
<1>1. /\ pmain[A] \in Pmain /\ pmain[A].life = "ready" /\ flushed[A]
      /\ pmain[A].tranQ # <<>> /\ pmain[A].output = <<>>
  BY EndsFacts DEF ResponseSent, TypeInv, TypeOK, Busy
<1>2. PICK id \in TxnIds :
        pmain' = [pmain EXCEPT ![A] = WriteNext(A, DoneCheck(A, Sent(A, @)), id)]
  BY DEF ResponseSent
<1> DEFINE s == Sent(A, pmain[A])
           q == WriteNext(A, s, id)
<1>3. AcceptorInv(b, c) /\ Late(A) = 1 /\ NetworkInv(a, b, c, d) /\ HistoryInv(a, b)
  BY <1>1 DEF PipelineAt, Late
<1>4. b - 1 \in Positions /\ b - 1 < c /\ (b - 1) + 1 = b /\ b - 0 = b /\ b > 0 /\ b <= c
  BY <1>1, <1>3, NAssumption DEF NetworkInv, Positions
<1>5. AcceptorShape(pmain[A], b - 1, c) /\ pmain[A].recvQ \in {<<>>, <<c>>}
  BY <1>3 DEF AcceptorInv
<1>6. /\ s \in Pmain /\ AcceptorShape(s, b, c) /\ s.recvQ = pmain[A].recvQ
      /\ s.genId = Gen /\ s.output = <<>> /\ s.life = "ready"
  <2>1. s \in Pmain
    BY <1>1, SentType
  <2>2. /\ AcceptorShape(s, (b - 1) + 1, c) /\ s.recvQ = pmain[A].recvQ
        /\ s.genId = pmain[A].genId /\ s.output = <<>> /\ s.life = "ready"
    BY <1>1, <1>4, <1>5, SentAcceptor
  <2> QED
    BY <1>4, <2>1, <2>2 DEF Gen
<1>7. /\ AcceptorShape(q, b, c) /\ AcceptorOutput(q, b, c) /\ q.recvQ = s.recvQ
      /\ q.life = "ready" /\ q.genId = Gen
  <2> HIDE DEF s
  <2>1. AcceptorOutput(s, b, c)
    BY <1>6 DEF AcceptorOutput
  <2> QED
    BY <1>4, <1>6, <2>1, WriteNextAcceptor
<1>8. /\ pmain'[A] = q /\ pmain'[I] = pmain[I] /\ ~flushed'[A] /\ flushed'[I] = flushed[I]
      /\ wire' = wire /\ UNCHANGED <<nOk, nFail, okBy, answered, dangling>>
  <2>1. DoneCheck(A, s) = s
    BY EndsFacts DEF DoneCheck
  <2>2. pmain' = [pmain EXCEPT ![A] = q]
    BY <1>2, <2>1
  <2> HIDE DEF q
  <2> QED
    BY <2>2, EndsFacts DEF ResponseSent, TypeInv, TypeOK
<1> HIDE DEF s, q
<1>9. Gen' = Gen /\ Late(A)' = 0 /\ Late(I)' = Late(I)
  BY <1>7, <1>8 DEF Gen, Late
<1>10. NetworkInv(a, b, c, d)'
  BY <1>3, <1>8, <1>9 DEF NetworkInv
<1>11. AcceptorInv(b, c)'
  BY <1>4, <1>5, <1>6, <1>7, <1>8, <1>9 DEF AcceptorInv
<1>12. pmain[I].life \in {"connecting", "ready"} => InitiatorInv(a, d)'
  BY <1>8, <1>9 DEF InitiatorInv, PipelineAt
<1>13. HistoryInv(a, b)'
  <2>1. Head(pmain[A].tranQ) = b - 1
    BY <1>1, <1>3 DEF NetworkInv
  <2>2. applied \subseteq applied' /\ (b - 1 \in Requests => b - 1 \in applied' \cup dangling)
    BY <2>1 DEF ResponseSent
  <2>3. \A r \in Requests : r < b => r < b - 1 \/ r = b - 1
    BY PositionsFacts
  <2>4. \A r \in Requests : r < b => r \in applied' \cup dangling
    BY <1>3, <2>2, <2>3 DEF HistoryInv
  <2> QED
    BY <1>3, <1>4, <1>8, <1>9, <2>4 DEF HistoryInv
<1> QED
  BY <1>8, <1>10, <1>11, <1>12, <1>13 DEF Pipeline, PipelineAt

LEMMA ResCodeNotAutogen == \A r \in Messages : ResCode(r) \notin Autogen(I)
<1> SUFFICES ASSUME NEW r \in Messages PROVE ResCode(r) \notin Autogen(I)
  OBVIOUS
<1>1. Autogen(I) = {"TRANSACTION_REQUEST", "FRIEND_REQUEST", "MESSAGE_CONTAINER", "CLIENT_FETCH"}
  BY EndsFacts DEF Autogen, ClientCodes
<1>2. ResCode(r) \in {"TRANSACTION_RESPONSE", "ACK_SIGNATURE", "ACK_ONION",
                      "MAILBOX_GRANTED", "MESSAGE_LIST"}
  BY DEF ResCode
<1> QED
  BY <1>1, <1>2

\* The first byte that can reach the acceptor belongs to request c.
LEMMA IncomingRequest ==
  ASSUME TypeInv, NEW a \in Positions, NEW b \in Positions, NEW c \in Positions,
         NEW d \in Positions, PipelineAt(a, b, c, d), Incoming(A) # <<>>
  PROVE  Head(Incoming(A)).req = c
<1>1. /\ wire[I] \in Seq(Msg) /\ pmain[I].output \in Seq(Msg) /\ pmain[I] \in Pmain
      /\ wire[I] = Span(ReqMsgs(Gen), c, d) /\ c <= d
  BY EndsFacts, PmainFields DEF TypeInv, TypeOK, PipelineAt, NetworkInv
<1>2. Incoming(A) = IF pmain[I].life = "ready" THEN wire[I] \o pmain[I].output ELSE wire[I]
  BY EndsFacts DEF Incoming, Peer
<1>3. CASE wire[I] # <<>>
  <2>1. c < d
    BY <1>1, <1>3, SpanEmpty, PositionsFacts
  <2>2. c \in Messages
    BY <2>1, NAssumption DEF Positions, Messages
  <2>3. Head(wire[I]) = ReqMsgs(Gen)[c]
    BY <1>1, <2>1, SpanHeadTail
  <2>4. Head(wire[I]).req = c
    <3>1. ReqMsgs(Gen)[c] = [req |-> c, id |-> IF c = 0 THEN NoTxn ELSE Gen]
      BY <2>2, MsgsFacts
    <3> QED
      BY <2>3, <3>1
  <2>5. Head(wire[I] \o pmain[I].output) = Head(wire[I])
    BY <1>1, <1>3
  <2> QED
    BY <1>2, <2>4, <2>5
<1>4. CASE wire[I] = <<>>
  <2>1. c = d
    <3>1. Span(ReqMsgs(Gen), c, d) = <<>> /\ c <= d
      BY <1>1, <1>4
    <3> QED
      BY <3>1, SpanEmpty
  <2>2. Incoming(A) = pmain[I].output /\ pmain[I].life = "ready"
    BY <1>1, <1>2, <1>4
  <2>3. d < N + 1 /\ pmain[I].output = <<ReqMsgs(Gen)[d]>>
    BY <2>2 DEF PipelineAt, InitiatorInv, InitiatorOutput
  <2>4. ReqMsgs(Gen)[d] = [req |-> d, id |-> IF d = 0 THEN NoTxn ELSE Gen]
    BY <2>3, MsgsFacts, PositionsFacts
  <2>5. Head(pmain[I].output).req = d
    BY <2>3, <2>4
  <2> QED
    BY <2>1, <2>2, <2>5
<1> QED
  BY <1>3, <1>4

LEMMA PipelineReadHead ==
  ASSUME TypeInv, NEW a \in Positions, NEW b \in Positions, NEW c \in Positions,
         NEW d \in Positions, PipelineAt(a, b, c, d), NEW e \in Ends, ReadHead(e)
  PROVE  Pipeline'
<1> DEFINE m == Head(Incoming(e))
           p == WithHandler(pmain[e], m)
<1>1. pmain[e] \in Pmain /\ pmain[e].life = "ready" /\ m \in Msg
  BY IncomingType DEF ReadHead, Ready, TypeInv, TypeOK
<1>2. PICK checked \in BOOLEAN : pmain' = [pmain EXCEPT ![e] = [p EXCEPT !.checkDone = checked]]
  <2>1. \A x \in {TRUE} : x \in BOOLEAN
    OBVIOUS
  <2> QED
    BY <2>1 DEF ReadHead
<1>3. p.recvQ = pmain[e].recvQ \/ (e = A /\ p.recvQ = <<c>>)
  <2>1. CASE e = A
    <3>1. m.req = c
      BY <2>1, IncomingRequest DEF ReadHead
    <3> QED
      BY <1>1, <2>1, <3>1 DEF WithHandler, Pmain
  <2>2. CASE e = I
    <3>1. HeaderCheck(I, m) = "OK" /\ m.req \in Messages
      BY <1>1, <2>2 DEF ReadHead, Msg
    <3>2. CodeAt(I, m.req) = ResCode(m.req)
      BY EndsFacts DEF CodeAt
    <3>3. pmain[I].recvQ # <<>>
      BY <3>1, <3>2, ResCodeNotAutogen DEF HeaderCheck
    <3> QED
      BY <2>2, <3>3 DEF WithHandler
  <2> QED
    BY <2>1, <2>2, EndsFacts
<1>4. /\ p \in Pmain
      /\ p.tranQ = pmain[e].tranQ /\ p.tranEnabled = pmain[e].tranEnabled
      /\ p.txnStarted = pmain[e].txnStarted /\ p.txnId = pmain[e].txnId
      /\ p.genId = pmain[e].genId /\ p.output = pmain[e].output /\ p.life = pmain[e].life
  BY <1>1, WithHandlerType DEF WithHandler, Pmain
<1> HIDE DEF p
<1> DEFINE q == [p EXCEPT !.checkDone = checked]
<1>5. /\ q.recvQ = p.recvQ
      /\ q.tranQ = pmain[e].tranQ /\ q.tranEnabled = pmain[e].tranEnabled
      /\ q.txnStarted = pmain[e].txnStarted /\ q.txnId = pmain[e].txnId
      /\ q.genId = pmain[e].genId /\ q.output = pmain[e].output /\ q.life = pmain[e].life
  BY <1>4 DEF Pmain
<1>6. pmain' = [pmain EXCEPT ![e] = q] /\ pmain \in [Ends -> Pmain]
  BY <1>2 DEF TypeInv, TypeOK
<1> HIDE DEF q
<1>7. \A x \in Ends : pmain'[x] = IF x = e THEN q ELSE pmain[x]
  BY <1>6
<1>8. /\ wire' = wire /\ flushed' = flushed
      /\ UNCHANGED <<nOk, nFail, okBy, answered, applied, dangling>>
  BY DEF ReadHead, history
<1>9. Gen' = Gen /\ Late(I)' = Late(I) /\ Late(A)' = Late(A)
  BY <1>5, <1>7, <1>8, EndsFacts DEF Gen, Late
<1>10. NetworkInv(a, b, c, d)'
  <2>1. pmain'[A].tranQ = pmain[A].tranQ
    BY <1>5, <1>7, EndsFacts
  <2> QED
    BY <1>8, <1>9, <2>1 DEF NetworkInv, PipelineAt
<1>11. ASSUME pmain'[I].life \in {"connecting", "ready"} PROVE InitiatorInv(a, d)'
  <2>1. /\ pmain'[I].recvQ = pmain[I].recvQ /\ pmain'[I].tranQ = pmain[I].tranQ
        /\ pmain'[I].tranEnabled = pmain[I].tranEnabled
        /\ pmain'[I].txnStarted = pmain[I].txnStarted /\ pmain'[I].txnId = pmain[I].txnId
        /\ pmain'[I].output = pmain[I].output /\ pmain'[I].life = pmain[I].life
    BY <1>3, <1>5, <1>7, EndsFacts
  <2> QED
    BY <1>8, <1>9, <1>11, <2>1
    DEF InitiatorInv, InitiatorShape, InitiatorOutput, PipelineAt
<1>12. ASSUME pmain'[A].life \in {"none", "pending", "ready"} PROVE AcceptorInv(b, c)'
  <2>1. /\ pmain'[A].recvQ \in {pmain[A].recvQ, <<c>>} /\ pmain'[A].tranQ = pmain[A].tranQ
        /\ pmain'[A].txnStarted = pmain[A].txnStarted /\ pmain'[A].txnId = pmain[A].txnId
        /\ pmain'[A].genId = pmain[A].genId
        /\ pmain'[A].output = pmain[A].output /\ pmain'[A].life = pmain[A].life
    BY <1>3, <1>5, <1>7, EndsFacts
  <2> QED
    BY <1>8, <1>9, <1>12, <2>1 DEF AcceptorInv, AcceptorShape, AcceptorOutput, PipelineAt
<1>13. HistoryInv(a, b)'
  <2>1. pmain'[I].life = pmain[I].life
    BY <1>5, <1>7, EndsFacts
  <2> QED
    BY <1>8, <1>9, <2>1 DEF HistoryInv, PipelineAt
<1> QED
  BY <1>10, <1>11, <1>12, <1>13 DEF Pipeline, PipelineAt

LEMMA PipelineHandleRequest ==
  ASSUME TypeInv, NEW a \in Positions, NEW b \in Positions, NEW c \in Positions,
         NEW d \in Positions, PipelineAt(a, b, c, d), HandleRequest
  PROVE  Pipeline'
<1> DEFINE m == Head(wire[I])
           p == WithHandler(pmain[A], m)
           s == [p EXCEPT !.tranQ = Append(@, c)]
<1>1. /\ pmain[A] \in Pmain /\ pmain[A].life = "ready" /\ ~flushed[A] /\ wire[I] # <<>>
      /\ m \in Msg
  BY HeadOfWire, EndsFacts DEF HandleRequest, Ready, TypeInv, TypeOK
<1>2. AcceptorInv(b, c) /\ Late(A) = 0 /\ NetworkInv(a, b, c, d) /\ HistoryInv(a, b) /\ b - 0 = b
  BY <1>1, PositionsFacts DEF PipelineAt, Late
<1>3. c < d /\ c \in Messages /\ c + 1 \in Positions /\ b <= c /\ b <= c + 1 /\ c + 1 <= d
  <2>1. Span(ReqMsgs(Gen), c, d) # <<>> /\ c <= d /\ b <= c
    BY <1>1, <1>2 DEF NetworkInv
  <2>2. c # d
    BY <2>1, SpanEmpty
  <2> QED
    BY <2>1, <2>2, NAssumption DEF Positions, Messages
<1>4. wire[I] = Span(ReqMsgs(Gen), c, d) /\ m.req = c /\ Tail(wire[I]) = Span(ReqMsgs(Gen), c + 1, d)
  <2>1. wire[I] = Span(ReqMsgs(Gen), c, d)
    BY <1>2 DEF NetworkInv
  <2>2. m = ReqMsgs(Gen)[c] /\ Tail(wire[I]) = Span(ReqMsgs(Gen), c + 1, d)
    BY <1>3, <2>1, SpanHeadTail
  <2>3. ReqMsgs(Gen)[c] = [req |-> c, id |-> IF c = 0 THEN NoTxn ELSE Gen]
    BY <1>3, MsgsFacts
  <2> QED
    BY <2>1, <2>2, <2>3
<1>5. p.recvQ = <<c>> /\ Head(p.recvQ) = c /\ Tail(p.recvQ) = <<>>
  <2>1. p.recvQ = <<c>>
    BY <1>1, <1>2, <1>4 DEF WithHandler, Pmain, AcceptorInv
  <2>2. Head(<<c>>) = c /\ Tail(<<c>>) = <<>>
    OBVIOUS
  <2> HIDE DEF p
  <2> QED
    BY <2>1, <2>2
<1>6. /\ p \in Pmain /\ p.tranQ = pmain[A].tranQ /\ p.genId = Gen
      /\ p.txnStarted = pmain[A].txnStarted /\ p.txnId = pmain[A].txnId
      /\ p.output = pmain[A].output /\ p.life = "ready"
  BY <1>1, WithHandlerType DEF WithHandler, Pmain, Gen
<1>7. PICK id \in TxnIds :
        pmain' = [pmain EXCEPT ![A] =
                    DoneCheck(A, [PushTran(A, p, c, id) EXCEPT !.recvQ = Tail(@),
                                                               !.checkDone = FALSE])]
  BY <1>5 DEF HandleRequest
<1> DEFINE w == WriteNext(A, s, id)
           q == [w EXCEPT !.recvQ = Tail(@), !.checkDone = FALSE]
<1>8. pmain' = [pmain EXCEPT ![A] = q]
  BY <1>7, EndsFacts DEF DoneCheck, PushTran
<1>9. /\ dangling \subseteq dangling' /\ wire' = [wire EXCEPT ![I] = Tail(@)]
      /\ UNCHANGED <<flushed, nOk, nFail, okBy, answered, applied>>
  BY DEF HandleRequest, history
<1> HIDE DEF m, p
<1>10. /\ s \in Pmain /\ s.tranQ = Append(p.tranQ, c) /\ s.genId = Gen
       /\ s.txnStarted = p.txnStarted /\ s.txnId = p.txnId
       /\ s.output = p.output /\ s.life = "ready" /\ s.recvQ = <<c>>
  <2>1. Append(p.tranQ, c) \in Seq(Messages)
    BY <1>3, <1>6, PmainFields, AppendProperties
  <2> QED
    BY <1>5, <1>6, <2>1 DEF Pmain
<1> HIDE DEF s
<1>11. AcceptorShape(s, b, c + 1) /\ AcceptorOutput(s, b, c + 1)
  <2>1. /\ AcceptorShape(pmain[A], b, c) /\ AcceptorOutput(pmain[A], b, c)
        /\ pmain[A].genId = Gen
    BY <1>2 DEF AcceptorInv, Gen
  <2>2. Append(Span(Numbers, b, c), c) = Span(Numbers, b, c + 1)
    BY <1>3, NumbersAppend
  <2>3. s.tranQ = Span(Numbers, b, c + 1)
    BY <1>6, <1>10, <2>1, <2>2 DEF AcceptorShape
  <2>4. b < c + 1
    BY <1>3, PositionsFacts
  <2> QED
    BY <1>6, <1>10, <2>1, <2>3, <2>4 DEF AcceptorShape, AcceptorOutput
<1>12. /\ AcceptorShape(w, b, c + 1) /\ AcceptorOutput(w, b, c + 1)
       /\ w.recvQ = <<c>> /\ w.life = "ready"
       /\ b > 0 => w.genId = Gen
  BY <1>3, <1>10, <1>11, WriteNextAcceptor
<1>13. w \in Pmain /\ w.tranQ = s.tranQ
  <2>1. s.tranQ # <<>>
    BY <1>3, <1>11, NumbersSpan, PositionsFacts DEF AcceptorShape
  <2> QED
    BY <1>10, <2>1, WriteNextType
<1> HIDE DEF w
<1>14. /\ q.recvQ = <<>> /\ q.tranQ = w.tranQ /\ q.txnStarted = w.txnStarted
       /\ q.txnId = w.txnId /\ q.genId = w.genId /\ q.output = w.output /\ q.life = "ready"
  <2>1. Tail(w.recvQ) = <<>> /\ <<>> \in Seq(Messages)
    BY <1>12
  <2> QED
    BY <1>12, <1>13, <2>1 DEF Pmain
<1> HIDE DEF q
<1>15. pmain'[A] = q /\ pmain'[I] = pmain[I]
  BY <1>8, EndsFacts DEF TypeInv, TypeOK
<1>16. Gen' = q.genId /\ Late(I)' = Late(I) /\ Late(A)' = 0
  BY <1>1, <1>9, <1>15 DEF Gen, Late
<1>17. b > 0 => Gen' = Gen
  BY <1>12, <1>14, <1>16
<1>18. b = 0 => a = 0 /\ d = 1 /\ c = 0
  BY <1>2, <1>3, PositionsFacts DEF NetworkInv
<1>19. NetworkInv(a, b, c + 1, d)'
  <2>1. wire'[I] = Span(ReqMsgs(Gen), c + 1, d) /\ wire'[A] = Span(ResMsgs(Gen), a, b)
    BY <1>2, <1>4, <1>9, EndsFacts DEF NetworkInv, TypeInv, TypeOK
  <2>2. wire'[I] = Span(ReqMsgs(Gen'), c + 1, d) /\ wire'[A] = Span(ResMsgs(Gen'), a, b)
    <3>1. CASE b > 0
      BY <1>17, <2>1, <3>1
    <3>2. CASE b = 0
      <4>1. \A g : Span(ReqMsgs(g), c + 1, d) = <<>> /\ Span(ResMsgs(g), a, b) = <<>>
        BY <1>3, <1>18, <3>2, SpanEmpty
      <4> QED
        BY <2>1, <4>1
    <3> QED
      BY <3>1, <3>2, PositionsFacts
  <2>3. ~flushed'[A] /\ flushed'[I] = flushed[I]
    BY <1>1, <1>9
  <2> QED
    BY <1>2, <1>3, <2>2, <2>3 DEF NetworkInv
<1>20. AcceptorInv(b, c + 1)'
  BY <1>2, <1>12, <1>14, <1>15, <1>16 DEF AcceptorInv, AcceptorShape, AcceptorOutput
<1>21. ASSUME pmain[I].life \in {"connecting", "ready"} PROVE InitiatorInv(a, d)'
  <2>1. InitiatorInv(a, d)
    BY <1>21 DEF PipelineAt
  <2>2. CASE b > 0
    BY <1>15, <1>16, <1>17, <2>1, <2>2 DEF InitiatorInv
  <2>3. CASE b = 0
    <3>1. pmain[I].output = <<>> /\ ~(a > 0)
      BY <1>18, <2>1, <2>3 DEF InitiatorInv, InitiatorOutput
    <3> QED
      BY <1>15, <1>16, <2>1, <3>1 DEF InitiatorInv, InitiatorShape, InitiatorOutput
  <2> QED
    BY <2>2, <2>3, PositionsFacts
<1>22. HistoryInv(a, b)'
  BY <1>2, <1>9, <1>15, <1>16 DEF HistoryInv
<1> QED
  BY <1>3, <1>15, <1>19, <1>20, <1>21, <1>22 DEF Pipeline, PipelineAt

LEMMA PipelineHandleResponse ==
  ASSUME TypeInv, NEW a \in Positions, NEW b \in Positions, NEW c \in Positions,
         NEW d \in Positions, PipelineAt(a, b, c, d), HandleResponse
  PROVE  Pipeline'
<1> DEFINE m == Head(wire[A])
           p == pmain[I]
           s == [p EXCEPT !.txnStarted = TRUE, !.txnId = m.id, !.tranEnabled = TRUE]
           h == IF a = 0 THEN WriteNext(I, s, NoTxn) ELSE p
           t == [h EXCEPT !.recvQ = Tail(@), !.checkDone = FALSE]
           q == DoneCheck(I, t)
<1>1. /\ p \in Pmain /\ p.life = "ready" /\ ~flushed[I] /\ wire[A] # <<>> /\ m \in Msg
      /\ p.output # <<>> => p.tranQ # <<>>
  BY HeadOfWire, EndsFacts DEF HandleResponse, Ready, TypeInv, TypeOK, Busy
<1>2. InitiatorInv(a, d) /\ Late(I) = 0 /\ NetworkInv(a, b, c, d) /\ HistoryInv(a, b) /\ d - 0 = d
  BY <1>1, PositionsFacts DEF PipelineAt, Late
<1>3. /\ a < b /\ a < d /\ a \in Messages /\ a + 1 \in Positions /\ a + 1 <= b /\ a + 1 <= d
      /\ a + 1 > 0
  <2>1. Span(ResMsgs(Gen), a, b) # <<>> /\ a <= b /\ b <= c /\ c <= d
    BY <1>1, <1>2 DEF NetworkInv
  <2>2. a # b
    BY <2>1, SpanEmpty
  <2> QED
    BY <2>1, <2>2, NAssumption DEF Positions, Messages
<1>4. /\ m.req = a /\ m.id = Gen /\ Tail(wire[A]) = Span(ResMsgs(Gen), a + 1, b)
  <2>1. wire[A] = Span(ResMsgs(Gen), a, b)
    BY <1>2 DEF NetworkInv
  <2>2. m = ResMsgs(Gen)[a] /\ Tail(wire[A]) = Span(ResMsgs(Gen), a + 1, b)
    BY <1>3, <2>1, SpanHeadTail
  <2>3. ResMsgs(Gen)[a] = [req |-> a, id |-> Gen]
    BY <1>3, MsgsFacts
  <2> QED
    BY <2>2, <2>3
<1>5. /\ p.recvQ = Span(Numbers, a, d) /\ Head(p.recvQ) = a
      /\ Tail(p.recvQ) = Span(Numbers, a + 1, d)
  BY <1>2, <1>3, NumbersSpan DEF InitiatorInv
<1>6. /\ pmain' = [pmain EXCEPT ![I] = q] /\ wire' = [wire EXCEPT ![A] = Tail(@)]
      /\ \A r \in Requests : /\ nOk'[r] = IF r = a THEN nOk[r] + 1 ELSE nOk[r]
                             /\ okBy'[r] = IF r = a THEN a ELSE okBy[r]
      /\ UNCHANGED <<flushed, dangling, nFail, answered, applied>>
  BY <1>4, <1>5 DEF HandleResponse
<1>7. InitiatorShape(p, a, d, Gen) /\ InitiatorOutput(p, a, d, Gen)
  BY <1>2 DEF InitiatorInv
<1>8. /\ s \in Pmain /\ s.tranQ = p.tranQ /\ s.recvQ = p.recvQ /\ s.output = p.output
      /\ s.tranEnabled = TRUE /\ s.txnStarted = TRUE /\ s.txnId = Gen /\ s.life = "ready"
  BY <1>1, <1>4 DEF Pmain, Msg
<1>9. /\ h \in Pmain /\ InitiatorShape(h, a + 1, d, Gen) /\ InitiatorOutput(h, a + 1, d, Gen)
      /\ h.recvQ = p.recvQ /\ h.life = "ready"
  <2>1. CASE a = 0
    <3> HIDE DEF s
    <3>1. InitiatorShape(s, a + 1, d, Gen) /\ InitiatorOutput(s, a + 1, d, Gen)
      <4>1. (a + 1 > 0) = TRUE /\ (a + 1 > 0 \/ d = 0) = TRUE
        BY <1>3
      <4> QED
        BY <1>7, <1>8, <4>1 DEF InitiatorShape, InitiatorOutput
    <3>2. /\ InitiatorShape(WriteNext(I, s, NoTxn), a + 1, d, Gen)
          /\ InitiatorOutput(WriteNext(I, s, NoTxn), a + 1, d, Gen)
          /\ WriteNext(I, s, NoTxn).recvQ = s.recvQ
          /\ WriteNext(I, s, NoTxn).life = s.life
      BY <1>3, <1>8, <3>1, WriteNextInitiator
    <3>3. WriteNext(I, s, NoTxn) \in Pmain
      BY <1>1, <1>8, WriteNextType
    <3> QED
      BY <1>8, <2>1, <3>2, <3>3
  <2>2. CASE a > 0
    <3>1. h = p
      BY <2>2
    <3>2. (a + 1 > 0) = (a > 0) /\ (a + 1 > 0 \/ d = 0) = (a > 0 \/ d = 0)
      BY <1>3, <2>2
    <3> HIDE DEF h
    <3> QED
      BY <1>1, <1>7, <2>2, <3>1, <3>2, <1>3 DEF InitiatorShape, InitiatorOutput
  <2> QED
    BY <2>1, <2>2, PositionsFacts
<1> HIDE DEF s, h
<1>10. /\ t \in Pmain /\ InitiatorShape(t, a + 1, d, Gen) /\ InitiatorOutput(t, a + 1, d, Gen)
       /\ t.recvQ = Span(Numbers, a + 1, d) /\ t.life = "ready"
  <2>1. Tail(h.recvQ) = Span(Numbers, a + 1, d) /\ h.recvQ # <<>>
    BY <1>3, <1>5, <1>9, NumbersSpan
  <2>2. Tail(h.recvQ) \in Seq(Messages)
    BY <1>9, <2>1, PmainFields, TailType
  <2>3. /\ t.tranQ = h.tranQ /\ t.recvQ = Tail(h.recvQ) /\ t.tranEnabled = h.tranEnabled
        /\ t.txnStarted = h.txnStarted /\ t.txnId = h.txnId /\ t.output = h.output
        /\ t.life = h.life /\ t \in Pmain
    BY <1>9, <2>2 DEF Pmain
  <2> HIDE DEF t
  <2> QED
    BY <1>9, <2>1, <2>3 DEF InitiatorShape, InitiatorOutput
<1> HIDE DEF t
<1>11. /\ InitiatorShape(q, a + 1, d, Gen) /\ InitiatorOutput(q, a + 1, d, Gen)
       /\ q.recvQ = Span(Numbers, a + 1, d)
       /\ \/ q.life = "ready"
          \/ q.life = "freed" /\ a + 1 = N + 1
  <2>1. CASE t.tranQ = <<>> /\ t.recvQ = <<>>
    <3>1. d = N + 1 /\ a + 1 = d
      <4>1. Span(Numbers, a + 1, d) = <<>> /\ Span(Numbers, d, N + 1) = <<>>
        BY <1>10, <2>1 DEF InitiatorShape
      <4>2. a + 1 = d
        BY <1>3, <4>1, SpanEmpty
      <4>3. d <= N + 1
        BY NAssumption DEF Positions
      <4>4. d = N + 1
        BY <4>1, <4>3, SpanEmpty, PositionsFacts
      <4> QED
        BY <4>2, <4>4
    <3>2. q = [t EXCEPT !.life = "freed"]
      BY <2>1 DEF DoneCheck
    <3> HIDE DEF q
    <3>3. /\ q.tranQ = t.tranQ /\ q.recvQ = t.recvQ /\ q.tranEnabled = t.tranEnabled
          /\ q.txnStarted = t.txnStarted /\ q.txnId = t.txnId /\ q.output = t.output
          /\ q.life = "freed"
      BY <1>10, <3>2 DEF Pmain
    <3> QED
      BY <1>10, <3>1, <3>3 DEF InitiatorShape, InitiatorOutput
  <2>2. CASE ~(t.tranQ = <<>> /\ t.recvQ = <<>>)
    BY <1>10, <2>2 DEF DoneCheck
  <2> QED
    BY <2>1, <2>2
<1> HIDE DEF q
<1>12. pmain'[I] = q /\ pmain'[A] = pmain[A]
  BY <1>6, EndsFacts DEF TypeInv, TypeOK
<1>13. Gen' = Gen /\ Late(I)' = 0 /\ Late(A)' = Late(A)
  BY <1>2, <1>6, <1>12 DEF Gen, Late
<1>14. NetworkInv(a + 1, b, c, d)'
  <2>1. wire'[A] = Span(ResMsgs(Gen), a + 1, b) /\ wire'[I] = Span(ReqMsgs(Gen), c, d)
    BY <1>2, <1>4, <1>6, EndsFacts DEF NetworkInv, TypeInv, TypeOK
  <2>2. a + 1 # 0
    BY <1>3
  <2> QED
    BY <1>2, <1>3, <1>6, <1>12, <1>13, <2>1, <2>2 DEF NetworkInv
<1>15. InitiatorInv(a + 1, d)'
  BY <1>2, <1>3, <1>11, <1>12, <1>13 DEF InitiatorInv
<1>16. pmain[A].life \in {"none", "pending", "ready"} => AcceptorInv(b, c)'
  BY <1>6, <1>12, <1>13 DEF AcceptorInv, PipelineAt
<1>17. HistoryInv(a + 1, b)'
  <2>1. \A r \in Requests : /\ nOk[r] = IF r < a THEN 1 ELSE 0
                            /\ r < a => okBy[r] = r
                            /\ nFail[r] = 0
    BY <1>1, <1>2 DEF HistoryInv
  <2>2. \A r \in Requests : /\ r < a + 1 <=> r < a \/ r = a
                            /\ ~(r = a /\ r < a)
                            /\ ~(r >= N + 1)
    BY PositionsFacts, NAssumption DEF Requests
  <2>3. \A r \in Requests : /\ nOk'[r] = IF r < a + 1 THEN 1 ELSE 0
                            /\ r < a + 1 => okBy'[r] = r
                            /\ nFail'[r] = 0
    BY <1>6, <2>1, <2>2
  <2>4. \A r \in Requests : ~(pmain'[I].life = "freed" /\ r >= a + 1)
    BY <1>11, <1>12, <2>2
  <2> QED
    BY <1>2, <1>6, <1>13, <2>3, <2>4 DEF HistoryInv
<1> QED
  BY <1>3, <1>12, <1>14, <1>15, <1>16, <1>17 DEF Pipeline, PipelineAt

LEMMA PipelineNext == TypeInv /\ Pipeline /\ [Next]_vars => Pipeline'
<1> SUFFICES ASSUME TypeInv, Pipeline, [Next]_vars PROVE Pipeline'
  OBVIOUS
<1>0. PICK a \in Positions, b \in Positions, c \in Positions, d \in Positions :
        PipelineAt(a, b, c, d)
  BY DEF Pipeline
<1>1. CASE SocksOk
  BY <1>0, <1>1, PipelineSocksOk
<1>2. CASE SocksFail
  <2>1. pmain[I].life = "connecting" /\ Fail(I, "SOCKS_CONN_FAIL", "OK")
    BY <1>2 DEF SocksFail
  <2>2. ~flushed[I]
    BY <2>1, EndsFacts DEF TypeInv, Busy
  <2> QED
    BY <1>0, <2>1, <2>2, PipelineFail, EndsFacts
<1>3. CASE AcceptConn
  BY <1>0, <1>3, PipelineLife, EndsFacts DEF AcceptConn
<1>12. ASSUME NEW e \in Ends, Crash(e) PROVE Pipeline'
  BY <1>0, <1>12, PipelineLife DEF Crash
<1>13. CASE AckUsesFreed
  BY <1>0, <1>13, PipelineLife, EndsFacts DEF AckUsesFreed
<1>4. ASSUME NEW e \in Ends, Flush(e) PROVE Pipeline'
  BY <1>0, <1>4, PipelineFlushInitiator, PipelineFlushAcceptor, EndsFacts
<1>5. CASE RequestSent
  BY <1>0, <1>5, PipelineRequestSent
<1>6. CASE ResponseSent
  BY <1>0, <1>6, PipelineResponseSent
<1>7. ASSUME NEW e \in Ends, ReadHead(e) PROVE Pipeline'
  BY <1>0, <1>7, PipelineReadHead
<1>8. CASE HandleRequest
  BY <1>0, <1>8, PipelineHandleRequest
<1>9. CASE HandleResponse
  BY <1>0, <1>9, PipelineHandleResponse
<1>10. ASSUME NEW e \in Ends,
              ReadRefused(e) \/ HandlerRejects(e) \/ PeerClosed(e) \/ Reset(e)
       PROVE  Pipeline'
  <2>1. pmain[e].life = "ready" /\ ~flushed[e]
    BY <1>10 DEF ReadRefused, HandlerRejects, PeerClosed, Reset, Ready
  <2>2. \E code, status : Fail(e, code, status)
    BY <1>10 DEF ReadRefused, HandlerRejects, PeerClosed, Reset
  <2> QED
    BY <1>0, <2>1, <2>2, PipelineFail
<1>11. CASE UNCHANGED vars
  <2>1. PipelineAt(a, b, c, d)'
    BY <1>0, <1>11 DEF vars, history, PipelineAt, NetworkInv, InitiatorInv, AcceptorInv,
       HistoryInv, InitiatorShape, InitiatorOutput, AcceptorShape, AcceptorOutput, Gen, Late
  <2> QED
    BY <2>1 DEF Pipeline
<1> QED
  BY <1>1, <1>2, <1>3, <1>4, <1>5, <1>6, <1>7, <1>8, <1>9, <1>10, <1>11, <1>12, <1>13
  DEF Next, Connect, WriteCallback, Read

\* Every reachable state of a connection is a pipeline: four positions in the batch
\* account for all queues, the network and the outcomes reported so far.
THEOREM PipelineInvariant == Spec => []Pipeline
BY PipelineInit, PipelineNext, TypeInvariant, PTL DEF Spec
-----------------------------------------------------------------------------
(* The safety properties *)

LEMMA PipelineOutcome == Pipeline => OneOutcome
<1> SUFFICES ASSUME Pipeline, NEW r \in Requests
             PROVE  /\ nOk[r] + nFail[r] <= 1
                    /\ pmain[I].life = "freed" => nOk[r] + nFail[r] = 1
  BY DEF OneOutcome
<1>1. PICK a \in Positions, b \in Positions : HistoryInv(a, b)
  BY DEF Pipeline, PipelineAt
<1>2. /\ nOk[r] = IF r < a THEN 1 ELSE 0
      /\ nFail[r] = IF pmain[I].life = "freed" /\ r >= a THEN 1 ELSE 0
  BY <1>1 DEF HistoryInv
<1>3. r < a <=> ~(r >= a)
  BY PositionsFacts
<1> QED
  BY <1>2, <1>3

\* No request is reported twice, and none is forgotten by the time prot_main_free
\* has run: the cleanup callbacks and the responses split the batch between them.
THEOREM OutcomesUnique == Spec => []OneOutcome
BY PipelineOutcome, PipelineInvariant, PTL

\* A confirmed request is committed at the acceptor, except for the one whose
\* write callback has not run yet.
THEOREM ConfirmedIsApplied == Spec => []OkMeansApplied
<1>1. Pipeline => OkMeansApplied
  <2> SUFFICES ASSUME Pipeline, NEW r \in Requests \ dangling, nOk[r] > 0, r \notin applied
               PROVE  flushed[A] /\ Head(pmain[A].tranQ) = r
    BY DEF OkMeansApplied
  <2>1. PICK a \in Positions, b \in Positions, c \in Positions, d \in Positions :
          HistoryInv(a, b) /\ NetworkInv(a, b, c, d)
    BY DEF Pipeline, PipelineAt
  <2>2. r < a
    BY <2>1 DEF HistoryInv
  <2>3. ~(r < b - Late(A)) /\ a <= b
    BY <2>1 DEF HistoryInv, NetworkInv
  <2>4. flushed[A] /\ r = b - 1
    <3>1. CASE flushed[A]
      BY <2>2, <2>3, <3>1, PositionsFacts DEF Late
    <3>2. CASE ~flushed[A]
      BY <2>2, <2>3, <3>2, PositionsFacts DEF Late
    <3> QED
      BY <3>1, <3>2
  <2> QED
    BY <2>1, <2>4 DEF NetworkInv
<1> QED
  BY <1>1, PipelineInvariant, PTL

\* A request is reported OK by the response the acceptor made for it, although the
\* engine compares nothing but codes and the transaction id.
THEOREM ResponsesInOrder == Spec => []ResponsesPaired
<1>1. Pipeline => ResponsesPaired
  <2> SUFFICES ASSUME Pipeline, NEW r \in Requests, nOk[r] > 0 PROVE okBy[r] = r
    BY DEF ResponsesPaired
  <2>1. PICK a \in Positions, b \in Positions : HistoryInv(a, b)
    BY DEF Pipeline, PipelineAt
  <2>2. nOk[r] = (IF r < a THEN 1 ELSE 0) /\ (r < a => okBy[r] = r)
    BY <2>1 DEF HistoryInv
  <2> QED
    BY <2>2
<1> QED
  BY <1>1, PipelineInvariant, PTL

\* The header of the message at the front of the wire passes the checks on the
\* expected code and on the transaction id.
LEMMA HeaderAccepted ==
  ASSUME TypeInv, Pipeline, NEW e \in Ends, Ready(e), wire[Peer(e)] # <<>>
  PROVE  HeaderCheck(e, Head(wire[Peer(e)])) \notin {"TRANSACTION", "UNEXPECTED_MSG"}
<1>0. PICK a \in Positions, b \in Positions, c \in Positions, d \in Positions :
        PipelineAt(a, b, c, d)
  BY DEF Pipeline
<1>1. NetworkInv(a, b, c, d) /\ pmain[e].life = "ready" /\ ~flushed[e] /\ Late(e) = 0
  BY <1>0 DEF PipelineAt, Ready, Late
<1>2. CASE e = A
  <2>1. AcceptorInv(b, c) /\ b - 0 = b /\ wire[I] = Span(ReqMsgs(Gen), c, d) /\ c <= d
    BY <1>0, <1>1, <1>2, PositionsFacts DEF PipelineAt, NetworkInv
  <2>2. wire[I] # <<>> /\ Peer(e) = I
    BY <1>2, EndsFacts DEF Peer
  <2>3. c # d
    BY <2>1, <2>2, SpanEmpty
  <2>4. c < d /\ c \in Messages
    BY <2>1, <2>3, NAssumption DEF Positions, Messages
  <2>5. Head(wire[I]) = ReqMsgs(Gen)[c]
    BY <2>1, <2>4, SpanHeadTail
  <2>6. ReqMsgs(Gen)[c] = [req |-> c, id |-> IF c = 0 THEN NoTxn ELSE Gen]
    BY <2>4, MsgsFacts
  <2>7. Head(wire[I]).req = c /\ (c # 0 => Head(wire[I]).id = Gen)
    BY <2>5, <2>6
  <2>8. pmain[A].recvQ # <<>> => Head(pmain[A].recvQ) = c
    <3>1. pmain[A].recvQ \in {<<>>, <<c>>} /\ Head(<<c>>) = c
      BY <2>1 DEF AcceptorInv
    <3> QED
      BY <3>1
  <2>9. c # 0 => pmain[A].txnStarted /\ pmain[A].txnId = Gen
    <3>1. c # 0 => b > 0
      BY <1>1, <2>4, PositionsFacts DEF NetworkInv
    <3>2. AcceptorShape(pmain[A], b, c)
      BY <1>1, <1>2, <2>1 DEF AcceptorInv
    <3> QED
      BY <3>1, <3>2 DEF AcceptorShape, Gen
  <2> QED
    BY <1>2, <2>2, <2>7, <2>8, <2>9 DEF HeaderCheck
<1>3. CASE e = I
  <2>1. InitiatorInv(a, d) /\ d - 0 = d /\ wire[A] = Span(ResMsgs(Gen), a, b) /\ a <= b /\ b <= d
    BY <1>0, <1>1, <1>3, PositionsFacts DEF PipelineAt, NetworkInv
  <2>2. wire[A] # <<>> /\ Peer(e) = A
    BY <1>3, EndsFacts DEF Peer
  <2>3. a # b
    BY <2>1, <2>2, SpanEmpty
  <2>4. a < b /\ a < d /\ a \in Messages
    BY <2>1, <2>3, NAssumption DEF Positions, Messages
  <2>5. Head(wire[A]) = ResMsgs(Gen)[a]
    BY <2>1, <2>4, SpanHeadTail
  <2>6. ResMsgs(Gen)[a] = [req |-> a, id |-> Gen]
    BY <2>4, MsgsFacts
  <2>7. Head(wire[A]).req = a /\ Head(wire[A]).id = Gen
    BY <2>5, <2>6
  <2>8. pmain[I].recvQ = Span(Numbers, a, d) /\ InitiatorShape(pmain[I], a, d, Gen)
    BY <1>1, <1>3, <2>1 DEF InitiatorInv
  <2>9. Head(pmain[I].recvQ) = a
    BY <2>4, <2>8, NumbersSpan
  <2>10. a # 0 => pmain[I].txnStarted /\ pmain[I].txnId = Gen
    <3>1. a # 0 => (a > 0) = TRUE
      BY PositionsFacts
    <3> QED
      BY <2>8, <3>1 DEF InitiatorShape
  <2> QED
    BY <1>3, <2>2, <2>7, <2>9, <2>10 DEF HeaderCheck
<1> QED
  BY <1>2, <1>3, EndsFacts

LEMMA CloseStep ==
  ASSUME TypeInv, Pipeline, NoProtocolError, [Next]_vars
  PROVE  NoProtocolError'
<1>1. ASSUME NEW e \in Ends, NEW code, NEW status, Fail(e, code, status),
             code \notin {"TRANSACTION", "UNEXPECTED_MSG"}
      PROVE  NoProtocolError'
  <2>1. close' = [close EXCEPT ![e] = [code |-> code, status |-> status]]
    BY <1>1 DEF Fail
  <2>2. \A x \in Ends : close'[x].code \in {code, close[x].code}
    BY <2>1 DEF TypeInv, TypeOK
  <2> QED
    BY <1>1, <2>2 DEF NoProtocolError
<1>2. ASSUME NEW e \in Ends, ReadRefused(e) PROVE NoProtocolError'
  <2>1. /\ Ready(e) /\ wire[Peer(e)] # <<>>
        /\ Fail(e, Check(e, Head(wire[Peer(e)])), "OK")
    BY <1>2 DEF ReadRefused
  <2>2. Check(e, Head(wire[Peer(e)])) \notin {"TRANSACTION", "UNEXPECTED_MSG"}
    BY <2>1, HeaderAccepted DEF Check
  <2> DEFINE check == Check(e, Head(wire[Peer(e)]))
  <2>3. Fail(e, check, "OK") /\ check \notin {"TRANSACTION", "UNEXPECTED_MSG"}
    BY <2>1, <2>2
  <2> HIDE DEF check
  <2> QED
    BY <1>1, <2>3
<1>3. CASE SocksFail
  BY <1>1, <1>3, EndsFacts DEF SocksFail
<1>4. ASSUME NEW e \in Ends, HandlerRejects(e) \/ PeerClosed(e) \/ Reset(e)
      PROVE  NoProtocolError'
  BY <1>1, <1>4 DEF HandlerRejects, PeerClosed, Reset
<1>5. CASE UNCHANGED close
  BY <1>5 DEF NoProtocolError
<1> QED
  BY <1>2, <1>3, <1>4, <1>5
  DEF Next, Connect, WriteCallback, Read, SocksOk, AcceptConn, Flush, RequestSent, ResponseSent,
      AckUsesFreed, ReadHead, HandleRequest, HandleResponse, Crash, vars

\* Between two unmodified peers no message is refused for its order or its
\* transaction id, whatever the length of the batch and wherever reads are cut.
THEOREM PeersAgree == Spec => []NoProtocolError
<1>1. Init => NoProtocolError
  BY DEF Init, NoProtocolError
<1>2. TypeInv /\ Pipeline /\ NoProtocolError /\ [Next]_vars => NoProtocolError'
  BY CloseStep
<1> QED
  BY <1>1, <1>2, TypeInvariant, PipelineInvariant, PTL DEF Spec
-----------------------------------------------------------------------------
(* A connection of ProtMain implements RequestBatch *)

\* What a position a of the initiator means to the caller of the batch.
LEMMA ResultAt ==
  ASSUME NEW a \in Positions, NEW b \in Positions, HistoryInv(a, b)
  PROVE  \A r \in Requests :
           Result[r] = IF r < a THEN "ok"
                       ELSE IF pmain[I].life = "freed" THEN "fail" ELSE "pending"
<1> SUFFICES ASSUME NEW r \in Requests
             PROVE  Result[r] = IF r < a THEN "ok"
                                ELSE IF pmain[I].life = "freed" THEN "fail" ELSE "pending"
  OBVIOUS
<1>1. Result[r] = IF nOk[r] > 0 THEN "ok" ELSE IF nFail[r] > 0 THEN "fail" ELSE "pending"
  BY DEF Result
<1>2. /\ nOk[r] = IF r < a THEN 1 ELSE 0
      /\ nFail[r] = IF pmain[I].life = "freed" /\ r >= a THEN 1 ELSE 0
  BY DEF HistoryInv
<1>3. r < a <=> ~(r >= a)
  BY PositionsFacts
<1> QED
  BY <1>1, <1>2, <1>3

LEMMA BatchInit == Init => Batch!Init
<1> SUFFICES ASSUME Init PROVE Batch!Init
  OBVIOUS
<1>1. \A r \in Requests : nOk[r] = 0 /\ nFail[r] = 0
  BY DEF Init
<1>2. Result = [r \in Requests |-> "pending"]
  BY <1>1 DEF Result
<1> QED
  BY <1>2 DEF Init, Batch!Init, Batch!Requests, Requests

LEMMA BatchStutter == UNCHANGED <<nOk, nFail, answered, applied, dangling>> => UNCHANGED Batch!vars
BY DEF Result, Batch!vars

LEMMA BatchFail ==
  ASSUME TypeInv, Pipeline, Pipeline', NEW e \in Ends, NEW code, NEW status,
         Fail(e, code, status), pmain[e].life \in {"connecting", "ready"}, ~flushed[e]
  PROVE  Batch!Abandon \/ UNCHANGED Batch!vars
<1>1. CASE e = A
  <2>1. \A r \in Requests : nFail'[r] = nFail[r]
    BY <1>1, EndsFacts DEF Fail
  <2>2. nOk' = nOk /\ answered' = answered /\ UNCHANGED <<applied, dangling>>
    BY DEF Fail
  <2>3. Result' = Result
    BY <2>1, <2>2 DEF Result
  <2> QED
    BY <2>2, <2>3 DEF Batch!vars
<1>2. CASE e = I
  <2>1. nOk' = nOk /\ answered' = answered /\ UNCHANGED <<applied, dangling>>
    BY DEF Fail
  <2>2. pmain'[I].life = "freed"
    <3>1. pmain' = [pmain EXCEPT ![I] = Freed(pmain[I])]
      BY <1>2, EndsFacts DEF Fail
    <3>2. Freed(pmain[I]).life = "freed"
      BY FreedType, EndsFacts DEF TypeInv, TypeOK
    <3> QED
      BY <3>1, <3>2, EndsFacts DEF TypeInv, TypeOK
  <2>3. PICK a \in Positions, b \in Positions : HistoryInv(a, b)
    BY DEF Pipeline, PipelineAt
  <2>4. ASSUME NEW r \in Requests
        PROVE  Result'[r] = IF Result[r] = "pending" THEN "fail" ELSE Result[r]
    <3>1. /\ nOk[r] = IF r < a THEN 1 ELSE 0
          /\ nFail[r] = 0
      BY <1>2, <2>3 DEF HistoryInv
    <3>2. nOk'[r] + nFail'[r] = 1 /\ nFail'[r] \in Nat
      <4>1. nFail'[r] = nFail[r] + (IF Occurs(r, pmain[I].tranQ) THEN 1 ELSE 0)
                                 + (IF Occurs(r, pmain[I].recvQ) THEN 1 ELSE 0)
        BY <1>2 DEF Fail
      <4>2. nFail'[r] \in Nat
        <5>1. \A x, y \in Nat : 0 + x + y \in Nat
          OBVIOUS
        <5>2. /\ (IF Occurs(r, pmain[I].tranQ) THEN 1 ELSE 0) \in Nat
              /\ (IF Occurs(r, pmain[I].recvQ) THEN 1 ELSE 0) \in Nat
          OBVIOUS
        <5> QED
          BY <3>1, <4>1, <5>1, <5>2
      <4>3. OneOutcome'
        BY PipelineOutcome, PTL
      <4> QED
        BY <2>2, <4>2, <4>3 DEF OneOutcome
    <3>3. /\ Result[r] = IF nOk[r] > 0 THEN "ok" ELSE IF nFail[r] > 0 THEN "fail" ELSE "pending"
          /\ Result'[r] = IF nOk'[r] > 0 THEN "ok" ELSE IF nFail'[r] > 0 THEN "fail" ELSE "pending"
      BY DEF Result
    <3> QED
      BY <2>1, <3>1, <3>2, <3>3
  <2>5. Result' = [r \in Requests |-> IF Result[r] = "pending" THEN "fail" ELSE Result[r]]
    BY <2>4 DEF Result
  <2> QED
    BY <2>1, <2>5 DEF Batch!Abandon, Batch!Requests, Requests
<1> QED
  BY <1>1, <1>2, EndsFacts

\* The kernel taking a response is the peer answering the next request.
LEMMA BatchAnswer ==
  ASSUME TypeInv, Pipeline, Flush(A)
  PROVE  (\E r \in Requests : Batch!Answer(r)) \/ UNCHANGED Batch!vars
<1>1. PICK a \in Positions, b \in Positions, c \in Positions, d \in Positions :
        PipelineAt(a, b, c, d)
  BY DEF Pipeline
<1>2. pmain[A].life = "ready" /\ ~flushed[A] /\ pmain[A].output # <<>>
  BY DEF Flush, Ready
<1>3. b < c /\ pmain[A].output = <<ResMsgs(Gen)[b]>>
  BY <1>1, <1>2 DEF PipelineAt, AcceptorInv, AcceptorOutput, Gen
<1>4. b \in Messages
  BY <1>3, NAssumption DEF Positions, Messages
<1>5. Head(pmain[A].output).req = b
  <2>1. ResMsgs(Gen)[b] = [req |-> b, id |-> Gen]
    BY <1>4, MsgsFacts
  <2>2. Head(pmain[A].output) = [req |-> b, id |-> Gen]
    BY <1>3, <2>1
  <2> QED
    BY <2>2
<1>6. answered' = answered \cup ({b} \cap Requests) /\ UNCHANGED <<nOk, nFail, applied, dangling>>
  BY <1>5, EndsFacts DEF Flush
<1>7. /\ answered = {r \in Requests : r < b}
      /\ \A r \in Requests : r < b => r \in applied \cup dangling
  BY <1>1, <1>2, PositionsFacts DEF PipelineAt, HistoryInv, Late
<1>8. Result' = Result
  BY <1>6 DEF Result
<1>9. CASE b \in Requests
  <2>1. b \notin answered /\ answered' = answered \cup {b}
    BY <1>6, <1>7, <1>9, PositionsFacts
  <2>2. \A q \in 1..(b - 1) : q \in answered /\ q \in applied \cup dangling
    BY <1>7, <1>9, NAssumption DEF Requests
  <2> QED
    BY <1>6, <1>8, <1>9, <2>1, <2>2 DEF Batch!Answer
<1>10. CASE b \notin Requests
  BY <1>6, <1>8, <1>10 DEF Batch!vars
<1> QED
  BY <1>9, <1>10

\* The write callback of a response commits the request it answers.
LEMMA BatchCommit ==
  ASSUME TypeInv, Pipeline, ResponseSent
  PROVE  (\E r \in Requests : Batch!Commit(r)) \/ UNCHANGED Batch!vars
<1>1. PICK b \in Positions : /\ Head(pmain[A].tranQ) = b - 1
                            /\ answered = {r \in Requests : r < b}
  BY DEF Pipeline, PipelineAt, NetworkInv, HistoryInv, ResponseSent
<1>2. /\ UNCHANGED <<nOk, nFail, answered, dangling>>
      /\ applied' = applied \cup ({b - 1} \cap Requests) \/ applied' = applied
  BY <1>1 DEF ResponseSent
<1>3. Result' = Result
  BY <1>2 DEF Result
<1>4. CASE b - 1 \in Requests
  <2>1. b - 1 \in answered
    BY <1>1, <1>4 DEF Positions
  <2> QED
    BY <1>2, <1>3, <1>4, <2>1 DEF Batch!Commit, Batch!vars
<1>5. CASE b - 1 \notin Requests
  BY <1>2, <1>3, <1>5 DEF Batch!vars
<1> QED
  BY <1>4, <1>5

\* The object of a container is lost, if at all, before the request is answered.
LEMMA BatchSpoil ==
  ASSUME TypeInv, Pipeline, HandleRequest
  PROVE  (\E r \in Requests : Batch!Spoil(r)) \/ UNCHANGED Batch!vars
<1>1. Result' = Result /\ UNCHANGED <<answered, applied>>
  BY DEF HandleRequest, history, Result
<1>2. CASE dangling' = dangling
  BY <1>1, <1>2 DEF Batch!vars
<1>3. CASE dangling' # dangling
  <2>1. pmain[A].recvQ # <<>> /\ pmain[A].life = "ready"
    BY <1>3 DEF HandleRequest, Ready
  <2>2. WithHandler(pmain[A], Head(wire[I])) = pmain[A]
    BY <2>1 DEF WithHandler
  <2>3. /\ ReqCode(Head(pmain[A].recvQ)) = "MESSAGE_CONTAINER"
        /\ dangling' = dangling \cup {Head(pmain[A].recvQ)}
    BY <1>3, <2>2 DEF HandleRequest
  <2>4. PICK b \in Positions, c \in Positions :
          /\ b <= c /\ pmain[A].recvQ = <<c>>
          /\ answered = {r \in Requests : r < b}
    BY <2>1 DEF Pipeline, PipelineAt, NetworkInv, AcceptorInv, HistoryInv
  <2>5. Head(pmain[A].recvQ) = c /\ c \in Messages
    <3>1. pmain[A].recvQ \in Seq(Messages)
      BY EndsFacts DEF TypeInv, TypeOK, Pmain
    <3>2. Head(pmain[A].recvQ) \in Messages
      BY <2>1, <3>1
    <3>3. Head(<<c>>) = c
      OBVIOUS
    <3> QED
      BY <2>4, <3>2, <3>3
  <2>6. c \in Requests /\ c \notin answered
    BY <2>3, <2>4, <2>5, NAssumption DEF ReqCode, Messages, Requests, Positions
  <2> QED
    BY <1>1, <2>3, <2>5, <2>6 DEF Batch!Spoil
<1> QED
  BY <1>2, <1>3

\* The arrival of a response confirms the first pending request.
LEMMA BatchConfirm ==
  ASSUME TypeInv, Pipeline, HandleResponse
  PROVE  (\E r \in Requests : Batch!Confirm(r)) \/ UNCHANGED Batch!vars
<1>1. PICK a \in Positions, b \in Positions, c \in Positions, d \in Positions :
        PipelineAt(a, b, c, d)
  BY DEF Pipeline
<1>2. /\ pmain[I].life = "ready" /\ ~flushed[I] /\ wire[A] # <<>>
      /\ UNCHANGED <<nFail, answered, applied, dangling>>
      /\ nOk' = [q \in Requests |-> IF q = Head(pmain[I].recvQ) THEN nOk[q] + 1 ELSE nOk[q]]
  BY DEF HandleResponse, Ready
<1>3. InitiatorInv(a, d) /\ Late(I) = 0 /\ NetworkInv(a, b, c, d) /\ HistoryInv(a, b) /\ d - 0 = d
  BY <1>1, <1>2, PositionsFacts DEF PipelineAt, Late
<1>4. a < b /\ a < d /\ a \in Messages
  <2>1. Span(ResMsgs(Gen), a, b) # <<>> /\ a <= b /\ b <= c /\ c <= d
    BY <1>2, <1>3 DEF NetworkInv
  <2>2. a # b
    BY <2>1, SpanEmpty
  <2> QED
    BY <2>1, <2>2, NAssumption DEF Positions, Messages
<1>5. Head(pmain[I].recvQ) = a
  BY <1>3, <1>4, NumbersSpan DEF InitiatorInv
<1>6. \A r \in Requests : Result[r] = IF r < a THEN "ok" ELSE "pending"
  BY <1>2, <1>3, ResultAt
<1>7. \A r \in Requests : /\ Result'[r] = IF nOk'[r] > 0 THEN "ok"
                                          ELSE IF nFail'[r] > 0 THEN "fail" ELSE "pending"
                          /\ Result[r] = IF nOk[r] > 0 THEN "ok"
                                         ELSE IF nFail[r] > 0 THEN "fail" ELSE "pending"
  BY DEF Result
<1>8. \A r \in Requests : /\ nOk'[r] = IF r = a THEN nOk[r] + 1 ELSE nOk[r]
                          /\ nOk[r] \in Nat /\ nFail'[r] = nFail[r]
  BY <1>2, <1>5 DEF TypeInv, TypeOK
<1>9. \A r \in Requests : Result'[r] = IF r = a THEN "ok" ELSE Result[r]
  BY <1>7, <1>8
<1>10. CASE a \in Requests
  <2>1. Result' = [Result EXCEPT ![a] = "ok"]
    BY <1>9 DEF Result
  <2>2. Result[a] = "pending" /\ a \in answered
    BY <1>3, <1>4, <1>6, <1>10, PositionsFacts DEF HistoryInv
  <2>3. \A q \in 1..(a - 1) : q \in Requests /\ q < a
    BY <1>10, NAssumption DEF Requests
  <2>4. \A q \in 1..(a - 1) : Result[q] = "ok"
    BY <1>6, <2>3
  <2> QED
    BY <1>2, <1>10, <2>1, <2>2, <2>4 DEF Batch!Confirm
<1>11. CASE a \notin Requests
  <2>1. Result' = Result
    BY <1>9, <1>11 DEF Result
  <2> QED
    BY <1>2, <2>1 DEF Batch!vars
<1> QED
  BY <1>10, <1>11

LEMMA BatchStep ==
  ASSUME TypeInv, Pipeline, [Next]_vars
  PROVE  [Batch!Next]_(Batch!vars)
<1>0. Pipeline'
  BY PipelineNext
<1>1. Requests = Batch!Requests
  BY DEF Requests, Batch!Requests
<1>2. CASE SocksFail
  <2>1. pmain[I].life = "connecting" /\ ~flushed[I] /\ Fail(I, "SOCKS_CONN_FAIL", "OK")
    BY <1>2, EndsFacts DEF SocksFail, TypeInv, Busy
  <2>2. Batch!Abandon \/ UNCHANGED Batch!vars
    BY <1>0, <2>1, BatchFail, EndsFacts
  <2> QED
    BY <2>2 DEF Batch!Next
<1>3. ASSUME NEW e \in Ends,
             ReadRefused(e) \/ HandlerRejects(e) \/ PeerClosed(e) \/ Reset(e)
      PROVE  [Batch!Next]_(Batch!vars)
  <2>1. pmain[e].life = "ready" /\ ~flushed[e]
    BY <1>3 DEF ReadRefused, HandlerRejects, PeerClosed, Reset, Ready
  <2>2. \E code, status : Fail(e, code, status)
    BY <1>3 DEF ReadRefused, HandlerRejects, PeerClosed, Reset
  <2>3. Batch!Abandon \/ UNCHANGED Batch!vars
    BY <1>0, <2>1, <2>2, BatchFail
  <2> QED
    BY <2>3 DEF Batch!Next
<1>4. CASE Flush(A)
  BY <1>1, <1>4, BatchAnswer DEF Batch!Next
<1>5. CASE HandleResponse
  BY <1>1, <1>5, BatchConfirm DEF Batch!Next
<1>6. CASE UNCHANGED <<nOk, nFail, answered, applied, dangling>>
  BY <1>6, BatchStutter
<1>7. CASE Flush(I)
  BY <1>7, BatchStutter, EndsFacts DEF Flush
<1>8. CASE ResponseSent
  BY <1>1, <1>8, BatchCommit DEF Batch!Next
<1>9. CASE HandleRequest
  BY <1>1, <1>9, BatchSpoil DEF Batch!Next
<1> QED
  BY <1>2, <1>3, <1>4, <1>5, <1>6, <1>7, <1>8, <1>9, EndsFacts
  DEF Next, Connect, WriteCallback, Read, SocksOk, AcceptConn, RequestSent,
      AckUsesFreed, ReadHead, Crash, vars, history

\* A connection keeps the promise of RequestBatch for a batch of any length: in-order
\* answers, in-order confirmations only of answered requests, one final abandonment, and at most one answered
\* request that is not committed.
THEOREM BatchImplemented == Spec => ImplementsBatch
<1>1. Spec => Batch!Init
  BY BatchInit DEF Spec
<1>2. TypeInv /\ Pipeline /\ [Next]_vars => [Batch!Next]_(Batch!vars)
  BY BatchStep
<1> QED
  BY <1>1, <1>2, TypeInvariant, PipelineInvariant, PTL DEF Spec, ImplementsBatch, Batch!Spec

\* What RequestBatch says of an answer.
LEMMA AnswerKeepsOneLost ==
  ASSUME Batch!TypeOK, Batch!OneLost, NEW r \in Batch!Requests, Batch!Answer(r)
  PROVE  Batch!OneLost'
<1> USE NAssumption DEF Batch!Requests
<1>1. /\ r \notin answered /\ answered' = answered \cup {r} /\ UNCHANGED <<Result, applied, dangling>>
      /\ \A q \in 1..(r - 1) : q \in answered /\ q \in applied \cup dangling
  BY DEF Batch!Answer
<1>2. \A q \in answered : q < r
  <2> SUFFICES ASSUME NEW q \in answered, ~(q < r) PROVE FALSE
    OBVIOUS
  <2>1. q \in 1..N /\ r \in 1..N /\ q # r
    BY <1>1 DEF Batch!TypeOK
  <2>2. r \in 1..(q - 1)
    BY <2>1
  <2> QED
    BY <1>1, <2>2 DEF Batch!OneLost
<1>3. answered \subseteq applied \cup dangling
  <2> SUFFICES ASSUME NEW q \in answered PROVE q \in applied \cup dangling
    OBVIOUS
  <2>1. q \in 1..N /\ r \in 1..N /\ q < r
    BY <1>2 DEF Batch!TypeOK
  <2>2. q \in 1..(r - 1)
    BY <2>1
  <2> QED
    BY <1>1, <2>2
<1>4. \A q \in answered' : 1..(q - 1) \subseteq answered'
  BY <1>1 DEF Batch!OneLost
<1>5. \A p, q \in answered' \ (applied' \cup dangling') : p = q
  BY <1>1, <1>3
<1>6. \A q \in Batch!Requests : Result'[q] = "ok" => q \in answered'
  BY <1>1 DEF Batch!OneLost
<1> QED
  BY <1>4, <1>5, <1>6 DEF Batch!OneLost

\* Whatever stops the peer of a connection, at most one request it answered, and so at most
\* one the caller was told OK of, is not committed, but for containers whose object was freed
\* before their ACK left (dangling): RequestBatch promises it.
THEOREM AtMostOneLost == Spec => []Batch!OneLost
<1> USE DEF Batch!Requests
<1> DEFINE Inv == Batch!TypeOK /\ Batch!OneLost
<1>1. Batch!Init => Inv
  BY DEF Batch!Init, Batch!TypeOK, Batch!OneLost
<1>2. Inv /\ [Batch!Next]_(Batch!vars) => Inv'
  <2> SUFFICES ASSUME Inv, [Batch!Next]_(Batch!vars) PROVE Inv'
    OBVIOUS
  <2>1. ASSUME NEW r \in Batch!Requests, Batch!Answer(r) PROVE Inv'
    BY <2>1, AnswerKeepsOneLost DEF Batch!Answer, Batch!TypeOK
  <2>2. ASSUME NEW r \in Batch!Requests, Batch!Commit(r) PROVE Inv'
    BY <2>2 DEF Batch!Commit, Batch!TypeOK, Batch!OneLost
  <2>3. ASSUME NEW r \in Batch!Requests, Batch!Spoil(r) PROVE Inv'
    BY <2>3 DEF Batch!Spoil, Batch!TypeOK, Batch!OneLost
  <2>4. ASSUME NEW r \in Batch!Requests, Batch!Confirm(r) PROVE Inv'
    BY <2>4 DEF Batch!Confirm, Batch!TypeOK, Batch!OneLost
  <2>5. CASE Batch!Abandon
    BY <2>5 DEF Batch!Abandon, Batch!TypeOK, Batch!OneLost
  <2>6. CASE UNCHANGED Batch!vars
    BY <2>6 DEF Batch!vars, Batch!TypeOK, Batch!OneLost
  <2> QED
    BY <2>1, <2>2, <2>3, <2>4, <2>5, <2>6 DEF Batch!Next
<1>3. Inv => Batch!OneLost
  OBVIOUS
<1> QED
  BY <1>1, <1>2, <1>3, BatchImplemented, PTL DEF ImplementsBatch, Batch!Spec
=============================================================================
