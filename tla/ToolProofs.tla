----------------------------- MODULE ToolProofs -----------------------------
(***************************************************************************)
(* The small components, for any size of their input: the linked queue,    *)
(* the SOCKS5 client, the Tor process and the two widgets that keep        *)
(* positions in a text.  Each has its own specification and invariant.     *)
(***************************************************************************)
EXTENDS Queue, Socks5, TorProcess, TextWidgets, SequenceTheorems, LeastNumber
-----------------------------------------------------------------------------
(* The queue *)

QTypeOK ==
  /\ front \in Nodes \cup {NULL} /\ rear \in Nodes \cup {NULL} /\ length \in Nat
  /\ next \in [Nodes -> Nodes \cup {NULL}] /\ data \in [Nodes -> Data]
  /\ unused \subseteq Nodes /\ order \in Seq(Nodes)

QueueInv == QTypeOK /\ Linked

LEMMA QInitInv == QInit => QueueInv
  BY NullAssumption DEF QInit, QueueInv, QTypeOK, Linked

\* A node that is allocated is none of those in the list, so only the old rear and the new
\* node change their links.
LEMMA EnqueueInv == ASSUME QueueInv, NEW d \in Data, Enqueue(d) PROVE QueueInv'
<1>1. PICK n \in unused : Enqueue(d)!(n)
  BY DEF Enqueue
<1>2. n \in Nodes /\ \A i \in 1..Len(order) : order[i] \in Nodes /\ order[i] # n
  BY DEF QueueInv, QTypeOK, Linked
<1>3. /\ order' = Append(order, n) /\ order' \in Seq(Nodes) /\ Len(order') = Len(order) + 1
      /\ order'[Len(order) + 1] = n
      /\ \A i \in 1..Len(order) : order'[i] = order[i]
      /\ Len(order) \in Nat
  BY <1>1, <1>2 DEF QueueInv, QTypeOK
<1>4. CASE order = <<>>
  <2>1. length = 0 /\ Len(order) = 0
    BY <1>4 DEF QueueInv, Linked
  <2>2. front' = n /\ rear' = n /\ next' = [next EXCEPT ![n] = NULL] /\ length' = 1
    BY <1>1, <2>1
  <2>3. QTypeOK'
    BY <1>1, <1>2, <1>3, <2>2 DEF QueueInv, QTypeOK
  <2>4. Linked'
    BY <1>1, <1>2, <1>3, <2>1, <2>2 DEF QueueInv, QTypeOK, Linked
  <2> QED BY <2>3, <2>4 DEF QueueInv
<1>5. CASE order # <<>>
  <2>1. length # 0 /\ Len(order) # 0 /\ rear = order[Len(order)] /\ front = order[1]
    BY <1>5, <1>3 DEF QueueInv, QTypeOK, Linked
  <2>2. /\ front' = front /\ rear' = n /\ length' = length + 1
        /\ next' = [next EXCEPT ![n] = NULL, ![rear] = n]
        /\ unused' = unused \ {n}
    BY <1>1, <2>1
  <2>3. rear \in Nodes /\ rear # n
    BY <1>2, <1>3, <2>1
  <2>4. QTypeOK'
    BY <1>1, <1>2, <1>3, <2>2, <2>3 DEF QueueInv, QTypeOK
  <2>5. next'[n] = NULL /\ next'[rear] = n
        /\ \A m \in Nodes \ {n, rear} : next'[m] = next[m]
    BY <1>2, <2>2, <2>3 DEF QueueInv, QTypeOK
  <2>6. length' = Len(order') /\ \A i \in 1..Len(order') : order'[i] \notin unused'
    BY <1>2, <1>3, <2>2 DEF QueueInv, Linked
  <2>7. \A i, j \in 1..Len(order') : order'[i] = order'[j] => i = j
    BY <1>2, <1>3 DEF QueueInv, Linked
  <2>8. ASSUME NEW i \in 1..Len(order') - 1 PROVE next'[order'[i]] = order'[i + 1]
    <3>1. CASE i = Len(order)
      BY <3>1, <1>3, <2>1, <2>5
    <3>2. CASE i # Len(order)
      <4>1. i \in 1..Len(order) - 1 /\ i + 1 \in 1..Len(order)
        BY <3>2, <1>3
      <4>2. order[i] # rear /\ order[i] # n /\ order[i] \in Nodes
        BY <4>1, <1>2, <1>3, <2>1 DEF QueueInv, Linked
      <4>3. next[order[i]] = order[i + 1]
        BY <4>1 DEF QueueInv, Linked
      <4> QED BY <4>1, <4>2, <4>3, <1>3, <2>5
    <3> QED BY <3>1, <3>2
  <2>9. front' = order'[1] /\ rear' = order'[Len(order')] /\ next'[order'[Len(order')]] = NULL
    BY <1>3, <2>1, <2>2, <2>5
  <2>10. order' # <<>>
    BY <1>3
  <2> QED BY <2>4, <2>6, <2>7, <2>8, <2>9, <2>10 DEF QueueInv, Linked
<1> QED BY <1>4, <1>5

\* The node given back is the first, and it occurs only once.
LEMMA DequeueInv == ASSUME QueueInv, Dequeue PROVE QueueInv'
<1>1. order # <<>> /\ Len(order) \in Nat /\ Len(order) > 0 /\ front = order[1] /\ length = Len(order)
  BY DEF QueueInv, QTypeOK, Linked, Dequeue
<1>2. /\ order' = Tail(order) /\ order' \in Seq(Nodes) /\ Len(order') = Len(order) - 1
      /\ \A i \in 1..Len(order') : order'[i] = order[i + 1] /\ i + 1 \in 1..Len(order)
  BY <1>1 DEF QueueInv, QTypeOK, Dequeue
<1>3. front \in Nodes /\ front' \in Nodes \cup {NULL} /\ next' = next
  BY <1>1 DEF QueueInv, QTypeOK, Dequeue
<1>4. QTypeOK'
  BY <1>1, <1>2, <1>3 DEF QueueInv, QTypeOK, Dequeue
<1>5. length' = Len(order') /\ unused' = unused \cup {front}
  BY <1>1, <1>2 DEF Dequeue
<1>6. \A i \in 1..Len(order') : order'[i] \notin unused'
  BY <1>1, <1>2, <1>5 DEF QueueInv, Linked
<1>7. \A i, j \in 1..Len(order') : order'[i] = order'[j] => i = j
  BY <1>1, <1>2 DEF QueueInv, Linked
<1>8. \A i \in 1..Len(order') - 1 : next'[order'[i]] = order'[i + 1]
  BY <1>1, <1>2, <1>3 DEF QueueInv, Linked
<1>9. CASE Len(order) = 1
  <2>1. order' = <<>> /\ front' = NULL /\ rear' = NULL
    BY <1>1, <1>2, <1>9 DEF QueueInv, Linked, Dequeue
  <2> QED BY <1>4, <1>5, <1>6, <1>7, <1>8, <2>1 DEF QueueInv, Linked
<1>10. CASE Len(order) # 1
  <2>0. Len(order) > 1 /\ Len(order') > 0
    BY <1>1, <1>2, <1>10
  <2>1. /\ Len(order) > 1 /\ Len(order') > 0 /\ order' # <<>>
        /\ rear' = rear /\ front' = next[order[1]]
    <3>1. order' # <<>>
      BY <2>0
    <3>2. rear' = rear /\ front' = next[front]
      BY <1>1, <2>0 DEF Dequeue
    <3> QED BY <1>1, <2>0, <3>1, <3>2
  <2>2. front' = order'[1] /\ rear' = order'[Len(order')] /\ next'[order'[Len(order')]] = NULL
    BY <1>1, <1>2, <1>3, <2>1 DEF QueueInv, Linked
  <2> QED BY <1>4, <1>5, <1>6, <1>7, <1>8, <2>1, <2>2 DEF QueueInv, Linked
<1> QED BY <1>9, <1>10

LEMMA QNextInv == QueueInv /\ [QNext]_vars => QueueInv'
<1> SUFFICES ASSUME QueueInv, [QNext]_vars PROVE QueueInv'
  OBVIOUS
<1>1. CASE UNCHANGED vars
  BY <1>1 DEF QueueInv, QTypeOK, Linked, vars
<1> QED BY <1>1, EnqueueInv, DequeueInv DEF QNext

\* The list of queue.c is linked from front to rear through the allocated nodes, oldest first,
\* whatever is enqueued and dequeued and whichever nodes malloc picks.
THEOREM QueueLinked == QSpec => []Linked
<1>1. QSpec => []QueueInv
  BY QInitInv, QNextInv, PTL DEF QSpec
<1> QED BY <1>1, PTL DEF QueueInv

\* A step of the list appends an item, or takes the first one, or changes nothing.
LEMMA QStepRefines == QueueInv /\ [QNext]_vars =>
                        [(\E d \in Data : Abstract!Put(d)) \/ Abstract!Take]_Items
<1> SUFFICES ASSUME QueueInv, [QNext]_vars
             PROVE  [(\E d \in Data : Abstract!Put(d)) \/ Abstract!Take]_Items
  OBVIOUS
<1>0. Len(order) \in Nat /\ order \in Seq(Nodes) /\ data \in [Nodes -> Data]
  BY DEF QueueInv, QTypeOK
<1>1. ASSUME NEW d \in Data, Enqueue(d) PROVE Abstract!Put(d)
  <2>1. PICK n \in unused : Enqueue(d)!(n)
    BY <1>1 DEF Enqueue
  <2>2. n \in Nodes /\ \A i \in 1..Len(order) : order[i] \in Nodes /\ order[i] # n
    BY <1>0 DEF QueueInv, QTypeOK, Linked
  <2>3. order' = Append(order, n) /\ data' = [data EXCEPT ![n] = d]
    BY <2>1
  <2>4. Items \in Seq(Data) /\ Len(Items) = Len(order)
    BY <1>0, <2>2 DEF Items
  <2>5. Items' = Append(Items, d)
    BY <1>0, <2>2, <2>3, <2>4 DEF Items
  <2> QED BY <2>5 DEF Abstract!Put
<1>2. ASSUME Dequeue PROVE Abstract!Take
  <2>1. order # <<>> /\ Len(order) > 0 /\ order' = Tail(order) /\ data' = data
    BY <1>0, <1>2 DEF Dequeue, QueueInv, Linked
  <2>2. Items \in Seq(Data) /\ Len(Items) = Len(order) /\ Items # <<>>
    BY <1>0, <2>1 DEF Items
  <2>3. Items' = Tail(Items)
    BY <1>0, <2>1, <2>2 DEF Items
  <2> QED BY <2>2, <2>3 DEF Abstract!Take
<1>3. CASE UNCHANGED vars
  BY <1>3 DEF Items, vars
<1> QED BY <1>1, <1>2, <1>3 DEF QNext

\* The queue is a first-in first-out queue: the specification of the list implements Fifo.
THEOREM QueueIsFifo == QSpec => Abstract!Spec
<1>1. QSpec => []QueueInv
  BY QInitInv, QNextInv, PTL DEF QSpec
<1>2. QInit => Items = <<>>
  BY DEF QInit, Items
<1> QED BY <1>1, <1>2, QStepRefines, PTL DEF QSpec, Abstract!Spec

\* Walking the list for i links from the front leads to the node of that age.
LEMMA Walk ==
  ASSUME QueueInv, NEW index \in Nat, index < Len(order),
         NEW g, g = [i \in 0..index |-> IF i = 0 THEN front ELSE next[g[i - 1]]]
  PROVE  \A i \in 0..index : g[i] = order[i + 1]
<1>1. /\ Len(order) \in Nat /\ front = order[1]
      /\ \A i \in 1..Len(order) - 1 : next[order[i]] = order[i + 1]
  BY DEF QueueInv, QTypeOK, Linked
<1>2. g[0] = order[1] /\ \A i \in 1..index : g[i] = next[g[i - 1]]
  <2>1. 0 \in 0..index /\ \A i \in 1..index : i \in 0..index /\ i # 0
    OBVIOUS
  <2>2. \A i \in 0..index : g[i] = IF i = 0 THEN front ELSE next[g[i - 1]]
    OBVIOUS
  <2> QED BY <1>1, <2>1, <2>2
<1> DEFINE Bad == {i \in 1..index : g[i] # order[i + 1]}
<1>3. Bad = {}
  <2> SUFFICES ASSUME Bad # {} PROVE FALSE
    OBVIOUS
  <2>1. Bad \subseteq Nat \ {0}
    OBVIOUS
  <2>2. PICK i \in Bad : \A j \in Bad : i <= j
    <3> HIDE DEF Bad
    <3> QED BY <2>1, Least
  <2>3. i \in 1..index /\ g[i] # order[i + 1] /\ g[i] = next[g[i - 1]]
    BY <1>2
  <2>4. g[i - 1] = order[i - 1 + 1]
    <3>1. CASE i = 1
      BY <1>2, <3>1
    <3>2. CASE i # 1
      <4>1. i - 1 \in 1..index /\ ~(i <= i - 1)
        BY <2>3, <3>2
      <4>2. i - 1 \notin Bad
        <5> HIDE DEF Bad
        <5> QED BY <2>2, <4>1
      <4> QED BY <4>1, <4>2
    <3> QED BY <3>1, <3>2
  <2>5. i - 1 + 1 = i /\ i \in 1..Len(order) - 1
    BY <1>1, <2>3
  <2> QED BY <1>1, <2>3, <2>4, <2>5
<1>4. \A i \in 1..index : g[i] = order[i + 1]
  BY <1>3
<1>5. ASSUME NEW i \in 0..index PROVE g[i] = order[i + 1]
  <2>1. CASE i = 0
    <3>1. i + 1 = 1 /\ g[i] = g[0]
      BY <2>1
    <3> QED BY <1>2, <3>1, Zenon
  <2>2. CASE i # 0
    <3>1. i \in 1..index
      BY <2>2
    <3> QED BY <1>4, <3>1, Zenon
  <2> QED BY <2>1, <2>2
<1> QED BY <1>5

LEMMA PeekFinds ==
  ASSUME QueueInv, NEW index \in Nat, index < Len(order)
  PROVE  Peek(index) = order[index + 1]
<1> DEFINE Eq(g) == g = [i \in 0..index |-> IF i = 0 THEN front ELSE next[g[i - 1]]]
<1>1. /\ Len(order) \in Nat /\ front = order[1] /\ length = Len(order)
      /\ \A i \in 1..Len(order) - 1 : next[order[i]] = order[i + 1]
  BY DEF QueueInv, QTypeOK, Linked
<1>2. PICK f : f = [i \in 0..index |-> order[i + 1]]
  OBVIOUS
<1>3. Eq(f)
  <2>1. ASSUME NEW i \in 0..index
        PROVE  order[i + 1] = IF i = 0 THEN front ELSE next[f[i - 1]]
    <3>1. CASE i = 0
      BY <1>1, <3>1
    <3>2. CASE i # 0
      <4>1. i - 1 \in 0..index /\ i - 1 + 1 = i /\ i \in 1..Len(order) - 1
        BY <1>1, <3>2
      <4>2. f[i - 1] = order[i]
        BY <1>2, <4>1
      <4> QED BY <1>1, <3>2, <4>1, <4>2
    <3> QED BY <3>1, <3>2
  <2> QED BY <1>2, <2>1
<1>4. Eq(CHOOSE g : Eq(g))
  BY <1>3
<1>5. (CHOOSE g : Eq(g))[index] = order[index + 1]
  <2> PICK h : h = CHOOSE g : Eq(g)
    OBVIOUS
  <2>1. \A i \in 0..index : h[i] = order[i + 1]
    BY <1>4, Walk
  <2> QED BY <2>1
<1>6. ~(index + 1 > length)
  BY <1>1
<1> QED BY <1>5, <1>6 DEF Peek

\* queue_peek finds the item of each age, whatever was queued before and wherever malloc put it.
THEOREM QueueOrderKept == QSpec => []QueueKeepsOrder
<1>1. QueueInv => QueueKeepsOrder
  <2> SUFFICES ASSUME QueueInv, NEW i \in 1..Len(order) PROVE Peek(i - 1) = order[i]
    BY DEF QueueInv, QueueKeepsOrder
  <2>1. Len(order) \in Nat
    BY DEF QueueInv, QTypeOK
  <2>2. i - 1 \in Nat /\ i - 1 < Len(order) /\ i - 1 + 1 = i
    BY <2>1
  <2> QED BY <2>2, PeekFinds
<1> QED BY <1>1, QInitInv, QNextInv, PTL DEF QSpec
-----------------------------------------------------------------------------
(* The SOCKS5 client *)

\* Where the client is in the stream: before the answer to the method selection, before the
\* end of the answer to its request, or finished with one outcome that fits the proxy.
Fits(result) == \/ result = "closed"
                \/ result \in {"auth failed", "refused"} /\ ~Granted
                \/ result = "ok" /\ Granted /\ drained = MethodLen + ReplyLen
SocksInv ==
  /\ proxy \in Answers /\ arrived \in Nat
  /\ \/ step = "auth" /\ outcomes = <<>> /\ drained = 0 /\ arrived < MethodLen
     \/ /\ step = "connect" /\ outcomes = <<>> /\ drained = MethodLen
        /\ proxy.auth = "accepted" /\ arrived < MethodLen + ReplyLen
     \/ step = "done" /\ \E result : outcomes = <<result>> /\ Fits(result)

LEMMA ReplyFacts ==
  ASSUME proxy \in Answers
  PROVE  /\ ReplyLen \in Nat /\ AddressLen \in Nat /\ ReplyLen = HeaderLen + AddressLen + PortLen
         /\ ReplyLen >= HeaderLen + 1 + PortLen
<1>1. proxy.len \in Nat
  BY BytesAssumption DEF Answers
<1> QED BY <1>1 DEF ReplyLen, AddressLen, HeaderLen, PortLen

LEMMA FirstOutcome ==
  /\ Len(<<>>) = 0
  /\ \A result : Append(<<>>, result) = <<result>> /\ Len(<<result>>) = 1 /\ <<result>>[1] = result
OBVIOUS

LEMMA SocksInitInv == SocksInit => SocksInv
BY DEF SocksInit, SocksInv, MethodLen

\* The first pieces of the stream: too short an answer changes nothing.
LEMMA ReadAuthInv ==
  ASSUME SocksInv, step = "auth", NEW n \in arrived + 1..Sent, arrived' = n, ReadAuth(n - drained),
         UNCHANGED proxy
  PROVE  SocksInv'
<1>1. n \in Nat /\ n <= MethodLen /\ drained = 0 /\ outcomes = <<>> /\ proxy \in Answers
  BY DEF SocksInv, Sent, MethodLen
<1>2. ReplyLen \in Nat /\ ReplyLen > 0 /\ ReplyLen' = ReplyLen
  BY <1>1, ReplyFacts DEF ReplyLen, HeaderLen, PortLen
<1>3. CASE n < MethodLen
  BY <1>1, <1>3 DEF ReadAuth, Wait, SocksInv, MethodLen
<1>4. CASE ~(n < MethodLen) /\ proxy.auth = "refused"
  <2>0. Done("auth failed")
    <3>1. ~(n - drained < MethodLen)
      BY <1>1, <1>4
    <3> QED BY <1>4, <3>1 DEF ReadAuth
  <2>1. step' = "done" /\ outcomes' = <<"auth failed">>
    BY <1>1, <2>0, FirstOutcome DEF Done
  <2>2. ~Granted'
    BY <1>4 DEF Granted
  <2> QED BY <1>1, <2>1, <2>2 DEF SocksInv, Fits
<1>5. CASE ~(n < MethodLen) /\ proxy.auth # "refused"
  <2>1. proxy.auth = "accepted"
    BY <1>1, <1>5 DEF Answers
  <2>2. step' = "connect" /\ outcomes' = <<>> /\ drained' = MethodLen
    BY <1>1, <1>5 DEF ReadAuth, MethodLen
  <2>3. n < MethodLen + ReplyLen'
    BY <1>1, <1>2 DEF MethodLen
  <2> QED BY <1>1, <2>1, <2>2, <2>3 DEF SocksInv, Fits
<1> QED BY <1>3, <1>4, <1>5

LEMMA ReadConnectInv ==
  ASSUME SocksInv, step = "connect", NEW n \in arrived + 1..Sent, arrived' = n,
         ReadConnect(n - drained), UNCHANGED proxy
  PROVE  SocksInv'
<1>1. /\ n \in Nat /\ drained = MethodLen /\ outcomes = <<>> /\ proxy \in Answers
      /\ proxy.auth = "accepted"
  BY DEF SocksInv
<1>2. /\ ReplyLen \in Nat /\ AddressLen \in Nat /\ ReplyLen = HeaderLen + AddressLen + PortLen
      /\ ReplyLen >= HeaderLen + 1 + PortLen /\ ReplyLen' = ReplyLen
  BY <1>1, ReplyFacts DEF ReplyLen
<1>3. CASE n - MethodLen < HeaderLen + 1
  <2>1. n < MethodLen + ReplyLen
    BY <1>1, <1>2, <1>3 DEF MethodLen, HeaderLen, PortLen
  <2>2. UNCHANGED <<drained, step, outcomes>>
    BY <1>1, <1>3 DEF ReadConnect, Wait
  <2> QED BY <1>1, <1>2, <2>1, <2>2 DEF SocksInv
<1>4. CASE ~(n - MethodLen < HeaderLen + 1) /\ (proxy.status # "success" \/ proxy.type = "unknown")
  <2>1. step' = "done" /\ outcomes' = <<"refused">>
    BY <1>1, <1>4, FirstOutcome DEF ReadConnect, Done
  <2>2. ~Granted'
    BY <1>4 DEF Granted
  <2> QED BY <1>1, <2>1, <2>2 DEF SocksInv, Fits
<1>5. CASE /\ ~(n - MethodLen < HeaderLen + 1) /\ ~(proxy.status # "success" \/ proxy.type = "unknown")
           /\ n - MethodLen < HeaderLen + AddressLen + PortLen
  <2>1. n < MethodLen + ReplyLen
    BY <1>1, <1>2, <1>5 DEF MethodLen, HeaderLen, PortLen
  <2>2. UNCHANGED <<drained, step, outcomes>>
    BY <1>1, <1>5 DEF ReadConnect, Wait
  <2> QED BY <1>1, <1>2, <2>1, <2>2 DEF SocksInv
<1>6. CASE /\ ~(n - MethodLen < HeaderLen + 1) /\ ~(proxy.status # "success" \/ proxy.type = "unknown")
           /\ ~(n - MethodLen < HeaderLen + AddressLen + PortLen)
  <2>1. /\ drained' = drained + HeaderLen + AddressLen + PortLen
        /\ step' = "done" /\ outcomes' = <<"ok">>
    BY <1>1, <1>6 DEF ReadConnect, Done
  <2>2. drained' = MethodLen + ReplyLen'
    BY <1>1, <1>2, <2>1 DEF MethodLen, HeaderLen, PortLen
  <2>3. Granted'
    BY <1>1, <1>6 DEF Granted
  <2> QED BY <1>1, <2>1, <2>2, <2>3 DEF SocksInv, Fits
<1> QED BY <1>3, <1>4, <1>5, <1>6

LEMMA SocksNextInv == SocksInv /\ [SocksNext]_svars => SocksInv'
<1> SUFFICES ASSUME SocksInv, [SocksNext]_svars PROVE SocksInv'
  OBVIOUS
<1>1. CASE Read
  <2>1. PICK n \in arrived + 1..Sent :
          /\ arrived' = n
          /\ IF step = "auth" THEN ReadAuth(n - drained) ELSE ReadConnect(n - drained)
    BY <1>1 DEF Read
  <2>2. step # "done" /\ UNCHANGED proxy
    BY <1>1 DEF Read
  <2>3. step = "auth" \/ step = "connect"
    BY <2>2 DEF SocksInv
  <2> QED BY <2>1, <2>2, <2>3, ReadAuthInv, ReadConnectInv
<1>2. CASE Event
  <2>1. outcomes = <<>> /\ proxy \in Answers /\ arrived \in Nat
    BY <1>2 DEF Event, SocksInv
  <2>2. step' = "done" /\ outcomes' = <<"closed">> /\ UNCHANGED <<proxy, arrived>>
    BY <1>2, <2>1, FirstOutcome DEF Event, Done
  <2> QED BY <2>1, <2>2 DEF SocksInv, Fits
<1>3. CASE UNCHANGED svars
  BY <1>3 DEF svars, SocksInv, Fits, Granted, ReplyLen
<1> QED BY <1>1, <1>2, <1>3 DEF SocksNext

\* However the bytes of the proxy are cut into pieces, the owner of the connection is told one
\* outcome, and the right one (socks5.c).
THEOREM SocksOneExactOutcome == SocksSpec => []OneExactOutcome
<1>1. SocksInv => OneExactOutcome
  <2> SUFFICES ASSUME SocksInv PROVE OneExactOutcome
    OBVIOUS
  <2>1. ReplyLen \in Nat
    BY ReplyFacts DEF SocksInv
  <2>2. arrived \in Nat
    BY DEF SocksInv
  <2>3. step # "done" => arrived < MethodLen \/ arrived < MethodLen + ReplyLen
    BY DEF SocksInv
  <2>4. step # "done" => arrived < MethodLen + ReplyLen
    BY <2>1, <2>2, <2>3 DEF MethodLen
  <2>5. CASE outcomes = <<>>
    <3>1. \A result : outcomes # <<result>>
      BY <2>5, FirstOutcome
    <3> QED BY <2>4, <2>5, <3>1, FirstOutcome DEF OneExactOutcome
  <2>6. CASE outcomes # <<>>
    <3>1. PICK result : outcomes = <<result>> /\ Fits(result)
      BY <2>6 DEF SocksInv
    <3>2. \A r : outcomes = <<r>> => r = result
      BY <3>1, FirstOutcome
    <3>3. Len(outcomes) <= 1
      BY <3>1, FirstOutcome
    <3> QED BY <2>4, <3>1, <3>2, <3>3 DEF OneExactOutcome, Fits
  <2> QED BY <2>5, <2>6
<1> QED BY <1>1, SocksInitInv, SocksNextInv, PTL DEF SocksSpec
-----------------------------------------------------------------------------
(* The Tor process *)

TorInv == /\ TorOwned
          /\ starts \in Nat /\ proc \in 0..starts /\ live \subseteq 1..starts
          /\ program \in {"starting", "running", "ended", "crashed", "segv"}
          /\ program = "starting" => proc = 0 /\ ~event
          /\ event \in BOOLEAN /\ ready \in BOOLEAN

LEMMA TorInitInv == TorInit => TorInv
<1> SUFFICES ASSUME TorInit PROVE TorInv
  OBVIOUS
<1>1. /\ program = "starting" /\ proc = 0 /\ starts = 0 /\ live = {}
      /\ event = FALSE /\ ready = FALSE
  BY DEF TorInit
<1>2. TorOwned
  BY <1>1 DEF TorOwned
<1>3. 0 \in 0..0 /\ 0 \in Nat
  OBVIOUS
<1> QED BY <1>1, <1>2, <1>3 DEF TorInv

\* Whoever calls app_tor_end for the only child leaves nothing behind.
LEMMA TorEndInv ==
  ASSUME NEW c, NEW children, children \subseteq {c}, TorEnd(c, children), starts' \in Nat,
         program' \in {"running", "ended", "segv"}
  PROVE  TorInv'
<1>1. ready' = FALSE /\ event' = FALSE /\ proc' = 0 /\ live' = {}
  BY DEF TorEnd
<1>2. TorOwned'
  BY <1>1 DEF TorOwned
<1>3. 0 \in 0..starts'
  OBVIOUS
<1> QED BY <1>1, <1>2, <1>3 DEF TorInv

\* An attempt to start Tor while no child is owned: a child that cannot be used is ended.
LEMMA TorStartInv ==
  ASSUME TorInv, TorStart, proc = 0, program \in {"starting", "running"} PROVE TorInv'
<1>1. live = {} /\ ~event /\ ~ready
  BY DEF TorInv, TorOwned
<1>2. CASE StartFails
  <2>1. CASE mode.mailbox
    BY <1>1, <1>2, <2>1 DEF StartFails, TorErr, Crash, TorInv, TorOwned
  <2>2. CASE ~mode.mailbox
    <3>1. starts' \in Nat /\ TorEnd(proc, live) /\ program' = "running"
      BY <1>2, <2>2 DEF StartFails, TorErr, TorInv
    <3> QED BY <1>1, <3>1, TorEndInv
  <2> QED BY <2>1, <2>2
<1> PICK n : n = starts + 1
  OBVIOUS
<1>3. n \in Nat /\ n # 0 /\ n \in 0..n /\ n \in 1..n
  BY DEF TorInv
<1>4. CASE Started
  <2>1. /\ starts' = n /\ proc' = n /\ live' = {n} /\ event' = TRUE /\ ready' = ready
        /\ program' = "running"
    BY <1>1, <1>4 DEF Started
  <2>2. TorOwned'
    BY <1>1, <1>3, <2>1 DEF TorOwned
  <2> QED BY <1>1, <1>3, <2>1, <2>2 DEF TorInv
<1>5. CASE StartedInVain
  <2>1. starts' = n /\ TorErr(n, {n})
    BY <1>1, <1>5 DEF StartedInVain
  <2>2. CASE mode.mailbox
    <3>1. program' = "crashed" /\ proc' = n /\ live' = {n} /\ event' = event /\ ready' = ready
      BY <2>1, <2>2 DEF TorErr, Crash
    <3>2. TorOwned'
      BY <1>1, <1>3, <3>1 DEF TorOwned
    <3> QED BY <1>1, <1>3, <2>1, <3>1, <3>2 DEF TorInv
  <2>3. CASE ~mode.mailbox
    <3>1. TorEnd(n, {n}) /\ program' = "running"
      BY <2>1, <2>3 DEF TorErr
    <3> QED BY <1>3, <2>1, <3>1, TorEndInv
  <2> QED BY <2>2, <2>3
<1> QED BY <1>2, <1>4, <1>5 DEF TorStart

LEMMA TorNextInv == TorInv /\ [TorNext]_tvars => TorInv'
<1> SUFFICES ASSUME TorInv, [TorNext]_tvars PROVE TorInv'
  OBVIOUS
<1>1. CASE AppStart
  <2>1. proc = 0 /\ ~event
    BY <1>1 DEF AppStart, TorInv
  <2>2. CASE mode.manual
    BY <1>1, <2>1, <2>2 DEF AppStart, TorInv, TorOwned
  <2>3. CASE ~mode.manual
    BY <1>1, <2>1, <2>3, TorStartInv DEF AppStart
  <2> QED BY <2>2, <2>3
<1>2. CASE CommandTor
  BY <1>2, TorStartInv DEF CommandTor
<1>3. CASE Output
  BY <1>3 DEF Output, TorInv, TorOwned
<1>4. CASE ReadError
  <2>1. CASE mode.mailbox
    BY <1>4, <2>1 DEF ReadError, Crash, TorInv, TorOwned
  <2>2. CASE ~mode.mailbox
    <3>1. /\ TorEnd(proc, live) /\ program' = "segv" /\ starts' \in Nat
          /\ live \subseteq {proc}
      BY <1>4, <2>2 DEF ReadError, TorInv, TorOwned
    <3> QED BY <3>1, TorEndInv
  <2> QED BY <2>1, <2>2
<1>5. CASE AppEnd
  <2>1. /\ TorEnd(proc, live) /\ program' = "ended" /\ starts' \in Nat
        /\ live \subseteq {proc}
    BY <1>5 DEF AppEnd, TorInv, TorOwned
  <2> QED BY <2>1, TorEndInv
<1>6. CASE CrashElsewhere
  BY <1>6 DEF CrashElsewhere, Crash, TorInv, TorOwned
<1>7. CASE TorPrints
  BY <1>7 DEF TorPrints, TorInv, TorOwned
<1>8. CASE TorExits
  BY <1>8 DEF TorExits, TorInv, TorOwned
<1>9. CASE UNCHANGED tvars
  BY <1>9 DEF tvars, TorInv, TorOwned
<1> QED BY <1>1, <1>2, <1>3, <1>4, <1>5, <1>6, <1>7, <1>8, <1>9 DEF TorNext

\* Unless it crashed, the program runs at most the child it owns, and none after it has ended;
\* it waits for output, and thinks Tor ready, only with a child to own (app_tor.c).
THEOREM TorAlwaysOwned == TorSpec => []TorOwned
<1>1. TorInv => TorOwned
  BY DEF TorInv
<1> QED BY <1>1, TorInitInv, TorNextInv, PTL DEF TorSpec
-----------------------------------------------------------------------------
(* The prompt *)

\* Nothing is known of the positions until the prompt is cleared.
PromptInv == /\ width \in Widths /\ cleared \in BOOLEAN
             /\ cleared => chCursor \in Nat /\ bufferLen \in Nat /\ displayStart \in Nat
             /\ PromptInRange

\* Wherever the text was drawn from, it is drawn so that the cursor is seen and no more of the
\* window stays empty than must.
LEMMA ScrolledShows ==
  ASSUME NEW start \in Nat, NEW len \in Nat, NEW cursor \in 0..len, width \in Nat
  PROVE  LET s == Scrolled(start, cursor, len)
         IN  s \in Nat /\ s <= cursor /\ cursor <= s + width /\ (len > width => s + width <= len)
BY DEF Scrolled

LEMMA PlacedInv ==
  ASSUME PromptInv, NEW start \in Nat, NEW len \in 0..Room, NEW cursor \in 0..len,
         Placed(start, cursor, len), cleared' \in BOOLEAN
  PROVE  PromptInv'
<1>1. width \in Nat /\ Room \in Nat
  BY SizesAssumption DEF PromptInv
<1> PICK s : s = Scrolled(start, cursor, len)
  OBVIOUS
<1>2. s \in Nat /\ s <= cursor /\ cursor <= s + width /\ (len > width => s + width <= len)
  BY <1>1, ScrolledShows
<1>3. chCursor' = cursor /\ bufferLen' = len /\ displayStart' = s /\ width' = width
  BY DEF Placed
<1>4. PromptInRange'
  BY <1>1, <1>2, <1>3 DEF PromptInRange
<1> QED BY <1>1, <1>2, <1>3, <1>4 DEF PromptInv

\* A key in a prompt that was cleared.
LEMMA TypedInv ==
  ASSUME PromptInv, NEW start \in Nat, NEW len \in 0..Room, NEW cursor \in 0..len,
         Typed(start, cursor, len)
  PROVE  PromptInv'
BY PlacedInv DEF Typed, PromptInv

LEMMA ClearInv == ASSUME PromptInv, Clear PROVE PromptInv'
<1>1. 0 \in Nat /\ 0 \in 0..Room /\ 0 \in 0..0
  BY SizesAssumption
<1> QED BY <1>1, PlacedInv DEF Clear

LEMMA KeysKeepLogger == PromptNext => UNCHANGED logger
BY DEF PromptNext, Insert, Backspace, Delete, Left, Right, Home, End, Clear, Other, ResizePrompt,
       Typed, Placed

\* Keys in a prompt that was never cleared: anything may come of the positions.
LEMMA UnclearedInv == ASSUME PromptInv, PromptNext, ~cleared, ~Clear PROVE PromptInv'
<1>1. cleared' = cleared /\ width' \in Widths
  BY DEF PromptInv, PromptNext, Insert, Backspace, Delete, Left, Right, Home, End, Other,
         ResizePrompt, Typed, Placed
<1> QED BY <1>1 DEF PromptInv, PromptInRange

LEMMA ClearedInv == ASSUME PromptInv, PromptNext, cleared, ~Clear PROVE PromptInv'
<1>1. /\ chCursor \in Nat /\ bufferLen \in Nat /\ displayStart \in Nat /\ Room \in Nat
      /\ chCursor <= bufferLen /\ bufferLen <= Room
  BY SizesAssumption DEF PromptInv, PromptInRange
<1>2. CASE Insert
  <2>1. PICK n \in {0, 1} : n = IF bufferLen < Room THEN 1 ELSE 0
    OBVIOUS
  <2>2. Typed(displayStart, chCursor + n, bufferLen + n)
    BY <1>2, <2>1 DEF Insert
  <2>3. bufferLen + n \in 0..Room /\ chCursor + n \in 0..bufferLen + n
    BY <1>1, <2>1
  <2> QED BY <1>1, <2>2, <2>3, TypedInv
<1>3. CASE Backspace
  <2>1. bufferLen - 1 \in 0..Room /\ chCursor - 1 \in 0..bufferLen - 1
    BY <1>1, <1>3 DEF Backspace
  <2> QED BY <1>1, <1>3, <2>1, TypedInv DEF Backspace
<1>4. CASE Delete
  <2>1. bufferLen - 1 \in 0..Room /\ chCursor \in 0..bufferLen - 1
    BY <1>1, <1>4 DEF Delete
  <2> QED BY <1>1, <1>4, <2>1, TypedInv DEF Delete
<1>5. CASE Left
  <2>1. bufferLen \in 0..Room /\ chCursor - 1 \in 0..bufferLen
    BY <1>1, <1>5 DEF Left
  <2> QED BY <1>1, <1>5, <2>1, TypedInv DEF Left
<1>6. CASE Right
  <2>1. bufferLen \in 0..Room /\ chCursor + 1 \in 0..bufferLen
    BY <1>1, <1>6 DEF Right
  <2> QED BY <1>1, <1>6, <2>1, TypedInv DEF Right
<1>7. CASE Home \/ End \/ Other
  <2>1. /\ bufferLen \in 0..Room /\ 0 \in 0..bufferLen /\ 0 \in Nat
        /\ bufferLen \in 0..bufferLen /\ chCursor \in 0..bufferLen
    BY <1>1
  <2> QED BY <1>1, <1>7, <2>1, TypedInv DEF Home, End, Other
<1>8. CASE ResizePrompt
  BY <1>8 DEF ResizePrompt, PromptInv, PromptInRange
<1> QED BY <1>2, <1>3, <1>4, <1>5, <1>6, <1>7, <1>8 DEF PromptNext

LEMMA PromptNextInv == ASSUME PromptInv, PromptNext PROVE PromptInv' /\ UNCHANGED logger
BY ClearInv, UnclearedInv, ClearedInv, KeysKeepLogger
-----------------------------------------------------------------------------
(* The log *)

LoggerInv == /\ lineSizes \in Seq(Nat) /\ cols \in Cols /\ winRows \in Rows /\ iWrap \in Int
             /\ iLine \in Int /\ stale \in BOOLEAN /\ LoggerInRange

LEMMA WrapsPositive == \A n \in Nat, c \in Nat \ {0} : Wraps(n, c) \in Nat /\ Wraps(n, c) > 0
<1> SUFFICES ASSUME NEW n \in Nat, NEW c \in Nat \ {0} PROVE Wraps(n, c) \in Nat /\ Wraps(n, c) > 0
  OBVIOUS
<1> PICK q : q = n \div c
  OBVIOUS
<1> PICK r : r = n % c
  OBVIOUS
<1>1. q \in Nat /\ r \in Nat
  <2>1. n \div c \in Int /\ n \div c >= 0
    OBVIOUS
  <2>2. n % c \in Nat
    OBVIOUS
  <2> QED BY <2>1, <2>2
<1>2. (q = 0 /\ r = 0) => n = 0
  OBVIOUS
<1>3. Wraps(n, c) = (IF n = 0 THEN 1 ELSE 0) + q + (IF r # 0 THEN 1 ELSE 0)
  BY DEF Wraps
<1> QED BY <1>1, <1>2, <1>3

LEMMA LineSizePositive ==
  ASSUME LoggerInv, NEW i \in 0..Size - 1 PROVE LineSize(i) \in Nat /\ LineSize(i) > 0
<1>1. lineSizes[i + 1] \in Nat /\ cols \in Nat \ {0}
  BY SizesAssumption DEF LoggerInv, Size
<1> QED BY <1>1, WrapsPositive DEF LineSize

\* The end of a log that has lines is a part of its last line.
LEMMA AtEndInv ==
  ASSUME NEW sizes \in Seq(Nat), sizes # <<>>, NEW c \in Cols, AtEnd(sizes, c),
         lineSizes' = sizes, cols' = c, winRows' \in Rows
  PROVE  LoggerInv'
<1> PICK n : n = Len(sizes)
  OBVIOUS
<1>1. n \in Nat /\ n > 0 /\ sizes[n] \in Nat /\ Last(sizes) = sizes[n]
  BY DEF Last
<1> PICK w : w = Wraps(sizes[n], c)
  OBVIOUS
<1>2. w \in Nat /\ w > 0
  BY <1>1, WrapsPositive, SizesAssumption
<1>3. iLine' = n - 1 /\ iWrap' = w - 1 /\ stale' = FALSE
  BY <1>1 DEF AtEnd
<1>4. Size' = n /\ LineSize(n - 1)' = w
  <2>1. n - 1 + 1 = n
    BY <1>1
  <2> QED BY <2>1 DEF Size, LineSize
<1>5. n - 1 \in 0..n - 1 /\ w - 1 \in 0..w - 1 /\ n - 1 \in Int /\ w - 1 \in Int
  BY <1>1, <1>2
<1>6. LoggerInRange'
  BY <1>3, <1>4, <1>5 DEF LoggerInRange
<1> QED BY <1>3, <1>5, <1>6 DEF LoggerInv

LEMMA LoggerFacts ==
  ASSUME LoggerInv
  PROVE  /\ Size \in Nat /\ lineSizes \in Seq(Nat) /\ cols \in Cols /\ winRows \in Rows
         /\ winRows \in Nat /\ winRows > 0 /\ cols \in Nat /\ cols > 0
BY SizesAssumption DEF LoggerInv, Size

\* The sizes an action chooses a log or an addition to it from.
LEMMA BoundedSizes ==
  ASSUME NEW m \in Nat, NEW sizes \in BoundedSeq(LineSizes, m) \ {<<>>}
  PROVE  sizes \in Seq(Nat) /\ sizes # <<>>
<1>1. PICK k \in 0..m : sizes \in [1..k -> LineSizes]
  BY DEF BoundedSeq, SeqOf
<1>2. LineSizes \subseteq Nat /\ sizes # <<>>
  BY SizesAssumption
<1>3. sizes \in [1..k -> Nat]
  BY <1>1, <1>2
<1> QED BY <1>2, <1>3

LEMMA LogInv == ASSUME LoggerInv, Log PROVE LoggerInv'
<1>1. PICK sizes \in BoundedSeq(LineSizes, 2) \ {<<>>} :
        lineSizes' = lineSizes \o sizes /\ AtEnd(lineSizes', cols)
  BY DEF Log
<1>2. sizes \in Seq(Nat) /\ sizes # <<>>
  BY BoundedSizes
<1> PICK t : t = lineSizes \o sizes
  OBVIOUS
<1>3. t \in Seq(Nat) /\ t # <<>>
  BY <1>2, LoggerFacts
<1>4. cols' = cols /\ winRows' = winRows
  BY DEF Log
<1> QED BY <1>1, <1>3, <1>4, LoggerFacts, AtEndInv

\* Other lines under a kept position: it is still one of them.
LEMMA ChatRefreshInv == ASSUME LoggerInv, NEW keep \in BOOLEAN, ChatRefresh(keep) PROVE LoggerInv'
<1>1. PICK sizes \in BoundedSeq(LineSizes, MaxLines) \ {<<>>} :
        /\ keep => Len(sizes) >= Size
        /\ lineSizes' = sizes
        /\ IF keep /\ Size > 0
           THEN /\ stale' = (stale \/ \E i \in 1..Size : sizes[i] # lineSizes[i])
                /\ UNCHANGED <<iLine, iWrap>>
           ELSE AtEnd(sizes, cols)
  BY DEF ChatRefresh
<1>2. sizes \in Seq(Nat) /\ sizes # <<>>
  BY BoundedSizes, SizesAssumption
<1>3. cols' = cols /\ winRows' = winRows
  BY DEF ChatRefresh
<1>4. CASE ~(keep /\ Size > 0)
  BY <1>1, <1>2, <1>3, <1>4, LoggerFacts, AtEndInv
<1>5. CASE keep /\ Size > 0
  <2>1. /\ stale' = (stale \/ \E i \in 1..Size : sizes[i] # lineSizes[i])
        /\ UNCHANGED <<iLine, iWrap>> /\ Size' = Len(sizes) /\ Len(sizes) >= Size
    BY <1>1, <1>5 DEF Size
  <2>2. Size \in Nat /\ Len(sizes) \in Nat /\ iLine \in 0..Size - 1
    BY <1>2, <1>5, LoggerFacts DEF LoggerInv, LoggerInRange
  <2>3. iLine' \in 0..Size' - 1
    BY <2>1, <2>2
  <2>4. ASSUME ~stale' PROVE iWrap' \in 0..LineSize(iLine)' - 1
    <3>1. ~stale /\ \A i \in 1..Size : sizes[i] = lineSizes[i]
      BY <2>1, <2>4
    <3>2. iLine + 1 \in 1..Size
      BY <2>2
    <3>3. LineSize(iLine)' = LineSize(iLine)
      BY <1>1, <1>3, <2>1, <3>1, <3>2 DEF LineSize
    <3> QED BY <1>5, <2>1, <3>1, <3>3 DEF LoggerInv, LoggerInRange
  <2>5. LoggerInRange'
    BY <2>3, <2>4 DEF LoggerInRange
  <2>6. stale' \in BOOLEAN
    BY <2>1
  <2> QED BY <1>1, <1>2, <1>3, <2>1, <2>5, <2>6 DEF LoggerInv
<1> QED BY <1>4, <1>5

\* In a log with lines the loops of KEY_UP pass the first part of the first line, so that the
\* position is not moved in front of it.
LEMMA StopsInside ==
  ASSUME LoggerInv, Size > 0, NEW stop \in Stops
  PROVE  stop[1] \in Nat /\ stop[1] > 0 /\ stop[2] \in Nat /\ stop[2] > 0
<1>0. PICK n \in 1..Size : stop \in {<<n, c[n] - c[n - 1]>> : c \in Counts(n)}
  BY DEF Stops
<1>1. PICK c \in Counts(n) : stop = <<n, c[n] - c[n - 1]>>
  BY <1>0
<1>2. /\ c[n - 1] < winRows /\ c[n] - c[n - 1] \in StopWraps(c[n - 1])
      /\ c \in [0..n -> 0..winRows] /\ n \in Nat /\ n > 0
  BY LoggerFacts DEF Counts
<1> PICK k : k = c[n - 1]
  OBVIOUS
<1> PICK w : w = c[n] - c[n - 1]
  OBVIOUS
<1>3. k \in 0..winRows /\ k < winRows /\ w \in StopWraps(k)
  BY <1>2
<1>4. w \in 0..winRows - k /\ (w < Size /\ w < winRows - k => w >= LineSize(w))
  BY <1>3 DEF StopWraps
<1>5. LineSize(0) \in Nat /\ LineSize(0) > 0
  BY LoggerFacts, LineSizePositive
<1>6. w # 0
  <2> SUFFICES ASSUME w = 0 PROVE FALSE
    OBVIOUS
  <2>1. w < Size /\ w < winRows - k
    BY <1>3, LoggerFacts
  <2> QED BY <1>4, <1>5, <2>1
<1>7. w \in Nat
  BY <1>3, <1>4, LoggerFacts
<1> QED BY <1>1, <1>2, <1>6, <1>7

LEMMA LoggerUpInv == ASSUME LoggerInv, LoggerUp PROVE LoggerInv'
<1>1. PICK stop \in Stops : (iLine >= stop[1] \/ iWrap >= stop[2]) /\ PartUp(iLine, iWrap)
  BY DEF LoggerUp
<1>2. UNCHANGED <<lineSizes, cols, winRows, stale>> /\ Size > 0 /\ Size' = Size
  BY DEF LoggerUp, Size
<1>3. /\ stop[1] \in Nat /\ stop[1] > 0 /\ stop[2] \in Nat /\ stop[2] > 0
      /\ Size \in Nat /\ iLine \in 0..Size - 1 /\ iWrap \in Int
  BY <1>2, StopsInside, LoggerFacts DEF LoggerInv, LoggerInRange
<1>4. \A i : LineSize(i)' = LineSize(i)
  BY <1>2 DEF LineSize
<1>5. CASE iWrap > 0
  <2>1. iWrap' = iWrap - 1 /\ iLine' = iLine
    BY <1>1, <1>5 DEF PartUp
  <2>2. LineSize(iLine) \in Nat /\ LineSize(iLine') = LineSize(iLine)
    BY <1>3, <2>1, LineSizePositive
  <2>3. ~stale => iWrap \in 0..LineSize(iLine) - 1
    BY <1>2 DEF LoggerInv, LoggerInRange
  <2>4. ~stale' => iWrap' \in 0..LineSize(iLine) - 1
    BY <1>2, <1>5, <2>1, <2>2, <2>3
  <2>5. LoggerInRange'
    BY <1>2, <1>3, <1>4, <2>1, <2>2, <2>4 DEF LoggerInRange
  <2> QED BY <1>2, <1>3, <2>1, <2>5 DEF LoggerInv
<1>6. CASE ~(iWrap > 0)
  <2>1. iLine > 0
    BY <1>1, <1>3, <1>6
  <2>2. iLine' = iLine - 1 /\ iWrap' = LineSize(iLine - 1) - 1
    BY <1>1, <1>6 DEF PartUp
  <2>3. iLine - 1 \in 0..Size - 1
    BY <1>3, <2>1
  <2>4. LineSize(iLine - 1) \in Nat /\ LineSize(iLine - 1) > 0
    BY <2>3, LineSizePositive
  <2>5. LineSize(iLine - 1) - 1 \in 0..LineSize(iLine - 1) - 1
    BY <2>4
  <2>6. LineSize(iLine)' = LineSize(iLine - 1)
    BY <1>2, <2>2 DEF LineSize
  <2>7. LoggerInRange'
    BY <1>2, <2>2, <2>3, <2>5, <2>6 DEF LoggerInRange
  <2>8. iLine' \in Int /\ iWrap' \in Int
    BY <2>2, <2>3, <2>4
  <2> QED BY <1>2, <2>7, <2>8 DEF LoggerInv
<1> QED BY <1>5, <1>6

LEMMA LoggerDownInv == ASSUME LoggerInv, LoggerDown PROVE LoggerInv'
<1>1. UNCHANGED <<lineSizes, cols, winRows, stale>> /\ Size > 0 /\ Size' = Size
  BY DEF LoggerDown, Size
<1>2. Size \in Nat /\ iLine \in 0..Size - 1 /\ iWrap \in Int
  BY <1>1, LoggerFacts DEF LoggerInv, LoggerInRange
<1>3. \A i : LineSize(i)' = LineSize(i)
  BY <1>1 DEF LineSize
<1>4. LineSize(iLine) \in Nat /\ (~stale => iWrap \in 0..LineSize(iLine) - 1)
  BY <1>1, <1>2, LineSizePositive DEF LoggerInv, LoggerInRange
<1>5. CASE iWrap < LineSize(iLine) - 1
  <2>1. iWrap' = iWrap + 1 /\ iLine' = iLine
    BY <1>5 DEF LoggerDown
  <2>2. ~stale' => iWrap' \in 0..LineSize(iLine) - 1
    BY <1>1, <1>2, <1>4, <1>5, <2>1
  <2>3. LineSize(iLine)' = LineSize(iLine)
    BY <1>1, <2>1 DEF LineSize
  <2>4. LoggerInRange'
    BY <1>1, <1>2, <2>1, <2>2, <2>3 DEF LoggerInRange
  <2> QED BY <1>1, <1>2, <2>1, <2>4 DEF LoggerInv
<1>6. CASE ~(iWrap < LineSize(iLine) - 1)
  <2>1. iWrap' = 0 /\ iLine' = iLine + 1 /\ (iLine < Size - 1 \/ iWrap < LineSize(Size - 1) - 1)
    BY <1>6 DEF LoggerDown
  <2>2. iLine # Size - 1 \/ iLine < Size - 1
    BY <1>6, <2>1
  <2>3. iLine + 1 \in 0..Size - 1
    BY <1>2, <2>2
  <2>4. LineSize(iLine + 1) \in Nat /\ LineSize(iLine + 1) > 0
    BY <2>3, LineSizePositive
  <2>5. LineSize(iLine)' = LineSize(iLine + 1)
    BY <1>1, <2>1 DEF LineSize
  <2>6. 0 \in 0..LineSize(iLine + 1) - 1
    BY <2>4
  <2>7. LoggerInRange'
    BY <1>1, <2>1, <2>3, <2>5, <2>6 DEF LoggerInRange
  <2> QED BY <1>1, <1>2, <2>1, <2>7 DEF LoggerInv
<1> QED BY <1>5, <1>6

LEMMA ResizeLoggerInv == ASSUME LoggerInv, ResizeLogger PROVE LoggerInv'
<1>1. PICK c \in Cols, r \in Rows :
        /\ cols' = c /\ winRows' = r
        /\ IF attached /\ Size > 0 THEN AtEnd(lineSizes, c)
           ELSE IF attached THEN iLine' = 0 /\ iWrap' = 0 /\ UNCHANGED stale
           ELSE stale' = (stale \/ (Size > 0 /\ c # cols)) /\ UNCHANGED <<iLine, iWrap>>
  BY DEF ResizeLogger
<1>2. lineSizes' = lineSizes /\ Size' = Size /\ Size \in Nat /\ lineSizes \in Seq(Nat)
  BY LoggerFacts DEF ResizeLogger, Size
<1>3. CASE attached /\ Size > 0
  <2>1. lineSizes # <<>>
    BY <1>2, <1>3 DEF Size
  <2>2. AtEnd(lineSizes, c)
    BY <1>1, <1>3
  <2> QED BY <1>1, <1>2, <2>1, <2>2, AtEndInv
<1>4. CASE attached /\ ~(Size > 0)
  BY <1>1, <1>2, <1>4 DEF LoggerInv, LoggerInRange
<1>5. CASE ~attached
  <2>1. stale' = (stale \/ (Size > 0 /\ c # cols)) /\ UNCHANGED <<iLine, iWrap>>
    BY <1>1, <1>5
  <2>2. ASSUME Size > 0, ~stale' PROVE iWrap' \in 0..LineSize(iLine)' - 1
    <3>1. ~stale /\ cols' = cols
      BY <1>1, <2>1, <2>2
    <3>2. LineSize(iLine)' = LineSize(iLine)
      BY <1>2, <2>1, <3>1 DEF LineSize
    <3> QED BY <2>1, <2>2, <3>1, <3>2 DEF LoggerInv, LoggerInRange
  <2>3. LoggerInRange'
    BY <1>2, <2>1, <2>2 DEF LoggerInv, LoggerInRange
  <2>4. stale' \in BOOLEAN
    BY <2>1
  <2> QED BY <1>1, <1>2, <2>1, <2>3, <2>4 DEF LoggerInv
<1> QED BY <1>3, <1>4, <1>5

LEMMA LoggerKept ==
  LoggerInv /\ UNCHANGED <<lineSizes, iLine, iWrap, cols, winRows, stale>> => LoggerInv'
BY DEF LoggerInv, LoggerInRange, LineSize, Size

LEMMA LoggerNextInv == ASSUME LoggerInv, LoggerNext PROVE LoggerInv'
<1>1. CASE LoggerKeyEmpty
  BY <1>1, SizesAssumption DEF LoggerKeyEmpty, LoggerInv, LoggerInRange, Size
<1>2. CASE Attach
  BY <1>2, LoggerKept DEF Attach
<1> QED BY <1>1, <1>2, LogInv, ChatRefreshInv, LoggerUpInv, LoggerDownInv, ResizeLoggerInv
       DEF LoggerNext

WidgetsInv == PromptInv /\ LoggerInv

LEMMA WidgetsInitInv == WidgetsInit => WidgetsInv
<1> SUFFICES ASSUME WidgetsInit PROVE WidgetsInv
  OBVIOUS
<1>1. PromptInv
  BY SizesAssumption DEF WidgetsInit, PromptInit, PromptInv, PromptInRange
<1>2. /\ lineSizes = <<>> /\ iLine = 0 /\ iWrap = 0 /\ cols \in Cols /\ winRows \in Rows
      /\ stale = FALSE
  BY DEF WidgetsInit, LoggerInit
<1>3. Size = 0 /\ lineSizes \in Seq(Nat)
  BY <1>2 DEF Size
<1>4. LoggerInv
  <2>1. LoggerInRange
    BY <1>3 DEF LoggerInRange
  <2>2. 0 \in Int /\ FALSE \in BOOLEAN
    OBVIOUS
  <2> QED BY <1>2, <1>3, <2>1, <2>2 DEF LoggerInv
<1> QED BY <1>1, <1>4 DEF WidgetsInv

LEMMA WidgetsNextInv == WidgetsInv /\ [WidgetsNext]_wvars => WidgetsInv'
<1> SUFFICES ASSUME WidgetsInv, [WidgetsNext]_wvars PROVE WidgetsInv'
  OBVIOUS
<1>1. CASE PromptNext
  BY <1>1, PromptNextInv, LoggerKept DEF WidgetsInv, logger
<1>2. CASE LoggerNext
  <2>1. UNCHANGED prompt
    BY <1>2 DEF LoggerNext, Log, ChatRefresh, LoggerUp, LoggerKeyEmpty, LoggerDown, ResizeLogger,
                Attach
  <2>2. PromptInv'
    BY <2>1 DEF WidgetsInv, PromptInv, PromptInRange, prompt
  <2> QED BY <1>2, <2>2, LoggerNextInv DEF WidgetsInv
<1>3. CASE UNCHANGED wvars
  BY <1>3, LoggerKept DEF wvars, prompt, logger, WidgetsInv, PromptInv, PromptInRange
<1> QED BY <1>1, <1>2, <1>3 DEF WidgetsNext

\* Once it was cleared the prompt shows its cursor after any key, and a log with lines starts
\* drawing inside one of them, for any text, any log, any window, and whatever the fields that
\* ui_prompt_new leaves alone hold at first (ui_prompt.c, ui_logger.c).
THEOREM WidgetsAlwaysInRange == WidgetsSpec => []WidgetsInRange
<1>1. WidgetsInv => WidgetsInRange
  BY DEF WidgetsInv, PromptInv, LoggerInv, WidgetsInRange
<1> QED BY <1>1, WidgetsInitInv, WidgetsNextInv, PTL DEF WidgetsSpec
=============================================================================
