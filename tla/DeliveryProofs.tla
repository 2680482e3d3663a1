---------------------------- MODULE DeliveryProofs ----------------------------
(***************************************************************************)
(* Types, ConfirmedIsStored, SentIsStored and the action properties of     *)
(* Delivery, for any number of messages, connections, lost connections,    *)
(* split containers and deaths.  What is known of a message lies with the  *)
(* connections: an answer that was sent means the message is at the        *)
(* acceptor, or being saved there, or lost between the answer and the      *)
(* save.  The second half proves that Delivery implements Mail, which      *)
(* hides the connections.                                                  *)
(***************************************************************************)
EXTENDS Delivery, LeastNumber, TLAPS

Counts == breaks \in 0..MaxBreaks /\ crashes \in 0..MaxCrashes /\ splits \in 0..MaxSplits

Shape ==
  /\ sDb \in [Gids -> SentStatus] /\ rDb \in [Gids -> RecvStatus]
  /\ copies \in [Gids -> Nat] /\ mCopies \in [Gids -> Nat]
  /\ listed \subseteq Gids /\ lost \subseteq {S, R, M} \X Gids
  /\ Counts

\* A connection handles, answers and takes answers in this order, and an open slot is idle.
ConnOK(c) ==
  /\ c \in Connection
  /\ c.got \subseteq c.sent /\ c.sent \subseteq c.handled /\ c.handled \subseteq c.reqs
  /\ c.flushed # NoReq => c.accUp /\ c.flushed \in c.sent
  /\ c.kind = "idle" => c.reqs = {} /\ ~c.accUp /\ ~c.iniUp
  /\ c.kind \in {"direct", "store"} => Fetch \notin c.reqs
  /\ c.kind = "pull" => c.reqs = {Fetch}

AtReceiver(g) == rDb[g] # "none" \/ Saving(R, g) \/ <<R, g>> \in lost
AtMailbox(g)  == mCopies[g] > 0 \/ Saving(M, g) \/ <<M, g>> \in lost

\* What the requests and answers of connection c say of the tables.
Means(c) ==
  /\ c.kind \in {"direct", "syncS"} => \A g \in c.sent \cap Gids : AtReceiver(g)
  /\ c.kind = "store" => \A g \in c.sent \cap Gids : AtMailbox(g)
  /\ c.kind = "store" => \A g \in Gids : c.seen[g] # "none" => mCopies[g] > 0
  /\ c.kind = "syncR" => \A g \in c.reqs \cap Gids : rDb[g] # "none"

ConnsOK == /\ conn = [s \in Slots |-> conn[s]]
           /\ \A s \in Slots : ConnOK(conn[s]) /\ Means(conn[s])

IInv == Shape /\ ConnsOK /\ ConfirmedIsStored /\ SentIsStored
-----------------------------------------------------------------------------
LEMMA FirstIn == ASSUME NEW T, T \subseteq 1..Fetch, T # {} PROVE First(T) \in T /\ First(T) \in 1..Fetch
<1>1. T \subseteq Nat \ {0}
  BY NumMsgsAssumption DEF Fetch
<1>2. \E i \in T : \A j \in T : i <= j
  BY <1>1, Least
<1> QED BY <1>2 DEF First

LEMMA Parties == /\ S \notin {R, M} /\ R # M
                 /\ \A k \in Kinds : Initiator(k) \in {S, R} /\ Acceptor(k) \in {S, R, M}
                 /\ Acceptor("direct") = R /\ Acceptor("syncS") = R /\ Acceptor("store") = M
                 /\ Acceptor("syncR") = S /\ Acceptor("pull") = M
                 /\ Fetch \notin Gids /\ NoReq \notin Gids /\ NoReq \notin 1..Fetch
                 /\ 1..Fetch = Gids \cup {Fetch} /\ Fetch \in 1..Fetch
  BY NumMsgsAssumption DEF S, R, M, Initiator, Acceptor, Kinds, Gids, Fetch, NoReq

LEMMA IdleOK == ConnOK(Idle) /\ Means(Idle) /\ Idle.kind = "idle" /\ Idle.flushed = NoReq /\ Idle.reqs = {}
<1>1. Idle \in Connection
  BY Parties, NumMsgsAssumption DEF Idle, Connection, RecvStatus, NoReq, Fetch
<1> QED BY <1>1 DEF ConnOK, Means, Idle

LEMMA IdleAlways == (ConnOK(Idle) /\ Means(Idle))'
<1>1. Idle \in Connection
  BY Parties, NumMsgsAssumption DEF Idle, Connection, RecvStatus, NoReq, Fetch
<1> QED BY <1>1 DEF ConnOK, Means, Idle

LEMMA OpenFields == ASSUME NEW kind \in Kinds, NEW reqs \in SUBSET (1..Fetch),
                           kind \in {"direct", "store"} => Fetch \notin reqs,
                           kind = "pull" => reqs = {Fetch}
                    PROVE  LET c == Open(kind, reqs)
                           IN  /\ ConnOK(c) /\ c.kind = kind /\ c.reqs = reqs /\ c.sent = {}
                               /\ c.flushed = NoReq /\ c.accUp /\ c.iniUp /\ \A g \in Gids : c.seen[g] = "none"
                               /\ c.list = {}
<1> DEFINE c == Open(kind, reqs)
<1>1. PICK x \in Connection : x = Idle
  BY IdleOK DEF ConnOK
<1>2. /\ x.handled = {} /\ x.sent = {} /\ x.got = {} /\ x.flushed = NoReq /\ x.list = {}
      /\ \A g \in Gids : x.seen[g] = "none"
  BY <1>1 DEF Idle
<1>3. c = [x EXCEPT !.kind = kind, !.reqs = reqs, !.iniUp = TRUE, !.accUp = TRUE]
  BY <1>1 DEF Open
<1> HIDE DEF c
<1>4. /\ c \in Connection /\ c.kind = kind /\ c.reqs = reqs /\ c.iniUp /\ c.accUp
      /\ c.handled = {} /\ c.sent = {} /\ c.got = {} /\ c.flushed = NoReq /\ c.list = {}
      /\ \A g \in Gids : c.seen[g] = "none"
  BY <1>2, <1>3 DEF Connection
<1>5. ConnOK(c)
  BY <1>4 DEF ConnOK, Kinds
<1> QED BY <1>4, <1>5 DEF c

\* What is known of a message stays known.
Advance ==
  /\ \A g \in Gids : /\ AtReceiver(g) => AtReceiver(g)'
                     /\ AtMailbox(g) => AtMailbox(g)'
                     /\ rDb[g] # "none" => rDb'[g] # "none"
                     /\ mCopies[g] > 0 => mCopies'[g] > 0
  /\ listed \subseteq listed'

LEMMA AdvanceMeans == ASSUME Advance, NEW c \in Connection, Means(c) PROVE Means(c)'
  BY DEF Advance, Means

\* A confirmed or sent message stays accounted for.
LEMMA AdvanceStored ==
  ASSUME IInv, Advance,
         \A g \in Gids : sDb'[g] = "SENT_CONFIRMED" =>
             sDb[g] = "SENT_CONFIRMED" \/ AtReceiver(g)' \/ g \in listed',
         \A g \in Gids : sDb'[g] = "SENT" => sDb[g] = "SENT" \/ AtMailbox(g)'
  PROVE  ConfirmedIsStored' /\ SentIsStored'
<1>1. ConfirmedIsStored'
  BY DEF IInv, ConfirmedIsStored, Advance, AtReceiver
<1>2. SentIsStored'
  BY DEF IInv, SentIsStored, Advance, AtMailbox
<1> QED BY <1>1, <1>2

\* Answers that are being saved stay so while no acceptor's callback or process is involved.
FlushedKept == \A s \in Slots : /\ conn[s].flushed # NoReq =>
                                     conn'[s].flushed = conn[s].flushed /\ conn'[s].kind = conn[s].kind

LEMMA FlushedAdvances == ASSUME FlushedKept, UNCHANGED mCopies, lost \subseteq lost', listed \subseteq listed',
                                \A g \in Gids : rDb[g] # "none" => rDb'[g] # "none"
                         PROVE  Advance
<1>1. \A p, g : g \in Gids /\ Saving(p, g) => Saving(p, g)'
  BY Parties DEF FlushedKept, Saving
<1> QED BY <1>1 DEF Advance, AtReceiver, AtMailbox

\* Slot s gets connection d, and the others stay.
LEMMA SlotSet ==
  ASSUME IInv, Advance, NEW s \in Slots, NEW d, conn' = [conn EXCEPT ![s] = d],
         ConnOK(d), Means(d)'
  PROVE  ConnsOK'
<1>1. conn'[s] = d /\ \A t \in Slots \ {s} : conn'[t] = conn[t]
  BY DEF IInv, ConnsOK
<1>2. conn' = [t \in Slots |-> conn'[t]]
  BY DEF IInv, ConnsOK
<1>3. ASSUME NEW t \in Slots PROVE ConnOK(conn[t])' /\ Means(conn[t])'
  <2>1. CASE t = s
    BY <1>1, <2>1 DEF ConnOK, Means
  <2>2. CASE t # s
    <3>1. ConnOK(conn[t]) /\ Means(conn[t]) /\ conn'[t] = conn[t] /\ conn[t] \in Connection
      BY <1>1, <2>2 DEF IInv, ConnsOK, ConnOK
    <3>2. PICK c \in Connection : c = conn[t]
      BY <3>1
    <3>3. Means(c)'
      BY <3>1, <3>2, AdvanceMeans
    <3> QED BY <3>1, <3>2, <3>3 DEF ConnOK, Means
  <2> QED BY <2>1, <2>2
<1> QED BY <1>2, <1>3 DEF ConnsOK
-----------------------------------------------------------------------------
(* Opening a connection *)

LEMMA OpenMeans == ASSUME NEW kind \in Kinds, NEW reqs \in SUBSET (1..Fetch),
                          kind \in {"direct", "store"} => Fetch \notin reqs,
                          kind = "pull" => reqs = {Fetch},
                          kind = "syncR" => \A g \in reqs \cap Gids : rDb'[g] # "none"
                   PROVE  ConnOK(Open(kind, reqs)) /\ Means(Open(kind, reqs))'
<1> DEFINE c == Open(kind, reqs)
<1>1. /\ ConnOK(c) /\ c.kind = kind /\ c.reqs = reqs /\ c.sent = {}
      /\ \A g \in Gids : c.seen[g] = "none"
  BY OpenFields
<1> HIDE DEF c
<1>2. Means(c)'
  BY <1>1 DEF Means
<1> QED BY <1>1, <1>2 DEF c

\* A step that opens a connection in a free slot.
LEMMA StartsInv ==
  ASSUME IInv, NEW kind \in Kinds, NEW reqs \in SUBSET (1..Fetch), Starts(conn, kind, reqs),
         kind \in {"direct", "store"} => Fetch \notin reqs,
         kind = "pull" => reqs = {Fetch},
         kind = "syncR" => \A g \in reqs \cap Gids : rDb[g] # "none",
         UNCHANGED <<rDb, mCopies, listed, lost>>
  PROVE  Advance /\ ConnsOK'
<1>1. PICK s \in Slots : conn[s] = Idle /\ conn' = [conn EXCEPT ![s] = Open(kind, reqs)]
  BY DEF Starts
<1>2. ConnOK(Open(kind, reqs)) /\ Means(Open(kind, reqs))'
  BY OpenMeans
<1>3. Advance
  <2>1. FlushedKept
    BY <1>1, IdleOK DEF FlushedKept, IInv, ConnsOK
  <2> QED BY <2>1, FlushedAdvances
<1> QED BY <1>1, <1>2, <1>3, SlotSet
-----------------------------------------------------------------------------
(* One lemma per action *)

LEMMA SlotOK == ASSUME IInv, NEW s \in Slots
                PROVE  /\ ConnOK(conn[s]) /\ Means(conn[s]) /\ conn[s] \in Connection
                       /\ conn[s].kind \in Kinds \cup {"idle"}
                       /\ conn[s].accUp \/ conn[s].iniUp => conn[s].kind \in Kinds
  BY DEF IInv, ConnsOK, ConnOK, Connection

LEMMA FreeSlot == ASSUME NEW s \in Slots, Free(Acceptor(conn[s].kind)) PROVE conn[s].flushed = NoReq
  BY DEF Free

\* Closing both ends gives the slot back.
LEMMA ReleaseOK == ASSUME NEW c, ConnOK(c), Means(c)'
                   PROVE  ConnOK(Release(c)) /\ Means(Release(c))'
                          /\ (c.flushed # NoReq => Release(c) = c)
<1>1. CASE c.iniUp \/ c.accUp
  BY <1>1 DEF Release
<1>2. CASE ~(c.iniUp \/ c.accUp)
  BY <1>2, IdleOK, IdleAlways DEF Release, ConnOK
<1> QED BY <1>1, <1>2

\* Slot s changes but no answer that is being saved, and no table.
LEMMA QuietInv ==
  ASSUME IInv, NEW s \in Slots, conn[s].flushed = NoReq, NEW d, conn' = [conn EXCEPT ![s] = d],
         ConnOK(d), Means(d)' \/ Means(d), UNCHANGED <<rDb, mCopies, listed, lost>>
  PROVE  Advance /\ ConnsOK'
<1>1. Advance
  <2>1. FlushedKept
    BY DEF FlushedKept, IInv, ConnsOK
  <2> QED BY <2>1, FlushedAdvances
<1>2. Means(d)'
  BY <1>1, AdvanceMeans DEF ConnOK
<1> QED BY <1>1, <1>2, SlotSet

LEMMA NothingWritten == ASSUME IInv, Advance, ConnsOK', UNCHANGED <<db, history>>,
                               Counts'
                        PROVE  IInv'
<1>1. Shape'
  BY DEF IInv, Shape, db, history
<1>2. ConfirmedIsStored' /\ SentIsStored'
  BY AdvanceStored DEF db, history
<1> QED BY <1>1, <1>2 DEF IInv

LEMMA HandleMsgInv == ASSUME IInv, NEW g \in Gids, NEW mbDirect \in BOOLEAN, HandleMsg(g, mbDirect)
                      PROVE  IInv'
<1>1. /\ UNCHANGED <<rDb, copies, mCopies, listed, lost, breaks, crashes, splits>>
      /\ sDb' = [sDb EXCEPT ![g] = "UNDELIVERED"]
  BY DEF HandleMsg, history, bounds
<1>2. {g} \in SUBSET (1..Fetch) /\ Fetch \notin {g}
  BY Parties
<1>3. Advance /\ ConnsOK'
  <2>1. CASE Starts(conn, "store", {g}) \/ Starts(conn, "direct", {g})
    BY <1>1, <1>2, <2>1, StartsInv DEF Kinds
  <2>2. CASE conn' = conn
    <3>1. Advance
      BY <1>1, <2>2 DEF Advance, AtReceiver, AtMailbox, Saving
    <3> QED BY <1>1, <2>2, <3>1, AdvanceMeans DEF IInv, ConnsOK, ConnOK, Means, AtReceiver, AtMailbox, Saving
  <2> QED BY <2>1, <2>2 DEF HandleMsg, SendMb
<1>4. Shape'
  BY <1>1 DEF IInv, Shape, Counts, SentStatus
<1>5. \A h \in Gids : sDb'[h] = sDb[h] \/ sDb'[h] = "UNDELIVERED"
  BY <1>1 DEF IInv, Shape
<1>6. ConfirmedIsStored' /\ SentIsStored'
  BY <1>3, <1>5, AdvanceStored
<1> QED BY <1>3, <1>4, <1>6 DEF IInv

LEMMA ContactSyncInv == ASSUME IInv, NEW p \in {S, R}, ContactSync(p) PROVE IInv'
<1>1. UNCHANGED <<db, history, bounds>> /\ UNCHANGED <<rDb, mCopies, listed, lost>>
  BY DEF ContactSync, db, history
<1>2. Undelivered \cup {Fetch} \in SUBSET (1..Fetch) /\ Unconfirmed \cup {Fetch} \in SUBSET (1..Fetch)
      /\ \A g \in (Unconfirmed \cup {Fetch}) \cap Gids : rDb[g] # "none"
  BY Parties DEF Undelivered, Unconfirmed
<1>3. Advance /\ ConnsOK'
  <2>1. CASE Starts(conn, "syncS", Undelivered \cup {Fetch})
    BY <1>1, <1>2, <2>1, StartsInv DEF Kinds
  <2>2. CASE Starts(conn, "syncR", Unconfirmed \cup {Fetch})
    BY <1>1, <1>2, <2>2, StartsInv DEF Kinds
  <2> QED BY <2>1, <2>2 DEF ContactSync
<1> QED BY <1>1, <1>3, NothingWritten DEF IInv, Shape, Counts, bounds

LEMMA MailboxSyncInv == ASSUME IInv, MailboxSync PROVE IInv'
<1>1. UNCHANGED <<db, history, bounds>> /\ UNCHANGED <<rDb, mCopies, listed, lost>>
  BY DEF MailboxSync, db, history
<1>2. {Fetch} \in SUBSET (1..Fetch)
  BY Parties
<1>3. Advance /\ ConnsOK'
  BY <1>1, <1>2, StartsInv DEF MailboxSync, Kinds
<1> QED BY <1>1, <1>3, NothingWritten DEF IInv, Shape, Counts, bounds

LEMMA HandleInv == ASSUME IInv, NEW s \in Slots, NEW split \in BOOLEAN, Handle(s, split) PROVE IInv'
<1> DEFINE c == conn[s]
           r == First(c.reqs \ c.handled)
           sn == IF c.kind \in {"direct", "syncS"} /\ r # Fetch
                 THEN [c.seen EXCEPT ![r] = rDb[r]] ELSE
                 IF c.kind = "store" /\ mCopies[r] > 0
                 THEN [c.seen EXCEPT ![r] = "RECV"] ELSE c.seen
           ls == IF r = Fetch THEN ListOf(c.kind) ELSE c.list
           fr == IF split THEN c.freed \cup {r} ELSE c.freed
           d == [c EXCEPT !.handled = c.handled \cup {r}, !.freed = fr, !.seen = sn, !.list = ls]
<1>1. /\ ConnOK(c) /\ Means(c) /\ c.accUp /\ c.flushed = NoReq
      /\ UNCHANGED <<db, history, breaks, crashes>> /\ UNCHANGED <<rDb, mCopies, listed, lost>>
  BY SlotOK, FreeSlot DEF Handle, db, history
<1>2. conn' = [conn EXCEPT ![s] = d]
  BY DEF Handle
<1>3. r \in c.reqs /\ r \in 1..Fetch
  <2>1. c.reqs \ c.handled # {} /\ c.reqs \ c.handled \subseteq 1..Fetch
    BY <1>1 DEF Handle, ConnOK, Connection
  <2> QED BY <2>1, FirstIn
<1>10. r \in Gids \/ ~split
  BY <1>3, Parties DEF Handle
<1> HIDE DEF r
<1>4. sn \in [Gids -> RecvStatus] /\ ls \in SUBSET Gids
      /\ (c.kind = "store" => \A g \in Gids : sn[g] # "none" => mCopies[g] > 0)
  <2>1. c.seen \in [Gids -> RecvStatus] /\ c.list \in SUBSET Gids /\ ListOf(c.kind) \in SUBSET Gids
    BY <1>1 DEF ConnOK, Connection, ListOf, Undelivered
  <2>2. rDb \in [Gids -> RecvStatus] /\ r \in Gids \cup {Fetch}
    BY <1>3, Parties DEF IInv, Shape
  <2>3. c.kind = "store" => r # Fetch
    BY <1>1, <1>3 DEF ConnOK
  <2>4. c.kind = "store" => \A g \in Gids : c.seen[g] # "none" => mCopies[g] > 0
    BY <1>1 DEF Means
  <2> QED BY <2>1, <2>2, <2>3, <2>4 DEF RecvStatus
<1>8. fr \in SUBSET Gids
  <2>2. c.freed \in SUBSET Gids
    BY <1>1 DEF ConnOK, Connection
  <2> QED BY <1>10, <2>2
<1>9. splits' \in 0..MaxSplits
  BY BoundsAssumption DEF Handle, IInv, Shape, Counts
<1> HIDE DEF sn, ls, fr
<1>5. /\ d \in Connection /\ d.kind = c.kind /\ d.reqs = c.reqs /\ d.sent = c.sent /\ d.got = c.got
      /\ d.flushed = c.flushed /\ d.accUp = c.accUp /\ d.iniUp = c.iniUp
      /\ d.handled = c.handled \cup {r} /\ d.seen = sn
  BY <1>1, <1>3, <1>4, <1>8 DEF ConnOK, Connection
<1> HIDE DEF d
<1>6. ConnOK(d) /\ Means(d)
  BY <1>1, <1>3, <1>4, <1>5 DEF ConnOK, Means
<1>7. Advance /\ ConnsOK'
  BY <1>1, <1>2, <1>6, QuietInv
<1> QED BY <1>1, <1>7, <1>9, NothingWritten DEF IInv, Shape, Counts

\* One end closes without any process being in a write callback.
LEMMA ClosedOK == ASSUME NEW c, ConnOK(c), Means(c), c.flushed = NoReq, NEW d,
                         d = [c EXCEPT !.accUp = FALSE] \/ d = [c EXCEPT !.iniUp = FALSE]
                  PROVE  ConnOK(d) /\ Means(d)
<1>1. /\ d \in Connection /\ d.kind = c.kind /\ d.reqs = c.reqs /\ d.sent = c.sent /\ d.got = c.got
      /\ d.flushed = NoReq /\ d.handled = c.handled /\ d.seen = c.seen
      /\ (~c.accUp => ~d.accUp) /\ (~c.iniUp => ~d.iniUp)
  BY DEF ConnOK, Connection
<1> QED BY <1>1 DEF ConnOK, Means

LEMMA ReleaseNow == ASSUME NEW c, ConnOK(c), Means(c) PROVE ConnOK(Release(c)) /\ Means(Release(c))
<1>1. CASE c.iniUp \/ c.accUp
  BY <1>1 DEF Release
<1>2. CASE ~(c.iniUp \/ c.accUp)
  BY <1>2, IdleOK DEF Release
<1> QED BY <1>1, <1>2

LEMMA AcceptorCloses == ASSUME IInv, NEW s \in Slots, conn[s].flushed = NoReq, NEW d,
                               d \in {Release([conn[s] EXCEPT !.accUp = FALSE]), [conn[s] EXCEPT !.accUp = FALSE]},
                               conn' = [conn EXCEPT ![s] = d],
                               UNCHANGED <<db, history>>,
                               Counts'
                        PROVE  IInv'
<1>1. ConnOK(conn[s]) /\ Means(conn[s])
  BY SlotOK
<1>2. ConnOK([conn[s] EXCEPT !.accUp = FALSE]) /\ Means([conn[s] EXCEPT !.accUp = FALSE])
  BY <1>1, ClosedOK
<1>3. ConnOK(d) /\ Means(d)
  BY <1>2, ReleaseNow
<1>4. Advance /\ ConnsOK'
  BY <1>3, QuietInv DEF db, history
<1> QED BY <1>4, NothingWritten

\* The answer for a message is out: from now on the acceptor is saving it.
LEMMA FlushInv == ASSUME IInv, NEW s \in Slots, Flush(s) PROVE IInv'
<1>1. PICK c \in Connection : c = conn[s]
  BY SlotOK
<1>2. /\ ConnOK(c) /\ Means(c) /\ c.accUp /\ c.flushed = NoReq /\ c.handled # c.sent
      /\ UNCHANGED <<db, history, bounds>> /\ UNCHANGED <<rDb, mCopies, listed, lost>>
  BY <1>1, SlotOK, FreeSlot DEF Flush, db, history
<1>3. PICK r \in 1..Fetch : r = First(c.handled \ c.sent) /\ r \in c.handled
  <2>1. c.handled \ c.sent # {} /\ c.handled \ c.sent \subseteq 1..Fetch
    BY <1>1, <1>2 DEF ConnOK, Connection
  <2> QED BY <2>1, FirstIn
<1>4. PICK z \in SUBSET (1..Fetch) : z = c.sent \cup {r}
  BY DEF Connection
<1>5. r \in 0..Fetch
  BY Parties, NumMsgsAssumption DEF Fetch
<1>6. PICK d : d = [c EXCEPT !.sent = z, !.flushed = r]
  OBVIOUS
<1>7. conn' = [conn EXCEPT ![s] = d]
  <2>1. conn' = [conn EXCEPT ![s].sent = @ \cup {r}, ![s].flushed = r]
    BY <1>1, <1>3 DEF Flush
  <2>2. DOMAIN conn = Slots
    BY DEF IInv, ConnsOK
  <2>3. \A t \in Slots : conn'[t] = IF t = s THEN d ELSE conn[t]
    BY <1>1, <1>6, <1>4, <2>1, <2>2 DEF Connection
  <2> QED BY <2>1, <2>2, <2>3
<1>8. /\ d \in Connection /\ d.kind = c.kind /\ d.reqs = c.reqs /\ d.got = c.got
      /\ d.sent = c.sent \cup {r} /\ d.flushed = r /\ d.accUp = c.accUp /\ d.iniUp = c.iniUp
      /\ d.handled = c.handled /\ d.seen = c.seen
  BY <1>6, <1>4, <1>5 DEF Connection
<1>9. ConnOK(d)
  BY <1>2, <1>3, <1>8, Parties DEF ConnOK
<1>10. conn'[s] = d
  BY <1>7 DEF IInv, ConnsOK
<1>11. Advance
  <2>1. FlushedKept
    BY <1>1, <1>2, <1>7 DEF FlushedKept, IInv, ConnsOK
  <2> QED BY <1>2, <2>1, FlushedAdvances
<1>12. Means(d)'
  <2>1. Means(c)'
    BY <1>2, <1>11, AdvanceMeans
  <2>2. d.kind \in {"direct", "syncS"} /\ r \in Gids => Saving(R, r)'
    BY <1>8, <1>10, Parties DEF Saving
  <2>3. d.kind = "store" /\ r \in Gids => Saving(M, r)'
    BY <1>8, <1>10, Parties DEF Saving
  <2>4. d.kind \in {"direct", "syncS"} => \A g \in d.sent \cap Gids : AtReceiver(g)'
    BY <1>8, <2>1, <2>2 DEF Means, AtReceiver
  <2>5. d.kind = "store" => \A g \in d.sent \cap Gids : AtMailbox(g)'
    BY <1>8, <2>1, <2>3 DEF Means, AtMailbox
  <2> QED BY <1>8, <2>1, <2>4, <2>5 DEF Means
<1>13. ConnsOK'
  BY <1>7, <1>9, <1>11, <1>12, SlotSet
<1> QED BY <1>2, <1>11, <1>13, NothingWritten DEF IInv, Shape, Counts, bounds

\* The message object of an answer goes with it.
Answered(c) == [c EXCEPT !.flushed = NoReq, !.freed = c.freed \ {c.flushed},
                         !.seen = [g \in Gids |-> IF g = c.flushed THEN "none" ELSE c.seen[g]]]

LEMMA AnsweredOK == ASSUME NEW c \in Connection, ConnOK(c), Means(c)
                    PROVE  LET d == Answered(c)
                           IN  ConnOK(d) /\ Means(d) /\ d.flushed = NoReq
<1>1. PICK sn \in [Gids -> RecvStatus] : sn = [g \in Gids |-> IF g = c.flushed THEN "none" ELSE c.seen[g]]
  <2>1. c.seen \in [Gids -> RecvStatus] /\ "none" \in RecvStatus
    BY DEF Connection, RecvStatus
  <2> QED BY <2>1
<1>2. \A g \in Gids : sn[g] # "none" => c.seen[g] # "none"
  BY <1>1
<1>3. NoReq \in 0..Fetch
  BY NumMsgsAssumption DEF NoReq, Fetch
<1>7. PICK fr \in SUBSET Gids : fr = c.freed \ {c.flushed}
  BY DEF Connection
<1>4. PICK d : d = [c EXCEPT !.flushed = NoReq, !.freed = fr, !.seen = sn]
  OBVIOUS
<1>5. /\ d \in Connection /\ d.kind = c.kind /\ d.reqs = c.reqs /\ d.got = c.got
      /\ d.sent = c.sent /\ d.flushed = NoReq /\ d.accUp = c.accUp /\ d.iniUp = c.iniUp
      /\ d.handled = c.handled /\ d.seen = sn
  BY <1>4, <1>3 DEF Connection
<1>6. ConnOK(d) /\ Means(d)
  BY <1>5, <1>2 DEF ConnOK, Means
<1> QED BY <1>1, <1>4, <1>5, <1>6, <1>7 DEF Answered

LEMMA ObjectGoneSlots ==
  ASSUME IInv, NEW s \in Slots, NEW c \in Connection, c = conn[s], ObjectGone(s), NEW d, d = Answered(c)
  PROVE  /\ conn' = [conn EXCEPT ![s] = d]
         /\ conn'[s] = d /\ \A t \in Slots \ {s} : conn'[t] = conn[t]
<1>1. conn' = [conn EXCEPT ![s].flushed = NoReq,
                           ![s].freed = @ \ {conn[s].flushed},
                           ![s].seen = [g \in Gids |-> IF g = conn[s].flushed THEN "none" ELSE @[g]]]
  BY DEF ObjectGone
<1>2. DOMAIN conn = Slots
  BY DEF IInv, ConnsOK
<1>3. \A t \in Slots : conn'[t] = IF t = s THEN d ELSE conn[t]
  BY <1>1, <1>2 DEF Connection, Answered
<1> QED BY <1>1, <1>2, <1>3

\* What the save of an answer may do to the tables.
Effect(c, r) ==
  /\ listed \subseteq listed'
  /\ \A g \in Gids : /\ rDb[g] # "none" => rDb'[g] # "none"
                     /\ mCopies[g] > 0 => mCopies'[g] > 0
                     /\ g = r /\ c.kind \in {"direct", "syncS"} => rDb'[g] # "none"
                     /\ g = r /\ c.kind = "store" => mCopies'[g] > 0
                     /\ \/ sDb'[g] = sDb[g]
                        \/ /\ sDb'[g] = "SENT_CONFIRMED"
                           /\ (g = r /\ c.kind = "syncR") \/ g \in listed'

LEMMA SavesOK == ASSUME IInv, NEW s \in Slots, AnswerSent(s),
                        NEW c \in Connection, c = conn[s], ConnOK(c), Means(c)
                 PROVE  Shape' /\ Effect(c, c.flushed)
<1>1. c.flushed \in c.reqs /\ c.reqs \subseteq 1..Fetch
  BY DEF AnswerSent, ConnOK, Connection
<1>2. PICK r \in 1..Fetch : r = c.flushed /\ r \in c.reqs /\ (r # Fetch => r \in Gids)
  BY <1>1, Parties
<1>3. /\ c.kind \in Kinds /\ c.seen \in [Gids -> RecvStatus] /\ c.list \subseteq Gids
      /\ UNCHANGED <<lost, breaks, crashes, splits>>
  BY DEF AnswerSent, ConnOK, Connection, bounds
<1>4. /\ sDb \in [Gids -> SentStatus] /\ rDb \in [Gids -> RecvStatus]
      /\ copies \in [Gids -> Nat] /\ mCopies \in [Gids -> Nat] /\ listed \subseteq Gids
  BY DEF IInv, Shape
<1>5. CASE c.kind \in {"direct", "syncS"} /\ r # Fetch
  <2>1. PICK row \in RecvStatus : row = c.seen[r]
    BY <1>2, <1>3, <1>5
  <2>2. SaveReceived(r, row) /\ r \in Gids
    BY <1>2, <1>5, <2>1 DEF AnswerSent
  <2>3. rDb' = [rDb EXCEPT ![r] = IF row # "none" THEN row
                                  ELSE IF rDb[r] = "none" THEN "RECV_CONFIRMED" ELSE rDb[r]]
        /\ UNCHANGED <<sDb, mCopies, listed>>
    BY <2>2 DEF SaveReceived
  <2>4. copies' = [copies EXCEPT ![r] = copies[r] + IF row = "none" THEN 1 ELSE 0]
    BY <2>2 DEF SaveReceived
  <2>5. rDb' \in [Gids -> RecvStatus] /\ copies' \in [Gids -> Nat]
    BY <1>4, <2>2, <2>3, <2>4 DEF RecvStatus
  <2>6. \A g \in Gids : rDb'[g] = IF g # r THEN rDb[g]
                                  ELSE IF row # "none" THEN row
                                  ELSE IF rDb[r] = "none" THEN "RECV_CONFIRMED" ELSE rDb[r]
    BY <1>4, <2>3
  <2> QED BY <1>2, <1>3, <1>5, <2>2, <2>3, <2>5, <2>6 DEF IInv, Shape, Counts, Effect
<1>6. CASE c.kind = "store"
  <2>1. r \in Gids
    BY <1>2, <1>6 DEF ConnOK
  <2>2. PICK row \in RecvStatus : row = c.seen[r] /\ (row # "none" => mCopies[r] > 0)
    BY <1>3, <1>6, <2>1 DEF Means
  <2>3. SaveStored(r, row)
    BY <1>2, <1>6, <2>2 DEF AnswerSent
  <2>4. mCopies' = [mCopies EXCEPT ![r] = mCopies[r] + IF row = "none" THEN 1 ELSE 0]
        /\ UNCHANGED <<sDb, rDb, copies, listed>>
    BY <2>3 DEF SaveStored
  <2>5. /\ mCopies' \in [Gids -> Nat]
        /\ \A g \in Gids : mCopies'[g] = mCopies[g] + IF g = r /\ row = "none" THEN 1 ELSE 0
    BY <1>4, <2>1, <2>4
  <2>6. \A g \in Gids : (mCopies[g] > 0 => mCopies'[g] > 0) /\ (g = r => mCopies'[g] > 0)
    BY <1>4, <2>1, <2>2, <2>5
  <2> QED BY <1>2, <1>3, <1>4, <1>6, <2>4, <2>5, <2>6 DEF IInv, Shape, Counts, Effect
<1>7. CASE c.kind = "syncR" /\ r # Fetch
  <2>1. SaveConfirmed({r}) /\ UNCHANGED listed
    BY <1>2, <1>7 DEF AnswerSent
  <2>2. /\ UNCHANGED <<rDb, copies, mCopies, listed>> /\ sDb' \in [Gids -> SentStatus]
        /\ \A g \in Gids : sDb'[g] = IF g = r THEN "SENT_CONFIRMED" ELSE sDb[g]
    BY <1>4, <2>1 DEF SaveConfirmed, SentStatus
  <2> QED BY <1>2, <1>3, <1>7, <2>2 DEF IInv, Shape, Counts, Effect
<1>8. CASE c.kind = "syncR" /\ r = Fetch
  <2>1. SaveConfirmed(c.list) /\ listed' = listed \cup c.list
    BY <1>2, <1>8 DEF AnswerSent
  <2>2. /\ UNCHANGED <<rDb, copies, mCopies>> /\ sDb' \in [Gids -> SentStatus]
        /\ \A g \in Gids : sDb'[g] = IF g \in c.list THEN "SENT_CONFIRMED" ELSE sDb[g]
    BY <1>4, <2>1 DEF SaveConfirmed, SentStatus
  <2> QED BY <1>2, <1>3, <1>4, <1>8, <2>1, <2>2, Parties DEF IInv, Shape, Counts, Effect
<1>9. CASE c.kind = "pull" \/ (c.kind \in {"direct", "syncS"} /\ r = Fetch)
  <2>1. UNCHANGED <<sDb, rDb, copies, mCopies, listed>>
    BY <1>2, <1>9 DEF AnswerSent, db
  <2> QED BY <1>2, <1>3, <1>4, <1>9, <2>1, Parties DEF IInv, Shape, Counts, Effect
<1> QED BY <1>3, <1>5, <1>6, <1>7, <1>8, <1>9 DEF Kinds

\* Its save: what was being saved is there now.
LEMMA AnswerSentInv == ASSUME IInv, NEW s \in Slots, AnswerSent(s) PROVE IInv'
<1>1. PICK c \in Connection : c = conn[s]
  BY SlotOK
<1>2. /\ ConnOK(c) /\ Means(c) /\ c.flushed # NoReq /\ UNCHANGED lost
  BY <1>1, SlotOK DEF AnswerSent
<1>3. PICK d : d = Answered(c)
  OBVIOUS
<1>4. ConnOK(d) /\ Means(d) /\ d.flushed = NoReq
  BY <1>2, <1>3, AnsweredOK
<1>5. conn' = [conn EXCEPT ![s] = d]
  BY <1>1, <1>3, ObjectGoneSlots DEF AnswerSent
<1>6. conn'[s] = d /\ \A t \in Slots \ {s} : conn'[t] = conn[t]
  BY <1>1, <1>3, ObjectGoneSlots DEF AnswerSent
<1>7. PICK r \in 1..Fetch : r = c.flushed /\ r \in c.reqs /\ Effect(c, r) /\ Shape'
  BY <1>1, <1>2, SavesOK DEF AnswerSent, ConnOK, Connection
<1>8. c.kind \in Kinds
  BY <1>2, <1>7 DEF ConnOK, Connection
<1>9. Advance
  <2>1. \A g \in Gids : AtReceiver(g) => AtReceiver(g)'
    <3> SUFFICES ASSUME NEW g \in Gids, Saving(R, g), rDb'[g] = "none" PROVE Saving(R, g)'
      BY <1>2, <1>7 DEF AtReceiver, Effect
    <3>1. PICK t \in Slots : /\ conn[t].flushed = g /\ Acceptor(conn[t].kind) = R
                             /\ conn[t].kind \in {"direct", "syncS", "store"}
      BY DEF Saving
    <3>2. t # s
      BY <1>1, <1>7, <3>1, Parties DEF Effect
    <3> QED BY <1>6, <3>1, <3>2 DEF Saving
  <2>2. \A g \in Gids : AtMailbox(g) => AtMailbox(g)'
    <3> SUFFICES ASSUME NEW g \in Gids, Saving(M, g), ~(mCopies'[g] > 0) PROVE Saving(M, g)'
      BY <1>2, <1>7 DEF AtMailbox, Effect
    <3>1. PICK t \in Slots : /\ conn[t].flushed = g /\ Acceptor(conn[t].kind) = M
                             /\ conn[t].kind \in {"direct", "syncS", "store"}
      BY DEF Saving
    <3>2. t # s
      BY <1>1, <1>7, <3>1, Parties DEF Effect
    <3> QED BY <1>6, <3>1, <3>2 DEF Saving
  <2> QED BY <1>7, <2>1, <2>2 DEF Advance, Effect
<1>10. ConnsOK'
  <2>1. d \in Connection
    BY <1>4 DEF ConnOK
  <2> QED BY <1>4, <1>5, <1>9, <2>1, AdvanceMeans, SlotSet
<1>11. ConfirmedIsStored' /\ SentIsStored'
  <2>1. c.kind = "syncR" /\ r \in Gids => rDb[r] # "none"
    BY <1>2, <1>7 DEF Means
  <2>2. \A g \in Gids : sDb'[g] = "SENT_CONFIRMED" =>
             sDb[g] = "SENT_CONFIRMED" \/ AtReceiver(g)' \/ g \in listed'
    BY <1>7, <2>1 DEF AtReceiver, Effect
  <2>3. \A g \in Gids : sDb'[g] = "SENT" => sDb[g] = "SENT" \/ AtMailbox(g)'
    BY <1>7 DEF Effect
  <2> QED BY <1>9, <2>2, <2>3, AdvanceStored
<1> QED BY <1>7, <1>10, <1>11 DEF IInv

\* An answer whose message object was gone: what was being saved is lost.
LEMMA AnswerMissedInv == ASSUME IInv, NEW s \in Slots, AnswerMissed(s) PROVE IInv'
<1>1. PICK c \in Connection : c = conn[s] /\ ConnOK(c) /\ Means(c) /\ c.kind \in Kinds
  BY SlotOK DEF AnswerMissed
<1>2. PICK r \in Gids : r = c.flushed
  BY <1>1 DEF AnswerMissed, Connection
<1>3. PICK p \in {S, R, M} : p = Acceptor(c.kind)
  BY <1>1, Parties
<1>4. lost' = lost \cup {<<p, r>>} /\ UNCHANGED <<sDb, rDb, copies, mCopies, listed, breaks, crashes, splits>>
  BY <1>1, <1>2, <1>3 DEF AnswerMissed, db, bounds
<1>5. PICK d : d = Answered(c)
  OBVIOUS
<1>6. ConnOK(d) /\ Means(d) /\ d \in Connection
  BY <1>1, <1>5, AnsweredOK DEF ConnOK
<1>7. conn' = [conn EXCEPT ![s] = d] /\ \A t \in Slots \ {s} : conn'[t] = conn[t]
  BY <1>1, <1>5, ObjectGoneSlots DEF AnswerMissed
<1>8. ASSUME NEW q, NEW g \in Gids, Saving(q, g) PROVE Saving(q, g)' \/ <<q, g>> \in lost'
  <2>1. PICK t \in Slots : /\ conn[t].flushed = g /\ Acceptor(conn[t].kind) = q
                           /\ conn[t].kind \in {"direct", "syncS", "store"}
    BY <1>8 DEF Saving
  <2>2. CASE t = s
    BY <1>1, <1>2, <1>3, <1>4, <2>1, <2>2
  <2>3. CASE t # s
    BY <1>7, <2>1, <2>3 DEF Saving
  <2> QED BY <2>2, <2>3
<1>9. Advance
  BY <1>4, <1>8 DEF Advance, AtReceiver, AtMailbox
<1>10. ConnsOK'
  BY <1>6, <1>7, <1>9, AdvanceMeans, SlotSet
<1>11. Shape'
  BY <1>4 DEF IInv, Shape, Counts
<1>12. ConfirmedIsStored' /\ SentIsStored'
  BY <1>4, <1>9, AdvanceStored
<1> QED BY <1>10, <1>11, <1>12 DEF IInv

\* The next answer: what it acknowledges is at the acceptor, and a list only adds rows.
LEMMA AnswerReceivedInv == ASSUME IInv, NEW s \in Slots, AnswerReceived(s) PROVE IInv'
<1>1. PICK c \in Connection : c = conn[s]
  BY SlotOK
<1>2. /\ ConnOK(c) /\ Means(c) /\ c.iniUp /\ c.sent # c.got /\ c.kind \in Kinds
      /\ UNCHANGED <<mCopies, listed, lost, breaks, crashes, splits>>
  BY <1>1, SlotOK DEF AnswerReceived, history, bounds
<1>3. PICK r \in 1..Fetch : r = First(c.sent \ c.got) /\ r \in c.sent
  <2>1. c.sent \ c.got # {} /\ c.sent \ c.got \subseteq 1..Fetch
    BY <1>2 DEF ConnOK, Connection
  <2> QED BY <2>1, FirstIn
<1>4. PICK z \in SUBSET (1..Fetch) : z = c.got \cup {r}
  BY DEF Connection
<1>5. PICK up \in BOOLEAN : up = (z # c.reqs)
  OBVIOUS
<1>6. PICK d : d = [c EXCEPT !.got = z, !.iniUp = up]
  OBVIOUS
<1>7. /\ d \in Connection /\ d.kind = c.kind /\ d.reqs = c.reqs /\ d.got = z
      /\ d.sent = c.sent /\ d.flushed = c.flushed /\ d.accUp = c.accUp /\ d.iniUp = up
      /\ d.handled = c.handled /\ d.seen = c.seen
  BY <1>6 DEF Connection
<1>8. conn' = [conn EXCEPT ![s] = Release(d)]
  <2>1. LET e == [c EXCEPT !.got = c.got \cup {r}]
        IN  [e EXCEPT !.iniUp = (e.got # e.reqs)] = d
    BY <1>4, <1>5, <1>6 DEF Connection
  <2> QED BY <1>1, <1>3, <2>1 DEF AnswerReceived
<1>9. ConnOK(d) /\ Means(d)
  <2>1. ConnOK(d)
    BY <1>2, <1>3, <1>4, <1>7 DEF ConnOK
  <2>2. Means(d)
    BY <1>2, <1>7 DEF Means
  <2> QED BY <2>1, <2>2
<1>10. \A g \in Gids : rDb[g] # "none" => rDb'[g] # "none"
  BY <1>1, <1>3 DEF AnswerReceived
<1>11. Advance
  <2>1. FlushedKept
    <3> SUFFICES ASSUME NEW t \in Slots, conn[t].flushed # NoReq
                 PROVE  conn'[t].flushed = conn[t].flushed /\ conn'[t].kind = conn[t].kind
      BY DEF FlushedKept
    <3>1. CASE t = s
      <4>1. d.accUp
        BY <1>1, <1>2, <1>7, <3>1 DEF ConnOK
      <4> QED BY <1>1, <1>7, <1>8, <3>1, <4>1 DEF Release, IInv, ConnsOK
    <3>2. CASE t # s
      BY <1>8, <3>2 DEF IInv, ConnsOK
    <3> QED BY <3>1, <3>2
  <2> QED BY <1>2, <1>10, <2>1, FlushedAdvances
<1>12. ConnsOK'
  <2>1. ConnOK(Release(d)) /\ Means(Release(d))'
    BY <1>7, <1>9, <1>11, AdvanceMeans, ReleaseOK
  <2> QED BY <1>8, <1>11, <2>1, SlotSet
<1>13. Shape'
  <2>1. /\ sDb \in [Gids -> SentStatus] /\ rDb \in [Gids -> RecvStatus] /\ copies \in [Gids -> Nat]
    BY DEF IInv, Shape
  <2>2. sDb' \in [Gids -> SentStatus]
    BY <1>1, <1>3, <2>1 DEF AnswerReceived, Acked, SentStatus
  <2>3. rDb' \in [Gids -> RecvStatus]
    BY <2>1 DEF AnswerReceived, RecvStatus
  <2>4. copies' \in [Gids -> Nat]
    BY <2>1 DEF AnswerReceived
  <2> QED BY <1>2, <2>2, <2>3, <2>4 DEF IInv, Shape, Counts, bounds
<1>14. ConfirmedIsStored' /\ SentIsStored'
  <2>1. sDb' = IF Initiator(c.kind) = S /\ r # Fetch THEN [sDb EXCEPT ![r] = Acked(c.kind)] ELSE sDb
    BY <1>1, <1>3 DEF AnswerReceived
  <2>2. Initiator(c.kind) = S => c.kind \in {"direct", "store", "syncS"}
    BY <1>2, Parties DEF Initiator, Kinds
  <2>3. \A g \in Gids : \/ sDb'[g] = sDb[g]
                        \/ /\ g = r /\ sDb'[g] = Acked(c.kind)
                           /\ c.kind \in {"direct", "store", "syncS"}
    BY <2>1, <2>2 DEF IInv, Shape
  <2>4. \A g \in Gids : /\ g = r /\ c.kind \in {"direct", "syncS"} => AtReceiver(g)'
                        /\ g = r /\ c.kind = "store" => AtMailbox(g)'
    BY <1>2, <1>3, <1>11 DEF Means, Advance
  <2>5. \A g \in Gids : sDb'[g] = "SENT_CONFIRMED" =>
             sDb[g] = "SENT_CONFIRMED" \/ AtReceiver(g)' \/ g \in listed'
    BY <2>3, <2>4 DEF Acked
  <2>6. \A g \in Gids : sDb'[g] = "SENT" => sDb[g] = "SENT" \/ AtMailbox(g)'
    BY <2>3, <2>4 DEF Acked
  <2> QED BY <1>11, <2>5, <2>6, AdvanceStored
<1> QED BY <1>12, <1>13, <1>14 DEF IInv

\* Several slots change at once.
LEMMA SlotsSet ==
  ASSUME IInv, Advance, DOMAIN conn' = Slots, conn' = [t \in Slots |-> conn'[t]],
         \A t \in Slots : conn'[t] = conn[t] \/ (ConnOK(conn[t]) /\ Means(conn[t]))'
  PROVE  ConnsOK'
<1>1. ASSUME NEW t \in Slots PROVE (ConnOK(conn[t]) /\ Means(conn[t]))'
  <2>1. CASE conn'[t] = conn[t]
    <3>1. PICK c \in Connection : c = conn[t]
      BY SlotOK
    <3>2. ConnOK(c) /\ Means(c)'
      BY <3>1, SlotOK, AdvanceMeans
    <3> QED BY <2>1, <3>1, <3>2 DEF ConnOK, Means
  <2> QED BY <2>1
<1> QED BY <1>1 DEF ConnsOK

\* The initiator fails: its end closes, and a message of app_message_send goes to the mailbox.
LEMMA InitiatorFailsInv == ASSUME IInv, NEW s \in Slots, conn[s].iniUp, InitiatorFails(s)
                           PROVE  Advance /\ ConnsOK' /\ UNCHANGED <<db, history>>
<1>1. PICK c \in Connection : c = conn[s]
  BY SlotOK
<1>2. /\ ConnOK(c) /\ Means(c) /\ UNCHANGED <<db, history>>
      /\ UNCHANGED <<rDb, mCopies, listed, lost>>
  BY <1>1, SlotOK DEF InitiatorFails, db, history
<1>3. PICK d : d = [c EXCEPT !.iniUp = FALSE]
  OBVIOUS
<1>4. /\ d \in Connection /\ d.kind = c.kind /\ d.reqs = c.reqs /\ d.got = c.got
      /\ d.sent = c.sent /\ d.flushed = c.flushed /\ d.accUp = c.accUp /\ d.iniUp = FALSE
      /\ d.handled = c.handled /\ d.seen = c.seen
  BY <1>3 DEF Connection
<1>5. ConnOK(d) /\ Means(d)
  <2>1. ConnOK(d)
    BY <1>2, <1>4 DEF ConnOK
  <2>2. Means(d)
    BY <1>2, <1>4 DEF Means
  <2> QED BY <2>1, <2>2
<1>6. PICK e : e = Release(d)
  OBVIOUS
<1>7. PICK f : f = [conn EXCEPT ![s] = e]
  OBVIOUS
<1>8. /\ DOMAIN f = Slots /\ f = [t \in Slots |-> f[t]] /\ f[s] = e
      /\ \A t \in Slots \ {s} : f[t] = conn[t]
  BY <1>7 DEF IInv, ConnsOK
<1>9. conn' = f \/ \E g \in c.reqs : c.kind = "direct" /\ SendMb(f, g)
  BY <1>1, <1>3, <1>6, <1>7 DEF InitiatorFails
<1>10. c.flushed # NoReq => e = d
  BY <1>2, <1>4, <1>6 DEF Release, ConnOK
<1>11. \A t \in Slots : conn[t].flushed # NoReq => f[t].flushed = conn[t].flushed /\ f[t].kind = conn[t].kind
  BY <1>1, <1>4, <1>8, <1>10
<1>12. CASE conn' = f
  <2>1. Advance
    BY <1>2, <1>11, <1>12, FlushedAdvances DEF FlushedKept
  <2>2. ConnOK(e) /\ Means(e)'
    BY <1>4, <1>5, <1>6, <2>1, AdvanceMeans, ReleaseOK
  <2> QED BY <1>2, <1>7, <1>12, <2>1, <2>2, SlotSet
<1>13. CASE \E g \in c.reqs : c.kind = "direct" /\ SendMb(f, g) /\ conn' # f
  <2>1. PICK g \in c.reqs : c.kind = "direct" /\ Starts(f, "store", {g})
    BY <1>13 DEF SendMb
  <2>2. PICK u \in Slots : f[u] = Idle /\ conn' = [f EXCEPT ![u] = Open("store", {g})]
    BY <2>1 DEF Starts
  <2>3. Advance
    <3>1. FlushedKept
      BY <1>8, <1>11, <2>2, IdleOK DEF FlushedKept
    <3> QED BY <1>2, <3>1, FlushedAdvances
  <2>4. {g} \in SUBSET (1..Fetch) /\ Fetch \notin {g}
    BY <1>2, <2>1 DEF ConnOK, Connection
  <2>5. PICK o : o = Open("store", {g}) /\ ConnOK(o) /\ Means(o)'
    BY <2>4, OpenMeans DEF Kinds
  <2>6. ConnOK(e) /\ Means(e)'
    BY <1>4, <1>5, <1>6, <2>3, AdvanceMeans, ReleaseOK
  <2>7. DOMAIN conn' = Slots /\ conn' = [t \in Slots |-> conn'[t]]
        /\ \A t \in Slots : conn'[t] = conn[t] \/ conn'[t] = o \/ conn'[t] = e
    BY <1>8, <2>2, <2>5
  <2>8. \A t \in Slots : conn'[t] = conn[t] \/ (ConnOK(conn[t]) /\ Means(conn[t]))'
    <3> SUFFICES ASSUME NEW t \in Slots, conn'[t] # conn[t] PROVE (ConnOK(conn[t]) /\ Means(conn[t]))'
      OBVIOUS
    <3>1. PICK x : conn'[t] = x /\ ConnOK(x) /\ Means(x)'
      <4>1. CASE conn'[t] = o
        BY <2>5, <4>1
      <4>2. CASE conn'[t] = e
        BY <2>6, <4>2
      <4> QED BY <2>7, <4>1, <4>2
    <3> QED BY <3>1 DEF ConnOK, Means
  <2>9. ConnsOK'
    BY <2>3, <2>7, <2>8, SlotsSet
  <2> QED BY <1>2, <2>3, <2>9
<1> QED BY <1>9, <1>12, <1>13

LEMMA InitiatorEofInv == ASSUME IInv, NEW s \in Slots, InitiatorEof(s) PROVE IInv'
<1>1. Advance /\ ConnsOK' /\ UNCHANGED <<db, history>>
  BY InitiatorFailsInv DEF InitiatorEof
<1> QED BY <1>1, NothingWritten DEF InitiatorEof, bounds, IInv, Shape, Counts

LEMMA InitiatorBreakInv == ASSUME IInv, NEW s \in Slots, InitiatorBreak(s) PROVE IInv'
<1>1. Advance /\ ConnsOK' /\ UNCHANGED <<db, history>>
  BY InitiatorFailsInv DEF InitiatorBreak
<1>2. Counts'
  BY BoundsAssumption DEF InitiatorBreak, IInv, Shape, Counts
<1> QED BY <1>1, <1>2, NothingWritten

\* A process dies: what it was saving is lost, and only that.
LEMMA DieInv == ASSUME IInv, NEW p \in {S, R, M}, Die(p), Counts' PROVE IInv'
<1>1. UNCHANGED <<db, listed>> /\ UNCHANGED <<sDb, rDb, copies, mCopies>>
  BY DEF Die, db
<1>2. /\ \A t \in Slots :
           conn[t].flushed \in Gids /\ conn[t].kind \in Containers /\ Acceptor(conn[t].kind) = p
             => <<p, conn[t].flushed>> \in lost'
      /\ lost \subseteq lost' /\ lost' \subseteq {S, R, M} \X Gids
  <2>1. PICK T \in SUBSET Slots : T = {t \in Slots : /\ conn[t].flushed \in Gids
                                                     /\ conn[t].kind \in Containers
                                                     /\ Acceptor(conn[t].kind) = p}
    OBVIOUS
  <2>2. lost' = lost \cup {<<p, conn[t].flushed>> : t \in T}
    BY <2>1 DEF Die
  <2>3. \A t \in T : conn[t].flushed \in Gids
    BY <2>1
  <2>4. {<<p, conn[t].flushed>> : t \in T} \subseteq {S, R, M} \X Gids
    BY <2>3
  <2>5. lost \subseteq {S, R, M} \X Gids
    BY DEF IInv, Shape
  <2>6. lost \subseteq lost' /\ lost' \subseteq {S, R, M} \X Gids
    BY <2>2, <2>4, <2>5
  <2>7. ASSUME NEW t \in Slots, conn[t].flushed \in Gids, conn[t].kind \in Containers,
               Acceptor(conn[t].kind) = p
        PROVE  <<p, conn[t].flushed>> \in lost'
    <3>1. t \in T
      BY <2>1, <2>7
    <3> QED BY <2>2, <3>1
  <2> QED BY <2>6, <2>7
<1>3. DOMAIN conn' = Slots /\ conn' = [t \in Slots |-> conn'[t]]
  BY DEF Die
\* What becomes of the connection in slot t.
<1>4. ASSUME NEW t \in Slots
      PROVE  \E c, d \in Connection :
                /\ c = conn[t] /\ ConnOK(c) /\ Means(c) /\ ConnOK(d) /\ Means(d)
                /\ conn'[t] = c \/ conn'[t] = Release(d)
                /\ Acceptor(c.kind) # p /\ c.flushed # NoReq =>
                     conn'[t].flushed = c.flushed /\ conn'[t].kind = c.kind
  <2>1. PICK c \in Connection : c = conn[t] /\ ConnOK(c) /\ Means(c)
    BY SlotOK
  <2>2. CASE c.kind = "idle"
    BY <2>1, <2>2 DEF Die
  <2>3. CASE c.kind # "idle"
    <3>1. PICK i \in BOOLEAN : i = (c.iniUp /\ Initiator(c.kind) # p)
      OBVIOUS
    <3>2. PICK a \in BOOLEAN : a = (c.accUp /\ Acceptor(c.kind) # p)
      OBVIOUS
    <3>3. PICK f \in 0..Fetch : f = IF Acceptor(c.kind) = p THEN NoReq ELSE c.flushed
      BY NumMsgsAssumption DEF Connection, NoReq, Fetch
    <3>4. PICK d : d = [c EXCEPT !.iniUp = i, !.accUp = a, !.flushed = f]
      OBVIOUS
    <3>5. /\ d \in Connection /\ d.kind = c.kind /\ d.reqs = c.reqs /\ d.got = c.got
          /\ d.sent = c.sent /\ d.flushed = f /\ d.accUp = a /\ d.iniUp = i
          /\ d.handled = c.handled /\ d.seen = c.seen
      BY <3>4 DEF Connection
    <3>6. conn'[t] = Release(d)
      BY <2>1, <2>3, <3>1, <3>2, <3>3, <3>4 DEF Die, Connection
    <3>7. ConnOK(d)
      BY <2>1, <2>3, <3>2, <3>3, <3>5 DEF ConnOK
    <3>8. Means(d)
      BY <2>1, <3>5 DEF Means
    <3>9. Acceptor(c.kind) # p /\ c.flushed # NoReq => d.accUp /\ d.flushed = c.flushed
      BY <2>1, <3>2, <3>3, <3>5 DEF ConnOK
    <3> QED BY <2>1, <3>5, <3>6, <3>7, <3>8, <3>9 DEF Release
  <2> QED BY <2>2, <2>3
<1>5. Advance
  <2>1. ASSUME NEW q, NEW g \in Gids, Saving(q, g) PROVE Saving(q, g)' \/ <<q, g>> \in lost'
    <3>1. PICK t \in Slots : /\ conn[t].flushed = g /\ Acceptor(conn[t].kind) = q
                             /\ conn[t].kind \in {"direct", "syncS", "store"}
      BY <2>1 DEF Saving
    <3>2. CASE q = p
      BY <1>2, <3>1, <3>2 DEF Containers, ToClient
    <3>3. CASE q # p
      <4>1. conn'[t].flushed = g /\ conn'[t].kind = conn[t].kind
        BY <1>4, <3>1, <3>3, Parties
      <4> QED BY <3>1, <4>1 DEF Saving
    <3> QED BY <3>2, <3>3
  <2> QED BY <1>1, <1>2, <2>1 DEF Advance, AtReceiver, AtMailbox
<1>6. ASSUME NEW t \in Slots PROVE conn'[t] = conn[t] \/ (ConnOK(conn[t]) /\ Means(conn[t]))'
  <2>1. PICK c, d \in Connection : /\ c = conn[t] /\ ConnOK(d) /\ Means(d)
                                   /\ conn'[t] = c \/ conn'[t] = Release(d)
    BY <1>4
  <2>2. PICK e : e = Release(d)
    OBVIOUS
  <2>3. ConnOK(e) /\ Means(e)'
    BY <1>5, <2>1, <2>2, AdvanceMeans, ReleaseOK
  <2> QED BY <2>1, <2>2, <2>3 DEF ConnOK, Means
<1>7. ConnsOK'
  BY <1>3, <1>5, <1>6, SlotsSet
<1>8. Shape'
  BY <1>1, <1>2 DEF IInv, Shape
<1>9. ConfirmedIsStored' /\ SentIsStored'
  BY <1>1, <1>5, AdvanceStored
<1> QED BY <1>7, <1>8, <1>9 DEF IInv

LEMMA CrashInv == ASSUME IInv, NEW p \in {S, R, M}, Crash(p) PROVE IInv'
<1>1. Counts'
  BY BoundsAssumption DEF Crash, IInv, Shape, Counts
<1> QED BY <1>1, DieInv DEF Crash

\* The acceptor of an open connection is one of the three processes.
LEMMA AcceptorOf == ASSUME IInv, NEW s \in Slots, conn[s].accUp PROVE Acceptor(conn[s].kind) \in {S, R, M}
  BY SlotOK, Parties

\* A double free ends the acceptor's process, else only its end of the connection.
LEMMA AcceptorFailsInv == ASSUME IInv, NEW s \in Slots, conn[s].accUp, conn[s].flushed = NoReq,
                                 AcceptorFails(s), Counts'
                          PROVE  IInv'
<1>1. CASE Die(Acceptor(conn[s].kind))
  BY <1>1, AcceptorOf, DieInv
<1> QED BY <1>1, AcceptorCloses DEF AcceptorFails

LEMMA RejectInv == ASSUME IInv, NEW s \in Slots, Reject(s) PROVE IInv'
<1>1. conn[s].kind = "syncS" /\ conn[s].accUp
  BY DEF Reject, Poisoned
<1>2. conn[s].flushed = NoReq
  BY <1>1, FreeSlot, Parties DEF Reject
<1>3. Counts'
  BY DEF Reject, IInv, Shape, Counts, bounds
<1> QED BY <1>1, <1>2, <1>3, AcceptorFailsInv DEF Reject

LEMMA AcceptorEofInv == ASSUME IInv, NEW s \in Slots, AcceptorEof(s) PROVE IInv'
<1>1. Counts'
  BY DEF AcceptorEof, IInv, Shape, Counts, bounds
<1> QED BY <1>1, FreeSlot, AcceptorFailsInv DEF AcceptorEof

LEMMA AcceptorBreakInv == ASSUME IInv, NEW s \in Slots, AcceptorBreak(s) PROVE IInv'
<1>1. Counts'
  BY BoundsAssumption DEF AcceptorBreak, IInv, Shape, Counts
<1> QED BY <1>1, FreeSlot, AcceptorFailsInv DEF AcceptorBreak

LEMMA AckUsesFreedInv == ASSUME IInv, NEW s \in Slots, AckUsesFreed(s) PROVE IInv'
<1>1. Counts'
  BY DEF AckUsesFreed, IInv, Shape, Counts, bounds
<1> QED BY <1>1, AcceptorOf, DieInv DEF AckUsesFreed
-----------------------------------------------------------------------------
LEMMA InitInv == ASSUME Init PROVE IInv
<1>1. Shape
  BY BoundsAssumption DEF Init, Shape, Counts, SentStatus, RecvStatus
<1>2. ConnsOK
  BY IdleOK DEF Init, ConnsOK
<1>3. ConfirmedIsStored /\ SentIsStored
  BY DEF Init, ConfirmedIsStored, SentIsStored
<1> QED BY <1>1, <1>2, <1>3 DEF IInv

LEMMA StutterInv == ASSUME IInv, UNCHANGED vars PROVE IInv'
<1>1. UNCHANGED <<sDb, rDb, copies, mCopies, conn, listed, lost, breaks, crashes, splits>>
  BY DEF vars, db, history, bounds
<1> QED BY <1>1 DEF IInv, Shape, Counts, ConnsOK, ConnOK, Means, AtReceiver, AtMailbox, Saving,
                    ConfirmedIsStored, SentIsStored

\* Every step keeps the invariant, an action at a time.
LEMMA NextInv == ASSUME IInv, [Next]_vars PROVE IInv'
<1>1. ASSUME NEW g \in Gids, NEW mbDirect \in BOOLEAN, HandleMsg(g, mbDirect) PROVE IInv'
  BY <1>1, HandleMsgInv
<1>2. ASSUME NEW p \in {S, R}, ContactSync(p) PROVE IInv'
  BY <1>2, ContactSyncInv
<1>3. ASSUME MailboxSync PROVE IInv'
  BY <1>3, MailboxSyncInv
<1>4. ASSUME NEW s \in Slots, Accept(s) PROVE IInv'
  BY <1>4, HandleInv, RejectInv, FlushInv, AnswerSentInv, AnswerMissedInv, AckUsesFreedInv,
     AcceptorEofInv DEF Accept
<1>5. ASSUME NEW s \in Slots, AnswerReceived(s) PROVE IInv'
  BY <1>5, AnswerReceivedInv
<1>6. ASSUME NEW s \in Slots, InitiatorEof(s) PROVE IInv'
  BY <1>6, InitiatorEofInv
<1>7. ASSUME NEW s \in Slots, InitiatorBreak(s) PROVE IInv'
  BY <1>7, InitiatorBreakInv
<1>8. ASSUME NEW s \in Slots, AcceptorBreak(s) PROVE IInv'
  BY <1>8, AcceptorBreakInv
<1>9. ASSUME NEW p \in {S, R, M}, Crash(p) PROVE IInv'
  BY <1>9, CrashInv
<1> QED BY <1>1, <1>2, <1>3, <1>4, <1>5, <1>6, <1>7, <1>8, <1>9, StutterInv DEF Next

\* Every reachable state of the clients, the mailbox and their connections satisfies
\* the inductive invariant.
THEOREM Invariant == Spec => []IInv
<1>1. Init => IInv
  BY InitInv
<1>2. IInv /\ [Next]_vars => IInv'
  BY NextInv
<1> QED BY <1>1, <1>2, PTL DEF Spec

\* The variables of Delivery keep their types.
THEOREM TypeCorrect == Spec => []TypeOK
<1>1. IInv => TypeOK
  BY DEF IInv, Shape, Counts, ConnsOK, ConnOK, TypeOK
<1> QED BY <1>1, Invariant, PTL

\* A confirmed message is at the receiver, or being saved there, or lost between its
\* acknowledgement and the save (a death, or an object freed early because the
\* container came in two reads), or was transmitted in a list.
THEOREM ConfirmedAlwaysStored == Spec => []ConfirmedIsStored
<1>1. IInv => ConfirmedIsStored
  BY DEF IInv
<1> QED BY <1>1, Invariant, PTL

\* A message left to the mailbox is there, or being saved, or lost in a death of the mailbox.
THEOREM SentAlwaysStored == Spec => []SentIsStored
<1>1. IInv => SentIsStored
  BY DEF IInv
<1> QED BY <1>1, Invariant, PTL
-----------------------------------------------------------------------------
(* What a step may do *)

\* The receiver counts rows only under the ids it finds.
RowsFound == \A g \in Gids : copies[g] > 0 => rDb[g] # "none"

\* The steps that write the tables of the clients and the mailbox.
LEMMA Writers ==
  ASSUME [Next]_vars
  PROVE  \/ UNCHANGED <<sDb, rDb, copies, mCopies, listed>>
         \/ \E g \in Gids, mbDirect \in BOOLEAN : HandleMsg(g, mbDirect)
         \/ \E s \in Slots : AnswerSent(s) \/ AnswerReceived(s)
<1>1. ASSUME NEW s \in Slots, InitiatorEof(s) \/ InitiatorBreak(s) PROVE UNCHANGED <<sDb, rDb, copies, mCopies, listed>>
  BY <1>1 DEF InitiatorEof, InitiatorBreak, InitiatorFails, db, history
<1>2. ASSUME NEW s \in Slots, NEW split \in BOOLEAN,
             \/ Handle(s, split) \/ Reject(s) \/ Flush(s) \/ AnswerMissed(s) \/ AckUsesFreed(s)
             \/ AcceptorEof(s) \/ AcceptorBreak(s)
      PROVE  UNCHANGED <<sDb, rDb, copies, mCopies, listed>>
  <2>1. ASSUME NEW p, Die(p) PROVE UNCHANGED <<db, listed>>
    BY <2>1 DEF Die
  <2>2. ASSUME AcceptorFails(s) PROVE UNCHANGED <<db, listed>>
    BY <2>1, <2>2 DEF AcceptorFails, history
  <2> QED BY <1>2, <2>1, <2>2
          DEF Handle, Reject, Flush, AnswerMissed, AckUsesFreed, AcceptorEof, AcceptorBreak, db, history
<1>3. ASSUME NEW p \in {S, R}, ContactSync(p) PROVE UNCHANGED <<sDb, rDb, copies, mCopies, listed>>
  BY <1>3 DEF ContactSync, db, history
<1>4. ASSUME NEW p \in {S, R, M}, Crash(p) PROVE UNCHANGED <<sDb, rDb, copies, mCopies, listed>>
  BY <1>4 DEF Crash, Die, db
<1>5. ASSUME MailboxSync \/ UNCHANGED vars PROVE UNCHANGED <<sDb, rDb, copies, mCopies, listed>>
  BY <1>5 DEF MailboxSync, vars, db, history
<1> QED BY <1>1, <1>2, <1>3, <1>4, <1>5 DEF Next, Accept

\* The receiver's tables after an answer left: only the save of a message writes them.
LEMMA SentReceives ==
  ASSUME IInv, NEW s \in Slots, AnswerSent(s)
  PROVE  \/ UNCHANGED <<rDb, copies>>
         \/ \E r \in Gids : /\ conn[s].flushed = r /\ Acceptor(conn[s].kind) = R
                            /\ SaveReceived(r, conn[s].seen[r])
                            /\ conn[s].seen[r] \in RecvStatus
<1>1. /\ conn[s].flushed # NoReq /\ conn[s] \in Connection /\ conn[s].flushed \in conn[s].reqs
      /\ conn[s].reqs \subseteq 1..Fetch
  BY SlotOK DEF AnswerSent, ConnOK, Connection
<1>2. PICK c \in Connection : c = conn[s]
  BY <1>1
<1>3. PICK r \in 1..Fetch : r = c.flushed
  BY <1>1, <1>2
<1>4. CASE c.kind \in {"direct", "syncS"} /\ r # Fetch
  <2>1. SaveReceived(r, c.seen[r])
    BY <1>2, <1>3, <1>4 DEF AnswerSent
  <2>2. r \in Gids /\ Acceptor(c.kind) = R
    BY <1>3, <1>4, Parties
  <2>3. c.seen[r] \in RecvStatus
    BY <2>2 DEF Connection
  <2> QED BY <1>2, <1>3, <2>1, <2>2, <2>3
<1>5. CASE ~(c.kind \in {"direct", "syncS"} /\ r # Fetch)
  BY <1>2, <1>3, <1>5 DEF AnswerSent, SaveStored, SaveConfirmed, db
<1> QED BY <1>4, <1>5

\* The receiver's tables after an answer arrived: only a message of a list that was not known
\* is inserted.
LEMMA ReceivedInserts ==
  ASSUME IInv, NEW s \in Slots, AnswerReceived(s), NEW g \in Gids
  PROVE  /\ rDb[g] # "none" => rDb'[g] # "none" /\ copies'[g] = copies[g]
         /\ copies'[g] = copies[g] \/ rDb'[g] # "none"
<1>1. PICK r : r = First(conn[s].sent \ conn[s].got)
  OBVIOUS
<1> PICK new : new = NewIn(conn[s].list)
  OBVIOUS
<1>2. g \in new => rDb[g] = "none"
  BY DEF NewIn
<1>3. rDb'[g] = IF conn[s].kind = "syncR" /\ g = r /\ rDb[g] # "none" THEN "RECV_CONFIRMED" ELSE
                IF Initiator(conn[s].kind) = R /\ r = Fetch /\ g \in new
                THEN IF conn[s].kind = "pull" THEN "RECV" ELSE "RECV_CONFIRMED"
                ELSE rDb[g]
  BY <1>1 DEF AnswerReceived
<1>4. copies'[g] = IF Initiator(conn[s].kind) = R /\ r = Fetch /\ g \in new
                   THEN copies[g] + 1 ELSE copies[g]
  BY <1>1 DEF AnswerReceived
<1> QED BY <1>2, <1>3, <1>4

\* The row of a received message, after its save.
LEMMA ReceivedRow ==
  ASSUME Shape, NEW r \in Gids, NEW row \in RecvStatus, SaveReceived(r, row), NEW g \in Gids
  PROVE  /\ g # r => rDb'[g] = rDb[g] /\ copies'[g] = copies[g]
         /\ g = r => rDb'[g] # "none"
         /\ row # "none" => copies'[g] = copies[g]
<1>1. /\ rDb' = [rDb EXCEPT ![r] = IF row # "none" THEN row
                                   ELSE IF rDb[r] = "none" THEN "RECV_CONFIRMED" ELSE rDb[r]]
      /\ copies' = [copies EXCEPT ![r] = copies[r] + IF row = "none" THEN 1 ELSE 0]
  BY DEF SaveReceived
<1>2. rDb \in [Gids -> RecvStatus] /\ copies \in [Gids -> Nat]
  BY DEF Shape
<1>3. copies[r] + 0 = copies[r]
  BY <1>2
<1> QED BY <1>1, <1>2, <1>3

LEMMA RowsFoundNext == ASSUME IInv, RowsFound, [Next]_vars PROVE RowsFound'
<1> SUFFICES ASSUME NEW g \in Gids, copies'[g] > 0 PROVE rDb'[g] # "none"
  BY DEF RowsFound
<1>1. copies[g] > 0 => rDb[g] # "none"
  BY DEF RowsFound
<1>2. CASE UNCHANGED <<rDb, copies>>
  BY <1>1, <1>2
<1>3. ASSUME NEW s \in Slots, AnswerSent(s) PROVE rDb'[g] # "none"
  BY <1>1, <1>2, <1>3, SentReceives, ReceivedRow DEF IInv
<1>4. ASSUME NEW s \in Slots, AnswerReceived(s) PROVE rDb'[g] # "none"
  BY <1>1, <1>4, ReceivedInserts
<1>5. ASSUME NEW h \in Gids, NEW mbDirect \in BOOLEAN, HandleMsg(h, mbDirect)
      PROVE  UNCHANGED <<rDb, copies>>
  BY <1>5 DEF HandleMsg
<1> QED BY <1>2, <1>3, <1>4, <1>5, Writers

LEMMA RowsFoundInit == Init => RowsFound
BY DEF Init, RowsFound

\* The receiver gets a second row for a message only from a container that looked it up before
\* the first was there: a list never repeats a message (hook_client_fetch, hook_mb_sync).
THEOREM ListsNeverRepeatMessages == Spec => ListsNeverRepeat
<1>1. ASSUME IInv, RowsFound, [Next]_vars
      PROVE  [\A g \in Gids : copies[g] > 0 /\ copies'[g] > copies[g] =>
                 \E s \in Slots : /\ conn[s].flushed = g /\ conn[s].seen[g] = "none"
                                  /\ Acceptor(conn[s].kind) = R]_vars
  <2> SUFFICES ASSUME NEW g \in Gids, copies[g] > 0, copies'[g] > copies[g]
               PROVE  \E s \in Slots : /\ conn[s].flushed = g /\ conn[s].seen[g] = "none"
                                       /\ Acceptor(conn[s].kind) = R
    OBVIOUS
  <2>1. rDb[g] # "none"
    BY <1>1 DEF RowsFound
  <2>2. copies'[g] # copies[g]
    BY <1>1 DEF IInv, Shape
  <2>3. ASSUME NEW s \in Slots, AnswerReceived(s) PROVE FALSE
    BY <1>1, <2>1, <2>2, <2>3, ReceivedInserts
  <2>4. ASSUME NEW h \in Gids, NEW mbDirect \in BOOLEAN, HandleMsg(h, mbDirect) PROVE FALSE
    BY <2>2, <2>4 DEF HandleMsg
  <2>5. PICK s \in Slots : AnswerSent(s)
    BY <1>1, <2>2, <2>3, <2>4, Writers
  <2>6. PICK r \in Gids : /\ conn[s].flushed = r /\ Acceptor(conn[s].kind) = R
                          /\ SaveReceived(r, conn[s].seen[r])
                          /\ conn[s].seen[r] \in RecvStatus
    BY <1>1, <2>2, <2>5, SentReceives
  <2>7. r = g /\ conn[s].seen[r] = "none"
    BY <1>1, <2>2, <2>6, ReceivedRow DEF IInv
  <2> QED BY <2>6, <2>7
<1>2. Spec => [](IInv /\ RowsFound)
  <2>1. Init => IInv /\ RowsFound
    BY InitInv, RowsFoundInit
  <2>2. IInv /\ RowsFound /\ [Next]_vars => (IInv /\ RowsFound)'
    BY NextInv, RowsFoundNext
  <2> QED BY <2>1, <2>2, PTL DEF Spec
<1> QED BY <1>1, <1>2, PTL DEF Spec, ListsNeverRepeat

\* A confirmed message loses its confirmation only to the acknowledgement of a mailbox
\* (tran_done in prot_message.c writes the row back as it was read).
THEOREM ConfirmationsStick == Spec => ConfirmationSticks
<1>1. ASSUME IInv, [Next]_vars
      PROVE  [\A g \in Gids : sDb[g] = "SENT_CONFIRMED" /\ sDb'[g] # "SENT_CONFIRMED" =>
                 /\ sDb'[g] = "SENT"
                 /\ \E s \in Slots : conn[s].kind = "store" /\ g \in conn[s].sent]_vars
  <2> SUFFICES ASSUME NEW g \in Gids, sDb[g] = "SENT_CONFIRMED", sDb'[g] # "SENT_CONFIRMED"
               PROVE  /\ sDb'[g] = "SENT"
                      /\ \E s \in Slots : conn[s].kind = "store" /\ g \in conn[s].sent
    OBVIOUS
  <2>1. sDb \in [Gids -> SentStatus]
    BY <1>1 DEF IInv, Shape
  <2>2. ASSUME NEW h \in Gids, NEW mbDirect \in BOOLEAN, HandleMsg(h, mbDirect) PROVE FALSE
    <3>1. sDb' = [sDb EXCEPT ![h] = "UNDELIVERED"] /\ sDb[h] = "none"
      BY <2>2 DEF HandleMsg
    <3> QED BY <2>1, <3>1
  <2>3. ASSUME NEW s \in Slots, AnswerSent(s) PROVE FALSE
    <3>1. \/ UNCHANGED sDb
          \/ \E T : sDb' = [h \in Gids |-> IF h \in T THEN "SENT_CONFIRMED" ELSE sDb[h]]
      BY <2>3 DEF AnswerSent, SaveReceived, SaveStored, SaveConfirmed, db
    <3> QED BY <3>1
  <2>4. PICK s \in Slots : AnswerReceived(s)
    BY <1>1, <2>2, <2>3, Writers
  <2>5. PICK c \in Connection : c = conn[s] /\ ConnOK(c)
    BY <1>1, SlotOK
  <2>6. PICK r \in c.sent : r = First(c.sent \ c.got)
    <3>1. c.sent \ c.got # {} /\ c.sent \ c.got \subseteq 1..Fetch
      BY <2>4, <2>5 DEF AnswerReceived, ConnOK, Connection
    <3> QED BY <3>1, FirstIn
  <2>7. sDb' = IF Initiator(c.kind) = S /\ r # Fetch
               THEN [sDb EXCEPT ![r] = Acked(c.kind)] ELSE sDb
    BY <2>4, <2>5, <2>6 DEF AnswerReceived
  <2>8. g = r /\ Acked(c.kind) # "SENT_CONFIRMED" /\ sDb'[g] = Acked(c.kind)
    BY <2>1, <2>7
  <2>9. c.kind = "store" /\ Acked(c.kind) = "SENT"
    BY <2>8 DEF Acked
  <2> QED BY <2>5, <2>8, <2>9
<1> QED BY <1>1, Invariant, PTL DEF Spec, ConfirmationSticks
-----------------------------------------------------------------------------
(* The slots in a step *)

\* What a connection carries is what it carried, but for the message whose answer is saved.
Same(c, d) == /\ d.kind = c.kind /\ d.reqs = c.reqs /\ d.list = c.list
              /\ \A g \in Gids : d.seen[g] # "none" => c.seen[g] # "none"

\* d was opened in this step, by the sender for messages it has composed.
Opened(d) == \E kind \in Kinds, reqs \in SUBSET (1..Fetch) :
               /\ d = Open(kind, reqs)
               /\ kind \in {"direct", "store"} => Fetch \notin reqs
               /\ kind = "pull" => reqs = {Fetch}
               /\ kind \in {"direct", "syncS", "store"} => \A g \in reqs \cap Gids : sDb'[g] # "none"

Changes(t) == \/ Same(conn[t], conn'[t])
              \/ conn'[t] = Idle
              \/ Opened(conn'[t])
              \/ \E split \in BOOLEAN : Handle(t, split)

\* No answer leaves, or is saved or lost, in slot t.
Quiet(t) == /\ conn'[t].flushed = conn[t].flushed
            /\ conn[t].flushed # NoReq => conn'[t].kind = conn[t].kind

Undisturbed == \A t \in Slots : Changes(t) /\ Quiet(t)

\* A request of the sender is a message it composed, what the receiver knew when it handled
\* a message it still knows, and so for the lists.
Backed(c) ==
  /\ c.kind \in {"direct", "syncS", "store"} => \A g \in c.reqs \cap Gids : sDb[g] # "none"
  /\ c.kind \in {"direct", "syncS"} => \A g \in Gids : c.seen[g] # "none" => rDb[g] # "none"
  /\ c.kind = "syncR" => \A g \in c.list : sDb[g] # "none"
  /\ c.kind = "pull" => \A g \in c.list : mCopies[g] > 0

AllBacked == \A s \in Slots : Backed(conn[s])

LEMMA OneSlot ==
  ASSUME IInv, NEW s \in Slots, NEW d, conn' = [conn EXCEPT ![s] = d],
         \/ Same(conn[s], d) /\ d.flushed = conn[s].flushed
         \/ d = Idle /\ conn[s].flushed = NoReq
  PROVE  Undisturbed
<1> SUFFICES ASSUME NEW t \in Slots PROVE Changes(t) /\ Quiet(t)
  BY DEF Undisturbed
<1>1. CASE t # s
  <2>1. conn'[t] = conn[t]
    BY <1>1 DEF IInv, ConnsOK
  <2> QED BY <2>1 DEF Changes, Quiet, Same
<1>2. CASE t = s
  <2>1. conn'[t] = d
    BY <1>2 DEF IInv, ConnsOK
  <2> QED BY <1>2, <2>1, IdleOK DEF Changes, Quiet, Same
<1> QED BY <1>1, <1>2

\* A connection in slot s whose end e closes, or takes an answer: released when both ends are gone.
LEMMA SlotReleased ==
  ASSUME IInv, NEW s \in Slots, NEW d, conn' = [conn EXCEPT ![s] = Release(d)],
         Same(conn[s], d), d.flushed = conn[s].flushed, d.flushed = NoReq \/ d.accUp
  PROVE  Undisturbed
<1>1. Release(d) = d \/ (Release(d) = Idle /\ conn[s].flushed = NoReq)
  BY DEF Release
<1>2. PICK e : e = Release(d)
  OBVIOUS
<1> QED BY <1>1, <1>2, OneSlot

LEMMA EndCloses == ASSUME NEW c \in Connection, NEW d,
                          d = [c EXCEPT !.accUp = FALSE] \/ d = [c EXCEPT !.iniUp = FALSE]
                   PROVE  Same(c, d) /\ d.flushed = c.flushed /\ (d = [c EXCEPT !.iniUp = FALSE] => d.accUp = c.accUp)
BY DEF Same, Connection

\* A connection that is opened when the slots are f.
LEMMA StartsSlots ==
  ASSUME NEW f, DOMAIN f = Slots, NEW kind \in Kinds, NEW reqs \in SUBSET (1..Fetch), Starts(f, kind, reqs),
         kind \in {"direct", "store"} => Fetch \notin reqs,
         kind = "pull" => reqs = {Fetch},
         kind \in {"direct", "syncS", "store"} => \A g \in reqs \cap Gids : sDb'[g] # "none",
         NEW t \in Slots
  PROVE  conn'[t] = f[t] \/ (f[t] = Idle /\ Opened(conn'[t]) /\ conn'[t].flushed = NoReq)
<1>1. conn'[t] = f[t] \/ (f[t] = Idle /\ conn'[t] = Open(kind, reqs))
  BY DEF Starts
<1>2. Open(kind, reqs).flushed = NoReq
  <2> DEFINE c == Open(kind, reqs)
  <2>1. ConnOK(c) /\ c.flushed = NoReq
    BY OpenFields
  <2> QED BY <2>1
<1>3. conn'[t] = Open(kind, reqs) => Opened(conn'[t])
  BY DEF Opened
<1> QED BY <1>1, <1>2, <1>3

LEMMA StartsUndisturbed ==
  ASSUME IInv, NEW kind \in Kinds, NEW reqs \in SUBSET (1..Fetch), Starts(conn, kind, reqs),
         kind \in {"direct", "store"} => Fetch \notin reqs,
         kind = "pull" => reqs = {Fetch},
         kind \in {"direct", "syncS", "store"} => \A g \in reqs \cap Gids : sDb'[g] # "none"
  PROVE  Undisturbed
<1> SUFFICES ASSUME NEW t \in Slots PROVE Changes(t) /\ Quiet(t)
  BY DEF Undisturbed
<1>1. conn'[t] = conn[t] \/ (conn[t] = Idle /\ Opened(conn'[t]) /\ conn'[t].flushed = NoReq)
  BY StartsSlots DEF IInv, ConnsOK
<1> QED BY <1>1, IdleOK DEF Changes, Quiet, Same

LEMMA NothingUndisturbed == ASSUME UNCHANGED conn PROVE Undisturbed
BY DEF Undisturbed, Changes, Quiet, Same

LEMMA HandleMsgUndisturbed == ASSUME IInv, NEW g \in Gids, NEW mbDirect \in BOOLEAN, HandleMsg(g, mbDirect)
                              PROVE  Undisturbed
<1>1. sDb' = [sDb EXCEPT ![g] = "UNDELIVERED"] /\ sDb \in [Gids -> SentStatus]
  BY DEF HandleMsg, IInv, Shape
<1>2. {g} \in SUBSET (1..Fetch) /\ Fetch \notin {g} /\ \A h \in {g} \cap Gids : sDb'[h] # "none"
  BY <1>1, Parties
<1>3. CASE Starts(conn, "store", {g}) \/ Starts(conn, "direct", {g})
  BY <1>2, <1>3, StartsUndisturbed DEF Kinds
<1> QED BY <1>3, NothingUndisturbed DEF HandleMsg, SendMb

LEMMA ContactSyncUndisturbed == ASSUME IInv, NEW p \in {S, R}, ContactSync(p) PROVE Undisturbed
<1>1. sDb' = sDb
  BY DEF ContactSync, db
<1>2. /\ Undelivered \cup {Fetch} \in SUBSET (1..Fetch) /\ Unconfirmed \cup {Fetch} \in SUBSET (1..Fetch)
      /\ \A g \in (Undelivered \cup {Fetch}) \cap Gids : sDb'[g] # "none"
  BY <1>1, Parties DEF Undelivered, Unconfirmed
<1>3. CASE Starts(conn, "syncS", Undelivered \cup {Fetch})
  BY <1>2, <1>3, StartsUndisturbed DEF Kinds
<1>4. CASE Starts(conn, "syncR", Unconfirmed \cup {Fetch})
  BY <1>2, <1>4, StartsUndisturbed DEF Kinds
<1> QED BY <1>3, <1>4 DEF ContactSync

LEMMA MailboxSyncUndisturbed == ASSUME IInv, MailboxSync PROVE Undisturbed
<1>1. {Fetch} \in SUBSET (1..Fetch)
  BY Parties
<1> QED BY <1>1, StartsUndisturbed DEF MailboxSync, Kinds

LEMMA HandleUndisturbed == ASSUME IInv, NEW s \in Slots, NEW split \in BOOLEAN, Handle(s, split) PROVE Undisturbed
<1> SUFFICES ASSUME NEW t \in Slots PROVE Changes(t) /\ Quiet(t)
  BY DEF Undisturbed
<1>1. CASE t # s
  <2>1. conn'[t] = conn[t]
    BY <1>1 DEF IInv, ConnsOK, Handle
  <2> QED BY <2>1 DEF Changes, Quiet, Same
<1>2. CASE t = s
  <2>1. conn'[s].flushed = conn[s].flushed /\ conn'[s].kind = conn[s].kind
    <3>1. PICK c \in Connection : c = conn[s]
      BY SlotOK
    <3>2. \E h, f, n, l : conn'[s] = [c EXCEPT !.handled = h, !.freed = f, !.seen = n, !.list = l]
      BY <3>1 DEF Handle, IInv, ConnsOK
    <3> QED BY <3>1, <3>2 DEF Connection
  <2> QED BY <1>2, <2>1 DEF Changes, Quiet
<1> QED BY <1>1, <1>2

LEMMA AcceptorClosesUndisturbed ==
  ASSUME IInv, NEW s \in Slots, conn[s].flushed = NoReq, NEW d, d = [conn[s] EXCEPT !.accUp = FALSE],
         conn' = [conn EXCEPT ![s] = Release(d)]
  PROVE  Undisturbed
<1>1. Same(conn[s], d) /\ d.flushed = conn[s].flushed
  BY SlotOK, EndCloses
<1> QED BY <1>1, SlotReleased

LEMMA AcceptorUndisturbed ==
  ASSUME IInv, NEW s \in Slots, Reject(s) \/ AcceptorEof(s) \/ AcceptorBreak(s)
  PROVE  (Undisturbed /\ UNCHANGED lost) \/ \E p \in {S, R, M} : Die(p)
<1>1. conn[s].flushed = NoReq
  <2>1. CASE Reject(s)
    BY <2>1, FreeSlot, Parties DEF Reject, Poisoned
  <2>2. CASE AcceptorEof(s) \/ AcceptorBreak(s)
    BY <2>2, FreeSlot DEF AcceptorEof, AcceptorBreak
  <2> QED BY <2>1, <2>2
<1>2. PICK d : d = [conn[s] EXCEPT !.accUp = FALSE]
  OBVIOUS
<1>3. conn[s].accUp /\ AcceptorFails(s)
  BY DEF Reject, AcceptorEof, AcceptorBreak
<1>4. CASE Die(Acceptor(conn[s].kind))
  BY <1>3, <1>4, AcceptorOf
<1>5. CASE ~Die(Acceptor(conn[s].kind))
  <2>1. conn' = [conn EXCEPT ![s] = Release(d)] /\ UNCHANGED lost
    BY <1>2, <1>3, <1>5 DEF AcceptorFails, history
  <2> QED BY <1>1, <1>2, <2>1, AcceptorClosesUndisturbed
<1> QED BY <1>4, <1>5

LEMMA AnswerReceivedUndisturbed == ASSUME IInv, NEW s \in Slots, AnswerReceived(s) PROVE Undisturbed
<1>1. PICK c \in Connection : c = conn[s] /\ ConnOK(c)
  BY SlotOK
<1>2. PICK z, up, d : /\ d = [c EXCEPT !.got = z, !.iniUp = up]
                      /\ conn' = [conn EXCEPT ![s] = Release(d)]
  <2>1. PICK r : conn' = [conn EXCEPT ![s] = LET e == [c EXCEPT !.got = c.got \cup {r}]
                                             IN Release([e EXCEPT !.iniUp = (e.got # e.reqs)])]
    BY <1>1 DEF AnswerReceived
  <2>2. PICK z : z = c.got \cup {r}
    OBVIOUS
  <2>3. LET e == [c EXCEPT !.got = z] IN \E up : [e EXCEPT !.iniUp = (e.got # e.reqs)] = [c EXCEPT !.got = z, !.iniUp = up]
    BY DEF Connection
  <2> QED BY <2>1, <2>2, <2>3
<1>3. Same(c, d) /\ d.flushed = c.flushed /\ d.accUp = c.accUp
  BY <1>2 DEF Same, Connection
<1>4. d.flushed = NoReq \/ d.accUp
  BY <1>1, <1>3 DEF ConnOK
<1> QED BY <1>1, <1>2, <1>3, <1>4, SlotReleased

\* The fallback of app_message_send opens a connection for the message it had composed.
LEMMA InitiatorFailsUndisturbed == ASSUME IInv, AllBacked, NEW s \in Slots, InitiatorFails(s) PROVE Undisturbed
<1>1. PICK c \in Connection : c = conn[s] /\ ConnOK(c) /\ Backed(c)
  BY SlotOK DEF AllBacked
<1>2. PICK d : d = [c EXCEPT !.iniUp = FALSE]
  OBVIOUS
<1>3. Same(c, d) /\ d.flushed = c.flushed /\ (d.flushed = NoReq \/ d.accUp)
  BY <1>1, <1>2, EndCloses DEF ConnOK
<1>4. PICK f : f = [conn EXCEPT ![s] = Release(d)]
  OBVIOUS
<1>5. conn' = f \/ \E g \in c.reqs : c.kind = "direct" /\ Starts(f, "store", {g})
  BY <1>1, <1>2, <1>4 DEF InitiatorFails, SendMb
<1>6. CASE conn' = f
  BY <1>1, <1>3, <1>4, <1>6, SlotReleased
<1>7. CASE \E g \in c.reqs : c.kind = "direct" /\ Starts(f, "store", {g})
  <2>1. PICK g \in c.reqs : c.kind = "direct" /\ Starts(f, "store", {g})
    BY <1>7
  <2>2. {g} \in SUBSET (1..Fetch) /\ Fetch \notin {g} /\ \A h \in {g} \cap Gids : sDb'[h] # "none"
    <3>1. g \in 1..Fetch /\ g # Fetch
      BY <1>1, <2>1 DEF ConnOK, Connection
    <3>2. sDb' = sDb
      BY DEF InitiatorFails, db
    <3> QED BY <1>1, <2>1, <3>1, <3>2 DEF Backed
  <2> SUFFICES ASSUME NEW t \in Slots PROVE Changes(t) /\ Quiet(t)
    BY DEF Undisturbed
  <2>3. /\ DOMAIN f = Slots /\ f[s] = Release(d) /\ (t # s => f[t] = conn[t])
    BY <1>4 DEF IInv, ConnsOK
  <2>4. conn'[t] = f[t] \/ (f[t] = Idle /\ Opened(conn'[t]) /\ conn'[t].flushed = NoReq)
    BY <2>1, <2>2, <2>3, StartsSlots DEF Kinds
  <2>5. f[t] = Idle => conn[t].flushed = NoReq
    <3>1. f[t] = Idle /\ t = s => d.flushed = NoReq
      BY <1>3, <2>3, IdleOK DEF Release
    <3> QED BY <1>1, <1>3, <2>3, <3>1, IdleOK
  <2>6. f[t] = Idle \/ (Same(conn[t], f[t]) /\ f[t].flushed = conn[t].flushed)
    <3>1. CASE t = s
      BY <1>1, <1>3, <2>3, <3>1 DEF Release
    <3>2. CASE t # s
      BY <2>3, <3>2 DEF Same
    <3> QED BY <3>1, <3>2
  <2> QED BY <2>4, <2>5, <2>6, IdleOK DEF Changes, Quiet, Same
<1> QED BY <1>5, <1>6, <1>7

\* The answer leaves for request r.
LEMMA FlushSlots ==
  ASSUME IInv, NEW s \in Slots, Flush(s)
  PROVE  \E r \in conn[s].reqs : /\ r \in 1..Fetch /\ conn'[s].flushed = r /\ Same(conn[s], conn'[s])
                                 /\ \A t \in Slots \ {s} : conn'[t] = conn[t]
<1>1. PICK c \in Connection : c = conn[s] /\ ConnOK(c)
  BY SlotOK
<1>2. PICK r \in c.reqs : r = First(c.handled \ c.sent) /\ r \in 1..Fetch
  <2>1. c.handled \ c.sent # {} /\ c.handled \ c.sent \subseteq 1..Fetch
    BY <1>1 DEF Flush, ConnOK, Connection
  <2> QED BY <1>1, <2>1, FirstIn DEF ConnOK
<1>3. conn' = [conn EXCEPT ![s].sent = @ \cup {r}, ![s].flushed = r] /\ DOMAIN conn = Slots
  BY <1>1, <1>2 DEF Flush, IInv, ConnsOK
<1>4. PICK z : z = c.sent \cup {r}
  OBVIOUS
<1>5. conn'[s] = [c EXCEPT !.sent = z, !.flushed = r] /\ \A t \in Slots \ {s} : conn'[t] = conn[t]
  BY <1>1, <1>3, <1>4 DEF Connection
<1>6. conn'[s].flushed = r /\ Same(c, conn'[s])
  BY <1>5 DEF Same, Connection
<1> QED BY <1>1, <1>2, <1>5, <1>6

\* Once it is saved, or missed, nothing is under way in its slot.
LEMMA AnswerSentSlots ==
  ASSUME IInv, NEW s \in Slots, AnswerSent(s) \/ AnswerMissed(s)
  PROVE  /\ conn'[s].flushed = NoReq /\ Same(conn[s], conn'[s])
         /\ \A t \in Slots \ {s} : conn'[t] = conn[t]
<1>1. PICK c \in Connection : c = conn[s]
  BY SlotOK
<1>2. PICK n, f : n = [g \in Gids |-> IF g = c.flushed THEN "none" ELSE c.seen[g]] /\ f = c.freed \ {c.flushed}
  OBVIOUS
<1>3. PICK d : d = Answered(c)
  OBVIOUS
<1>4. conn'[s] = d /\ \A t \in Slots \ {s} : conn'[t] = conn[t]
  BY <1>1, <1>3, ObjectGoneSlots DEF AnswerSent, AnswerMissed
<1>6. d = [c EXCEPT !.flushed = NoReq, !.freed = f, !.seen = n]
  BY <1>2, <1>3 DEF Answered
<1>5. d.flushed = NoReq /\ Same(c, d)
  BY <1>2, <1>6 DEF Same, Connection
<1> QED BY <1>1, <1>4, <1>5

LEMMA DieSlots ==
  ASSUME IInv, NEW p \in {S, R, M}, Die(p), NEW t \in Slots
  PROVE  /\ Changes(t)
         /\ Acceptor(conn[t].kind) = p => conn'[t].flushed = NoReq
         /\ Acceptor(conn[t].kind) # p => Quiet(t)
<1>1. PICK c \in Connection : c = conn[t] /\ ConnOK(c)
  BY SlotOK
<1>2. CASE c.kind = "idle"
  <2>1. conn'[t] = c /\ c.flushed = NoReq
    BY <1>1, <1>2 DEF Die, ConnOK
  <2> QED BY <1>1, <2>1 DEF Changes, Quiet, Same
<1>3. CASE c.kind # "idle"
  <2>1. PICK i \in BOOLEAN : i = (c.iniUp /\ Initiator(c.kind) # p)
    OBVIOUS
  <2>2. PICK a \in BOOLEAN : a = (c.accUp /\ Acceptor(c.kind) # p)
    OBVIOUS
  <2>3. PICK f \in 0..Fetch : f = IF Acceptor(c.kind) = p THEN NoReq ELSE c.flushed
    BY NumMsgsAssumption DEF Connection, NoReq, Fetch
  <2>4. PICK d : d = [c EXCEPT !.iniUp = i, !.accUp = a, !.flushed = f]
    OBVIOUS
  <2>5. conn'[t] = Release(d)
    BY <1>1, <1>3, <2>1, <2>2, <2>3, <2>4 DEF Die, Connection
  <2>6. Same(c, d) /\ d.flushed = f /\ d.accUp = a /\ d.kind = c.kind
    BY <2>4 DEF Same, Connection
  <2>7. Release(d) = d \/ (Release(d) = Idle /\ ~a)
    BY <2>6 DEF Release
  <2>8. ~a => f = NoReq
    BY <1>1, <2>2, <2>3 DEF ConnOK
  <2> QED BY <1>1, <2>3, <2>5, <2>6, <2>7, <2>8, IdleOK DEF Changes, Quiet
<1> QED BY <1>2, <1>3
-----------------------------------------------------------------------------
(* The invariant behind the refinement *)

\* Whatever the receiver finds under an id has a row.
RowsKept == \A g \in Gids : rDb[g] # "none" => copies[g] > 0

\* A process has one answer under way: its write callback comes first.
Alone == \A s, t \in Slots : /\ conn[s].flushed # NoReq /\ conn[t].flushed # NoReq
                             /\ Acceptor(conn[s].kind) = Acceptor(conn[t].kind)
                             => s = t

MailInv == IInv /\ RowsFound /\ RowsKept /\ AllBacked /\ Alone

\* Each step disturbs no answer, or is one of the four that do.
LEMMA Steps == ASSUME IInv, AllBacked, [Next]_vars
               PROVE  \/ Undisturbed /\ UNCHANGED lost
                      \/ \E s \in Slots : Flush(s) \/ AnswerSent(s) \/ AnswerMissed(s)
                      \/ \E p \in {S, R, M} : Die(p)
<1>1. ASSUME NEW g \in Gids, NEW mbDirect \in BOOLEAN, HandleMsg(g, mbDirect) PROVE Undisturbed /\ UNCHANGED lost
  BY <1>1, HandleMsgUndisturbed DEF HandleMsg, history
<1>2. ASSUME NEW p \in {S, R}, ContactSync(p) PROVE Undisturbed /\ UNCHANGED lost
  BY <1>2, ContactSyncUndisturbed DEF ContactSync, history
<1>3. ASSUME MailboxSync PROVE Undisturbed /\ UNCHANGED lost
  BY <1>3, MailboxSyncUndisturbed DEF MailboxSync, history
<1>4. ASSUME NEW s \in Slots, NEW split \in BOOLEAN, Handle(s, split) PROVE Undisturbed /\ UNCHANGED lost
  BY <1>4, HandleUndisturbed DEF Handle, history
<1>5. ASSUME NEW s \in Slots, Reject(s) \/ AcceptorEof(s) \/ AcceptorBreak(s)
      PROVE  (Undisturbed /\ UNCHANGED lost) \/ \E p \in {S, R, M} : Die(p)
  BY <1>5, AcceptorUndisturbed
<1>9. ASSUME NEW s \in Slots, AckUsesFreed(s) PROVE \E p \in {S, R, M} : Die(p)
  BY <1>9, AcceptorOf DEF AckUsesFreed
<1>10. ASSUME NEW p \in {S, R, M}, Crash(p) PROVE \E q \in {S, R, M} : Die(q)
  BY <1>10 DEF Crash
<1>6. ASSUME NEW s \in Slots, AnswerReceived(s) PROVE Undisturbed /\ UNCHANGED lost
  BY <1>6, AnswerReceivedUndisturbed DEF AnswerReceived, history
<1>7. ASSUME NEW s \in Slots, InitiatorEof(s) \/ InitiatorBreak(s) PROVE Undisturbed /\ UNCHANGED lost
  BY <1>7, InitiatorFailsUndisturbed DEF InitiatorEof, InitiatorBreak, InitiatorFails, history
<1>8. ASSUME UNCHANGED vars PROVE Undisturbed /\ UNCHANGED lost
  BY <1>8, NothingUndisturbed DEF vars, history
<1> QED BY <1>1, <1>2, <1>3, <1>4, <1>5, <1>6, <1>7, <1>8, <1>9, <1>10 DEF Next, Accept

LEMMA EachChanges == ASSUME IInv, AllBacked, [Next]_vars, NEW t \in Slots PROVE Changes(t)
<1>1. ASSUME NEW s \in Slots, Flush(s) \/ AnswerSent(s) \/ AnswerMissed(s) PROVE Changes(t)
  <2>1. Same(conn[s], conn'[s]) /\ (t # s => conn'[t] = conn[t])
    BY <1>1, FlushSlots, AnswerSentSlots
  <2> QED BY <2>1 DEF Changes, Same
<1>2. ASSUME NEW p \in {S, R, M}, Die(p) PROVE Changes(t)
  BY <1>2, DieSlots
<1> QED BY <1>1, <1>2, Steps DEF Undisturbed

\* No table forgets a message.
Grows == \A g \in Gids : /\ sDb[g] # "none" => sDb'[g] # "none"
                         /\ rDb[g] # "none" => rDb'[g] # "none"
                         /\ mCopies[g] > 0 => mCopies'[g] > 0

LEMMA StepGrows == ASSUME IInv, [Next]_vars PROVE Grows
<1>1. ASSUME NEW g \in Gids, NEW mbDirect \in BOOLEAN, HandleMsg(g, mbDirect) PROVE Grows
  BY <1>1 DEF HandleMsg, Grows, IInv, Shape
<1>2. ASSUME NEW s \in Slots, AnswerSent(s) PROVE Grows
  <2>1. PICK c \in Connection : c = conn[s] /\ ConnOK(c) /\ Means(c)
    BY SlotOK
  <2>2. Effect(c, c.flushed)
    BY <1>2, <2>1, SavesOK
  <2> QED BY <2>2 DEF Effect, Grows
<1>3. ASSUME NEW s \in Slots, AnswerReceived(s) PROVE Grows
  <2>1. \A g \in Gids : rDb[g] # "none" => rDb'[g] # "none"
    BY <1>3, ReceivedInserts
  <2>2. \A g \in Gids : sDb[g] # "none" => sDb'[g] # "none"
    <3>1. \E r : sDb' = sDb \/ sDb' = [sDb EXCEPT ![r] = Acked(conn[s].kind)]
      BY <1>3 DEF AnswerReceived
    <3> QED BY <3>1 DEF Acked, IInv, Shape
  <2> QED BY <1>3, <2>1, <2>2 DEF AnswerReceived, Grows
<1> QED BY <1>1, <1>2, <1>3, Writers DEF Grows

LEMMA SameBacked == ASSUME Grows, NEW c \in Connection, NEW d, Backed(c), Same(c, d) PROVE Backed(d)'
<1>1. c.list \subseteq Gids /\ d.kind = c.kind /\ d.reqs = c.reqs /\ d.list = c.list
  BY DEF Connection, Same
<1>2. d.kind \in {"direct", "syncS", "store"} => \A g \in d.reqs \cap Gids : sDb'[g] # "none"
  BY <1>1 DEF Backed, Grows
<1>3. d.kind \in {"direct", "syncS"} => \A g \in Gids : d.seen[g] # "none" => rDb'[g] # "none"
  BY <1>1 DEF Backed, Grows, Same
<1>4. /\ d.kind = "syncR" => \A g \in d.list : sDb'[g] # "none"
      /\ d.kind = "pull" => \A g \in d.list : mCopies'[g] > 0
  BY <1>1 DEF Backed, Grows
<1> QED BY <1>2, <1>3, <1>4 DEF Backed

LEMMA HandleBacked == ASSUME IInv, AllBacked, NEW s \in Slots, NEW split \in BOOLEAN, Handle(s, split) PROVE Backed(conn[s])'
<1>1. PICK c \in Connection : c = conn[s] /\ ConnOK(c) /\ Backed(c)
  BY SlotOK DEF AllBacked
<1>2. PICK r \in 1..Fetch : r = First(c.reqs \ c.handled)
  <2>1. c.reqs \ c.handled # {} /\ c.reqs \ c.handled \subseteq 1..Fetch
    BY <1>1 DEF Handle, ConnOK, Connection
  <2> QED BY <2>1, FirstIn
<1>3. PICK n : n = IF c.kind \in {"direct", "syncS"} /\ r # Fetch
                   THEN [c.seen EXCEPT ![r] = rDb[r]] ELSE
                   IF c.kind = "store" /\ mCopies[r] > 0
                   THEN [c.seen EXCEPT ![r] = "RECV"] ELSE c.seen
  OBVIOUS
<1>4. PICK l : l = IF r = Fetch THEN ListOf(c.kind) ELSE c.list
  OBVIOUS
<1>5. \E h, f : conn'[s] = [c EXCEPT !.handled = h, !.freed = f, !.seen = n, !.list = l]
  BY <1>1, <1>2, <1>3, <1>4 DEF Handle, IInv, ConnsOK
<1>6. /\ conn'[s].kind = c.kind /\ conn'[s].reqs = c.reqs /\ conn'[s].seen = n /\ conn'[s].list = l
      /\ sDb' = sDb /\ rDb' = rDb /\ mCopies' = mCopies
  <2>1. PICK h, f : conn'[s] = [c EXCEPT !.handled = h, !.freed = f, !.seen = n, !.list = l]
    BY <1>5
  <2>2. conn'[s].kind = c.kind /\ conn'[s].reqs = c.reqs /\ conn'[s].seen = n /\ conn'[s].list = l
    BY <2>1 DEF Connection
  <2> QED BY <2>2 DEF Handle, db
<1>7. c.kind \in {"direct", "syncS"} => \A g \in Gids : n[g] # "none" => rDb[g] # "none"
  BY <1>1, <1>3 DEF Backed, Connection
<1>8. /\ c.kind = "syncR" => \A g \in l : sDb[g] # "none"
      /\ c.kind = "pull" => \A g \in l : mCopies[g] > 0
  BY <1>1, <1>4 DEF Backed, ListOf, Undelivered
<1>9. c.kind \in {"direct", "syncS", "store"} => \A g \in c.reqs \cap Gids : sDb[g] # "none"
  BY <1>1 DEF Backed
<1> QED BY <1>6, <1>7, <1>8, <1>9 DEF Backed

LEMMA BackedNext == ASSUME IInv, AllBacked, [Next]_vars PROVE AllBacked'
<1> SUFFICES ASSUME NEW t \in Slots PROVE Backed(conn[t])'
  BY DEF AllBacked
<1>1. CASE Same(conn[t], conn'[t])
  <2>1. PICK c \in Connection : c = conn[t] /\ Backed(c)
    BY SlotOK DEF AllBacked
  <2>2. PICK d : d = conn'[t]
    OBVIOUS
  <2>3. Backed(d)'
    BY <1>1, <2>1, <2>2, SameBacked, StepGrows
  <2> QED BY <2>2, <2>3 DEF Backed
<1>2. CASE conn'[t] = Idle
  BY <1>2, IdleOK DEF Backed
<1>3. CASE Opened(conn'[t])
  <2>1. PICK kind \in Kinds, reqs \in SUBSET (1..Fetch) :
              /\ conn'[t] = Open(kind, reqs)
              /\ kind \in {"direct", "store"} => Fetch \notin reqs
              /\ kind = "pull" => reqs = {Fetch}
              /\ kind \in {"direct", "syncS", "store"} => \A g \in reqs \cap Gids : sDb'[g] # "none"
    BY <1>3 DEF Opened
  <2> DEFINE c == Open(kind, reqs)
  <2>2. c.kind = kind /\ c.reqs = reqs /\ c.list = {} /\ \A g \in Gids : c.seen[g] = "none"
    BY <2>1, OpenFields
  <2> QED BY <2>1, <2>2 DEF Backed
<1>4. CASE \E split \in BOOLEAN : Handle(t, split)
  BY <1>4, HandleBacked
<1> QED BY <1>1, <1>2, <1>3, <1>4, EachChanges DEF Changes

LEMMA AloneNext == ASSUME IInv, AllBacked, Alone, [Next]_vars PROVE Alone'
<1> SUFFICES ASSUME NEW t \in Slots, NEW u \in Slots, conn'[t].flushed # NoReq, conn'[u].flushed # NoReq,
                    Acceptor(conn'[t].kind) = Acceptor(conn'[u].kind)
             PROVE  t = u
  BY DEF Alone
<1>1. ASSUME \A v \in {t, u} : conn[v].flushed # NoReq /\ conn'[v].kind = conn[v].kind PROVE t = u
  BY <1>1 DEF Alone
<1>2. CASE Undisturbed
  BY <1>1, <1>2 DEF Undisturbed, Quiet
<1>3. ASSUME NEW s \in Slots, AnswerSent(s) \/ AnswerMissed(s) PROVE t = u
  <2>1. t # s /\ u # s /\ conn'[t] = conn[t] /\ conn'[u] = conn[u]
    BY <1>3, AnswerSentSlots
  <2> QED BY <1>1, <2>1
<1>4. ASSUME NEW p \in {S, R, M}, Die(p) PROVE t = u
  <2>1. Acceptor(conn[t].kind) # p /\ Quiet(t) /\ Acceptor(conn[u].kind) # p /\ Quiet(u)
    BY <1>4, DieSlots
  <2> QED BY <1>1, <2>1 DEF Quiet
<1>5. ASSUME NEW s \in Slots, Flush(s) PROVE t = u
  <2>1. conn'[s].kind = conn[s].kind /\ \A v \in Slots \ {s} : conn'[v] = conn[v]
    BY <1>5, FlushSlots DEF Same
  <2>2. \A v \in Slots : conn[v].flushed # NoReq => Acceptor(conn[v].kind) # Acceptor(conn[s].kind)
    BY <1>5 DEF Flush, Free
  <2>3. CASE t # s /\ u # s
    BY <1>1, <2>1, <2>3
  <2> QED BY <2>1, <2>2, <2>3
<1> QED BY <1>2, <1>3, <1>4, <1>5, Steps

LEMMA RowsKeptNext == ASSUME IInv, AllBacked, RowsKept, [Next]_vars PROVE RowsKept'
<1> SUFFICES ASSUME NEW g \in Gids, rDb'[g] # "none" PROVE copies'[g] > 0
  BY DEF RowsKept
<1>1. rDb[g] # "none" => copies[g] > 0
  BY DEF RowsKept
<1>2. CASE UNCHANGED <<rDb, copies>>
  BY <1>1, <1>2
<1>3. ASSUME NEW r \in Gids, NEW row \in RecvStatus, SaveReceived(r, row), row # "none" => rDb[r] # "none"
      PROVE  copies'[g] > 0
  <2>1. CASE g # r \/ row # "none"
    BY <1>1, <1>3, <2>1, ReceivedRow DEF IInv
  <2>2. CASE g = r /\ row = "none"
    <3>1. copies' = [copies EXCEPT ![r] = copies[r] + 1] /\ copies \in [Gids -> Nat]
      BY <1>3, <2>2 DEF SaveReceived, IInv, Shape
    <3> QED BY <2>2, <3>1
  <2> QED BY <2>1, <2>2
<1>4. ASSUME NEW s \in Slots, AnswerSent(s) PROVE copies'[g] > 0
  <2>1. CASE ~UNCHANGED <<rDb, copies>>
    <3>1. PICK r \in Gids : /\ conn[s].flushed = r /\ Acceptor(conn[s].kind) = R
                            /\ SaveReceived(r, conn[s].seen[r]) /\ conn[s].seen[r] \in RecvStatus
      BY <1>4, <2>1, SentReceives
    <3>2. conn[s].kind \in {"direct", "syncS"}
      BY <3>1, SlotOK, Parties DEF Acceptor, Kinds, AnswerSent
    <3>3. conn[s].seen[r] # "none" => rDb[r] # "none"
      BY <3>2 DEF AllBacked, Backed
    <3> QED BY <1>3, <3>1, <3>3
  <2> QED BY <1>2, <2>1
<1>5. ASSUME NEW s \in Slots, AnswerReceived(s) PROVE copies'[g] > 0
  <2>1. PICK r, new : /\ r = First(conn[s].sent \ conn[s].got) /\ new = NewIn(conn[s].list)
    OBVIOUS
  <2>2. rDb'[g] = IF conn[s].kind = "syncR" /\ g = r /\ rDb[g] # "none" THEN "RECV_CONFIRMED" ELSE
                  IF Initiator(conn[s].kind) = R /\ r = Fetch /\ g \in new
                  THEN IF conn[s].kind = "pull" THEN "RECV" ELSE "RECV_CONFIRMED"
                  ELSE rDb[g]
    BY <1>5, <2>1 DEF AnswerReceived
  <2>3. copies'[g] = IF Initiator(conn[s].kind) = R /\ r = Fetch /\ g \in new
                     THEN copies[g] + 1 ELSE copies[g]
    BY <1>5, <2>1 DEF AnswerReceived
  <2>4. copies[g] \in Nat
    BY DEF IInv, Shape
  <2> QED BY <1>1, <2>2, <2>3, <2>4
<1>6. ASSUME NEW h \in Gids, NEW mbDirect \in BOOLEAN, HandleMsg(h, mbDirect)
      PROVE  UNCHANGED <<rDb, copies>>
  BY <1>6 DEF HandleMsg
<1> QED BY <1>2, <1>4, <1>5, <1>6, Writers

\* Every reachable state satisfies the invariant.
LEMMA MailInvariant == Spec => []MailInv
<1>1. Init => MailInv
  BY InitInv, RowsFoundInit, IdleOK DEF Init, MailInv, RowsKept, AllBacked, Backed, Alone
<1>2. MailInv /\ [Next]_vars => MailInv'
  BY NextInv, RowsFoundNext, RowsKeptNext, BackedNext, AloneNext DEF MailInv
<1> QED BY <1>1, <1>2, PTL DEF Spec
-----------------------------------------------------------------------------
(* The state of Mail *)

MailRows   == [p \in {R, M} |-> IF p = R THEN copies ELSE mCopies]
MailSaving == [p \in {R, M} |-> {g \in Gids : Saving(p, g)}]
MailMissed   == [p \in {R, M} |-> {g \in Gids : <<p, g>> \in lost}]

\* The connections whose acceptor saves a message after its answer.
SavedKinds == {"direct", "syncS", "store"}

LEMMA SavingIn == ASSUME NEW p \in {R, M}, NEW g \in Gids
                  PROVE  /\ g \in MailSaving[p] <=> Saving(p, g)
                         /\ (g \in MailSaving[p])' <=> Saving(p, g)'
                         /\ g \in MailMissed[p] <=> <<p, g>> \in lost
                         /\ (g \in MailMissed[p])' <=> <<p, g>> \in lost'
BY DEF MailSaving, MailMissed

LEMMA ViewTypes == /\ DOMAIN MailSaving = {R, M} /\ DOMAIN MailMissed = {R, M} /\ DOMAIN MailRows = {R, M}
                   /\ MailSaving = [p \in {R, M} |-> MailSaving[p]] /\ MailMissed = [p \in {R, M} |-> MailMissed[p]]
                   /\ \A p \in {R, M} : MailSaving[p] \subseteq Gids /\ MailMissed[p] \subseteq Gids
BY DEF MailSaving, MailMissed, MailRows

LEMMA ViewTypesNext == /\ DOMAIN MailSaving' = {R, M} /\ DOMAIN MailMissed' = {R, M}
                       /\ MailSaving' = [p \in {R, M} |-> MailSaving'[p]]
                       /\ MailMissed' = [p \in {R, M} |-> MailMissed'[p]]
                       /\ \A p \in {R, M} : MailSaving'[p] \subseteq Gids /\ MailMissed'[p] \subseteq Gids
BY DEF MailSaving, MailMissed

\* Which answers are under way at place p is all there is to MailSaving.
LEMMA SavingBecomes ==
  ASSUME NEW f, f = [q \in {R, M} |-> f[q]], \A q \in {R, M} : f[q] \subseteq Gids,
         \A q \in {R, M} : \A g \in Gids : Saving(q, g)' <=> g \in f[q]
  PROVE  MailSaving' = f
<1>1. \A q \in {R, M} : MailSaving'[q] = f[q]
  BY SavingIn, ViewTypesNext
<1> QED BY <1>1, ViewTypesNext

LEMMA SavingStays == ASSUME \A q \in {R, M} : \A g \in Gids : Saving(q, g)' <=> Saving(q, g)
                     PROVE  MailSaving' = MailSaving
<1>1. PICK f : f = MailSaving
  OBVIOUS
<1>2. f = [q \in {R, M} |-> f[q]] /\ \A q \in {R, M} : f[q] \subseteq Gids
  BY <1>1, ViewTypes
<1>3. \A q \in {R, M} : \A g \in Gids : Saving(q, g)' <=> g \in f[q]
  BY <1>1, SavingIn
<1> QED BY <1>1, <1>2, <1>3, SavingBecomes

LEMMA UndisturbedViews == ASSUME Undisturbed, UNCHANGED lost
                          PROVE  MailSaving' = MailSaving /\ MailMissed' = MailMissed
<1>1. \A q \in {R, M} : \A g \in Gids : Saving(q, g)' <=> Saving(q, g)
  BY Parties DEF Undisturbed, Quiet, Saving
<1> QED BY <1>1, SavingStays DEF MailMissed

\* The place whose answer leaves had none under way.
LEMMA FlushViews ==
  ASSUME MailInv, NEW s \in Slots, Flush(s)
  PROVE  /\ MailMissed' = MailMissed
         /\ \/ MailSaving' = MailSaving
            \/ \E p \in {R, M}, g \in Gids : /\ sDb[g] # "none" /\ MailSaving[p] = {}
                                             /\ MailSaving' = [MailSaving EXCEPT ![p] = {g}]
<1>1. PICK c \in Connection : c = conn[s] /\ Backed(c) /\ c.accUp /\ c.kind \in Kinds
  BY SlotOK DEF MailInv, AllBacked, Flush
<1>2. PICK r \in c.reqs : /\ r \in 1..Fetch /\ conn'[s].flushed = r /\ conn'[s].kind = c.kind
                          /\ \A t \in Slots \ {s} : conn'[t] = conn[t]
  BY <1>1, FlushSlots DEF MailInv, Same
<1>3. PICK p : p = Acceptor(c.kind)
  OBVIOUS
<1>4. \A t \in Slots : conn[t].flushed # NoReq => Acceptor(conn[t].kind) # p
  BY <1>1, <1>3 DEF Flush, Free
<1>5. \A q, g : g \in Gids => (Saving(q, g)' <=> (\/ Saving(q, g)
                                                    \/ (q = p /\ g = r /\ c.kind \in SavedKinds)))
  BY <1>1, <1>2, <1>3, <1>4, Parties DEF Saving, SavedKinds
<1>6. MailMissed' = MailMissed
  BY DEF Flush, history, MailMissed
<1>7. CASE r \in Gids /\ c.kind \in SavedKinds
  <2>1. p \in {R, M} /\ \A g \in Gids : ~Saving(p, g)
    BY <1>3, <1>4, <1>7, Parties DEF Saving, SavedKinds
  <2>2. MailSaving[p] = {}
    BY <2>1, SavingIn, ViewTypes
  <2>3. PICK f : f = [MailSaving EXCEPT ![p] = {r}]
    OBVIOUS
  <2>4. \A q \in {R, M} : f[q] = IF q = p THEN {r} ELSE MailSaving[q]
    BY <2>1, <2>3, ViewTypes
  <2>5. f = [q \in {R, M} |-> f[q]]
    BY <2>3, ViewTypes
  <2>6. \A q \in {R, M} : f[q] \subseteq Gids
    BY <1>7, <2>4, ViewTypes
  <2>7. \A q \in {R, M} : \A g \in Gids : Saving(q, g)' <=> g \in f[q]
    BY <1>5, <1>7, <2>1, <2>4, SavingIn
  <2>8. MailSaving' = f
    BY <2>5, <2>6, <2>7, SavingBecomes
  <2>9. sDb[r] # "none"
    BY <1>1, <1>7 DEF Backed, SavedKinds
  <2> QED BY <1>6, <1>7, <2>1, <2>2, <2>3, <2>8, <2>9
<1>8. CASE ~(r \in Gids /\ c.kind \in SavedKinds)
  <2>1. \A q \in {R, M} : \A g \in Gids : Saving(q, g)' <=> Saving(q, g)
    BY <1>5, <1>8
  <2> QED BY <1>6, <2>1, SavingStays
<1> QED BY <1>7, <1>8

\* A save takes its message, and no other, off what its place has under way.
LEMMA AnswerSentViews ==
  ASSUME MailInv, NEW s \in Slots, AnswerSent(s)
  PROVE  /\ MailMissed' = MailMissed
         /\ LET p == Acceptor(conn[s].kind)
                r == conn[s].flushed
            IN  IF r \in Gids /\ conn[s].kind \in SavedKinds
                THEN /\ p \in {R, M} /\ r \in MailSaving[p]
                     /\ MailSaving' = [MailSaving EXCEPT ![p] = {}]
                ELSE MailSaving' = MailSaving
<1>1. PICK c \in Connection : c = conn[s] /\ c.flushed # NoReq /\ c.kind \in Kinds
  BY SlotOK DEF MailInv, AnswerSent
<1>2. PICK r : r = c.flushed
  OBVIOUS
<1>3. PICK p : p = Acceptor(c.kind)
  OBVIOUS
<1>4. conn'[s].flushed = NoReq /\ \A t \in Slots \ {s} : conn'[t] = conn[t]
  BY AnswerSentSlots DEF MailInv
<1>5. \A t \in Slots \ {s} : conn[t].flushed # NoReq => Acceptor(conn[t].kind) # p
  BY <1>1, <1>3 DEF MailInv, Alone
<1>6. MailMissed' = MailMissed
  BY DEF AnswerSent, MailMissed
<1>7. CASE r \in Gids /\ c.kind \in SavedKinds
  <2>1. p \in {R, M} /\ Saving(p, r)
    BY <1>1, <1>2, <1>3, <1>7, Parties DEF Saving, SavedKinds
  <2>2. r \in MailSaving[p]
    BY <1>7, <2>1, SavingIn
  <2>3. \A g \in Gids : ~Saving(p, g)'
    BY <1>4, <1>5, Parties DEF Saving
  <2>4. \A q \in {R, M} : q # p => \A g \in Gids : Saving(q, g)' <=> Saving(q, g)
    BY <1>1, <1>3, <1>4, Parties DEF Saving
  <2>5. PICK f : f = [MailSaving EXCEPT ![p] = {}]
    OBVIOUS
  <2>6. \A q \in {R, M} : f[q] = IF q = p THEN {} ELSE MailSaving[q]
    BY <2>1, <2>5, ViewTypes
  <2>7. f = [q \in {R, M} |-> f[q]]
    BY <2>5, ViewTypes
  <2>8. \A q \in {R, M} : f[q] \subseteq Gids
    BY <2>6, ViewTypes
  <2>9. \A q \in {R, M} : \A g \in Gids : Saving(q, g)' <=> g \in f[q]
    BY <2>3, <2>4, <2>6, SavingIn
  <2>10. MailSaving' = f
    BY <2>7, <2>8, <2>9, SavingBecomes
  <2> QED BY <1>1, <1>2, <1>3, <1>6, <1>7, <2>1, <2>2, <2>5, <2>10
<1>8. CASE ~(r \in Gids /\ c.kind \in SavedKinds)
  <2>1. \A q \in {R, M} : \A g \in Gids : Saving(q, g)' <=> Saving(q, g)
    BY <1>1, <1>2, <1>4, <1>8, Parties DEF Saving, SavedKinds
  <2> QED BY <1>1, <1>2, <1>6, <1>8, <2>1, SavingStays
<1> QED BY <1>7, <1>8

\* Place p has nothing under way any more, what it had is lost, and the others do not notice.
Loses(p) ==
  /\ \A q \in {R, M} : \A g \in Gids : Saving(q, g)' <=> (Saving(q, g) /\ q # p)
  /\ \A q \in {R, M} : \A g \in Gids :
       <<q, g>> \in lost' <=> (<<q, g>> \in lost \/ (q = p /\ Saving(p, g)))

LEMMA DieLoses == ASSUME MailInv, NEW p \in {S, R, M}, Die(p) PROVE Loses(p)
<1>1. \A t \in Slots : /\ Acceptor(conn[t].kind) = p => conn'[t].flushed = NoReq
                       /\ Acceptor(conn[t].kind) # p => Quiet(t)
  BY DieSlots DEF MailInv
<1>2. ASSUME NEW q \in {R, M}, NEW g \in Gids PROVE Saving(q, g)' <=> (Saving(q, g) /\ q # p)
  BY <1>1, <1>2, Parties DEF Saving, Quiet
<1>3. ASSUME NEW q \in {R, M}, NEW g \in Gids
      PROVE  <<q, g>> \in lost' <=> (<<q, g>> \in lost \/ (q = p /\ Saving(p, g)))
  <2>1. PICK T : T = {t \in Slots : /\ conn[t].flushed \in Gids
                                    /\ conn[t].kind \in Containers
                                    /\ Acceptor(conn[t].kind) = p}
    OBVIOUS
  <2>2. lost' = lost \cup {<<p, conn[t].flushed>> : t \in T}
    BY <2>1 DEF Die
  <2>3. <<q, g>> \in {<<p, conn[t].flushed>> : t \in T} <=> (q = p /\ \E t \in T : conn[t].flushed = g)
    OBVIOUS
  <2>4. q = p => ((\E t \in T : conn[t].flushed = g) <=> Saving(p, g))
    BY <1>3, <2>1, Parties DEF Saving, Containers, ToClient
  <2> QED BY <2>2, <2>3, <2>4
<1> QED BY <1>2, <1>3 DEF Loses

\* So it is with the answer whose message object was gone.
LEMMA MissLoses == ASSUME MailInv, NEW s \in Slots, AnswerMissed(s)
                   PROVE  Acceptor(conn[s].kind) \in {S, R, M} /\ Loses(Acceptor(conn[s].kind))
<1>1. PICK c \in Connection : c = conn[s] /\ c.kind \in Kinds /\ ConnOK(c)
  BY SlotOK DEF MailInv, AnswerMissed
<1>2. PICK r \in Gids : r = c.flushed /\ r # NoReq
  BY <1>1, Parties DEF AnswerMissed, Connection
<1>3. PICK p \in {S, R, M} : p = Acceptor(c.kind)
  BY <1>1, Parties
<1>4. lost' = lost \cup {<<p, r>>}
  BY <1>1, <1>2, <1>3 DEF AnswerMissed
<1>5. conn'[s].flushed = NoReq /\ \A t \in Slots \ {s} : conn'[t] = conn[t]
  BY AnswerSentSlots DEF MailInv
<1>6. \A t \in Slots \ {s} : conn[t].flushed # NoReq => Acceptor(conn[t].kind) # p
  BY <1>1, <1>2, <1>3 DEF MailInv, Alone
<1>7. c.kind # "pull" /\ (c.kind = "syncR" => p = S)
  BY <1>1, <1>2, <1>3, Parties DEF ConnOK
<1>8. \A q \in {R, M} : \A g \in Gids : Saving(q, g)' <=> (Saving(q, g) /\ q # p)
  BY <1>1, <1>3, <1>5, <1>6, Parties DEF Saving
<1>9. \A g \in Gids : p # S => (Saving(p, g) <=> g = r)
  BY <1>1, <1>2, <1>3, <1>6, <1>7, Parties DEF Saving, Kinds
<1>10. \A q \in {R, M} : \A g \in Gids :
         <<q, g>> \in lost' <=> (<<q, g>> \in lost \/ (q = p /\ Saving(p, g)))
  BY <1>4, <1>9, Parties
<1> QED BY <1>1, <1>3, <1>8, <1>10 DEF Loses

\* What the place had under way becomes what it missed.
LEMMA LosesViews ==
  ASSUME MailInv, NEW p \in {S, R, M}, Loses(p)
  PROVE  IF p = S THEN MailSaving' = MailSaving /\ MailMissed' = MailMissed
         ELSE /\ MailSaving' = [MailSaving EXCEPT ![p] = {}]
              /\ MailMissed' = [MailMissed EXCEPT ![p] = MailMissed[p] \cup MailSaving[p]]
<1>2. ASSUME NEW q \in {R, M}, q # p, NEW g \in Gids PROVE Saving(q, g)' <=> Saving(q, g)
  BY <1>2 DEF Loses
<1>3. ASSUME p \in {R, M}, NEW g \in Gids PROVE ~Saving(p, g)'
  BY <1>3 DEF Loses
<1>4. ASSUME NEW q \in {R, M}, NEW g \in Gids
      PROVE  <<q, g>> \in lost' <=> (<<q, g>> \in lost \/ (q = p /\ Saving(p, g)))
  BY DEF Loses
<1>5. CASE p = S
  <2>1. \A q \in {R, M} : q # p
    BY <1>5, Parties
  <2>2. MailSaving' = MailSaving
    BY <1>2, <2>1, SavingStays
  <2>3. \A q \in {R, M} : MailMissed'[q] = MailMissed[q]
    BY <1>4, <2>1, SavingIn, ViewTypes, ViewTypesNext
  <2> QED BY <1>5, <2>2, <2>3, ViewTypes, ViewTypesNext
<1>6. CASE p # S
  <2>1. p \in {R, M}
    BY <1>6
  <2>2. PICK f : f = [MailSaving EXCEPT ![p] = {}]
    OBVIOUS
  <2>3. \A q \in {R, M} : f[q] = IF q = p THEN {} ELSE MailSaving[q]
    BY <2>1, <2>2, ViewTypes
  <2>4. f = [q \in {R, M} |-> f[q]] /\ \A q \in {R, M} : f[q] \subseteq Gids
    BY <2>2, <2>3, ViewTypes
  <2>5. \A q \in {R, M} : \A g \in Gids : Saving(q, g)' <=> g \in f[q]
    BY <1>2, <1>3, <2>1, <2>3, SavingIn
  <2>6. MailSaving' = f
    BY <2>4, <2>5, SavingBecomes
  <2>7. \A q \in {R, M} : MailMissed'[q] = IF q = p THEN MailMissed[p] \cup MailSaving[p] ELSE MailMissed[q]
    <3> SUFFICES ASSUME NEW q \in {R, M} PROVE MailMissed'[q] = IF q = p THEN MailMissed[p] \cup MailSaving[p] ELSE MailMissed[q]
      OBVIOUS
    <3>1. \A g \in Gids : g \in MailMissed'[q] <=> (g \in MailMissed[q] \/ (q = p /\ g \in MailSaving[p]))
      BY <1>4, <2>1, SavingIn
    <3>2. MailMissed'[q] \subseteq Gids /\ MailMissed[q] \subseteq Gids /\ MailSaving[p] \subseteq Gids
      BY <2>1, ViewTypes, ViewTypesNext
    <3> QED BY <3>1, <3>2
  <2>8. MailMissed' = [MailMissed EXCEPT ![p] = MailMissed[p] \cup MailSaving[p]]
    BY <2>1, <2>7, ViewTypes, ViewTypesNext
  <2> QED BY <1>6, <2>2, <2>6, <2>8
<1> QED BY <1>5, <1>6
-----------------------------------------------------------------------------
(* One step of Mail for each step of Delivery *)

LEMMA MailVars == ASSUME UNCHANGED <<sDb, copies, mCopies, listed>>, MailSaving' = MailSaving, MailMissed' = MailMissed
                  PROVE  UNCHANGED Promise!vars
BY DEF Promise!vars, MailSaving, MailMissed

LEMMA MailPlaces == Promise!Places = {R, M} /\ R = "receiver" /\ M = "mailbox" /\ S \notin {R, M}
BY DEF Promise!Places, R, M, S

LEMMA MailKept == ASSUME NEW p \in {R, M}, NEW g \in Gids
                  PROVE  g \in Promise!Kept(p) <=> IF p = R THEN copies[g] > 0 ELSE mCopies[g] > 0
BY MailPlaces DEF Promise!Kept

LEMMA MailComposed == ASSUME NEW g \in Gids PROVE g \in Promise!Composed <=> sDb[g] # "none"
BY DEF Promise!Composed

LEMMA HandleMsgMail == ASSUME MailInv, NEW g \in Gids, NEW mbDirect \in BOOLEAN, HandleMsg(g, mbDirect)
                       PROVE  Promise!Compose(g)
<1>1. MailSaving' = MailSaving /\ MailMissed' = MailMissed
  BY HandleMsgUndisturbed, UndisturbedViews DEF MailInv, HandleMsg, history
<1>2. sDb[g] = "none" /\ sDb' = [sDb EXCEPT ![g] = "UNDELIVERED"] /\ UNCHANGED <<copies, mCopies, listed>>
  BY DEF HandleMsg, history
<1> QED BY <1>1, <1>2, MailComposed DEF Promise!Compose, MailSaving, MailMissed

LEMMA FlushMail == ASSUME MailInv, NEW s \in Slots, Flush(s)
                   PROVE  UNCHANGED Promise!vars \/ \E p \in Promise!Places, g \in Gids : Promise!Answer(p, g)
<1>1. UNCHANGED <<sDb, copies, mCopies, listed>>
  BY DEF Flush, db, history
<1>2. CASE MailSaving' = MailSaving
  BY <1>1, <1>2, FlushViews, MailVars
<1>3. ASSUME NEW p \in {R, M}, NEW g \in Gids, sDb[g] # "none", MailSaving[p] = {},
             MailSaving' = [MailSaving EXCEPT ![p] = {g}], MailMissed' = MailMissed
      PROVE  Promise!Answer(p, g)
  <2>1. g \in Promise!Composed
    BY <1>3, MailComposed
  <2> QED BY <1>1, <1>3, <2>1 DEF Promise!Answer, MailSaving, MailMissed
<1> QED BY <1>2, <1>3, FlushViews, MailPlaces

\* A death, or an answer whose message object is gone, is a miss.
LEMMA LosesMail == ASSUME MailInv, NEW p \in {S, R, M}, Loses(p), UNCHANGED <<sDb, copies, mCopies, listed>>
                   PROVE  UNCHANGED Promise!vars \/ (p \in Promise!Places /\ Promise!Miss(p))
<1>2. CASE p = S
  BY <1>2, LosesViews, MailVars
<1>3. CASE p # S
  <2>1. /\ MailSaving' = [MailSaving EXCEPT ![p] = {}]
        /\ MailMissed' = [MailMissed EXCEPT ![p] = MailMissed[p] \cup MailSaving[p]]
    BY <1>3, LosesViews
  <2> QED BY <1>3, <2>1, MailPlaces DEF Promise!Miss, MailSaving, MailMissed
<1> QED BY <1>2, <1>3

\* A row is added at place p.
LEMMA RowsAt ==
  ASSUME NEW p \in {R, M}, NEW g \in Gids, NEW n,
         IF p = R THEN copies' = [copies EXCEPT ![g] = n] /\ mCopies' = mCopies
                  ELSE mCopies' = [mCopies EXCEPT ![g] = n] /\ copies' = copies
  PROVE  MailRows' = [MailRows EXCEPT ![p] = [MailRows[p] EXCEPT ![g] = n]]
BY Parties DEF MailRows

\* The save of a message is that of Mail when it adds one row, or none to one that is there.
LEMMA SaveMail ==
  ASSUME NEW p \in {R, M}, NEW g \in Gids, g \in MailSaving[p], MailSaving' = [MailSaving EXCEPT ![p] = {}],
         MailMissed' = MailMissed, UNCHANGED <<sDb, listed>>,
         \/ MailRows' = [MailRows EXCEPT ![p] = [MailRows[p] EXCEPT ![g] = MailRows[p][g] + 1]]
         \/ MailRows' = MailRows /\ MailRows[p][g] > 0
  PROVE  Promise!Save(p, g)
<1>1. MailRows' = MailRows /\ MailRows[p][g] > 0 => g \in Promise!Kept(p)
  BY DEF Promise!Kept, MailRows
<1>2. \/ MailRows' = [MailRows EXCEPT ![p][g] = @ + 1]
      \/ g \in Promise!Kept(p) /\ MailRows' = MailRows
  BY <1>1
<1> QED BY <1>2 DEF Promise!Save, MailRows, MailSaving, MailMissed

LEMMA HearMail == ASSUME NEW p \in {R, M}, NEW g \in Gids,
                         g \in Promise!Kept(p) \/ g \in MailSaving[p] \/ g \in MailMissed[p],
                         sDb' = [sDb EXCEPT ![g] = IF p = M THEN "SENT" ELSE "SENT_CONFIRMED"],
                         UNCHANGED <<copies, mCopies, listed>>, MailSaving' = MailSaving, MailMissed' = MailMissed
                  PROVE  Promise!Hear(p, g)
<1>1. g \in Promise!Answered(p)
  BY DEF Promise!Answered, MailSaving, MailMissed
<1> QED BY <1>1, MailPlaces DEF Promise!Hear, MailSaving, MailMissed

\* An answer that left is saved at its place, or confirms messages of the sender.
SavedAsMail == \/ UNCHANGED Promise!vars
               \/ \E p \in Promise!Places, g \in Gids : Promise!Save(p, g) \/ Promise!Hear(p, g)
               \/ \E T \in SUBSET Gids : Promise!List(T)

LEMMA AnswerSentMail == ASSUME MailInv, NEW s \in Slots, AnswerSent(s) PROVE SavedAsMail
<1>1. PICK c \in Connection : c = conn[s] /\ ConnOK(c) /\ Means(c) /\ Backed(c) /\ c.kind \in Kinds
  BY SlotOK DEF MailInv, AllBacked, AnswerSent
<1>2. PICK r \in 1..Fetch : r = c.flushed /\ r \in c.reqs /\ (r # Fetch => r \in Gids)
  BY <1>1, Parties DEF AnswerSent, ConnOK, Connection
<1>3. PICK p : p = Acceptor(c.kind)
  OBVIOUS
<1>4. /\ MailMissed' = MailMissed
      /\ r \in Gids /\ c.kind \in SavedKinds =>
           p \in {R, M} /\ r \in MailSaving[p] /\ MailSaving' = [MailSaving EXCEPT ![p] = {}]
      /\ ~(r \in Gids /\ c.kind \in SavedKinds) => MailSaving' = MailSaving
  BY <1>1, <1>2, <1>3, AnswerSentViews
<1>5. IInv /\ RowsKept /\ copies \in [Gids -> Nat] /\ mCopies \in [Gids -> Nat]
  BY DEF MailInv, IInv, Shape
<1>6. CASE c.kind \in {"direct", "syncS"} /\ r # Fetch
  <2>1. p = R /\ r \in Gids /\ c.kind \in SavedKinds /\ MailRows[p][r] = copies[r]
    BY <1>2, <1>3, <1>6, Parties DEF SavedKinds, MailRows
  <2>2. PICK row \in RecvStatus : row = c.seen[r] /\ (row # "none" => copies[r] > 0)
    BY <1>1, <1>5, <1>6, <2>1 DEF Connection, Backed, RowsKept
  <2>3. SaveReceived(r, row)
    BY <1>1, <1>2, <1>6, <2>2 DEF AnswerSent
  <2>4. /\ UNCHANGED <<sDb, mCopies, listed>>
        /\ copies' = [copies EXCEPT ![r] = copies[r] + IF row = "none" THEN 1 ELSE 0]
    BY <2>3 DEF SaveReceived
  <2>5. CASE row = "none"
    <3>1. PICK n : n = copies[r] + 1 /\ copies' = [copies EXCEPT ![r] = n]
      BY <2>4, <2>5
    <3>2. MailRows' = [MailRows EXCEPT ![p] = [MailRows[p] EXCEPT ![r] = MailRows[p][r] + 1]]
      <4>1. IF p = R THEN copies' = [copies EXCEPT ![r] = n] /\ mCopies' = mCopies
                     ELSE mCopies' = [mCopies EXCEPT ![r] = n] /\ copies' = copies
        BY <2>1, <2>4, <3>1, Parties
      <4>2. p \in {R, M}
        BY <2>1
      <4>3. MailRows' = [MailRows EXCEPT ![p] = [MailRows[p] EXCEPT ![r] = n]]
        BY <2>1, <4>1, <4>2, RowsAt
      <4> QED BY <2>1, <3>1, <4>3
    <3>3. Promise!Save(p, r)
      BY <1>4, <2>1, <2>4, <3>2, SaveMail
    <3> QED BY <2>1, <3>3, MailPlaces DEF SavedAsMail
  <2>6. CASE row # "none"
    <3>1. copies' = copies
      <4>1. copies[r] \in Nat /\ copies[r] + 0 = copies[r]
        BY <1>5, <2>1
      <4>2. copies' = [copies EXCEPT ![r] = copies[r] + 0]
        BY <2>4, <2>6
      <4> QED BY <1>5, <4>1, <4>2
    <3>2. MailRows' = MailRows
      BY <2>4, <3>1 DEF MailRows
    <3>3. Promise!Save(p, r)
      BY <1>4, <2>1, <2>2, <2>4, <2>6, <3>2, SaveMail
    <3> QED BY <2>1, <3>3, MailPlaces DEF SavedAsMail
  <2> QED BY <2>5, <2>6
<1>7. CASE c.kind = "store"
  <2>1. p = M /\ r \in Gids /\ c.kind \in SavedKinds /\ MailRows[p][r] = mCopies[r]
    BY <1>1, <1>2, <1>3, <1>7, Parties DEF SavedKinds, MailRows, ConnOK
  <2>2. PICK row \in RecvStatus : row = c.seen[r] /\ (row # "none" => mCopies[r] > 0)
    BY <1>1, <1>7, <2>1 DEF Connection, Means
  <2>3. SaveStored(r, row)
    BY <1>1, <1>2, <1>7, <2>2 DEF AnswerSent
  <2>4. /\ UNCHANGED <<sDb, copies, listed>>
        /\ mCopies' = [mCopies EXCEPT ![r] = mCopies[r] + IF row = "none" THEN 1 ELSE 0]
    BY <2>3 DEF SaveStored
  <2>5. CASE row = "none"
    <3>1. PICK n : n = mCopies[r] + 1 /\ mCopies' = [mCopies EXCEPT ![r] = n]
      BY <2>4, <2>5
    <3>2. MailRows' = [MailRows EXCEPT ![p] = [MailRows[p] EXCEPT ![r] = MailRows[p][r] + 1]]
      <4>1. IF p = R THEN copies' = [copies EXCEPT ![r] = n] /\ mCopies' = mCopies
                     ELSE mCopies' = [mCopies EXCEPT ![r] = n] /\ copies' = copies
        BY <2>1, <2>4, <3>1, Parties
      <4>2. p \in {R, M}
        BY <2>1
      <4>3. MailRows' = [MailRows EXCEPT ![p] = [MailRows[p] EXCEPT ![r] = n]]
        BY <2>1, <4>1, <4>2, RowsAt
      <4> QED BY <2>1, <3>1, <4>3
    <3>3. Promise!Save(p, r)
      BY <1>4, <2>1, <2>4, <3>2, SaveMail
    <3> QED BY <2>1, <3>3, MailPlaces DEF SavedAsMail
  <2>6. CASE row # "none"
    <3>1. mCopies' = mCopies
      <4>1. mCopies[r] \in Nat /\ mCopies[r] + 0 = mCopies[r]
        BY <1>5, <2>1
      <4>2. mCopies' = [mCopies EXCEPT ![r] = mCopies[r] + 0]
        BY <2>4, <2>6
      <4> QED BY <1>5, <4>1, <4>2
    <3>2. MailRows' = MailRows
      BY <2>4, <3>1 DEF MailRows
    <3>3. Promise!Save(p, r)
      BY <1>4, <2>1, <2>2, <2>4, <2>6, <3>2, SaveMail
    <3> QED BY <2>1, <3>3, MailPlaces DEF SavedAsMail
  <2> QED BY <2>5, <2>6
<1>8. CASE c.kind = "syncR" /\ r # Fetch
  <2>1. r \in Gids /\ MailSaving' = MailSaving
    BY <1>2, <1>4, <1>8 DEF SavedKinds
  <2>2. SaveConfirmed({r}) /\ UNCHANGED listed
    BY <1>1, <1>2, <1>8 DEF AnswerSent
  <2>3. sDb' = [sDb EXCEPT ![r] = "SENT_CONFIRMED"] /\ UNCHANGED <<copies, mCopies>>
    BY <1>5, <2>1, <2>2 DEF SaveConfirmed, IInv, Shape
  <2>4. copies[r] > 0
    BY <1>1, <1>2, <1>5, <1>8, <2>1 DEF Means, RowsKept
  <2>5. R \in {R, M} /\ R # M /\ r \in Promise!Kept(R)
    BY <2>1, <2>4, MailKept, Parties
  <2>6. Promise!Hear(R, r)
    BY <1>4, <2>1, <2>2, <2>3, <2>5, HearMail
  <2> QED BY <2>1, <2>6, MailPlaces DEF SavedAsMail
<1>9. CASE c.kind = "syncR" /\ r = Fetch
  <2>1. SaveConfirmed(c.list) /\ listed' = listed \cup c.list /\ MailSaving' = MailSaving
    BY <1>1, <1>2, <1>4, <1>9 DEF AnswerSent, SavedKinds
  <2>2. c.list \in SUBSET Gids /\ c.list \subseteq Promise!Composed
    BY <1>1, <1>9, MailComposed DEF Connection, Backed
  <2>3. Promise!List(c.list)
    BY <1>4, <2>1, <2>2 DEF SaveConfirmed, Promise!List, MailSaving, MailMissed
  <2> QED BY <2>2, <2>3 DEF SavedAsMail
<1>10. CASE c.kind = "pull" \/ (c.kind \in {"direct", "syncS"} /\ r = Fetch)
  <2>1. UNCHANGED <<sDb, copies, mCopies, listed>>
    BY <1>1, <1>2, <1>10 DEF AnswerSent, db
  <2>2. MailSaving' = MailSaving
    BY <1>2, <1>4, <1>10, Parties DEF SavedKinds
  <2> QED BY <1>4, <2>1, <2>2, MailVars DEF SavedAsMail
<1> QED BY <1>1, <1>6, <1>7, <1>8, <1>9, <1>10 DEF Kinds

\* Messages of a list are taken when none of them is there and no save is under way.
LEMMA TakeMail ==
  ASSUME MailInv, NEW T \in SUBSET Gids, \A g \in T : rDb[g] = "none",
         (\A g \in T : sDb[g] # "none") \/ (\A g \in T : mCopies[g] > 0),
         \A g \in Gids : ~Saving(R, g),
         copies' = [g \in Gids |-> IF g \in T THEN copies[g] + 1 ELSE copies[g]],
         UNCHANGED <<sDb, mCopies, listed>>, MailSaving' = MailSaving, MailMissed' = MailMissed
  PROVE  Promise!Take(T)
<1>1. copies \in [Gids -> Nat] /\ \A g \in T : copies[g] = 0
  BY DEF MailInv, IInv, Shape, RowsFound
<1>2. R \in {R, M} /\ M \in {R, M} /\ R # M
  BY Parties
<1>3. T \subseteq Promise!Composed \/ T \subseteq Promise!Kept(M)
  BY <1>2, MailComposed, MailKept
<1>4. T \cap Promise!Kept(R) = {}
  BY <1>1, <1>2, MailKept
<1>5. MailSaving[R] = {}
  BY <1>2, SavingIn, ViewTypes
<1>6. MailRows' = [MailRows EXCEPT ![R] = [g \in Gids |-> IF g \in T THEN 1 ELSE MailRows[R][g]]]
  <2>1. copies' = [g \in Gids |-> IF g \in T THEN 1 ELSE copies[g]]
    BY <1>1
  <2>2. MailRows[R] = copies
    BY DEF MailRows
  <2> QED BY <1>2, <2>1, <2>2 DEF MailRows
<1> QED BY <1>3, <1>4, <1>5, <1>6, MailPlaces DEF Promise!Take, MailRows, MailSaving, MailMissed

ReceivedAsMail == \/ UNCHANGED Promise!vars
                  \/ \E p \in Promise!Places, g \in Gids : Promise!Hear(p, g)
                  \/ \E T \in SUBSET Gids : Promise!Take(T)

LEMMA AnswerReceivedMail == ASSUME MailInv, NEW s \in Slots, AnswerReceived(s) PROVE ReceivedAsMail
<1>1. PICK c \in Connection : c = conn[s] /\ ConnOK(c) /\ Means(c) /\ Backed(c) /\ c.kind \in Kinds
  BY SlotOK DEF MailInv, AllBacked, AnswerReceived
<1>2. PICK r \in 1..Fetch : r = First(c.sent \ c.got) /\ r \in c.sent /\ (r # Fetch => r \in Gids)
  <2>1. c.sent \ c.got # {} /\ c.sent \ c.got \subseteq 1..Fetch
    BY <1>1 DEF AnswerReceived, ConnOK, Connection
  <2> QED BY <2>1, FirstIn, Parties
<1>3. PICK new : new = NewIn(c.list)
  OBVIOUS
<1>4. /\ sDb' = IF Initiator(c.kind) = S /\ r # Fetch THEN [sDb EXCEPT ![r] = Acked(c.kind)] ELSE sDb
      /\ copies' = [g \in Gids |-> IF Initiator(c.kind) = R /\ r = Fetch /\ g \in new
                                   THEN copies[g] + 1 ELSE copies[g]]
      /\ UNCHANGED <<mCopies, listed, lost>>
  BY <1>1, <1>2, <1>3 DEF AnswerReceived, history
<1>5. MailSaving' = MailSaving /\ MailMissed' = MailMissed
  BY <1>4, AnswerReceivedUndisturbed, UndisturbedViews DEF MailInv
<1>6. copies = [g \in Gids |-> copies[g]] /\ RowsKept
  BY DEF MailInv, IInv, Shape
<1>7. CASE Initiator(c.kind) = S /\ r # Fetch
  <2>1. copies' = copies /\ r \in Gids
    BY <1>2, <1>4, <1>6, <1>7, Parties
  <2>2. CASE c.kind = "store"
    <3>1. M \in {R, M} /\ sDb' = [sDb EXCEPT ![r] = IF M = M THEN "SENT" ELSE "SENT_CONFIRMED"]
      BY <1>4, <1>7, <2>2 DEF Acked
    <3>2. AtMailbox(r)
      BY <1>1, <1>2, <2>1, <2>2 DEF Means
    <3>3. r \in Promise!Kept(M) \/ r \in MailSaving[M] \/ r \in MailMissed[M]
      BY <2>1, <3>1, <3>2, MailKept, SavingIn, Parties DEF AtMailbox
    <3>4. Promise!Hear(M, r)
      BY <1>4, <1>5, <2>1, <3>1, <3>3, HearMail
    <3> QED BY <2>1, <3>4, MailPlaces DEF ReceivedAsMail
  <2>3. CASE c.kind \in {"direct", "syncS"}
    <3>1. R \in {R, M} /\ sDb' = [sDb EXCEPT ![r] = IF R = M THEN "SENT" ELSE "SENT_CONFIRMED"]
      BY <1>4, <1>7, <2>3, Parties DEF Acked
    <3>2. AtReceiver(r)
      BY <1>1, <1>2, <2>1, <2>3 DEF Means
    <3>3. r \in Promise!Kept(R) \/ r \in MailSaving[R] \/ r \in MailMissed[R]
      BY <1>6, <2>1, <3>1, <3>2, MailKept, SavingIn DEF AtReceiver, RowsKept
    <3>4. Promise!Hear(R, r)
      BY <1>4, <1>5, <2>1, <3>1, <3>3, HearMail
    <3> QED BY <2>1, <3>4, MailPlaces DEF ReceivedAsMail
  <2>4. c.kind \in {"direct", "syncS", "store"}
    BY <1>1, <1>7, Parties DEF Initiator, Kinds
  <2> QED BY <2>2, <2>3, <2>4
<1>8. CASE Initiator(c.kind) = R /\ r = Fetch
  <2>1. c.kind \in {"syncR", "pull"} /\ sDb' = sDb
    BY <1>1, <1>4, <1>8, Parties DEF Initiator, Kinds
  <2>2. new \in SUBSET Gids /\ new \subseteq c.list /\ \A g \in new : rDb[g] = "none"
    BY <1>1, <1>3 DEF NewIn, Connection
  <2>3. (\A g \in new : sDb[g] # "none") \/ (\A g \in new : mCopies[g] > 0)
    BY <1>1, <2>1, <2>2 DEF Backed
  <2>4. \A g \in Gids : ~Saving(R, g)
    BY <1>1, <1>8, Parties DEF AnswerReceived, Free, Saving
  <2>5. copies' = [g \in Gids |-> IF g \in new THEN copies[g] + 1 ELSE copies[g]]
    BY <1>4, <1>8
  <2>6. Promise!Take(new)
    BY <1>4, <1>5, <2>1, <2>2, <2>3, <2>4, <2>5, TakeMail
  <2> QED BY <2>2, <2>6 DEF ReceivedAsMail
<1>9. CASE ~(Initiator(c.kind) = S /\ r # Fetch) /\ ~(Initiator(c.kind) = R /\ r = Fetch)
  <2>1. sDb' = sDb /\ copies' = copies
    BY <1>4, <1>6, <1>9
  <2> QED BY <1>4, <1>5, <2>1, MailVars DEF ReceivedAsMail
<1> QED BY <1>7, <1>8, <1>9

LEMMA MailNext == ASSUME MailInv, [Next]_vars PROVE [Promise!Next]_(Promise!vars)
<1>1. ASSUME NEW g \in Gids, NEW mbDirect \in BOOLEAN, HandleMsg(g, mbDirect) PROVE Promise!Next
  BY <1>1, HandleMsgMail DEF Promise!Next
<1>2. ASSUME NEW s \in Slots, AnswerSent(s) PROVE [Promise!Next]_(Promise!vars)
  BY <1>2, AnswerSentMail DEF SavedAsMail, Promise!Next
<1>3. ASSUME NEW s \in Slots, AnswerReceived(s) PROVE [Promise!Next]_(Promise!vars)
  BY <1>3, AnswerReceivedMail DEF ReceivedAsMail, Promise!Next
<1>4. ASSUME NEW s \in Slots, Flush(s) PROVE [Promise!Next]_(Promise!vars)
  BY <1>4, FlushMail DEF Promise!Next
<1>5. ASSUME NEW p \in {S, R, M}, Loses(p), UNCHANGED <<sDb, copies, mCopies, listed>>
      PROVE  [Promise!Next]_(Promise!vars)
  BY <1>5, LosesMail DEF Promise!Next
<1>8. ASSUME NEW p \in {S, R, M}, Die(p) PROVE [Promise!Next]_(Promise!vars)
  BY <1>5, <1>8, DieLoses DEF Die, db
<1>9. ASSUME NEW s \in Slots, AnswerMissed(s) PROVE [Promise!Next]_(Promise!vars)
  BY <1>5, <1>9, MissLoses DEF AnswerMissed, db
<1>6. ASSUME Undisturbed, UNCHANGED <<sDb, rDb, copies, mCopies, listed>>, UNCHANGED lost
      PROVE  UNCHANGED Promise!vars
  BY <1>6, UndisturbedViews, MailVars
<1>7. IInv /\ AllBacked
  BY DEF MailInv
<1> QED BY <1>1, <1>2, <1>3, <1>4, <1>6, <1>7, <1>8, <1>9, Steps, Writers

\* Delivery implements Mail, for any number of messages, connections, lost connections and
\* deaths: each callback, send, failure and death of prot_message.c, prot_message_list.c and
\* app_actions.c is a step Mail allows.
THEOREM MailImplemented == Spec => ImplementsMail
<1>1. Init => Promise!Init
  <2> SUFFICES ASSUME Init PROVE Promise!Init
    OBVIOUS
  <2>1. MailSaving = [p \in {R, M} |-> {}] /\ MailMissed = [p \in {R, M} |-> {}]
    BY Parties, IdleOK DEF Init, MailSaving, MailMissed, Saving
  <2>2. MailRows = [p \in {R, M} |-> [g \in Gids |-> 0]]
    BY DEF Init, MailRows
  <2> QED BY <2>1, <2>2, MailPlaces DEF Init, Promise!Init, MailRows, MailSaving, MailMissed
<1>2. MailInv /\ [Next]_vars => [Promise!Next]_(Promise!vars)
  BY MailNext
<1> QED BY <1>1, <1>2, MailInvariant, PTL DEF Spec, ImplementsMail, Promise!Spec
=============================================================================
