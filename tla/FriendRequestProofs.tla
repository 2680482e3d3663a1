------------------------- MODULE FriendRequestProofs -------------------------
(***************************************************************************)
(* The properties of FriendRequest, for any number of persons, requests    *)
(* and messages.  Two invariants are proved.                               *)
(*                                                                         *)
(* IInv looks at one contact at a time: of every contact that may ever be  *)
(* written, in a table, in a request or beside a message, the keys were or *)
(* are being exchanged and the status matches the keys.  Consent and       *)
(* KeysExchanged follow from it.                                           *)
(*                                                                         *)
(* PairInv looks at two persons: what each has of the other (Table), what  *)
(* the copies that wait to be written back still agree with, and which     *)
(* steps of a request can have gone before which.  OneRow, NeverStuck,     *)
(* KeysAgree and StaysRemoved follow from the two together.                *)
(***************************************************************************)
EXTENDS FriendRequest, LeastNumber, SequenceTheorems, TLAPS

Fates == {"none", "received", "saved", "answered", "dropped"}
AttemptType == [ini : Persons, acc : Persons,
                cl : {"connecting", "sent", "done", "failed"}, sv : Fates,
                clCopy : Copy, svCopy : Copy]

Shape == /\ rows \in [Persons -> Seq(Row)]
         /\ DOMAIN att \subseteq Attempts
         /\ att \in [DOMAIN att -> AttemptType]
         /\ held \in [Persons -> SUBSET Copy]

\* The private key of contact r of p: the friend answered our request.
GoodL(p, r) == r.lkey # NoKey =>
  /\ r.lkey \in DOMAIN att /\ att[r.lkey].ini = p /\ att[r.lkey].acc = r.of
  /\ att[r.lkey].sv \in {"saved", "answered"}
\* The public key of contact r of p: we saved the friend's request.
GoodR(p, r) == r.rkey # NoKey =>
  /\ r.rkey \in DOMAIN att /\ att[r.rkey].ini = r.of /\ att[r.rkey].acc = p
  /\ att[r.rkey].sv = "saved"
StatusOK(r) == /\ r.status = "ACTIVE" => r.lkey # NoKey /\ r.rkey # NoKey
               /\ r.status = "PENDING_OUT" => r.lkey # NoKey
               /\ r.status = "PENDING_IN" => r.rkey # NoKey
RowOK(p, r) == GoodL(p, r) /\ GoodR(p, r) /\ StatusOK(r)

\* What the initiator will save once the ACK has come.
ClientOK(a) == LET r == att[a].clCopy.row IN
  /\ r.of = att[a].acc /\ r.status \in {"PENDING_OUT", "ACTIVE"}
  /\ r.status = "ACTIVE" => r.rkey # NoKey
  /\ GoodR(att[a].ini, r)
  /\ att[a].cl = "sent" => r.lkey = a
\* What the acceptor will save once the ACK has left.
ServerOK(a) == LET r == att[a].svCopy.row IN
  att[a].sv = "received" =>
    /\ r.of = att[a].ini /\ r.rkey = a /\ GoodL(att[a].acc, r)
    /\ r.status \in {"PENDING_IN", "ACTIVE"}
    /\ r.status = "ACTIVE" => r.lkey # NoKey
AttemptOK(a) == <<att[a].ini, att[a].acc>> \in asked /\ ClientOK(a) /\ ServerOK(a)

RowsOK == \A p \in Persons : \A i \in DOMAIN rows[p] : RowOK(p, rows[p][i])
HeldOK == \A p \in Persons : \A c \in held[p] : RowOK(p, c.row)
AttemptsOK == \A a \in DOMAIN att : AttemptOK(a)

IInv == Shape /\ RowsOK /\ HeldOK /\ AttemptsOK
-----------------------------------------------------------------------------
\* An attempt never changes its two persons, and never loses an answer that was given.
Grows == /\ DOMAIN att \subseteq DOMAIN att'
         /\ \A b \in DOMAIN att :
              /\ att'[b].ini = att[b].ini /\ att'[b].acc = att[b].acc
              /\ att[b].sv \in {"saved", "answered"} => att'[b].sv = att[b].sv
         /\ asked \subseteq asked'

LEMMA GrowsKeepsRow == ASSUME Grows, NEW p, NEW r PROVE
  /\ GoodL(p, r) => GoodL(p, r)'
  /\ GoodR(p, r) => GoodR(p, r)'
  /\ RowOK(p, r) => RowOK(p, r)'
  BY DEF Grows, GoodL, GoodR, RowOK, StatusOK

LEMMA SameAttempt == ASSUME Grows, NEW b \in DOMAIN att, att'[b] = att[b], AttemptOK(b)
                     PROVE  AttemptOK(b)'
<1>1. ClientOK(b)'
  BY GrowsKeepsRow DEF AttemptOK, ClientOK, GoodR, Grows
<1>2. ServerOK(b)'
  BY GrowsKeepsRow DEF AttemptOK, ServerOK, GoodL, Grows
<1> QED BY <1>1, <1>2 DEF AttemptOK, Grows

LEMMA HeldKept == ASSUME Grows, HeldOK, held' = held PROVE HeldOK'
  BY GrowsKeepsRow DEF HeldOK

LEMMA RowsKept == ASSUME Grows, RowsOK, rows' = rows PROVE RowsOK'
  BY GrowsKeepsRow DEF RowsOK

\* SELECT finds the row with the smallest id of those it looks for.
LEMMA Lookup == ASSUME Shape, NEW p \in Persons, NEW q \in Persons, Known(p, q)
                PROVE  LET c == ByOnion(p, q)
                       IN  /\ c.id \in DOMAIN rows[p] /\ c.id \in Nat
                           /\ c.row = rows[p][c.id] /\ c.row \in Row /\ c.row.of = q
                           /\ c \in Copy
<1> DEFINE S == {i \in DOMAIN rows[p] : rows[p][i].of = q}
<1>1. rows[p] \in Seq(Row)
  BY DEF Shape
<1>2. S \subseteq Nat \ {0} /\ S # {}
  BY <1>1 DEF Known
<1>3. PICK i \in S : \A j \in S : i <= j
  BY <1>2, Least
<1>4. First(p, q, i)
  BY <1>1, <1>3 DEF First
<1>5. PICK k \in DOMAIN rows[p] : k = (CHOOSE j \in DOMAIN rows[p] : First(p, q, j)) /\ First(p, q, k)
  BY <1>3, <1>4
<1>6. ByOnion(p, q) = [id |-> k, row |-> rows[p][k]]
  BY <1>5 DEF ByOnion
<1>7. k \in Nat /\ rows[p][k] \in Row /\ rows[p][k].of = q
  BY <1>1, <1>5 DEF First
<1> QED BY <1>5, <1>6, <1>7 DEF Copy

\* Saving a copy replaces or appends its row and touches nothing else.
LEMMA SavedRows == ASSUME Shape, NEW p \in Persons, NEW c \in Copy, rows' = Saved(p, c)
  PROVE /\ rows' \in [Persons -> Seq(Row)]
        /\ \A o \in Persons : \A i \in DOMAIN rows'[o] :
             \/ o = p /\ rows'[o][i] = c.row
             \/ i \in DOMAIN rows[o] /\ rows'[o][i] = rows[o][i]
<1>1. c.row \in Row /\ c.id \in Nat
  BY DEF Copy
<1>2. rows[p] \in Seq(Row)
  BY DEF Shape
<1>3. CASE c.id > 0
  <2> DEFINE s == [rows[p] EXCEPT ![c.id] = c.row]
  <2>1. rows' = [rows EXCEPT ![p] = s]
    BY <1>3 DEF Saved, Shape
  <2>2. s \in Seq(Row) /\ DOMAIN s = DOMAIN rows[p]
        /\ \A i \in DOMAIN s : s[i] = c.row \/ s[i] = rows[p][i]
    <3>1. CASE c.id \in 1..Len(rows[p])
      BY <3>1, <1>1, <1>2, ExceptSeq
    <3>2. CASE c.id \notin 1..Len(rows[p])
      <4>1. DOMAIN rows[p] = 1..Len(rows[p]) /\ rows[p] = [i \in 1..Len(rows[p]) |-> rows[p][i]]
        BY <1>2
      <4>2. s = rows[p]
        BY <3>2, <4>1
      <4> QED BY <1>2, <4>2
    <3> QED BY <3>1, <3>2
  <2> QED BY <2>1, <2>2 DEF Shape
<1>4. CASE ~(c.id > 0)
  <2> DEFINE s == Append(rows[p], c.row)
  <2>1. rows' = [rows EXCEPT ![p] = s]
    BY <1>4 DEF Saved, Shape
  <2>2. s \in Seq(Row) /\ \A i \in DOMAIN s : s[i] = c.row \/ (i \in DOMAIN rows[p] /\ s[i] = rows[p][i])
    BY <1>1, <1>2
  <2> QED BY <2>1, <2>2 DEF Shape
<1> QED BY <1>3, <1>4

LEMMA SavedKeeps == ASSUME IInv, Grows, NEW p \in Persons, NEW c \in Copy, rows' = Saved(p, c),
                           RowOK(p, c.row)'
                    PROVE  RowsOK' /\ rows' \in [Persons -> Seq(Row)]
<1>1. Shape /\ RowsOK
  BY DEF IInv
<1>2. \A o \in Persons : \A i \in DOMAIN rows'[o] :
        \/ o = p /\ rows'[o][i] = c.row
        \/ i \in DOMAIN rows[o] /\ rows'[o][i] = rows[o][i]
  BY <1>1, SavedRows
<1>3. ASSUME NEW o \in Persons, NEW i \in DOMAIN rows'[o] PROVE RowOK(o, rows[o][i])'
  <2>1. CASE o = p /\ rows'[o][i] = c.row
    BY <2>1 DEF RowOK, GoodL, GoodR, StatusOK
  <2>2. CASE i \in DOMAIN rows[o] /\ rows'[o][i] = rows[o][i]
    <3>1. RowOK(o, rows[o][i])
      BY <1>1, <2>2 DEF RowsOK
    <3> QED BY <3>1, <2>2 DEF RowOK, GoodL, GoodR, StatusOK, Grows
  <2> QED BY <2>1, <2>2, <1>2
<1> QED BY <1>1, <1>3, SavedRows DEF RowsOK

\* A copy of which only the deleted flag changed is as good as its row.
LEMMA DeletedFlag == ASSUME IInv, NEW p \in Persons, NEW q \in Persons, Known(p, q), NEW d \in BOOLEAN
                     PROVE  LET c == [ByOnion(p, q) EXCEPT !.row.deleted = d]
                            IN  c \in Copy /\ RowOK(p, c.row)
<1> DEFINE b == ByOnion(p, q)
           c == [b EXCEPT !.row.deleted = d]
<1>1. b \in Copy /\ RowOK(p, b.row)
  BY Lookup DEF IInv, RowsOK
<1>2. c \in Copy /\ c.row = [b.row EXCEPT !.deleted = d]
  BY <1>1 DEF Copy, Row
<1>3. c.row.of = b.row.of /\ c.row.status = b.row.status /\ c.row.lkey = b.row.lkey /\ c.row.rkey = b.row.rkey
  BY <1>1, <1>2 DEF Copy, Row
<1> QED BY <1>1, <1>2, <1>3 DEF RowOK, GoodL, GoodR, StatusOK
-----------------------------------------------------------------------------
(* One lemma per action *)

\* Attempt a changes and no other, with the same persons and no answer taken back.
OnlyAttempt(a) ==
  /\ att' = [b \in DOMAIN att |-> IF b = a THEN att'[a] ELSE att[b]]
  /\ att'[a] \in AttemptType /\ att'[a].ini = att[a].ini /\ att'[a].acc = att[a].acc
  /\ att[a].sv \in {"saved", "answered"} => att'[a].sv = att[a].sv
  /\ asked' = asked

LEMMA OneAttempt ==
  ASSUME IInv, NEW a \in DOMAIN att, OnlyAttempt(a), ClientOK(a)', ServerOK(a)'
  PROVE  Grows /\ AttemptsOK' /\ DOMAIN att' = DOMAIN att /\ att' \in [DOMAIN att' -> AttemptType]
<1>1. DOMAIN att' = DOMAIN att /\ \A b \in DOMAIN att \ {a} : att'[b] = att[b]
  BY DEF OnlyAttempt
<1>2. Grows
  BY <1>1 DEF Grows, OnlyAttempt
<1>3. \A b \in DOMAIN att \ {a} : AttemptOK(b)'
  BY <1>1, <1>2, SameAttempt DEF IInv, AttemptsOK
<1>4. AttemptOK(a)'
  BY <1>1 DEF IInv, AttemptsOK, AttemptOK, OnlyAttempt
<1>5. att' \in [DOMAIN att' -> AttemptType]
  BY <1>1 DEF IInv, Shape, OnlyAttempt
<1> QED BY <1>1, <1>2, <1>3, <1>4, <1>5 DEF AttemptsOK

\* A step that changes one attempt and neither rows nor held copies.
LEMMA OnlyAttemptInv ==
  ASSUME IInv, NEW a \in DOMAIN att, OnlyAttempt(a), ClientOK(a)', ServerOK(a)',
         rows' = rows, held' = held
  PROVE  IInv'
  BY OneAttempt, RowsKept, HeldKept DEF IInv, Shape

LEMMA FriendAddInv == ASSUME IInv, NEW p \in Persons, NEW q \in Persons, NEW a \in Attempts,
                             FriendAdd(p, q, a)
                      PROVE  IInv'
<1> DEFINE c == IF Known(p, q) THEN [Requested(p, q) EXCEPT !.row.deleted = FALSE] ELSE Requested(p, q)
<1>0. Shape /\ a \notin DOMAIN att /\ held' = held
  BY DEF IInv, FriendAdd
<1>1. c \in Copy /\ c.row.of = q /\ c.row.status \in {"PENDING_OUT", "ACTIVE"}
      /\ (c.row.status = "ACTIVE" => c.row.rkey # NoKey) /\ GoodR(p, c.row)
  <2>1. CASE Known(p, q)
    <3> DEFINE b == ByOnion(p, q)
    <3>1. b \in Copy /\ b.row.of = q /\ RowOK(p, b.row)
      BY <1>0, <2>1, Lookup DEF IInv, RowsOK
    <3>2. b.row.status = "PENDING_IN"
      BY <3>1, <2>1 DEF FriendAdd, NothingToDo, Copy, Row, Status
    <3>3. c = [[b EXCEPT !.row.status = "ACTIVE"] EXCEPT !.row.deleted = FALSE]
      BY <2>1 DEF Requested
    <3>4. c \in Copy /\ c.row.of = b.row.of /\ c.row.status = "ACTIVE" /\ c.row.rkey = b.row.rkey
      <4> DEFINE e == [b EXCEPT !.row.status = "ACTIVE"]
      <4> HIDE DEF b
      <4>1. e = [id |-> b.id, row |-> [b.row EXCEPT !.status = "ACTIVE"]] /\ e.row \in Row
        BY <3>1 DEF Copy, Row, Status
      <4>2. e \in Copy /\ e.row.of = b.row.of /\ e.row.status = "ACTIVE" /\ e.row.rkey = b.row.rkey
        BY <3>1, <4>1 DEF Copy, Row, Status
      <4> HIDE DEF e
      <4>3. c = [id |-> e.id, row |-> [e.row EXCEPT !.deleted = FALSE]]
        BY <3>3, <4>2 DEF e, Copy, Row
      <4> HIDE DEF c
      <4> QED BY <4>2, <4>3 DEF Copy, Row
    <3> QED BY <3>1, <3>2, <3>4 DEF RowOK, StatusOK, GoodR
  <2>2. CASE ~Known(p, q)
    BY <2>2 DEF Requested, NewContact, Copy, Row, Status, Keys, GoodR
  <2> QED BY <2>1, <2>2
<1>2. att' = [b \in DOMAIN att \cup {a} |-> IF b = a THEN Attempt(p, q, c) ELSE att[b]]
  BY DEF FriendAdd
<1>3. Attempt(p, q, c) \in AttemptType
  BY <1>1 DEF Attempt, AttemptType, NewContact, Copy, Row, Status, Keys, Fates
<1>4. /\ DOMAIN att' = DOMAIN att \cup {a} /\ att'[a] = Attempt(p, q, c)
      /\ \A b \in DOMAIN att : att'[b] = att[b]
  BY <1>0, <1>2
<1>5. Grows /\ asked' = asked \cup {<<p, q>>}
  BY <1>4 DEF FriendAdd, Grows
<1>6. AttemptOK(a)'
  <2>1. ClientOK(a)'
    BY <1>1, <1>4, <1>5, GrowsKeepsRow DEF Attempt, ClientOK, GoodR
  <2>2. ServerOK(a)'
    BY <1>4 DEF Attempt, ServerOK
  <2> QED BY <2>1, <2>2, <1>4, <1>5 DEF AttemptOK, Attempt
<1>7. AttemptsOK'
  BY <1>4, <1>5, <1>6, SameAttempt DEF IInv, AttemptsOK
<1>8. RowsOK' /\ rows' \in [Persons -> Seq(Row)]
  <2>1. CASE Known(p, q) /\ ByOnion(p, q).row.deleted
    <3>1. PICK d \in Copy : RowOK(p, d.row) /\ rows' = Saved(p, d)
      BY <2>1, DeletedFlag DEF FriendAdd, Undeleted
    <3>2. RowOK(p, d.row)'
      BY <1>5, <3>1, GrowsKeepsRow
    <3> QED BY <1>5, <3>1, <3>2, SavedKeeps
  <2>2. CASE ~(Known(p, q) /\ ByOnion(p, q).row.deleted)
    <3>1. rows' = rows
      BY <2>2 DEF FriendAdd, Undeleted
    <3> QED BY <1>0, <1>5, <3>1, RowsKept DEF IInv, Shape
  <2> QED BY <2>1, <2>2
<1>9. Shape'
  <2>1. att' \in [DOMAIN att' -> AttemptType]
    BY <1>0, <1>2, <1>3, <1>4 DEF Shape
  <2> QED BY <1>0, <1>4, <1>8, <2>1 DEF Shape
<1> QED BY <1>0, <1>5, <1>7, <1>8, <1>9, HeldKept DEF IInv

LEMMA TranSetupInv == ASSUME IInv, NEW a \in DOMAIN att, TranSetup(a) PROVE IInv'
<1>1. a \in Attempts /\ att[a] \in AttemptType /\ AttemptOK(a)
  BY DEF IInv, Shape, AttemptsOK
<1> DEFINE r == [att[a].clCopy.row EXCEPT !.lkey = a]
           d == [att[a].clCopy EXCEPT !.row = r]
           t == [[att[a] EXCEPT !.cl = "sent"] EXCEPT !.clCopy = d]
<1>2. att' = [att EXCEPT ![a] = t]
  <2>1. att' = [[att EXCEPT ![a].cl = "sent"] EXCEPT ![a].clCopy.row.lkey = a]
    BY DEF TranSetup
  <2>2. [att EXCEPT ![a].cl = "sent"] = [att EXCEPT ![a] = [att[a] EXCEPT !.cl = "sent"]]
    BY DEF IInv, Shape
  <2>3. [att[a] EXCEPT !.cl = "sent"].clCopy = att[a].clCopy
    BY <1>1 DEF AttemptType
  <2> QED BY <1>1, <2>1, <2>2, <2>3 DEF IInv, Shape
<1>3. att'[a] = t
  BY <1>2 DEF IInv, Shape
<1>4. r \in Row /\ d \in Copy /\ d.row = r
  BY <1>1 DEF AttemptType, Copy, Row, Keys
<1>5. /\ att'[a] \in AttemptType /\ att'[a].ini = att[a].ini /\ att'[a].acc = att[a].acc
      /\ att'[a].sv = att[a].sv /\ att'[a].svCopy = att[a].svCopy
      /\ att'[a].clCopy.row = [att[a].clCopy.row EXCEPT !.lkey = a]
  <2> HIDE DEF d
  <2>1. t \in AttemptType /\ t.ini = att[a].ini /\ t.acc = att[a].acc
        /\ t.sv = att[a].sv /\ t.svCopy = att[a].svCopy /\ t.clCopy = d
    BY <1>1, <1>4 DEF AttemptType
  <2> QED BY <1>3, <1>4, <2>1
<1> HIDE DEF r, d, t
<1>6. OnlyAttempt(a) /\ rows' = rows /\ held' = held
  BY <1>2, <1>5 DEF OnlyAttempt, TranSetup, IInv, Shape, history
<1>7. Grows
  BY <1>5, <1>6 DEF OnlyAttempt, Grows
<1>8. ClientOK(a)'
  BY <1>1, <1>5, <1>7, GrowsKeepsRow DEF AttemptOK, ClientOK, GoodR, AttemptType, Copy, Row
<1>9. ServerOK(a)'
  BY <1>1, <1>5, <1>7, GrowsKeepsRow DEF AttemptOK, ServerOK, GoodL
<1> QED BY <1>6, <1>8, <1>9, OnlyAttemptInv

\* What recv_handle makes of the contact: a request answers ours, or waits for ours.
LEMMA AcceptedOK == ASSUME IInv, NEW p \in Persons, NEW q \in Persons, NEW k \in Attempts
  PROVE LET c == Accepted(p, q, k)
        IN  /\ c \in Copy /\ c.row.of = q /\ c.row.rkey = k /\ GoodL(p, c.row)
            /\ c.row.status \in {"PENDING_IN", "ACTIVE"}
            /\ c.row.status = "ACTIVE" => c.row.lkey # NoKey
<1> DEFINE b == IF Known(p, q) THEN ByOnion(p, q) ELSE NewContact(q, "PENDING_IN")
           c == Accepted(p, q, k)
<1>1. /\ b \in Copy /\ b.row.of = q /\ GoodL(p, b.row)
      /\ b.row.status \in {"ACTIVE", "PENDING_OUT"} => b.row.lkey # NoKey
  <2>1. CASE Known(p, q)
    BY <2>1, Lookup DEF IInv, RowsOK, RowOK, StatusOK
  <2>2. CASE ~Known(p, q)
    BY <2>2 DEF NewContact, Copy, Row, Status, Keys, GoodL
  <2> QED BY <2>1, <2>2
<1> HIDE DEF b
<1> DEFINE st == IF b.row.status = "PENDING_OUT" THEN "ACTIVE" ELSE b.row.status
           e == [b EXCEPT !.row.status = st]
<1>2. c = [e EXCEPT !.row.rkey = k]
  BY <1>1 DEF Accepted, b, Copy, Row
<1>3. e \in Copy /\ e.id = b.id /\ e.row = [b.row EXCEPT !.status = st] /\ st \in Status
  BY <1>1 DEF Copy, Row, Status
<1> HIDE DEF c, e
<1>3a. c.row = [e.row EXCEPT !.rkey = k] /\ c.id = e.id /\ c = [id |-> c.id, row |-> c.row]
  BY <1>2, <1>3 DEF Copy, Row
<1>4. c.row \in Row /\ c.row.of = q /\ c.row.rkey = k /\ c.row.lkey = b.row.lkey
      /\ c.row.status = IF b.row.status = "PENDING_OUT" THEN "ACTIVE" ELSE b.row.status
  BY <1>1, <1>3, <1>3a DEF Copy, Row, Keys, Status
<1>5. c \in Copy
  BY <1>3, <1>3a, <1>4 DEF Copy
<1>6. c.row.status \in {"PENDING_IN", "ACTIVE"} /\ (c.row.status = "ACTIVE" => c.row.lkey # NoKey)
  BY <1>1, <1>4 DEF Copy, Row, Status
<1>7. GoodL(p, c.row)
  BY <1>1, <1>4 DEF GoodL
<1> QED BY <1>4, <1>5, <1>6, <1>7 DEF c

LEMMA RecvHandleInv == ASSUME IInv, NEW a \in DOMAIN att, RecvHandle(a) PROVE IInv'
<1>1. a \in Attempts /\ att[a] \in AttemptType /\ AttemptOK(a)
  BY DEF IInv, Shape, AttemptsOK
<1>2. PICK c \in Copy :
        /\ c = Accepted(att[a].acc, att[a].ini, a)
        /\ c.row.of = att[a].ini /\ c.row.rkey = a /\ GoodL(att[a].acc, c.row)
        /\ c.row.status \in {"PENDING_IN", "ACTIVE"}
        /\ c.row.status = "ACTIVE" => c.row.lkey # NoKey
  BY <1>1, AcceptedOK DEF AttemptType
<1>3. att' = [att EXCEPT ![a] = [@ EXCEPT !.sv = "received", !.svCopy = c]]
  BY <1>2 DEF RecvHandle, IInv, Shape
<1>4. /\ att'[a] \in AttemptType /\ att'[a].ini = att[a].ini /\ att'[a].acc = att[a].acc
      /\ att'[a].sv = "received" /\ att'[a].svCopy = c
      /\ att'[a].cl = att[a].cl /\ att'[a].clCopy = att[a].clCopy
  BY <1>1, <1>3 DEF AttemptType, Fates, IInv, Shape
<1>5. OnlyAttempt(a) /\ rows' = rows /\ held' = held
  BY <1>3, <1>4 DEF OnlyAttempt, RecvHandle, Arriving, IInv, Shape, history
<1>6. Grows
  BY <1>4, <1>5 DEF OnlyAttempt, Grows
<1>7. ClientOK(a)'
  BY <1>1, <1>4, <1>6, GrowsKeepsRow DEF AttemptOK, ClientOK, GoodR
<1>8. GoodL(att[a].acc, c.row)'
  BY <1>2, <1>4, <1>6 DEF GoodL, Grows
<1>9. ServerOK(a)'
  BY <1>2, <1>4, <1>8 DEF ServerOK, GoodL
<1> QED BY <1>5, <1>7, <1>9, OnlyAttemptInv

\* A step that only moves on one side of an attempt.
LEMMA MovedInv ==
  ASSUME IInv, NEW a \in DOMAIN att,
         \/ \E x \in {"done", "failed"} : att' = [att EXCEPT ![a].cl = x]
         \/ \E x \in {"saved", "answered", "dropped"} : att' = [att EXCEPT ![a].sv = x],
         att[a].sv \in {"saved", "answered"} => att'[a].sv = att[a].sv,
         asked' = asked
  PROVE  /\ OnlyAttempt(a) /\ Grows /\ ClientOK(a)' /\ ServerOK(a)'
         /\ att'[a].clCopy = att[a].clCopy /\ att'[a].svCopy = att[a].svCopy
<1>1. a \in Attempts /\ att[a] \in AttemptType /\ AttemptOK(a)
  BY DEF IInv, Shape, AttemptsOK
<1>2. PICK t \in AttemptType :
        /\ att' = [att EXCEPT ![a] = t]
        /\ t.ini = att[a].ini /\ t.acc = att[a].acc
        /\ t.clCopy = att[a].clCopy /\ t.svCopy = att[a].svCopy
        /\ t.cl \in {att[a].cl, "done", "failed"}
        /\ t.sv \in {att[a].sv, "saved", "answered", "dropped"}
  <2>1. ASSUME NEW x \in {"done", "failed"}, att' = [att EXCEPT ![a].cl = x]
        PROVE  [att[a] EXCEPT !.cl = x] \in AttemptType /\ att' = [att EXCEPT ![a] = [att[a] EXCEPT !.cl = x]]
    BY <1>1, <2>1 DEF AttemptType
  <2>2. ASSUME NEW x \in {"saved", "answered", "dropped"}, att' = [att EXCEPT ![a].sv = x]
        PROVE  [att[a] EXCEPT !.sv = x] \in AttemptType /\ att' = [att EXCEPT ![a] = [att[a] EXCEPT !.sv = x]]
    BY <1>1, <2>2 DEF AttemptType, Fates
  <2>3. CASE \E x \in {"done", "failed"} : att' = [att EXCEPT ![a].cl = x]
    <3>1. PICK x \in {"done", "failed"} : att' = [att EXCEPT ![a].cl = x]
      BY <2>3
    <3> QED BY <1>1, <2>1, <3>1 DEF AttemptType
  <2>4. CASE \E x \in {"saved", "answered", "dropped"} : att' = [att EXCEPT ![a].sv = x]
    <3>1. PICK x \in {"saved", "answered", "dropped"} : att' = [att EXCEPT ![a].sv = x]
      BY <2>4
    <3> QED BY <1>1, <2>2, <3>1 DEF AttemptType
  <2> QED BY <2>3, <2>4
<1>3. att'[a] = t
  BY <1>2 DEF IInv, Shape
<1>4. OnlyAttempt(a)
  BY <1>2, <1>3 DEF OnlyAttempt, IInv, Shape
<1>5. Grows
  BY <1>2, <1>3 DEF Grows, IInv, Shape
<1>6. ClientOK(a)'
  BY <1>1, <1>2, <1>3, <1>5, GrowsKeepsRow DEF AttemptOK, ClientOK, GoodR
<1>7. ServerOK(a)'
  BY <1>1, <1>2, <1>3, <1>5, GrowsKeepsRow DEF AttemptOK, ServerOK, GoodL
<1> QED BY <1>2, <1>3, <1>4, <1>5, <1>6, <1>7

LEMMA LostInv == ASSUME IInv, NEW a \in DOMAIN att, AcceptorDies(a) \/ AcceptorDrops(a) \/ InitiatorFails(a)
                 PROVE  IInv'
<1>1. att[a] \in AttemptType
  BY DEF IInv, Shape
<1>2. rows' = rows /\ held' = held /\ asked' = asked
  BY DEF AcceptorDies, AcceptorDrops, InitiatorFails, history
<1>3. /\ \/ \E x \in {"done", "failed"} : att' = [att EXCEPT ![a].cl = x]
         \/ \E x \in {"saved", "answered", "dropped"} : att' = [att EXCEPT ![a].sv = x]
      /\ att[a].sv \in {"saved", "answered"} => att'[a].sv = att[a].sv
  BY <1>1 DEF AcceptorDies, AcceptorDrops, InitiatorFails, AttemptType, IInv, Shape
<1> QED BY <1>2, <1>3, MovedInv, OnlyAttemptInv

\* A step that moves on attempt a and saves a good contact.
LEMMA SavingInv ==
  ASSUME IInv, NEW a \in DOMAIN att, OnlyAttempt(a), Grows, ClientOK(a)', ServerOK(a)', held' = held,
         NEW p \in Persons, NEW c \in Copy, rows' = Saved(p, c), RowOK(p, c.row)'
  PROVE  IInv'
  BY OneAttempt, SavedKeeps, HeldKept DEF IInv, Shape

\* The contact holds the key of the request, whose answer is now given.
LEMMA AckSentInv == ASSUME IInv, NEW a \in DOMAIN att, AckSent(a) PROVE IInv'
<1>1. a \in Attempts /\ att[a] \in AttemptType /\ AttemptOK(a) /\ att[a].sv = "received"
  BY DEF IInv, Shape, AttemptsOK, AckSent
<1>2. att' = [att EXCEPT ![a].sv = "saved"] /\ asked' = asked /\ held' = held
      /\ rows' = Saved(att[a].acc, att[a].svCopy)
  BY DEF AckSent
<1>3. OnlyAttempt(a) /\ Grows /\ ClientOK(a)' /\ ServerOK(a)'
  BY <1>1, <1>2, MovedInv
<1>4. PICK p \in Persons, c \in Copy : p = att[a].acc /\ c = att[a].svCopy
  BY <1>1 DEF AttemptType
<1>5. /\ c.row.of = att[a].ini /\ c.row.rkey = a /\ GoodL(p, c.row)
      /\ c.row.status \in {"PENDING_IN", "ACTIVE"} /\ (c.row.status = "ACTIVE" => c.row.lkey # NoKey)
  BY <1>1, <1>4 DEF AttemptOK, ServerOK
<1>6. a \in DOMAIN att' /\ att'[a].sv = "saved" /\ att'[a].ini = att[a].ini /\ att'[a].acc = p
  BY <1>1, <1>2, <1>4 DEF IInv, Shape, AttemptType
<1>7. GoodL(p, c.row)'
  BY <1>3, <1>5, GrowsKeepsRow
<1>8. GoodR(p, c.row)'
  BY <1>5, <1>6 DEF GoodR
<1>9. a # NoKey
  BY <1>1, NoKeyAssumption
<1>10. RowOK(p, c.row)'
  BY <1>5, <1>7, <1>8, <1>9 DEF RowOK, StatusOK
<1> QED BY <1>2, <1>3, <1>4, <1>10, SavingInv

\* The contact holds the private key of the request, which was answered.
LEMMA AckReceivedInv == ASSUME IInv, NEW a \in DOMAIN att, AckReceived(a) PROVE IInv'
<1>1. a \in Attempts /\ att[a] \in AttemptType /\ AttemptOK(a)
      /\ att[a].cl = "sent" /\ att[a].sv \in {"saved", "answered"}
  BY DEF IInv, Shape, AttemptsOK, AckReceived
<1>2. att' = [att EXCEPT ![a].cl = "done"] /\ asked' = asked /\ held' = held
      /\ rows' = Saved(att[a].ini, att[a].clCopy)
  BY DEF AckReceived, history
<1>3. a \in DOMAIN att' /\ att'[a].sv = att[a].sv /\ att'[a].ini = att[a].ini /\ att'[a].acc = att[a].acc
  BY <1>1, <1>2 DEF IInv, Shape, AttemptType
<1>4. OnlyAttempt(a) /\ Grows /\ ClientOK(a)' /\ ServerOK(a)'
  BY <1>1, <1>2, <1>3, MovedInv
<1>5. PICK p \in Persons, c \in Copy : p = att[a].ini /\ c = att[a].clCopy
  BY <1>1 DEF AttemptType
<1>6. /\ c.row.of = att[a].acc /\ c.row.lkey = a /\ GoodR(p, c.row)
      /\ c.row.status \in {"PENDING_OUT", "ACTIVE"} /\ (c.row.status = "ACTIVE" => c.row.rkey # NoKey)
  BY <1>1, <1>5 DEF AttemptOK, ClientOK
<1>7. GoodR(p, c.row)'
  BY <1>4, <1>6, GrowsKeepsRow
<1>8. GoodL(p, c.row)'
  BY <1>1, <1>3, <1>5, <1>6 DEF GoodL
<1>9. a # NoKey
  BY <1>1, NoKeyAssumption
<1>10. RowOK(p, c.row)'
  BY <1>6, <1>7, <1>8, <1>9 DEF RowOK, StatusOK
<1> QED BY <1>2, <1>4, <1>5, <1>10, SavingInv

LEMMA SameAttempts == ASSUME IInv, att' = att, asked \subseteq asked' PROVE Grows /\ AttemptsOK'
<1>1. Grows
  BY DEF Grows
<1> QED BY <1>1, SameAttempt DEF IInv, AttemptsOK

\* friendadd for a known contact, and friendrm, write the deleted flag.
LEMMA FlagInv == ASSUME IInv, NEW p \in Persons, NEW q \in Persons, FriendRestore(p, q) \/ FriendRm(p, q)
                 PROVE  IInv'
<1>1. att' = att /\ held' = held /\ asked \subseteq asked'
  BY DEF FriendRestore, FriendRm
<1>2. Grows /\ AttemptsOK' /\ HeldOK'
  BY <1>1, SameAttempts, HeldKept DEF IInv
<1>3. CASE rows' = rows
  BY <1>1, <1>2, <1>3, RowsKept DEF IInv, Shape
<1>4. CASE rows' # rows
  <2>1. PICK d \in BOOLEAN : Known(p, q) /\ rows' = Saved(p, [ByOnion(p, q) EXCEPT !.row.deleted = d])
    BY <1>4 DEF FriendRestore, FriendRm, Undeleted
  <2>2. PICK c \in Copy : RowOK(p, c.row) /\ rows' = Saved(p, c)
    BY <2>1, DeletedFlag
  <2>3. RowOK(p, c.row)'
    BY <1>2, <2>2, GrowsKeepsRow
  <2> QED BY <1>1, <1>2, <2>2, <2>3, SavedKeeps DEF IInv, Shape
<1> QED BY <1>3, <1>4

LEMMA MessageArrivesInv == ASSUME IInv, NEW p \in Persons, NEW i \in DOMAIN rows[p], MessageArrives(p, i)
                           PROVE  IInv'
<1>1. att' = att /\ rows' = rows /\ asked' = asked
  BY DEF MessageArrives, history
<1>2. rows[p] \in Seq(Row) /\ RowOK(p, rows[p][i])
  BY DEF IInv, Shape, RowsOK
<1>3. PICK c \in Copy : c.row = rows[p][i] /\ held' = [held EXCEPT ![p] = @ \cup {c}]
  <2>1. [id |-> i, row |-> rows[p][i]] \in Copy
    BY <1>2 DEF Copy
  <2> QED BY <2>1 DEF MessageArrives
<1>4. Grows /\ AttemptsOK' /\ RowsOK'
  BY <1>1, SameAttempts, RowsKept DEF IInv
<1>5. held' \in [Persons -> SUBSET Copy] /\ \A o \in Persons : \A d \in held'[o] :
        d \in held[o] \/ (o = p /\ d = c)
  BY <1>3 DEF IInv, Shape
<1>6. ASSUME NEW o \in Persons, NEW d \in held'[o] PROVE RowOK(o, d.row)'
  <2>1. RowOK(o, d.row)
    BY <1>2, <1>3, <1>5 DEF IInv, HeldOK
  <2> QED BY <1>4, <2>1, GrowsKeepsRow
<1>7. HeldOK'
  BY <1>6 DEF HeldOK
<1> QED BY <1>1, <1>4, <1>5, <1>7 DEF IInv, Shape

LEMMA MessageEndsInv == ASSUME IInv, NEW p \in Persons, NEW c \in held[p],
                               MessageAckSent(p, c) \/ MessageDropped(p, c)
                        PROVE  IInv'
<1>1. c \in Copy /\ RowOK(p, c.row)
  BY DEF IInv, Shape, HeldOK
<1>2. att' = att /\ asked' = asked /\ held' = [held EXCEPT ![p] = @ \ {c}]
  BY DEF MessageAckSent, MessageDropped, history
<1>3. Grows /\ AttemptsOK'
  BY <1>2, SameAttempts
<1>4. held' \in [Persons -> SUBSET Copy] /\ \A o \in Persons : held'[o] \subseteq held[o]
  BY <1>2 DEF IInv, Shape
<1>5. HeldOK'
  <2>1. \A o \in Persons : \A d \in held'[o] : RowOK(o, d.row)'
    BY <1>3, <1>4, GrowsKeepsRow DEF IInv, HeldOK
  <2> QED BY <2>1 DEF HeldOK
<1>6. CASE MessageAckSent(p, c)
  <2>1. rows' = Saved(p, c) /\ RowOK(p, c.row)'
    BY <1>1, <1>3, <1>6, GrowsKeepsRow DEF MessageAckSent
  <2> QED BY <1>1, <1>2, <1>3, <1>4, <1>5, <2>1, SavedKeeps DEF IInv, Shape
<1>7. CASE MessageDropped(p, c)
  BY <1>2, <1>3, <1>4, <1>5, <1>7, RowsKept DEF MessageDropped, IInv, Shape
<1> QED BY <1>6, <1>7
-----------------------------------------------------------------------------
LEMMA InitInv == Init => IInv
<1> SUFFICES ASSUME Init PROVE IInv
  OBVIOUS
<1>1. Shape
  <2>1. <<>> \in Seq(Row)
    OBVIOUS
  <2> QED BY <2>1 DEF Init, Shape
<1>2. RowsOK /\ HeldOK /\ AttemptsOK
  BY DEF Init, RowsOK, HeldOK, AttemptsOK
<1> QED BY <1>1, <1>2 DEF IInv

LEMMA NextInv == IInv /\ [Next]_vars => IInv'
<1> SUFFICES ASSUME IInv, [Next]_vars PROVE IInv'
  OBVIOUS
<1>1. CASE UNCHANGED vars
  <2>1. rows' = rows /\ att' = att /\ held' = held /\ asked' = asked
    BY <1>1 DEF vars, tables, history
  <2>2. Grows /\ AttemptsOK'
    BY <2>1, SameAttempts
  <2> QED BY <2>1, <2>2, RowsKept, HeldKept DEF IInv, Shape
<1>2. CASE Commands
  BY <1>2, FriendAddInv, FlagInv DEF Commands
<1>3. CASE Requests
  BY <1>3, TranSetupInv, RecvHandleInv, AckSentInv, LostInv, AckReceivedInv DEF Requests
<1>4. CASE Messages
  BY <1>4, MessageArrivesInv, MessageEndsInv DEF Messages
<1> QED BY <1>1, <1>2, <1>3, <1>4 DEF Next

\* The types hold in every reachable state: no save leaves anything but contacts in a table
\* (the columns of client_contacts, db_contact.c), and the bounds are kept.
THEOREM TypeCorrect == Spec => []TypeOK
<1> DEFINE Rest == /\ asked \subseteq Persons \X Persons
                   /\ raced \subseteq Persons \X Nat
                   /\ removals \in 0..MaxRemovals
<1>1. Spec => []IInv
  BY InitInv, NextInv, PTL DEF Spec
<1>2. Init => Rest
  BY BoundsAssumption DEF Init
<1>3. IInv /\ Rest /\ [Next]_vars => Rest'
  <2> SUFFICES ASSUME IInv, Rest, [Next]_vars PROVE Rest'
    OBVIOUS
  <2>1. CASE UNCHANGED vars
    BY <2>1 DEF vars, history
  <2>2. CASE Commands
    <3>1. PICK p \in Persons, q \in Persons : \/ \E a \in Attempts : FriendAdd(p, q, a)
                                              \/ FriendRestore(p, q)
                                              \/ FriendRm(p, q)
      BY <2>2 DEF Commands
    <3>2. /\ asked' = asked \/ asked' = asked \cup {<<p, q>>}
          /\ raced' = Races(p, q)
          /\ removals' = removals \/ (removals < MaxRemovals /\ removals' = removals + 1)
      <4>1. ASSUME NEW a \in Attempts, FriendAdd(p, q, a)
            PROVE  /\ asked' = asked \cup {<<p, q>>} /\ raced' = Races(p, q)
                   /\ removals' = removals
        BY <4>1 DEF FriendAdd
      <4>2. CASE FriendRestore(p, q)
        BY <4>2 DEF FriendRestore
      <4>3. CASE FriendRm(p, q)
        BY <4>3 DEF FriendRm
      <4> QED BY <3>1, <4>1, <4>2, <4>3
    <3>3. asked' \subseteq Persons \X Persons
      BY <3>2
    <3>4. removals' \in 0..MaxRemovals
      BY <3>2, BoundsAssumption
    <3>5. raced' \subseteq Persons \X Nat
      <4>1. Known(p, q) => ByOnion(p, q).id \in Nat
        BY Lookup DEF IInv
      <4> QED BY <3>2, <4>1 DEF Races
    <3> QED BY <3>3, <3>4, <3>5
  <2>3. CASE Requests
    BY <2>3 DEF Requests, TranSetup, RecvHandle, AckSent, AcceptorDies, AcceptorDrops,
                AckReceived, InitiatorFails, history
  <2>4. CASE Messages
    BY <2>4 DEF Messages, MessageArrives, MessageAckSent, MessageDropped, history
  <2> QED BY <2>1, <2>2, <2>3, <2>4 DEF Next
<1>4. IInv /\ Rest => TypeOK
  BY DEF IInv, Shape, AttemptType, Fates, TypeOK
<1> QED BY <1>1, <1>2, <1>3, <1>4, PTL DEF Spec

\* The keys of a contact are never half of an exchange, for any number of persons and
\* requests, whatever is lost (the saves of prot_friend_req.c:24 and 115).
THEOREM KeysAlwaysExchanged == Spec => []KeysExchanged
<1>1. Spec => []IInv
  BY InitInv, NextInv, PTL DEF Spec
<1>2. IInv => KeysExchanged
  BY DEF IInv, RowsOK, RowOK, GoodL, GoodR, StatusOK, KeysExchanged
<1> QED BY <1>1, <1>2, PTL

\* An ACTIVE contact was asked for by both persons: each of its two keys is from a request
\* one of them made with friendadd.
THEOREM AlwaysConsent == Spec => []Consent
<1>1. Spec => []IInv
  BY InitInv, NextInv, PTL DEF Spec
<1>2. IInv => Consent
  <2> SUFFICES ASSUME IInv, NEW p \in Persons, NEW i \in DOMAIN rows[p], rows[p][i].status = "ACTIVE"
               PROVE  {<<p, rows[p][i].of>>, <<rows[p][i].of, p>>} \subseteq asked
    BY DEF Consent
  <2> DEFINE r == rows[p][i]
  <2>1. GoodL(p, r) /\ GoodR(p, r) /\ r.lkey # NoKey /\ r.rkey # NoKey
    BY DEF IInv, RowsOK, RowOK, StatusOK
  <2>2. <<p, r.of>> \in asked
    BY <2>1 DEF GoodL, IInv, AttemptsOK, AttemptOK
  <2>3. <<r.of, p>> \in asked
    BY <2>1 DEF GoodR, IInv, AttemptsOK, AttemptOK
  <2> QED BY <2>2, <2>3
<1> QED BY <1>1, <1>2, PTL
-----------------------------------------------------------------------------
(* Two persons *)

\* What matters of a row between two persons, and whose rows are distinct.
Core(r) == [status |-> r.status, lkey |-> r.lkey, rkey |-> r.rkey]
RowsOf(p, q) == {i \in DOMAIN rows[p] : rows[p][i].of = q}
Table(p, q) == {Core(rows[p][i]) : i \in RowsOf(p, q)}
Single(p, q) == \A i, j \in RowsOf(p, q) : i = j

Waits(a) == att[a].cl \in {"connecting", "sent"}
Received(a) == att[a].sv = "received"

\* A copy of a row has the owner of the row, and its deleted flag unless a command changed it.
CopyFits(p, c) == c.id # 0 =>
  /\ c.id \in DOMAIN rows[p] /\ rows[p][c.id].of = c.row.of
  /\ rows[p][c.id].deleted = c.row.deleted \/ <<p, c.id>> \in raced
CopiesFit ==
  /\ \A p \in Persons : \A c \in held[p] : c.id # 0 /\ CopyFits(p, c)
  /\ \A a \in DOMAIN att : /\ Waits(a) => CopyFits(att[a].ini, att[a].clCopy)
                           /\ Received(a) => CopyFits(att[a].acc, att[a].svCopy)

\* Who waits has not asked back, and who asked has not been answered.
Waiting(r) == /\ r.status = "PENDING_IN" => r.lkey = NoKey
              /\ r.status = "PENDING_OUT" => r.rkey = NoKey
WaitingOK ==
  /\ \A p \in Persons : \A i \in DOMAIN rows[p] : Waiting(rows[p][i])
  /\ \A p \in Persons : \A c \in held[p] : c.row.status = "ACTIVE"
  /\ \A a \in DOMAIN att : /\ Waits(a) => Waiting(att[a].clCopy.row)
                           /\ Received(a) => Waiting(att[a].svCopy.row)

InOrder(a) ==
  /\ att[a].cl = "connecting" => att[a].sv \in {"none", "dropped"}
  /\ att[a].cl = "done" => att[a].sv \in {"saved", "answered"}
  /\ att[a].sv = "answered" => Pair(a) \in died
OrderOK == \A a \in DOMAIN att : InOrder(a)

SingleOK == \A p, q \in Persons : p # q /\ {p, q} \notin overlapped => Single(p, q)
OneOpen == \A a, b \in DOMAIN att :
  Open(a) /\ Open(b) /\ Pair(a) = Pair(b) /\ Pair(a) \notin overlapped => a = b

\* The initiator's row is as it was when the request was made.
AskOK(a) == LET own == Table(att[a].ini, att[a].acc)
                other == Table(att[a].acc, att[a].ini) IN
  att[a].ini # att[a].acc /\ Pair(a) \notin overlapped =>
    /\ Open(a) => \A x \in own : x.status = "PENDING_IN"
    /\ Waits(a) => /\ att[a].clCopy.id = 0 => own = {} /\ att[a].clCopy.row.rkey = NoKey
                   /\ \A x \in own : x.rkey = att[a].clCopy.row.rkey
    /\ Received(a) => /\ att[a].svCopy.id = 0 => other = {} /\ att[a].svCopy.row.lkey = NoKey
                      /\ \A y \in other : y.lkey = att[a].svCopy.row.lkey
    /\ att[a].cl = "sent" /\ att[a].sv = "saved" => other # {} /\ \A y \in other : y.rkey = a
AsksOK == \A a \in DOMAIN att : AskOK(a)

\* Messages travel between friends only, whose rows change no more.
FriendsOK == \A p \in Persons : \A c \in held[p] : p # c.row.of /\ {p, c.row.of} \notin overlapped =>
  /\ \A x \in Table(p, c.row.of) : x = Core(c.row)
  /\ Table(c.row.of, p) # {} /\ \A y \in Table(c.row.of, p) : y.status = "ACTIVE"

\* The friend has the public half of the private key we keep.
PublicAt(p, q) == \A x \in Table(p, q) : x.lkey # NoKey =>
  Table(q, p) # {} /\ \A y \in Table(q, p) : y.rkey = x.lkey
PublicKept == \A p, q \in Persons :
  p # q /\ {p, q} \notin overlapped \cup died => PublicAt(p, q)
\* Unless ACKs were lost, the friend keeps or will save the private half of the public key we have.
PrivateAt(p, q) == \A x \in Table(p, q) : x.rkey # NoKey =>
  \/ x.rkey \in DOMAIN att /\ att[x.rkey].cl = "sent"
  \/ Table(q, p) # {} /\ \A y \in Table(q, p) : y.lkey = x.rkey
PrivateKept == \A p, q \in Persons :
  p # q /\ {p, q} \notin overlapped \cup died \cup ackLost => PrivateAt(p, q)

PairInv == /\ CopiesFit /\ WaitingOK /\ OrderOK /\ SingleOK /\ OneOpen
           /\ AsksOK /\ FriendsOK /\ PublicKept /\ PrivateKept

Inv == IInv /\ PairInv
-----------------------------------------------------------------------------
\* What a row says through its core.
LEMMA CoreFacts ==
  ASSUME IInv, WaitingOK, NEW p \in Persons, NEW q \in Persons, NEW x \in Table(p, q)
  PROVE  /\ x.status \in Status
         /\ x.lkey # NoKey => /\ x.lkey \in DOMAIN att /\ att[x.lkey].ini = p /\ att[x.lkey].acc = q
                              /\ att[x.lkey].sv \in {"saved", "answered"}
         /\ x.rkey # NoKey => /\ x.rkey \in DOMAIN att /\ att[x.rkey].ini = q /\ att[x.rkey].acc = p
                              /\ att[x.rkey].sv = "saved"
         /\ x.status = "ACTIVE" => x.lkey # NoKey /\ x.rkey # NoKey
         /\ x.status = "PENDING_OUT" => x.lkey # NoKey /\ x.rkey = NoKey
         /\ x.status = "PENDING_IN" => x.lkey = NoKey /\ x.rkey # NoKey
<1>1. PICK i \in RowsOf(p, q) : x = Core(rows[p][i])
  BY DEF Table
<1>2. i \in DOMAIN rows[p] /\ rows[p][i].of = q /\ rows[p][i] \in Row
  BY <1>1 DEF RowsOf, IInv, Shape
<1>3. RowOK(p, rows[p][i]) /\ Waiting(rows[p][i])
  BY <1>2 DEF IInv, RowsOK, WaitingOK
<1>4. x.status = rows[p][i].status /\ x.lkey = rows[p][i].lkey /\ x.rkey = rows[p][i].rkey
  BY <1>1 DEF Core
<1> QED BY <1>2, <1>3, <1>4 DEF RowOK, GoodL, GoodR, StatusOK, Waiting, Row

\* What SELECT returns is a row of the friend, and the only one if there is only one.
LEMMA Selected ==
  ASSUME Shape, NEW p \in Persons, NEW q \in Persons
  PROVE  /\ Known(p, q) <=> Table(p, q) # {}
         /\ Known(p, q) => LET c == ByOnion(p, q) IN
              /\ c.id \in RowsOf(p, q) /\ c.id \in Nat /\ c.id # 0 /\ c.row = rows[p][c.id]
              /\ Core(c.row) \in Table(p, q) /\ c \in Copy /\ c.row.of = q
              /\ Single(p, q) => \A x \in Table(p, q) : x = Core(c.row)
<1>1. Known(p, q) <=> Table(p, q) # {}
  BY DEF Known, Table, RowsOf
<1>2. SUFFICES ASSUME Known(p, q)
               PROVE  LET c == ByOnion(p, q) IN
                        /\ c.id \in RowsOf(p, q) /\ c.id \in Nat /\ c.id # 0 /\ c.row = rows[p][c.id]
                        /\ Core(c.row) \in Table(p, q) /\ c \in Copy /\ c.row.of = q
                        /\ Single(p, q) => \A x \in Table(p, q) : x = Core(c.row)
  BY <1>1
<1>3. PICK c \in Copy : /\ c = ByOnion(p, q)
                        /\ c.id \in DOMAIN rows[p] /\ c.id \in Nat
                        /\ c.row = rows[p][c.id] /\ c.row \in Row /\ c.row.of = q
  BY <1>2, Lookup
<1>4. c.id # 0
  <2>1. rows[p] \in Seq(Row)
    BY DEF Shape
  <2> QED BY <1>3, <2>1
<1>5. c.id \in RowsOf(p, q)
  BY <1>3 DEF RowsOf
<1>6. Core(c.row) \in Table(p, q)
  BY <1>3, <1>5 DEF Table
<1>7. Single(p, q) => \A x \in Table(p, q) : x = Core(c.row)
  BY <1>3, <1>5 DEF Table, Single
<1> QED BY <1>3, <1>4, <1>5, <1>6, <1>7

\* A row with a copy of its own is the only one.
LEMMA OwnRow ==
  ASSUME Shape, NEW p \in Persons, NEW c \in Copy, c.id # 0, CopyFits(p, c), Single(p, c.row.of)
  PROVE  /\ Table(p, c.row.of) # {}
         /\ \A x \in Table(p, c.row.of) : x = Core(rows[p][c.id])
BY DEF CopyFits, Table, RowsOf, Single

\* Saving a copy that fits changes what two persons have of each other in one place only.
LEMMA SavedTables ==
  ASSUME Shape, NEW p \in Persons, NEW c \in Copy, CopyFits(p, c), rows' = Saved(p, c)
  PROVE  /\ \A o, s \in Persons : o # p \/ s # c.row.of =>
              /\ Table(o, s)' = Table(o, s)
              /\ Single(o, s) => Single(o, s)'
         /\ Single(p, c.row.of) /\ (c.id = 0 => Table(p, c.row.of) = {}) =>
              /\ Table(p, c.row.of)' = {Core(c.row)}
              /\ Single(p, c.row.of)'
         /\ \A o \in Persons : \A i \in DOMAIN rows[o] :
              /\ i \in DOMAIN rows'[o] /\ rows'[o][i].of = rows[o][i].of
              /\ \/ rows'[o][i].deleted = rows[o][i].deleted
                 \/ o = p /\ i = c.id /\ rows'[o][i] = c.row
<1> DEFINE q == c.row.of
<1>0. c.row \in Row /\ c.id \in Nat /\ rows[p] \in Seq(Row) /\ rows' \in [Persons -> Seq(Row)]
  BY SavedRows DEF Copy, Shape
<1>1. \A o \in Persons : o # p => rows'[o] = rows[o]
  BY DEF Saved, Shape
<1>2. CASE c.id # 0
  <2>1. /\ rows'[p] = [rows[p] EXCEPT ![c.id] = c.row]
        /\ c.id \in DOMAIN rows[p] /\ rows[p][c.id].of = q
    BY <1>0, <1>2 DEF Saved, Shape, CopyFits
  <2>2. /\ DOMAIN rows'[p] = DOMAIN rows[p] /\ rows'[p][c.id] = c.row
        /\ \A i \in DOMAIN rows[p] : i # c.id => rows'[p][i] = rows[p][i]
    BY <1>0, <2>1
  <2>3. \A o, s \in Persons : RowsOf(o, s)' = RowsOf(o, s)
    <3> SUFFICES ASSUME NEW o \in Persons, NEW s \in Persons PROVE RowsOf(o, s)' = RowsOf(o, s)
      OBVIOUS
    <3> QED BY <1>1, <2>1, <2>2 DEF RowsOf
  <2>4. ASSUME NEW o \in Persons, NEW s \in Persons, o # p \/ s # q
        PROVE  Table(o, s)' = Table(o, s) /\ (Single(o, s) => Single(o, s)')
    <3>1. \A i \in RowsOf(o, s) : rows'[o][i] = rows[o][i]
      BY <1>1, <2>1, <2>2, <2>4 DEF RowsOf
    <3> QED BY <2>3, <3>1 DEF Table, Single
  <2>5. ASSUME Single(p, q) PROVE Table(p, q)' = {Core(c.row)} /\ Single(p, q)'
    <3>1. q \in Persons
      BY <1>0 DEF Row
    <3>2. RowsOf(p, q) = {c.id}
      BY <2>1, <2>5 DEF Single, RowsOf
    <3>3. RowsOf(p, q)' = {c.id}
      BY <2>3, <3>1, <3>2
    <3> QED BY <2>2, <3>3 DEF Table, Single
  <2>6. ASSUME NEW o \in Persons, NEW i \in DOMAIN rows[o]
        PROVE  /\ i \in DOMAIN rows'[o] /\ rows'[o][i].of = rows[o][i].of
               /\ \/ rows'[o][i].deleted = rows[o][i].deleted
                  \/ o = p /\ i = c.id /\ rows'[o][i] = c.row
    BY <1>1, <2>1, <2>2
  <2> QED BY <2>4, <2>5, <2>6
<1>3. CASE c.id = 0
  <2> DEFINE n == Len(rows[p]) + 1
  <2>1. rows'[p] = Append(rows[p], c.row)
    BY <1>0, <1>3 DEF Saved, Shape
  <2>2. /\ DOMAIN rows[p] = 1..Len(rows[p]) /\ DOMAIN rows'[p] = 1..n /\ rows'[p][n] = c.row
        /\ \A i \in DOMAIN rows[p] : rows'[p][i] = rows[p][i]
    BY <1>0, <2>1
  <2>3. DOMAIN rows'[p] = DOMAIN rows[p] \cup {n} /\ n \notin DOMAIN rows[p]
    BY <1>0, <2>2
  <2> HIDE DEF n
  <2>4. ASSUME NEW o \in Persons, NEW s \in Persons, o # p \/ s # q
        PROVE  Table(o, s)' = Table(o, s) /\ (Single(o, s) => Single(o, s)')
    <3>1. RowsOf(o, s)' = RowsOf(o, s) /\ \A i \in RowsOf(o, s) : rows'[o][i] = rows[o][i]
      <4>1. CASE o # p
        BY <1>1, <4>1 DEF RowsOf
      <4>2. CASE o = p /\ s # q
        BY <2>2, <2>3, <4>2 DEF RowsOf
      <4> QED BY <2>4, <4>1, <4>2
    <3> QED BY <3>1 DEF Table, Single
  <2>5. ASSUME Table(p, q) = {} PROVE Table(p, q)' = {Core(c.row)} /\ Single(p, q)'
    <3>1. RowsOf(p, q) = {}
      BY <2>5 DEF Table
    <3>2. RowsOf(p, q)' = {n}
      BY <2>2, <2>3, <3>1 DEF RowsOf
    <3> QED BY <2>2, <3>2 DEF Table, Single
  <2>6. ASSUME NEW o \in Persons, NEW i \in DOMAIN rows[o]
        PROVE  i \in DOMAIN rows'[o] /\ rows'[o][i] = rows[o][i]
    BY <1>1, <2>2, <2>3
  <2> QED BY <1>3, <2>4, <2>5, <2>6
<1> QED BY <1>2, <1>3
-----------------------------------------------------------------------------
(* What a step leaves alone *)

\* A copy that fits stays so when another copy that fits is saved.
LEMMA CopiesSaved ==
  ASSUME Shape, NEW p \in Persons, NEW c \in Copy, CopyFits(p, c), rows' = Saved(p, c), raced' = raced,
         NEW o \in Persons, NEW d, CopyFits(o, d)
  PROVE  CopyFits(o, d)'
<1> SUFFICES ASSUME d.id # 0
             PROVE  /\ d.id \in DOMAIN rows'[o] /\ rows'[o][d.id].of = d.row.of
                    /\ rows'[o][d.id].deleted = d.row.deleted \/ <<o, d.id>> \in raced
  BY DEF CopyFits
<1>1. /\ d.id \in DOMAIN rows[o] /\ rows[o][d.id].of = d.row.of
      /\ rows[o][d.id].deleted = d.row.deleted \/ <<o, d.id>> \in raced
  BY DEF CopyFits
<1>2. /\ d.id \in DOMAIN rows'[o] /\ rows'[o][d.id].of = rows[o][d.id].of
      /\ \/ rows'[o][d.id].deleted = rows[o][d.id].deleted
         \/ o = p /\ d.id = c.id /\ rows'[o][d.id] = c.row
  BY <1>1, SavedTables
<1>3. CASE o = p /\ d.id = c.id /\ rows'[o][d.id] = c.row
  BY <1>1, <1>2, <1>3 DEF CopyFits
<1> QED BY <1>1, <1>2, <1>3

\* Saving a contact that waits in the right way leaves a table of such contacts.
LEMMA WaitingSaved ==
  ASSUME Shape, WaitingOK, NEW p \in Persons, NEW c \in Copy, rows' = Saved(p, c), Waiting(c.row)
  PROVE  \A o \in Persons : \A i \in DOMAIN rows'[o] : Waiting(rows'[o][i])
<1> SUFFICES ASSUME NEW o \in Persons, NEW i \in DOMAIN rows'[o] PROVE Waiting(rows'[o][i])
  OBVIOUS
<1>1. \/ o = p /\ rows'[o][i] = c.row
      \/ i \in DOMAIN rows[o] /\ rows'[o][i] = rows[o][i]
  BY SavedRows
<1> QED BY <1>1 DEF WaitingOK

\* A step without attempts that leaves the tables of every good pair as they are.
LEMMA PairsKept ==
  ASSUME PairInv, att' = att,
         overlapped \subseteq overlapped', died \subseteq died', ackLost \subseteq ackLost',
         \A a \in DOMAIN att : att[a].ini \in Persons /\ att[a].acc \in Persons,
         \A o, s \in Persons : o # s /\ {o, s} \notin overlapped =>
           Table(o, s)' = Table(o, s) /\ (Single(o, s) => Single(o, s)')
  PROVE  OrderOK' /\ SingleOK' /\ OneOpen' /\ AsksOK' /\ PublicKept' /\ PrivateKept'
<1>1. OrderOK' /\ OneOpen'
  BY DEF PairInv, OrderOK, InOrder, OneOpen, Open, Arriving, Pair
<1>2. SingleOK'
  BY DEF PairInv, SingleOK
<1>3. AsksOK'
  <2> SUFFICES ASSUME NEW a \in DOMAIN att, att[a].ini # att[a].acc, Pair(a) \notin overlapped
               PROVE  AskOK(a)'
    BY DEF AsksOK, AskOK, Pair
  <2>1. AskOK(a)
    BY DEF PairInv, AsksOK
  <2>2. /\ Table(att[a].ini, att[a].acc)' = Table(att[a].ini, att[a].acc)
        /\ Table(att[a].acc, att[a].ini)' = Table(att[a].acc, att[a].ini)
    <3>1. {att[a].ini, att[a].acc} = {att[a].acc, att[a].ini}
      OBVIOUS
    <3> QED BY <3>1 DEF Pair
  <2> QED BY <2>1, <2>2 DEF AskOK, Open, Arriving, Waits, Received, Pair
<1>4. \A p, q \in Persons : p # q /\ {p, q} \notin overlapped =>
        Table(p, q)' = Table(p, q) /\ Table(q, p)' = Table(q, p)
  <2> SUFFICES ASSUME NEW p \in Persons, NEW q \in Persons, p # q, {p, q} \notin overlapped
               PROVE  Table(p, q)' = Table(p, q) /\ Table(q, p)' = Table(q, p)
    OBVIOUS
  <2>1. {p, q} = {q, p}
    OBVIOUS
  <2> QED BY <2>1
<1>5. PublicKept'
  BY <1>4 DEF PairInv, PublicKept, PublicAt
<1>6. PrivateKept'
  BY <1>4 DEF PairInv, PrivateKept, PrivateAt
<1> QED BY <1>1, <1>2, <1>3, <1>5, <1>6

\* A step that drops held contacts, at most, and leaves the tables of good pairs as they are.
LEMMA FriendsKept ==
  ASSUME PairInv, held \in [Persons -> SUBSET Copy], overlapped \subseteq overlapped',
         \A p \in Persons : held'[p] \subseteq held[p],
         \A o, s \in Persons : o # s /\ {o, s} \notin overlapped => Table(o, s)' = Table(o, s)
  PROVE  FriendsOK'
<1> SUFFICES ASSUME NEW p \in Persons, NEW c \in held[p], p # c.row.of, {p, c.row.of} \notin overlapped
             PROVE  /\ \A x \in Table(p, c.row.of)' : x = Core(c.row)
                    /\ Table(c.row.of, p)' # {} /\ \A y \in Table(c.row.of, p)' : y.status = "ACTIVE"
  BY DEF FriendsOK, Core
<1>1. c.row.of \in Persons
  BY DEF Copy, Row
<1>2. {p, c.row.of} = {c.row.of, p}
  OBVIOUS
<1>3. Table(p, c.row.of)' = Table(p, c.row.of) /\ Table(c.row.of, p)' = Table(c.row.of, p)
  BY <1>1, <1>2
<1> QED BY <1>3 DEF PairInv, FriendsOK

LEMMA People == ASSUME IInv PROVE \A a \in DOMAIN att :
  /\ att[a] \in AttemptType /\ att[a].ini \in Persons /\ att[a].acc \in Persons
  /\ att[a].clCopy \in Copy /\ att[a].svCopy \in Copy
BY DEF IInv, Shape, AttemptType

LEMMA RowType == ASSUME Shape, NEW p \in Persons, NEW i \in DOMAIN rows[p]
                 PROVE  rows[p][i] \in Row /\ rows[p][i].of \in Persons /\ i \in Nat /\ i # 0
<1>1. rows[p] \in Seq(Row)
  BY DEF Shape
<1>2. rows[p][i] \in Row /\ i \in 1..Len(rows[p]) /\ Len(rows[p]) \in Nat
  BY <1>1
<1> QED BY <1>2 DEF Row
-----------------------------------------------------------------------------
(* Messages and the deleted flag *)

LEMMA MessageArrivesPairs ==
  ASSUME Inv, NEW p \in Persons, NEW i \in DOMAIN rows[p], MessageArrives(p, i) PROVE PairInv'
<1> DEFINE r == rows[p][i]
           c == [id |-> i, row |-> r]
<1>1. /\ rows' = rows /\ att' = att /\ overlapped' = overlapped /\ died' = died
      /\ ackLost' = ackLost /\ raced' = raced
      /\ r.status = "ACTIVE" /\ CanWrite(r.of, r) /\ held' = [held EXCEPT ![p] = @ \cup {c}]
  BY DEF MessageArrives, history
<1>2. r \in Row /\ r.of \in Persons /\ i # 0
  BY RowType DEF Inv, IInv
<1>3. \A o \in Persons : \A d \in held'[o] : d \in held[o] \/ (o = p /\ d = c)
  BY <1>1 DEF Inv, IInv, Shape
<1>4. OrderOK' /\ SingleOK' /\ OneOpen' /\ AsksOK' /\ PublicKept' /\ PrivateKept'
  BY <1>1, People, PairsKept DEF Inv, Table, RowsOf, Single
<1>5. CopiesFit'
  <2>1. c.id # 0 /\ CopyFits(p, c)
    BY <1>2 DEF CopyFits
  <2>2. \A o \in Persons : \A d \in held'[o] : d.id # 0 /\ CopyFits(o, d)
    BY <1>3, <2>1 DEF Inv, PairInv, CopiesFit
  <2>3. \A o \in Persons : \A d : CopyFits(o, d) => CopyFits(o, d)'
    BY <1>1 DEF CopyFits
  <2>4. \A a \in DOMAIN att' : /\ Waits(a)' => CopyFits(att[a].ini, att[a].clCopy)'
                               /\ Received(a)' => CopyFits(att[a].acc, att[a].svCopy)'
    BY <1>1, <2>3, People DEF Inv, PairInv, CopiesFit, Waits, Received
  <2> QED BY <2>2, <2>3, <2>4 DEF CopiesFit
<1>6. WaitingOK'
  <2>1. \A o \in Persons : \A d \in held'[o] : d.row.status = "ACTIVE"
    BY <1>1, <1>3 DEF Inv, PairInv, WaitingOK
  <2> QED BY <1>1, <2>1 DEF Inv, PairInv, WaitingOK, Waits, Received, Waiting
<1>7. FriendsOK'
  <2>1. overlapped' = overlapped /\ \A o, s : Table(o, s)' = Table(o, s)
    BY <1>1 DEF Table, RowsOf, Core
  <2> SUFFICES ASSUME NEW o \in Persons, NEW d \in held'[o], o # d.row.of, {o, d.row.of} \notin overlapped
               PROVE  /\ \A x \in Table(o, d.row.of) : x = Core(d.row)
                      /\ Table(d.row.of, o) # {} /\ \A y \in Table(d.row.of, o) : y.status = "ACTIVE"
    BY <2>1 DEF FriendsOK, Core
  <2>2. CASE d \in held[o]
    BY <2>2 DEF Inv, PairInv, FriendsOK
  <2>3. CASE o = p /\ d = c
    <3> DEFINE q == r.of
    <3>1. p # q /\ {p, q} \notin overlapped /\ {q, p} = {p, q}
      BY <2>3
    <3>2. Single(p, q) /\ Single(q, p)
      BY <1>2, <3>1 DEF Inv, PairInv, SingleOK
    <3>3. \A x \in Table(p, q) : x = Core(r)
      BY <3>2 DEF Table, RowsOf, Single
    <3>4. Core(r) \in Table(p, q)
      BY DEF Table, RowsOf
    <3>5. PICK j \in DOMAIN rows[q] : LET s == rows[q][j] IN
            s.status = "ACTIVE" /\ s.lkey = r.rkey /\ s.rkey = r.lkey
      BY <1>1 DEF CanWrite
    <3>6. r.rkey # NoKey /\ att[r.rkey].acc = p
      BY <1>1, <1>2, <3>4, CoreFacts DEF Core, Inv, PairInv
    <3>7. rows[q][j].of \in Persons
      BY <1>2, RowType DEF Inv, IInv
    <3>8. Core(rows[q][j]) \in Table(q, rows[q][j].of)
      BY DEF Table, RowsOf
    <3>9. rows[q][j].of = p
      <4>1. PICK y : y = Core(rows[q][j])
        OBVIOUS
      <4>2. y.lkey = rows[q][j].lkey /\ y.lkey # NoKey
        BY <3>5, <3>6, <4>1 DEF Core
      <4>3. PICK f \in Persons : f = rows[q][j].of
        BY <3>7
      <4>4. PICK g \in Persons : g = q
        BY <1>2
      <4>5. IInv /\ WaitingOK /\ y \in Table(g, f)
        BY <3>8, <4>1, <4>3, <4>4 DEF Inv, PairInv
      <4>6. att[y.lkey].acc = f
        BY <4>2, <4>5, CoreFacts
      <4> QED BY <3>5, <3>6, <4>2, <4>3, <4>6
    <3>10. \A y \in Table(q, p) : y = Core(rows[q][j])
      BY <3>2, <3>9 DEF Table, RowsOf, Single
    <3>11. Core(rows[q][j]).status = "ACTIVE"
      BY <3>5 DEF Core
    <3> QED BY <2>3, <3>3, <3>8, <3>9, <3>10, <3>11
  <2> QED BY <1>3, <2>2, <2>3
<1> QED BY <1>4, <1>5, <1>6, <1>7 DEF PairInv

LEMMA MessageEndsPairs ==
  ASSUME Inv, NEW p \in Persons, NEW c \in held[p], MessageAckSent(p, c) \/ MessageDropped(p, c)
  PROVE  PairInv'
<1> DEFINE q == c.row.of
<1>1. /\ att' = att /\ overlapped' = overlapped /\ died' = died /\ ackLost' = ackLost /\ raced' = raced
      /\ held' = [held EXCEPT ![p] = @ \ {c}]
      /\ rows' = rows \/ rows' = Saved(p, c)
  BY DEF MessageAckSent, MessageDropped, history
<1>2. Shape /\ c \in Copy /\ c.id # 0 /\ CopyFits(p, c) /\ q \in Persons /\ c.row.status = "ACTIVE"
  <2>1. Shape /\ c \in Copy
    BY DEF Inv, IInv, Shape
  <2>2. c.id # 0 /\ CopyFits(p, c) /\ c.row.status = "ACTIVE"
    BY DEF Inv, PairInv, CopiesFit, WaitingOK
  <2> QED BY <2>1, <2>2 DEF Copy, Row
<1>3. held \in [Persons -> SUBSET Copy] /\ \A o \in Persons : held'[o] \subseteq held[o]
  BY <1>1 DEF Inv, IInv, Shape
<1>4. \A o, s \in Persons : o # s /\ {o, s} \notin overlapped =>
        Table(o, s)' = Table(o, s) /\ (Single(o, s) => Single(o, s)')
  <2>1. CASE rows' = rows
    BY <2>1 DEF Table, RowsOf, Single
  <2>2. CASE rows' = Saved(p, c)
    <3> SUFFICES ASSUME NEW o \in Persons, NEW s \in Persons, o # s, {o, s} \notin overlapped
                 PROVE  Table(o, s)' = Table(o, s) /\ (Single(o, s) => Single(o, s)')
      OBVIOUS
    <3>1. CASE o # p \/ s # q
      BY <1>2, <2>2, <3>1, SavedTables
    <3>2. CASE o = p /\ s = q
      <4>1. Single(p, q)
        BY <1>2, <3>2 DEF Inv, PairInv, SingleOK
      <4>2. Table(p, q)' = {Core(c.row)} /\ Single(p, q)'
        BY <1>2, <2>2, <4>1, SavedTables
      <4>3. Table(p, q) # {} /\ \A x \in Table(p, q) : x = Core(c.row)
        BY <1>2, <3>2, <4>1, OwnRow DEF Inv, PairInv, FriendsOK
      <4>4. Table(p, q) = {Core(c.row)}
        BY <4>3
      <4> QED BY <3>2, <4>2, <4>4
    <3> QED BY <3>1, <3>2
  <2> QED BY <1>1, <2>1, <2>2
<1>5. OrderOK' /\ SingleOK' /\ OneOpen' /\ AsksOK' /\ PublicKept' /\ PrivateKept'
  BY <1>1, <1>4, People, PairsKept DEF Inv
<1>6. FriendsOK'
  BY <1>1, <1>3, <1>4, FriendsKept DEF Inv
<1>7. \A o \in Persons : \A d : CopyFits(o, d) => CopyFits(o, d)'
  <2>1. CASE rows' = rows
    BY <1>1, <2>1 DEF CopyFits
  <2>2. CASE rows' = Saved(p, c)
    BY <1>1, <1>2, <2>2, CopiesSaved
  <2> QED BY <1>1, <2>1, <2>2
<1>8. CopiesFit'
  BY <1>1, <1>3, <1>7, People DEF Inv, PairInv, CopiesFit, Waits, Received
<1>9. \A o \in Persons : \A i \in DOMAIN rows'[o] : Waiting(rows'[o][i])
  <2>1. CASE rows' = rows
    BY <2>1 DEF Inv, PairInv, WaitingOK
  <2>2. CASE rows' = Saved(p, c)
    <3>1. Waiting(c.row)
      BY <1>2 DEF Waiting
    <3> QED BY <1>2, <2>2, <3>1, WaitingSaved DEF Inv, PairInv
  <2> QED BY <1>1, <2>1, <2>2
<1>10. WaitingOK'
  BY <1>1, <1>3, <1>9 DEF Inv, PairInv, WaitingOK, Waits, Received, Waiting
<1> QED BY <1>5, <1>6, <1>8, <1>10 DEF PairInv
\* A command may write the deleted flag of the row of q, and of a row p removed or restores.
Flagged(p, q, d) == Known(p, q) /\ rows' = Saved(p, [ByOnion(p, q) EXCEPT !.row.deleted = d])

LEMMA FlagWritten ==
  ASSUME IInv, NEW p \in Persons, NEW q \in Persons, NEW d \in BOOLEAN, Flagged(p, q, d)
  PROVE  LET k == ByOnion(p, q).id IN
         /\ \A o \in Persons : /\ DOMAIN rows'[o] = DOMAIN rows[o]
                               /\ \A i \in DOMAIN rows[o] :
                                    /\ rows'[o][i].of = rows[o][i].of
                                    /\ Core(rows[o][i])' = Core(rows[o][i])
                                    /\ (o # p \/ i # k) => rows'[o][i] = rows[o][i]
         /\ k \in DOMAIN rows[p] /\ rows'[p][k].deleted = d
<1> DEFINE b == ByOnion(p, q)
           c == [b EXCEPT !.row.deleted = d]
<1>1. /\ b.id \in RowsOf(p, q) /\ b.id \in Nat /\ b.id # 0 /\ b.row = rows[p][b.id]
      /\ b \in Copy /\ b.row.of = q
  BY Selected DEF Flagged, IInv
<1>2. c.id = b.id /\ c.row = [b.row EXCEPT !.deleted = d] /\ rows[p] \in Seq(Row)
  BY <1>1 DEF Copy, Row, IInv, Shape
<1>3. c.row.of = b.row.of /\ Core(c.row) = Core(b.row) /\ c.row.deleted = d
  BY <1>1, <1>2 DEF Copy, Row, Core
<1>4. rows' = [rows EXCEPT ![p] = [rows[p] EXCEPT ![c.id] = c.row]]
  BY <1>1, <1>2 DEF Flagged, Saved, IInv, Shape
<1> HIDE DEF c, b
<1>5. \A o \in Persons : o # p => rows'[o] = rows[o]
  BY <1>4 DEF IInv, Shape
<1>6. rows'[p] = [rows[p] EXCEPT ![b.id] = c.row]
  BY <1>2, <1>4 DEF IInv, Shape
<1>7. b.id \in DOMAIN rows[p]
  BY <1>1 DEF RowsOf
<1>8. /\ DOMAIN rows'[p] = DOMAIN rows[p] /\ rows'[p][b.id] = c.row
      /\ \A i \in DOMAIN rows[p] : i # b.id => rows'[p][i] = rows[p][i]
  BY <1>2, <1>6, <1>7
<1>9. ASSUME NEW o \in Persons, NEW i \in DOMAIN rows[o]
      PROVE  /\ rows'[o][i].of = rows[o][i].of
             /\ Core(rows[o][i])' = Core(rows[o][i])
             /\ (o # p \/ i # b.id) => rows'[o][i] = rows[o][i]
  <2>1. CASE o = p /\ i = b.id
    BY <1>1, <1>3, <1>8, <2>1 DEF Core
  <2>2. CASE o # p \/ i # b.id
    BY <1>5, <1>8, <2>2 DEF Core
  <2> QED BY <2>1, <2>2
<1> QED BY <1>3, <1>5, <1>7, <1>8, <1>9 DEF b

\* A contact that somebody will still write.
InFlight(o, c) ==
  \/ c \in held[o]
  \/ \E a \in DOMAIN att : \/ Waits(a) /\ o = att[a].ini /\ c = att[a].clCopy
                           \/ Received(a) /\ o = att[a].acc /\ c = att[a].svCopy

\* What a command leaves: tables as they were, and copies that fit or are known to race.
LEMMA CommandRows ==
  ASSUME Inv, NEW p \in Persons, NEW q \in Persons, raced' = Races(p, q),
         rows' = rows \/ \E d \in BOOLEAN : Flagged(p, q, d)
  PROVE  /\ \A o, s \in Persons : Table(o, s)' = Table(o, s) /\ (Single(o, s) => Single(o, s)')
         /\ \A o \in Persons : \A i \in DOMAIN rows'[o] : Waiting(rows'[o][i])
         /\ \A o \in Persons : \A c : InFlight(o, c) => CopyFits(o, c)'
<1>1. raced \subseteq raced'
  BY DEF Races
<1>2. \A o \in Persons : \A c : InFlight(o, c) => CopyFits(o, c)
  BY DEF Inv, PairInv, CopiesFit, InFlight
<1>3. CASE rows' = rows
  <2>1. \A o \in Persons : \A c : CopyFits(o, c) => CopyFits(o, c)'
    BY <1>1, <1>3 DEF CopyFits
  <2> QED BY <1>2, <1>3, <2>1 DEF Table, RowsOf, Single, Inv, PairInv, WaitingOK
<1>4. CASE \E d \in BOOLEAN : Flagged(p, q, d)
  <2>1. PICK d \in BOOLEAN : Flagged(p, q, d)
    BY <1>4
  <2>2. PICK k : k = ByOnion(p, q).id
    OBVIOUS
  <2>3. /\ \A o \in Persons : /\ DOMAIN rows'[o] = DOMAIN rows[o]
                              /\ \A i \in DOMAIN rows[o] :
                                   /\ rows'[o][i].of = rows[o][i].of
                                   /\ Core(rows[o][i])' = Core(rows[o][i])
                                   /\ (o # p \/ i # k) => rows'[o][i] = rows[o][i]
        /\ k \in DOMAIN rows[p]
    BY <2>1, <2>2, FlagWritten DEF Inv
  <2>4. \A o, s \in Persons : RowsOf(o, s)' = RowsOf(o, s)
    BY <2>3 DEF RowsOf
  <2>5. \A o, s \in Persons : Table(o, s)' = Table(o, s) /\ (Single(o, s) => Single(o, s)')
    BY <2>3, <2>4 DEF Table, RowsOf, Single
  <2>6. \A o \in Persons : \A i \in DOMAIN rows'[o] : Waiting(rows'[o][i])
    <3> SUFFICES ASSUME NEW o \in Persons, NEW i \in DOMAIN rows'[o] PROVE Waiting(rows'[o][i])
      OBVIOUS
    <3>1. Core(rows'[o][i]) = Core(rows[o][i]) /\ Waiting(rows[o][i])
      BY <2>3 DEF Inv, PairInv, WaitingOK, Core
    <3>2. /\ rows'[o][i].status = rows[o][i].status
          /\ rows'[o][i].lkey = rows[o][i].lkey /\ rows'[o][i].rkey = rows[o][i].rkey
      BY <3>1 DEF Core
    <3> QED BY <3>1, <3>2 DEF Waiting
  <2>7. ASSUME NEW o \in Persons, NEW c, InFlight(o, c) PROVE CopyFits(o, c)'
    <3>1. CASE o = p /\ c.id = k
      <4>1. CopyInFlight(p, k)
        BY <2>7, <3>1 DEF InFlight, CopyInFlight, Waits, Received
      <4>2. <<p, k>> \in raced'
        BY <2>1, <2>2, <4>1 DEF Flagged, Races
      <4>3. rows[p][k].of = c.row.of
        BY <1>2, <2>3, <2>7, <3>1, RowType DEF CopyFits, Inv, IInv
      <4> QED BY <2>3, <3>1, <4>2, <4>3 DEF CopyFits
    <3>2. CASE ~(o = p /\ c.id = k)
      <4>1. CopyFits(o, c)
        BY <1>2, <2>7
      <4> QED BY <1>1, <2>3, <3>2, <4>1 DEF CopyFits
    <3> QED BY <3>1, <3>2
  <2> QED BY <2>5, <2>6, <2>7
<1> QED BY <1>3, <1>4

LEMMA FlagPairs ==
  ASSUME Inv, NEW p \in Persons, NEW q \in Persons, FriendRestore(p, q) \/ FriendRm(p, q)
  PROVE  PairInv'
<1>1. /\ att' = att /\ held' = held /\ overlapped' = overlapped /\ died' = died /\ ackLost' = ackLost
      /\ raced' = Races(p, q)
  BY DEF FriendRestore, FriendRm
<1>2. rows' = rows \/ \E d \in BOOLEAN : Flagged(p, q, d)
  BY DEF FriendRestore, FriendRm, Undeleted, Flagged
<1>3. /\ \A o, s \in Persons : Table(o, s)' = Table(o, s) /\ (Single(o, s) => Single(o, s)')
      /\ \A o \in Persons : \A i \in DOMAIN rows'[o] : Waiting(rows'[o][i])
      /\ \A o \in Persons : \A c : InFlight(o, c) => CopyFits(o, c)'
  BY <1>1, <1>2, CommandRows
<1>4. OrderOK' /\ SingleOK' /\ OneOpen' /\ AsksOK' /\ PublicKept' /\ PrivateKept'
  BY <1>1, <1>3, People, PairsKept DEF Inv
<1>5. FriendsOK'
  BY <1>1, <1>3, FriendsKept DEF Inv, IInv, Shape
<1>6. CopiesFit'
  BY <1>1, <1>3, People DEF Inv, PairInv, CopiesFit, InFlight, Waits, Received
<1>7. WaitingOK'
  BY <1>1, <1>3 DEF Inv, PairInv, WaitingOK, Waits, Received, Waiting
<1> QED BY <1>4, <1>5, <1>6, <1>7 DEF PairInv

\* friendadd makes its copy from a row that waits for an answer, or for nobody yet.
AddCopy(p, q) == IF Known(p, q) THEN [Requested(p, q) EXCEPT !.row.deleted = FALSE]
                                ELSE Requested(p, q)

LEMMA NewCopy ==
  ASSUME Inv, NEW p \in Persons, NEW q \in Persons, ~NothingToDo(p, q)
  PROVE  \E c : /\ c = AddCopy(p, q) /\ c.row.of = q /\ c.row.deleted = FALSE
                /\ c.row.status \in {"PENDING_OUT", "ACTIVE"} /\ Waiting(c.row)
                /\ ~Known(p, q) => c.id = 0 /\ c.row.rkey = NoKey
                /\ Known(p, q) => /\ c.id = ByOnion(p, q).id /\ c.row.rkey = ByOnion(p, q).row.rkey
                                  /\ ByOnion(p, q).row.status = "PENDING_IN"
<1> PICK c : c = AddCopy(p, q)
  OBVIOUS
<1>1. CASE Known(p, q)
  <2> DEFINE b == ByOnion(p, q)
             e == [b EXCEPT !.row.status = "ACTIVE"]
  <2>1. b \in Copy /\ b.row.of = q
    BY <1>1, Selected DEF Inv, IInv
  <2>2. b.row.status = "PENDING_IN"
    BY <2>1, <1>1 DEF NothingToDo, Copy, Row, Status
  <2>3. c = [e EXCEPT !.row.deleted = FALSE]
    BY <1>1 DEF Requested, AddCopy
  <2> HIDE DEF b
  <2>4. e = [id |-> b.id, row |-> [b.row EXCEPT !.status = "ACTIVE"]] /\ e.row \in Row
    BY <2>1 DEF Copy, Row, Status
  <2>5. e.id = b.id /\ e.row.of = b.row.of /\ e.row.status = "ACTIVE" /\ e.row.rkey = b.row.rkey
    BY <2>1, <2>4 DEF Copy, Row, Status
  <2> HIDE DEF e
  <2>6. c = [id |-> e.id, row |-> [e.row EXCEPT !.deleted = FALSE]]
    BY <2>3, <2>4 DEF e, Copy, Row
  <2>6a. c.id = e.id /\ c.row = [e.row EXCEPT !.deleted = FALSE]
    BY <2>6
  <2>7. /\ c.id = e.id /\ c.row.of = e.row.of /\ c.row.status = e.row.status /\ c.row.rkey = e.row.rkey
        /\ c.row.deleted = FALSE
    BY <2>4, <2>6a DEF Row
  <2> QED BY <1>1, <2>1, <2>2, <2>5, <2>7 DEF Waiting, b
<1>2. CASE ~Known(p, q)
  BY <1>2 DEF AddCopy, Requested, NewContact, Waiting
<1> QED BY <1>1, <1>2

LEMMA FriendAddPairs ==
  ASSUME Inv, NEW p \in Persons, NEW q \in Persons, NEW a \in Attempts, FriendAdd(p, q, a)
  PROVE  PairInv'
<1>1. ~NothingToDo(p, q)
  BY DEF FriendAdd
<1>2. PICK c : /\ c = AddCopy(p, q) /\ c.row.of = q /\ c.row.deleted = FALSE
               /\ c.row.status \in {"PENDING_OUT", "ACTIVE"} /\ Waiting(c.row)
               /\ ~Known(p, q) => c.id = 0 /\ c.row.rkey = NoKey
               /\ Known(p, q) => /\ c.id = ByOnion(p, q).id /\ c.row.rkey = ByOnion(p, q).row.rkey
                                 /\ ByOnion(p, q).row.status = "PENDING_IN"
  BY <1>1, NewCopy
<1>3. /\ a \notin DOMAIN att /\ ~NothingToDo(p, q) /\ held' = held /\ died' = died
      /\ ackLost' = ackLost /\ raced' = Races(p, q) /\ rows' = Undeleted(p, q)
      /\ overlapped' = IF OpenBetween(p, q) THEN overlapped \cup {{p, q}} ELSE overlapped
      /\ att' = [b \in DOMAIN att \cup {a} |-> IF b = a THEN Attempt(p, q, c) ELSE att[b]]
  BY <1>2 DEF FriendAdd, AddCopy
<1>4. /\ DOMAIN att' = DOMAIN att \cup {a} /\ \A b \in DOMAIN att : b # a /\ att'[b] = att[b]
      /\ att'[a].ini = p /\ att'[a].acc = q /\ att'[a].cl = "connecting" /\ att'[a].sv = "none"
      /\ att'[a].clCopy = c
  BY <1>3 DEF Attempt
<1>5. overlapped \subseteq overlapped' /\ {p, q} = {q, p}
  BY <1>3
<1>6. rows' = rows \/ \E d \in BOOLEAN : Flagged(p, q, d)
  BY <1>3 DEF Undeleted, Flagged
<1>7. /\ \A o, s \in Persons : Table(o, s)' = Table(o, s) /\ (Single(o, s) => Single(o, s)')
      /\ \A o \in Persons : \A i \in DOMAIN rows'[o] : Waiting(rows'[o][i])
      /\ \A o \in Persons : \A d : InFlight(o, d) => CopyFits(o, d)'
  BY <1>3, <1>6, CommandRows
<1>8. CopyFits(p, c)'
  <2>1. CASE ~Known(p, q)
    BY <1>2, <2>1 DEF CopyFits
  <2>2. CASE Known(p, q)
    <3>0. PICK k : k = ByOnion(p, q).id
      OBVIOUS
    <3>1. k = c.id
      BY <1>2, <2>2, <3>0
    <3>2. /\ k \in DOMAIN rows[p] /\ rows[p][k].of = q /\ ByOnion(p, q).row = rows[p][k]
          /\ rows[p][k].deleted \in BOOLEAN
      <4>0. Shape
        BY DEF Inv, IInv
      <4>1. k \in RowsOf(p, q) /\ ByOnion(p, q).row = rows[p][k]
        BY <2>2, <3>0, <4>0, Selected
      <4>2. k \in DOMAIN rows[p] /\ rows[p][k].of = q
        BY <4>1 DEF RowsOf
      <4>3. rows[p][k] \in Row
        BY <4>2, RowType DEF Inv, IInv
      <4> QED BY <4>1, <4>2, <4>3 DEF Row
    <3>3. k \in DOMAIN rows'[p] /\ rows'[p][k].of = q /\ rows'[p][k].deleted = FALSE
      <4>1. CASE ByOnion(p, q).row.deleted
        <5>1. Flagged(p, q, FALSE)
          BY <1>3, <2>2, <4>1 DEF Undeleted, Flagged
        <5>2. /\ DOMAIN rows'[p] = DOMAIN rows[p]
              /\ \A i \in DOMAIN rows[p] : rows'[p][i].of = rows[p][i].of
              /\ rows'[p][k].deleted = FALSE
          BY <3>0, <5>1, FlagWritten DEF Inv
        <5> QED BY <3>2, <5>2
      <4>2. CASE ~ByOnion(p, q).row.deleted
        <5>1. rows' = rows
          BY <1>3, <4>2 DEF Undeleted
        <5> QED BY <3>2, <4>2, <5>1
      <4> QED BY <4>1, <4>2
    <3> QED BY <1>2, <3>1, <3>3 DEF CopyFits
  <2> QED BY <2>1, <2>2
<1>9. CopiesFit'
  <2>1. \A o \in Persons : \A d \in held'[o] : d.id # 0 /\ CopyFits(o, d)'
    BY <1>3, <1>7 DEF Inv, PairInv, CopiesFit, InFlight
  <2>2. ASSUME NEW b \in DOMAIN att
        PROVE  /\ Waits(b)' => CopyFits(att[b].ini, att[b].clCopy)'
               /\ Received(b)' => CopyFits(att[b].acc, att[b].svCopy)'
    BY <1>4, <1>7, People DEF Inv, InFlight, Waits, Received
  <2>3. CopyFits(att[a].ini, att[a].clCopy)' /\ ~Received(a)'
    BY <1>4, <1>8 DEF Received
  <2> QED BY <1>4, <2>1, <2>2, <2>3 DEF CopiesFit
<1>10. WaitingOK'
  <2>1. \A o \in Persons : \A d \in held'[o] : d.row.status = "ACTIVE"
    BY <1>3 DEF Inv, PairInv, WaitingOK
  <2>2. ASSUME NEW b \in DOMAIN att
        PROVE  /\ Waits(b)' => Waiting(att[b].clCopy.row)'
               /\ Received(b)' => Waiting(att[b].svCopy.row)'
    BY <1>4 DEF Inv, PairInv, WaitingOK, Waits, Received, Waiting
  <2>3. Waiting(att[a].clCopy.row)' /\ ~Received(a)'
    BY <1>4, <1>2 DEF Received, Waiting
  <2> QED BY <1>4, <1>7, <2>1, <2>2, <2>3 DEF WaitingOK, Waiting
<1>11. \A b \in DOMAIN att : /\ Open(b)' = Open(b) /\ Pair(b)' = Pair(b)
                             /\ Waits(b)' = Waits(b) /\ Received(b)' = Received(b)
  BY <1>4 DEF Open, Arriving, Pair, Waits, Received
<1>12. Pair(a)' = {p, q} /\ ~Received(a)' /\ att'[a].cl # "sent"
  BY <1>4 DEF Pair, Received
<1>13. OrderOK'
  BY <1>3, <1>4, <1>11, <1>12 DEF Inv, PairInv, OrderOK, InOrder
<1>14. SingleOK'
  BY <1>5, <1>7 DEF Inv, PairInv, SingleOK
<1>15. \A b \in DOMAIN att : Open(b) /\ Pair(b) = {p, q} => {p, q} \in overlapped'
  BY <1>3 DEF OpenBetween
<1>16. OneOpen'
  BY <1>4, <1>5, <1>11, <1>12, <1>15 DEF Inv, PairInv, OneOpen
<1>17. AsksOK'
  <2>1. ASSUME NEW b \in DOMAIN att, Pair(b) \notin overlapped PROVE AskOK(b)'
    <3>1. AskOK(b)
      BY DEF Inv, PairInv, AsksOK
    <3>2. /\ Table(att[b].ini, att[b].acc)' = Table(att[b].ini, att[b].acc)
          /\ Table(att[b].acc, att[b].ini)' = Table(att[b].acc, att[b].ini)
      BY <1>4, <1>7, People DEF Inv
    <3> QED BY <1>4, <1>11, <2>1, <3>1, <3>2 DEF AskOK
  <2>2. ASSUME p # q, {p, q} \notin overlapped' PROVE AskOK(a)'
    <3>1. Single(p, q) /\ Table(p, q)' = Table(p, q)
      BY <1>5, <1>7, <2>2 DEF Inv, PairInv, SingleOK
    <3>2. Known(p, q) => \A x \in Table(p, q) : x = Core(ByOnion(p, q).row)
      BY <3>1, Selected DEF Inv, IInv
    <3>3. ~Known(p, q) => Table(p, q) = {}
      BY Selected DEF Inv, IInv
    <3>4. \A x \in Table(p, q) : x.status = "PENDING_IN" /\ x.rkey = c.row.rkey
      BY <1>2, <3>2, <3>3 DEF Core
    <3>5. c.id = 0 => Table(p, q) = {} /\ c.row.rkey = NoKey
      BY <1>2, <3>3, Selected DEF Inv, IInv
    <3> QED BY <1>4, <1>12, <3>1, <3>4, <3>5 DEF AskOK
  <2>3. ASSUME NEW b \in DOMAIN att' PROVE AskOK(b)'
    <3>1. CASE Pair(b)' \in overlapped' \/ att'[b].ini = att'[b].acc
      BY <3>1 DEF AskOK
    <3>2. CASE Pair(b)' \notin overlapped' /\ b = a /\ p # q
      BY <1>12, <2>2, <3>2
    <3>3. CASE Pair(b)' \notin overlapped' /\ b \in DOMAIN att
      BY <1>5, <1>11, <2>1, <3>3
    <3> QED BY <1>4, <1>12, <3>1, <3>2, <3>3
  <2> QED BY <2>3 DEF AsksOK
<1>18. FriendsOK'
  BY <1>3, <1>5, <1>7, FriendsKept DEF Inv, IInv, Shape
<1>19. PublicKept'
  BY <1>3, <1>5, <1>7 DEF Inv, PairInv, PublicKept, PublicAt
<1>20. PrivateKept'
  BY <1>3, <1>4, <1>5, <1>7 DEF Inv, PairInv, PrivateKept, PrivateAt
<1> QED BY <1>9, <1>10, <1>13, <1>14, <1>16, <1>17, <1>18, <1>19, <1>20 DEF PairInv
-----------------------------------------------------------------------------
(* Steps of an attempt *)

\* Attempt a changes and no other, and it does not open again.
Moves(a) ==
  /\ DOMAIN att' = DOMAIN att
  /\ \A b \in DOMAIN att \ {a} : att'[b] = att[b]
  /\ att'[a].ini = att[a].ini /\ att'[a].acc = att[a].acc
  /\ Open(a)' => Open(a)
  /\ held' = held /\ overlapped' = overlapped /\ raced' = raced
  /\ died \subseteq died' /\ ackLost \subseteq ackLost'

\* What the invariant says of one attempt.
Sound(a) == /\ InOrder(a) /\ AskOK(a)
            /\ Waits(a) => CopyFits(att[a].ini, att[a].clCopy) /\ Waiting(att[a].clCopy.row)
            /\ Received(a) => CopyFits(att[a].acc, att[a].svCopy) /\ Waiting(att[a].svCopy.row)

LEMMA AllSound == ASSUME PairInv, NEW a \in DOMAIN att PROVE Sound(a)
BY DEF PairInv, Sound, OrderOK, AsksOK, CopiesFit, WaitingOK

\* The attempts that do not move stay sound: those of the same two persons are closed, and
\* the tables of the others stay as they are.
LEMMA OthersSound ==
  ASSUME Inv, NEW a \in DOMAIN att, Moves(a),
         \A o \in Persons : \A d : CopyFits(o, d) => CopyFits(o, d)',
         \A o, s \in Persons : Table(o, s)' = Table(o, s) \/ (Open(a) /\ {o, s} = Pair(a))
  PROVE  OneOpen' /\ \A b \in DOMAIN att \ {a} : Sound(b)'
<1>1. \A b \in DOMAIN att \ {a} : /\ Open(b)' = Open(b) /\ Waits(b)' = Waits(b)
                                  /\ Received(b)' = Received(b) /\ att'[b] = att[b]
  BY DEF Moves, Open, Arriving, Waits, Received
<1>2. \A b \in DOMAIN att : Pair(b)' = Pair(b)
  BY DEF Moves, Pair
<1>3. OneOpen'
  BY <1>1, <1>2 DEF Inv, PairInv, OneOpen, Moves
<1>4. ASSUME NEW b \in DOMAIN att \ {a} PROVE Sound(b)'
  <2>1. Sound(b)
    BY AllSound DEF Inv
  <2>2. InOrder(b)'
    BY <1>1, <1>2, <2>1 DEF Sound, InOrder, Moves
  <2>3. AskOK(b)'
    <3>1. CASE Pair(b) \in overlapped \/ att[b].ini = att[b].acc
      BY <1>1, <1>2, <3>1 DEF AskOK, Moves
    <3>2. CASE Pair(b) \notin overlapped /\ Open(a) /\ Pair(b) = Pair(a)
      <4>1. ~Open(b)
        BY <3>2 DEF Inv, PairInv, OneOpen
      <4>2. ~Waits(b) /\ ~Received(b) /\ att[b].cl # "sent"
        BY <4>1 DEF Open, Waits, Received
      <4> QED BY <1>1, <4>1, <4>2 DEF AskOK
    <3>3. CASE Pair(b) \notin overlapped /\ ~(Open(a) /\ Pair(b) = Pair(a))
      <4>1. {att[b].ini, att[b].acc} = Pair(b) /\ {att[b].acc, att[b].ini} = Pair(b)
        BY DEF Pair
      <4>2. /\ Table(att[b].ini, att[b].acc)' = Table(att[b].ini, att[b].acc)
            /\ Table(att[b].acc, att[b].ini)' = Table(att[b].acc, att[b].ini)
        BY <1>1, <3>3, <4>1, People DEF Inv
      <4> QED BY <1>1, <2>1, <3>3, <4>2 DEF Sound, AskOK
    <3> QED BY <3>1, <3>2, <3>3
  <2>4. /\ Waits(b)' => (CopyFits(att[b].ini, att[b].clCopy) /\ Waiting(att[b].clCopy.row))'
        /\ Received(b)' => (CopyFits(att[b].acc, att[b].svCopy) /\ Waiting(att[b].svCopy.row))'
    BY <1>1, <2>1, People DEF Inv, Sound, Waiting
  <2> QED BY <2>2, <2>3, <2>4 DEF Sound
<1> QED BY <1>3, <1>4

\* A step of an attempt that saves nothing.
LEMMA MovePairs ==
  ASSUME Inv, NEW a \in DOMAIN att, Moves(a), rows' = rows, Sound(a)',
         att[a].cl = "sent" /\ att[a].sv = "saved" => att'[a].cl = "sent" \/ Pair(a) \in ackLost'
  PROVE  PairInv'
<1>1. /\ \A o \in Persons : \A d : CopyFits(o, d) => CopyFits(o, d)'
      /\ \A o, s \in Persons : Table(o, s)' = Table(o, s) /\ Single(o, s)' = Single(o, s)
  BY DEF Moves, CopyFits, Table, RowsOf, Single
<1>2. OneOpen' /\ \A b \in DOMAIN att' : Sound(b)'
  BY <1>1, OthersSound DEF Moves
<1>3. AsksOK' /\ OrderOK'
  BY <1>2 DEF AsksOK, OrderOK, Sound
<1>4. CopiesFit'
  <2>1. \A o \in Persons : \A d \in held'[o] : d.id # 0 /\ CopyFits(o, d)'
    BY <1>1 DEF Moves, Inv, PairInv, CopiesFit
  <2> QED BY <1>2, <2>1 DEF CopiesFit, Sound
<1>5. WaitingOK'
  <2>1. \A o \in Persons : \A i \in DOMAIN rows'[o] : Waiting(rows'[o][i])
    BY DEF Inv, PairInv, WaitingOK
  <2>2. \A o \in Persons : \A d \in held'[o] : d.row.status = "ACTIVE"
    BY DEF Moves, Inv, PairInv, WaitingOK
  <2> QED BY <1>2, <2>1, <2>2 DEF WaitingOK, Sound, Waiting
<1>6. SingleOK'
  BY <1>1 DEF Moves, Inv, PairInv, SingleOK
<1>7. FriendsOK'
  BY <1>1, FriendsKept DEF Moves, Inv, IInv, Shape
<1>8. PublicKept'
  BY <1>1 DEF Moves, Inv, PairInv, PublicKept, PublicAt
<1>9. PrivateKept'
  <2> SUFFICES ASSUME NEW p \in Persons, NEW q \in Persons, p # q,
                      {p, q} \notin overlapped' \cup died' \cup ackLost',
                      NEW x \in Table(p, q), x.rkey # NoKey
               PROVE  \/ x.rkey \in DOMAIN att' /\ att'[x.rkey].cl = "sent"
                      \/ Table(q, p) # {} /\ \A y \in Table(q, p) : y.lkey = x.rkey
    BY <1>1 DEF PrivateKept, PrivateAt
  <2>1. \/ x.rkey \in DOMAIN att /\ att[x.rkey].cl = "sent"
        \/ Table(q, p) # {} /\ \A y \in Table(q, p) : y.lkey = x.rkey
    BY DEF Moves, Inv, PairInv, PrivateKept, PrivateAt
  <2>2. CASE x.rkey = a
    <3>1. att[a].ini = q /\ att[a].acc = p /\ att[a].sv = "saved"
      BY <2>2, CoreFacts DEF Inv, PairInv
    <3>2. Pair(a) \notin ackLost'
      BY <3>1 DEF Pair
    <3> QED BY <2>1, <2>2, <3>1, <3>2 DEF Moves
  <2>3. CASE x.rkey # a
    BY <2>1, <2>3 DEF Moves
  <2> QED BY <2>2, <2>3
<1> QED BY <1>2, <1>3, <1>4, <1>5, <1>6, <1>7, <1>8, <1>9 DEF PairInv

LEMMA ClientMoves ==
  ASSUME IInv, NEW a \in DOMAIN att, NEW x, att' = [att EXCEPT ![a].cl = x]
  PROVE  /\ DOMAIN att' = DOMAIN att /\ \A b \in DOMAIN att \ {a} : att'[b] = att[b]
         /\ att'[a].ini = att[a].ini /\ att'[a].acc = att[a].acc /\ att'[a].cl = x
         /\ att'[a].sv = att[a].sv /\ att'[a].clCopy = att[a].clCopy /\ att'[a].svCopy = att[a].svCopy
<1>1. att[a] \in AttemptType /\ att' = [att EXCEPT ![a] = [att[a] EXCEPT !.cl = x]]
  BY DEF IInv, Shape
<1> QED BY <1>1 DEF IInv, Shape, AttemptType

LEMMA ServerMoves ==
  ASSUME IInv, NEW a \in DOMAIN att, NEW x, att' = [att EXCEPT ![a].sv = x]
  PROVE  /\ DOMAIN att' = DOMAIN att /\ \A b \in DOMAIN att \ {a} : att'[b] = att[b]
         /\ att'[a].ini = att[a].ini /\ att'[a].acc = att[a].acc /\ att'[a].sv = x
         /\ att'[a].cl = att[a].cl /\ att'[a].clCopy = att[a].clCopy /\ att'[a].svCopy = att[a].svCopy
<1>1. att[a] \in AttemptType /\ att' = [att EXCEPT ![a] = [att[a] EXCEPT !.sv = x]]
  BY DEF IInv, Shape
<1> QED BY <1>1 DEF IInv, Shape, AttemptType

LEMMA BothMove ==
  ASSUME IInv, NEW a \in DOMAIN att, NEW x, NEW y, att' = [att EXCEPT ![a].sv = x, ![a].cl = y]
  PROVE  /\ DOMAIN att' = DOMAIN att /\ \A b \in DOMAIN att \ {a} : att'[b] = att[b]
         /\ att'[a].ini = att[a].ini /\ att'[a].acc = att[a].acc /\ att'[a].sv = x
         /\ att'[a].cl = y /\ att'[a].clCopy = att[a].clCopy /\ att'[a].svCopy = att[a].svCopy
<1>1. PICK t \in AttemptType : t = att[a]
  BY DEF IInv, Shape
<1>2. PICK z : z = [t EXCEPT !.sv = x, !.cl = y]
  OBVIOUS
<1>3. DOMAIN att' = DOMAIN att /\ (\A b \in DOMAIN att \ {a} : att'[b] = att[b]) /\ att'[a] = z
  BY <1>1, <1>2 DEF IInv, Shape, AttemptType
<1>4. /\ z.ini = t.ini /\ z.acc = t.acc /\ z.sv = x /\ z.cl = y
      /\ z.clCopy = t.clCopy /\ z.svCopy = t.svCopy
  BY <1>2 DEF AttemptType
<1> QED BY <1>1, <1>3, <1>4

\* An acceptor that is not the initiator dies without it.
LEMMA Falls ==
  ASSUME IInv, NEW a \in DOMAIN att, AcceptorDies(a), att[a].ini # att[a].acc
  PROVE  att' = [att EXCEPT ![a].sv = "answered"]
<1>1. PICK t \in AttemptType : t = att[a]
  BY DEF IInv, Shape
<1>2. att' = [att EXCEPT ![a].sv = "answered", ![a].cl = @]
  BY DEF AcceptorDies
<1>3. \A b \in DOMAIN att : att'[b] = [att EXCEPT ![a].sv = "answered"][b]
  BY <1>1, <1>2 DEF IInv, Shape, AttemptType
<1> QED BY <1>2, <1>3 DEF IInv, Shape

\* Tables that stay, for the attempt that moves.
LEMMA SameTables == ASSUME rows' = rows, raced' = raced
  PROVE  /\ \A o, s : Table(o, s)' = Table(o, s)
         /\ \A o, d : CopyFits(o, d)' = CopyFits(o, d)
BY DEF Table, RowsOf, CopyFits, Core

LEMMA LostPairs ==
  ASSUME Inv, NEW a \in DOMAIN att, AcceptorDies(a) \/ AcceptorDrops(a) \/ InitiatorFails(a)
  PROVE  PairInv'
<1>1. Sound(a) /\ IInv
  BY AllSound DEF Inv
<1>2. /\ rows' = rows /\ held' = held /\ overlapped' = overlapped /\ raced' = raced
      /\ died \subseteq died' /\ ackLost \subseteq ackLost'
  BY DEF AcceptorDies, AcceptorDrops, InitiatorFails, history
<1>3. CASE AcceptorDies(a) /\ att[a].ini # att[a].acc
  <2>1. att[a].sv = "received" /\ att' = [att EXCEPT ![a].sv = "answered"] /\ Pair(a) \in died'
    BY <1>3, Falls DEF AcceptorDies
  <2>2. /\ DOMAIN att' = DOMAIN att /\ \A b \in DOMAIN att \ {a} : att'[b] = att[b]
        /\ att'[a].ini = att[a].ini /\ att'[a].acc = att[a].acc /\ att'[a].sv = "answered"
        /\ att'[a].cl = att[a].cl /\ att'[a].clCopy = att[a].clCopy /\ att'[a].svCopy = att[a].svCopy
    BY <1>1, <2>1, ServerMoves
  <2>3. Open(a) /\ Pair(a)' = Pair(a) /\ ~Received(a)' /\ Waits(a)' = Waits(a)
    BY <2>1, <2>2 DEF Open, Pair, Received, Waits
  <2>4. Sound(a)'
    BY <1>1, <1>2, <2>1, <2>2, <2>3, SameTables, People DEF Sound, InOrder, AskOK, Waiting
  <2> QED BY <1>2, <2>2, <2>3, <2>4, MovePairs DEF Moves
<1>6. CASE AcceptorDies(a) /\ att[a].ini = att[a].acc
  <2>1. att[a].sv = "received" /\ att' = [att EXCEPT ![a].sv = "answered", ![a].cl = "failed"] /\ Pair(a) \in died'
    BY <1>6 DEF AcceptorDies
  <2>2. /\ DOMAIN att' = DOMAIN att /\ \A b \in DOMAIN att \ {a} : att'[b] = att[b]
        /\ att'[a].ini = att[a].ini /\ att'[a].acc = att[a].acc /\ att'[a].sv = "answered"
        /\ att'[a].cl = "failed" /\ att'[a].clCopy = att[a].clCopy /\ att'[a].svCopy = att[a].svCopy
    BY <1>1, <2>1, BothMove
  <2>3. Open(a) /\ Pair(a)' = Pair(a) /\ ~Received(a)' /\ ~Waits(a)'
    BY <2>1, <2>2 DEF Open, Pair, Received, Waits
  <2>4. Sound(a)'
    BY <1>6, <2>1, <2>2, <2>3 DEF Sound, InOrder, AskOK
  <2> QED BY <1>2, <2>1, <2>2, <2>3, <2>4, MovePairs DEF Moves
<1>4. CASE AcceptorDrops(a)
  <2>1. att[a].sv \in {"none", "received"} /\ att' = [att EXCEPT ![a].sv = "dropped"]
    BY <1>4 DEF AcceptorDrops
  <2>2. /\ DOMAIN att' = DOMAIN att /\ \A b \in DOMAIN att \ {a} : att'[b] = att[b]
        /\ att'[a].ini = att[a].ini /\ att'[a].acc = att[a].acc /\ att'[a].sv = "dropped"
        /\ att'[a].cl = att[a].cl /\ att'[a].clCopy = att[a].clCopy /\ att'[a].svCopy = att[a].svCopy
    BY <1>1, <2>1, ServerMoves
  <2>3. (Open(a)' => Open(a)) /\ Pair(a)' = Pair(a) /\ ~Received(a)' /\ Waits(a)' = Waits(a)
    BY <2>1, <2>2 DEF Open, Arriving, Pair, Received, Waits
  <2>4. Sound(a)'
    BY <1>1, <1>2, <2>1, <2>2, <2>3, SameTables, People DEF Sound, InOrder, AskOK, Waiting
  <2> QED BY <1>2, <2>1, <2>2, <2>3, <2>4, MovePairs DEF Moves
<1>5. CASE InitiatorFails(a)
  <2>1. /\ att[a].cl \in {"connecting", "sent"} /\ att' = [att EXCEPT ![a].cl = "failed"]
        /\ att[a].sv = "saved" => Pair(a) \in ackLost'
    BY <1>5 DEF InitiatorFails
  <2>2. /\ DOMAIN att' = DOMAIN att /\ \A b \in DOMAIN att \ {a} : att'[b] = att[b]
        /\ att'[a].ini = att[a].ini /\ att'[a].acc = att[a].acc /\ att'[a].cl = "failed"
        /\ att'[a].sv = att[a].sv /\ att'[a].clCopy = att[a].clCopy /\ att'[a].svCopy = att[a].svCopy
    BY <1>1, <2>1, ClientMoves
  <2>3. Open(a) /\ Pair(a)' = Pair(a) /\ ~Waits(a)' /\ Received(a)' = Received(a)
    BY <2>1, <2>2 DEF Open, Pair, Received, Waits
  <2>4. Sound(a)'
    BY <1>1, <1>2, <2>1, <2>2, <2>3, SameTables, People DEF Sound, InOrder, AskOK, Waiting
  <2> QED BY <1>2, <2>1, <2>2, <2>3, <2>4, MovePairs DEF Moves
<1> QED BY <1>3, <1>4, <1>5, <1>6

LEMMA TranSetupPairs == ASSUME Inv, NEW a \in DOMAIN att, TranSetup(a) PROVE PairInv'
<1>1. Sound(a) /\ IInv /\ att[a] \in AttemptType
  BY AllSound DEF Inv, IInv, Shape
<1>2. /\ rows' = rows /\ held' = held /\ overlapped' = overlapped /\ raced' = raced
      /\ died' = died /\ ackLost' = ackLost /\ att[a].cl = "connecting"
  BY DEF TranSetup, history
<1> DEFINE r == [att[a].clCopy.row EXCEPT !.lkey = a]
           d == [att[a].clCopy EXCEPT !.row = r]
           t == [[att[a] EXCEPT !.cl = "sent"] EXCEPT !.clCopy = d]
<1>3. att' = [att EXCEPT ![a] = t]
  <2>1. att' = [[att EXCEPT ![a].cl = "sent"] EXCEPT ![a].clCopy.row.lkey = a]
    BY DEF TranSetup
  <2>2. [att EXCEPT ![a].cl = "sent"] = [att EXCEPT ![a] = [att[a] EXCEPT !.cl = "sent"]]
    BY DEF Inv, IInv, Shape
  <2>3. [att[a] EXCEPT !.cl = "sent"].clCopy = att[a].clCopy
    BY <1>1 DEF AttemptType
  <2> QED BY <1>1, <2>1, <2>2, <2>3 DEF Inv, IInv, Shape
<1>4. r \in Row /\ r.of = att[a].clCopy.row.of /\ r.deleted = att[a].clCopy.row.deleted
      /\ r.rkey = att[a].clCopy.row.rkey /\ r.status = att[a].clCopy.row.status
  BY <1>1 DEF AttemptType, Copy, Row, Keys, Inv, IInv, Shape
<1> HIDE DEF r
<1>5. d.row = r /\ d.id = att[a].clCopy.id
  BY <1>1 DEF AttemptType, Copy
<1> HIDE DEF d
<1>6. t.ini = att[a].ini /\ t.acc = att[a].acc /\ t.cl = "sent" /\ t.sv = att[a].sv
      /\ t.svCopy = att[a].svCopy /\ t.clCopy = d
  BY <1>1 DEF AttemptType
<1> HIDE DEF t
<1>7. DOMAIN att' = DOMAIN att /\ (\A b \in DOMAIN att \ {a} : att'[b] = att[b]) /\ att'[a] = t
  BY <1>3 DEF Inv, IInv, Shape
<1>8. Open(a) /\ Pair(a)' = Pair(a) /\ Waits(a) /\ Received(a)' = Received(a) /\ ~Received(a)
  BY <1>1, <1>2, <1>6, <1>7 DEF Open, Pair, Received, Waits, Sound, InOrder
<1>9. r.status # "PENDING_IN"
  BY <1>4 DEF Inv, IInv, AttemptsOK, AttemptOK, ClientOK
<1>10. Waiting(d.row)
  BY <1>1, <1>4, <1>5, <1>8, <1>9 DEF Sound, Waiting
<1>11. CopyFits(att[a].ini, d)
  BY <1>1, <1>4, <1>5, <1>8 DEF Sound, CopyFits
<1>12. CopyFits(att[a].ini, att[a].clCopy)' /\ Waiting(att[a].clCopy.row)'
  BY <1>2, <1>6, <1>7, <1>10, <1>11 DEF CopyFits, Waiting
<1>13. InOrder(a)'
  BY <1>1, <1>2, <1>6, <1>7 DEF Sound, InOrder
<1>14. AskOK(a)'
  BY <1>1, <1>2, <1>4, <1>5, <1>6, <1>7, <1>8, SameTables DEF Sound, InOrder, AskOK
<1>15. Sound(a)'
  BY <1>8, <1>12, <1>13, <1>14 DEF Sound
<1> QED BY <1>2, <1>6, <1>7, <1>8, <1>15, MovePairs DEF Moves

\* The acceptor's copy is the row it has of the sender, with the new key.
LEMMA AcceptedCopy ==
  ASSUME Inv, NEW p \in Persons, NEW q \in Persons, NEW k \in Attempts
  PROVE  \E c : /\ c = Accepted(p, q, k) /\ c.row.of = q /\ Waiting(c.row)
                /\ ~Known(p, q) => c.id = 0 /\ c.row.lkey = NoKey
                /\ Known(p, q) => /\ c.id = ByOnion(p, q).id /\ c.row.lkey = ByOnion(p, q).row.lkey
                                  /\ c.row.deleted = ByOnion(p, q).row.deleted
<1> DEFINE b == IF Known(p, q) THEN ByOnion(p, q) ELSE NewContact(q, "PENDING_IN")
<1>1. b \in Copy /\ b.row.of = q /\ (b.row.status = "PENDING_IN" => b.row.lkey = NoKey)
  <2>1. CASE Known(p, q)
    <3>1. b = ByOnion(p, q)
      BY <2>1
    <3>2. b \in Copy /\ b.row.of = q /\ b.id \in RowsOf(p, q) /\ b.row = rows[p][b.id]
      BY <2>1, <3>1, Selected DEF Inv, IInv
    <3> HIDE DEF b
    <3>3. Waiting(b.row)
      BY <3>2 DEF Inv, PairInv, WaitingOK, RowsOf
    <3> QED BY <3>2, <3>3 DEF Waiting
  <2>2. CASE ~Known(p, q)
    BY <2>2 DEF NewContact, Copy, Row, Status, Keys
  <2> QED BY <2>1, <2>2
<1> DEFINE st == IF b.row.status = "PENDING_OUT" THEN "ACTIVE" ELSE b.row.status
           e == [b EXCEPT !.row.status = st]
           c == Accepted(p, q, k)
<1>2. c = [e EXCEPT !.row.rkey = k]
  BY DEF Accepted
<1> HIDE DEF b
<1>3. e.id = b.id /\ e.row = [b.row EXCEPT !.status = st] /\ st \in Status
  BY <1>1 DEF Copy, Row, Status
<1>4. e \in Copy
  BY <1>1, <1>3 DEF Copy, Row
<1> HIDE DEF c, e
<1>5. c.row = [e.row EXCEPT !.rkey = k] /\ c.id = e.id
  BY <1>2, <1>4 DEF Copy, Row
<1>6. /\ c.row.of = q /\ c.row.rkey = k /\ c.row.lkey = b.row.lkey /\ c.row.deleted = b.row.deleted
      /\ c.row.status = st /\ c.id = b.id
  BY <1>1, <1>3, <1>4, <1>5 DEF Copy, Row, Keys
<1>7. Waiting(c.row)
  BY <1>1, <1>6 DEF Waiting
<1>8. ~Known(p, q) => b.id = 0 /\ b.row.lkey = NoKey
  BY DEF b, NewContact
<1>9. Known(p, q) => b = ByOnion(p, q)
  BY DEF b
<1> QED BY <1>6, <1>7, <1>8, <1>9 DEF c

LEMMA RecvHandlePairs == ASSUME Inv, NEW a \in DOMAIN att, RecvHandle(a) PROVE PairInv'
<1>1. Sound(a) /\ IInv /\ att[a] \in AttemptType /\ a \in Attempts /\ Shape
  BY AllSound DEF Inv, IInv, Shape
<1>2. /\ rows' = rows /\ held' = held /\ overlapped' = overlapped /\ raced' = raced
      /\ died' = died /\ ackLost' = ackLost /\ Arriving(a)
  BY DEF RecvHandle, history
<1>3. PICK p \in Persons, q \in Persons : p = att[a].acc /\ q = att[a].ini
  BY <1>1 DEF AttemptType
<1>4. PICK c : /\ c = Accepted(p, q, a) /\ c.row.of = q /\ Waiting(c.row)
               /\ ~Known(p, q) => c.id = 0 /\ c.row.lkey = NoKey
               /\ Known(p, q) => /\ c.id = ByOnion(p, q).id /\ c.row.lkey = ByOnion(p, q).row.lkey
                                 /\ c.row.deleted = ByOnion(p, q).row.deleted
  BY <1>1, AcceptedCopy
<1>5. att' = [att EXCEPT ![a] = [att[a] EXCEPT !.sv = "received", !.svCopy = c]]
  BY <1>3, <1>4 DEF RecvHandle, Inv, IInv, Shape
<1>6. /\ DOMAIN att' = DOMAIN att /\ \A b \in DOMAIN att \ {a} : att'[b] = att[b]
      /\ att'[a].ini = q /\ att'[a].acc = p /\ att'[a].sv = "received" /\ att'[a].svCopy = c
      /\ att'[a].cl = att[a].cl /\ att'[a].clCopy = att[a].clCopy
  BY <1>1, <1>3, <1>5 DEF AttemptType, IInv, Shape
<1>7. /\ Open(a) /\ Pair(a)' = Pair(a) /\ Waits(a)' = Waits(a) /\ Received(a)'
      /\ att[a].sv = "none" /\ att[a].cl \in {"sent", "failed"}
  BY <1>2, <1>3, <1>6 DEF Open, Arriving, Pair, Received, Waits
<1>8. CopyFits(p, c)
  <2>1. CASE ~Known(p, q)
    BY <1>4, <2>1 DEF CopyFits
  <2>2. CASE Known(p, q)
    <3>1. PICK k : k = ByOnion(p, q).id
      OBVIOUS
    <3>2. k \in RowsOf(p, q) /\ ByOnion(p, q).row = rows[p][k]
      BY <1>1, <2>2, <3>1, Selected
    <3>3. c.id = k /\ c.row.deleted = rows[p][k].deleted
      BY <1>4, <2>2, <3>1, <3>2
    <3> QED BY <1>4, <3>2, <3>3 DEF CopyFits, RowsOf
  <2> QED BY <2>1, <2>2
<1>9. AskOK(a)'
  <2> SUFFICES ASSUME p # q, Pair(a) \notin overlapped PROVE AskOK(a)'
    BY <1>2, <1>6, <1>7 DEF AskOK
  <2>1. Single(p, q)
    <3>1. {p, q} = Pair(a)
      BY <1>3 DEF Pair
    <3> QED BY <3>1 DEF Inv, PairInv, SingleOK
  <2>2. ~Known(p, q) => Table(p, q) = {}
    BY <1>1, Selected
  <2>3. \A y \in Table(p, q) : y.lkey = c.row.lkey
    <3> SUFFICES ASSUME NEW y \in Table(p, q) PROVE y.lkey = c.row.lkey
      OBVIOUS
    <3>1. Known(p, q)
      BY <2>2
    <3>2. y = Core(ByOnion(p, q).row)
      BY <1>1, <2>1, <3>1, Selected
    <3> QED BY <1>4, <3>1, <3>2 DEF Core
  <2>4. c.id = 0 => ~Known(p, q)
    <3>1. Known(p, q) => ByOnion(p, q).id # 0
      BY <1>1, Selected
    <3> QED BY <1>4, <3>1
  <2>5. c.id = 0 => Table(p, q) = {} /\ c.row.lkey = NoKey
    BY <1>4, <2>2, <2>4
  <2> QED BY <1>1, <1>2, <1>3, <1>6, <1>7, <2>3, <2>5, SameTables DEF Sound, AskOK
<1>10. InOrder(a)'
  BY <1>1, <1>2, <1>3, <1>6, <1>7 DEF Sound, InOrder
<1>11. CopyFits(att[a].acc, att[a].svCopy)' /\ Waiting(att[a].svCopy.row)'
  BY <1>2, <1>4, <1>6, <1>8 DEF CopyFits, Waiting
<1>12. Waits(a)' => (CopyFits(att[a].ini, att[a].clCopy) /\ Waiting(att[a].clCopy.row))'
  BY <1>1, <1>2, <1>3, <1>6, <1>7, SameTables DEF Sound, Waiting
<1>13. Sound(a)'
  BY <1>9, <1>10, <1>11, <1>12 DEF Sound
<1> QED BY <1>2, <1>3, <1>6, <1>7, <1>13, MovePairs DEF Moves
-----------------------------------------------------------------------------
(* The two saves of an attempt *)

\* Nobody answers a message of a friend while a request between the two is open.
LEMMA NoFriendAsks ==
  ASSUME Inv, NEW a \in DOMAIN att, Open(a), NEW o \in Persons, NEW d \in held[o],
         {o, d.row.of} = Pair(a)
  PROVE  Pair(a) \in overlapped \/ att[a].ini = att[a].acc
<1> SUFFICES ASSUME Pair(a) \notin overlapped, att[a].ini # att[a].acc PROVE FALSE
  OBVIOUS
<1> DEFINE s == d.row.of
<1>1. Shape /\ d \in Copy /\ s \in Persons /\ d.row.status = "ACTIVE" /\ d.id # 0 /\ CopyFits(o, d)
  <2>1. Shape /\ d \in Copy
    BY DEF Inv, IInv, Shape
  <2>2. d.id # 0 /\ CopyFits(o, d) /\ d.row.status = "ACTIVE"
    BY DEF Inv, PairInv, CopiesFit, WaitingOK
  <2> QED BY <2>1, <2>2 DEF Copy, Row
<1>7. o # s
  BY DEF Pair
<1>2. \A x \in Table(att[a].ini, att[a].acc) : x.status = "PENDING_IN"
  BY DEF Inv, PairInv, AsksOK, AskOK
<1>3. /\ \A x \in Table(o, s) : x = Core(d.row)
      /\ Table(s, o) # {} /\ \A y \in Table(s, o) : y.status = "ACTIVE"
  BY <1>7 DEF Inv, PairInv, FriendsOK
<1>4. CASE att[a].ini = o /\ att[a].acc = s
  <2>1. Single(o, s)
    BY <1>1, <1>7 DEF Inv, PairInv, SingleOK
  <2>2. Table(o, s) # {}
    BY <1>1, <2>1, OwnRow
  <2> QED BY <1>1, <1>2, <1>3, <1>4, <2>2 DEF Core
<1>5. CASE att[a].ini = s /\ att[a].acc = o
  BY <1>2, <1>3, <1>5
<1>6. (att[a].ini = o /\ att[a].acc = s) \/ (att[a].ini = s /\ att[a].acc = o)
  BY DEF Pair
<1> QED BY <1>4, <1>5, <1>6

LEMMA SavePairs ==
  ASSUME Inv, NEW a \in DOMAIN att, Moves(a), Open(a),
         NEW p \in Persons, NEW q \in Persons, {p, q} = Pair(a),
         NEW c \in Copy, c.row.of = q, CopyFits(p, c), Waiting(c.row), rows' = Saved(p, c),
         p # q /\ Pair(a) \notin overlapped => (c.id = 0 => Table(p, q) = {}),
         Sound(a)',
         p # q /\ Pair(a) \notin overlapped \cup died' => PublicAt(p, q)' /\ PublicAt(q, p)',
         p # q /\ Pair(a) \notin overlapped \cup died' \cup ackLost' => PrivateAt(p, q)' /\ PrivateAt(q, p)'
  PROVE  PairInv'
<1>0. Shape /\ IInv /\ PairInv /\ WaitingOK
  BY DEF Inv, IInv, PairInv
<1>1. \A o, s \in Persons : o # p \/ s # q =>
        Table(o, s)' = Table(o, s) /\ (Single(o, s) => Single(o, s)')
  BY <1>0, SavedTables
<1>2. \A o \in Persons : \A d : CopyFits(o, d) => CopyFits(o, d)'
  BY <1>0, CopiesSaved DEF Moves
<1>3. OneOpen' /\ \A b \in DOMAIN att' : Sound(b)'
  <2>1. \A o, s \in Persons : Table(o, s)' = Table(o, s) \/ (Open(a) /\ {o, s} = Pair(a))
    BY <1>1
  <2> QED BY <1>2, <2>1, OthersSound DEF Moves
<1>4. AsksOK' /\ OrderOK'
  BY <1>3 DEF AsksOK, OrderOK, Sound
<1>5. CopiesFit'
  <2>1. \A o \in Persons : \A d \in held'[o] : d.id # 0 /\ CopyFits(o, d)'
    BY <1>0, <1>2 DEF Moves, PairInv, CopiesFit
  <2> QED BY <1>3, <2>1 DEF CopiesFit, Sound
<1>6. WaitingOK'
  <2>1. \A o \in Persons : \A i \in DOMAIN rows'[o] : Waiting(rows'[o][i])
    BY <1>0, WaitingSaved
  <2>2. \A o \in Persons : \A d \in held'[o] : d.row.status = "ACTIVE"
    BY <1>0 DEF Moves, WaitingOK
  <2> QED BY <1>3, <2>1, <2>2 DEF WaitingOK, Sound, Waiting
<1>7. SingleOK'
  <2> SUFFICES ASSUME NEW o \in Persons, NEW s \in Persons, o # s, {o, s} \notin overlapped
               PROVE  Single(o, s)'
    BY DEF Moves, SingleOK
  <2>1. Single(o, s)
    BY <1>0 DEF PairInv, SingleOK
  <2>2. CASE o = p /\ s = q
    BY <1>0, <2>1, <2>2, SavedTables
  <2> QED BY <1>1, <2>1, <2>2
<1>8. FriendsOK'
  <2> SUFFICES ASSUME NEW o \in Persons, NEW d \in held[o], o # d.row.of, {o, d.row.of} \notin overlapped
               PROVE  /\ \A x \in Table(o, d.row.of)' : x = Core(d.row)
                      /\ Table(d.row.of, o)' # {} /\ \A y \in Table(d.row.of, o)' : y.status = "ACTIVE"
    BY DEF Moves, FriendsOK, Core
  <2>1. d.row.of \in Persons
    BY <1>0 DEF Shape, Copy, Row
  <2>2. {o, d.row.of} # {p, q}
    BY NoFriendAsks DEF Pair
  <2>3. Table(o, d.row.of)' = Table(o, d.row.of) /\ Table(d.row.of, o)' = Table(d.row.of, o)
    BY <1>1, <2>1, <2>2
  <2> QED BY <1>0, <2>3 DEF PairInv, FriendsOK
<1>9. PublicKept'
  <2> SUFFICES ASSUME NEW o \in Persons, NEW s \in Persons, o # s,
                      {o, s} \notin overlapped \cup died'
               PROVE  PublicAt(o, s)'
    BY DEF Moves, PublicKept, PublicAt
  <2>1. CASE {o, s} = {p, q}
    BY <2>1
  <2>2. CASE {o, s} # {p, q}
    <3>1. Table(o, s)' = Table(o, s) /\ Table(s, o)' = Table(s, o)
      BY <1>1, <2>2
    <3>2. PublicAt(o, s)
      BY <1>0 DEF Moves, PairInv, PublicKept, PublicAt
    <3> QED BY <3>1, <3>2 DEF PublicAt
  <2> QED BY <2>1, <2>2
<1>10. PrivateKept'
  <2> SUFFICES ASSUME NEW o \in Persons, NEW s \in Persons, o # s,
                      {o, s} \notin overlapped \cup died' \cup ackLost'
               PROVE  PrivateAt(o, s)'
    BY DEF Moves, PrivateKept, PrivateAt
  <2>1. CASE {o, s} = {p, q}
    BY <2>1
  <2>2. CASE {o, s} # {p, q}
    <3>1. Table(o, s)' = Table(o, s) /\ Table(s, o)' = Table(s, o)
      BY <1>1, <2>2
    <3>2. PrivateAt(o, s)
      BY <1>0 DEF Moves, PairInv, PrivateKept, PrivateAt
    <3>3. \A x \in Table(o, s) : x.rkey # a
      <4>1. a # NoKey
        BY <1>0, NoKeyAssumption DEF Shape
      <4>2. \A x \in Table(o, s) : x.rkey = a => att[a].ini = s /\ att[a].acc = o
        BY <1>0, <4>1, CoreFacts
      <4> QED BY <2>2, <4>2 DEF Pair
    <3> QED BY <3>1, <3>2, <3>3 DEF PrivateAt, Moves
  <2> QED BY <2>1, <2>2
<1> QED BY <1>3, <1>4, <1>5, <1>6, <1>7, <1>8, <1>9, <1>10 DEF PairInv

\* A saved contact becomes all that its owner has of the friend; what it replaced had its keys.
LEMMA TableSaved ==
  ASSUME Inv, NEW p \in Persons, NEW q \in Persons, p # q, {p, q} \notin overlapped,
         NEW c \in Copy, c.row.of = q, CopyFits(p, c), rows' = Saved(p, c),
         c.id = 0 => Table(p, q) = {}
  PROVE  /\ Table(p, q)' = {Core(c.row)} /\ Table(q, p)' = Table(q, p)
         /\ c.id # 0 => Table(p, q) # {}
<1>1. Shape /\ Single(p, q)
  BY DEF Inv, IInv, PairInv, SingleOK
<1>2. Table(p, q)' = {Core(c.row)}
  BY <1>1, SavedTables
<1>3. Table(q, p)' = Table(q, p)
  BY <1>1, SavedTables
<1>4. c.id # 0 => Table(p, q) # {}
  BY <1>1, OwnRow
<1> QED BY <1>2, <1>3, <1>4

LEMMA AckSentPairs == ASSUME Inv, NEW a \in DOMAIN att, AckSent(a) PROVE PairInv'
<1>1. Sound(a) /\ IInv /\ att[a] \in AttemptType /\ Shape /\ PairInv /\ WaitingOK /\ AttemptOK(a)
  BY AllSound DEF Inv, IInv, Shape, PairInv, AttemptsOK
<1>2. /\ held' = held /\ overlapped' = overlapped /\ raced' = raced /\ died' = died
      /\ ackLost' = (IF att[a].cl = "failed" THEN ackLost \cup {Pair(a)} ELSE ackLost)
      /\ att[a].sv = "received" /\ att' = [att EXCEPT ![a].sv = "saved"]
  BY DEF AckSent
<1>3. PICK p \in Persons, q \in Persons, c \in Copy :
        p = att[a].acc /\ q = att[a].ini /\ c = att[a].svCopy
  BY <1>1 DEF AttemptType
<1>4. rows' = Saved(p, c)
  BY <1>3 DEF AckSent
<1>5. /\ DOMAIN att' = DOMAIN att /\ \A b \in DOMAIN att \ {a} : att'[b] = att[b]
      /\ att'[a].ini = q /\ att'[a].acc = p /\ att'[a].sv = "saved"
      /\ att'[a].cl = att[a].cl /\ att'[a].clCopy = att[a].clCopy /\ att'[a].svCopy = c
  BY <1>1, <1>2, <1>3, ServerMoves
<1>6. /\ Open(a) /\ Pair(a) = {p, q} /\ Pair(a)' = {p, q} /\ Waits(a)' = Waits(a)
      /\ Received(a) /\ ~Received(a)'
  BY <1>2, <1>3, <1>5 DEF Open, Pair, Waits, Received
<1>7. Moves(a)
  BY <1>2, <1>3, <1>5, <1>6 DEF Moves
<1>8. att[a].cl \in {"sent", "failed"}
  BY <1>1, <1>2, <1>3 DEF Sound, InOrder, AttemptType
<1>9. CopyFits(p, c) /\ Waiting(c.row) /\ c.row.of = q /\ c.row.rkey = a
  BY <1>1, <1>2, <1>3, <1>6 DEF Sound, AttemptOK, ServerOK
<1>10. a # NoKey
  BY <1>1, NoKeyAssumption DEF Shape
<1>11. p # q /\ Pair(a) \notin overlapped =>
         /\ \A x \in Table(q, p) : x.status = "PENDING_IN"
         /\ c.id = 0 => Table(p, q) = {} /\ c.row.lkey = NoKey
         /\ \A y \in Table(p, q) : y.lkey = c.row.lkey
  BY <1>1, <1>3, <1>6 DEF Sound, AskOK
<1>12. p # q /\ Pair(a) \notin overlapped =>
         /\ Table(p, q)' = {Core(c.row)} /\ Table(q, p)' = Table(q, p)
         /\ c.id # 0 => Table(p, q) # {}
  BY <1>4, <1>6, <1>8, <1>9, <1>11, TableSaved
<1>13. Core(c.row).lkey = c.row.lkey /\ Core(c.row).rkey = a
  BY <1>9 DEF Core
<1>14. Sound(a)'
  <2>1. InOrder(a)'
    BY <1>1, <1>2, <1>3, <1>5, <1>8 DEF Sound, InOrder
  <2>2. AskOK(a)'
    BY <1>1, <1>2, <1>3, <1>5, <1>6, <1>12, <1>13 DEF Sound, AskOK
  <2>3. Waits(a)' => (CopyFits(att[a].ini, att[a].clCopy) /\ Waiting(att[a].clCopy.row))'
    <3>1. \A d : CopyFits(q, d) => CopyFits(q, d)'
      BY <1>1, <1>2, <1>4, <1>9, CopiesSaved
    <3> QED BY <1>1, <1>3, <1>5, <1>6, <3>1 DEF Sound, Waiting
  <2> QED BY <1>6, <2>1, <2>2, <2>3 DEF Sound
<1>15. ASSUME p # q, Pair(a) \notin overlapped \cup died' PROVE PublicAt(p, q)' /\ PublicAt(q, p)'
  <2>1. PublicAt(p, q)'
    <3> SUFFICES ASSUME c.row.lkey # NoKey
                 PROVE  Table(q, p) # {} /\ \A y \in Table(q, p) : y.rkey = c.row.lkey
      BY <1>12, <1>13, <1>15 DEF PublicAt
    <3>1. PICK z : z \in Table(p, q)
      BY <1>11, <1>12, <1>15
    <3>2. z.lkey = c.row.lkey
      BY <1>11, <1>15, <3>1
    <3> QED BY <1>1, <1>2, <1>6, <1>8, <1>15, <3>1, <3>2 DEF PairInv, PublicKept, PublicAt
  <2>2. \A x \in Table(q, p) : x.lkey = NoKey
    BY <1>1, <1>11, <1>15, CoreFacts
  <2> QED BY <1>12, <1>15, <2>1, <2>2 DEF PublicAt
<1>16. ASSUME p # q, Pair(a) \notin overlapped \cup died' \cup ackLost' PROVE PrivateAt(p, q)' /\ PrivateAt(q, p)'
  <2>1. att[a].cl = "sent" /\ Pair(a) \notin ackLost
    BY <1>2, <1>8, <1>16
  <2>2. PrivateAt(p, q)'
    BY <1>5, <1>12, <1>13, <1>16, <2>1 DEF PrivateAt
  <2>3. PrivateAt(q, p)'
    <3> SUFFICES ASSUME NEW x \in Table(q, p), x.rkey # NoKey
                 PROVE  (x.rkey \in DOMAIN att' /\ att'[x.rkey].cl = "sent") \/ c.row.lkey = x.rkey
      BY <1>12, <1>13, <1>16 DEF PrivateAt
    <3>1. {q, p} = Pair(a)
      BY <1>6
    <3>2. \/ x.rkey \in DOMAIN att /\ att[x.rkey].cl = "sent"
          \/ Table(p, q) # {} /\ \A y \in Table(p, q) : y.lkey = x.rkey
      BY <1>1, <1>2, <1>8, <1>16, <2>1, <3>1 DEF PairInv, PrivateKept, PrivateAt
    <3>3. CASE x.rkey \in DOMAIN att /\ att[x.rkey].cl = "sent"
      BY <1>5, <3>3
    <3>4. CASE Table(p, q) # {} /\ \A y \in Table(p, q) : y.lkey = x.rkey
      BY <1>11, <1>16, <3>4
    <3> QED BY <3>2, <3>3, <3>4
  <2> QED BY <2>2, <2>3
<1> QED BY <1>4, <1>6, <1>7, <1>9, <1>11, <1>14, <1>15, <1>16, SavePairs

LEMMA AckReceivedPairs == ASSUME Inv, NEW a \in DOMAIN att, AckReceived(a) PROVE PairInv'
<1>1. Sound(a) /\ IInv /\ att[a] \in AttemptType /\ Shape /\ PairInv /\ WaitingOK /\ AttemptOK(a)
  BY AllSound DEF Inv, IInv, Shape, PairInv, AttemptsOK
<1>2. /\ held' = held /\ overlapped' = overlapped /\ raced' = raced /\ died' = died
      /\ ackLost' = ackLost /\ att[a].cl = "sent" /\ att[a].sv \in {"saved", "answered"}
      /\ att' = [att EXCEPT ![a].cl = "done"]
  BY DEF AckReceived, history
<1>3. PICK p \in Persons, q \in Persons, c \in Copy :
        p = att[a].ini /\ q = att[a].acc /\ c = att[a].clCopy
  BY <1>1 DEF AttemptType
<1>4. rows' = Saved(p, c)
  BY <1>3 DEF AckReceived
<1>5. /\ DOMAIN att' = DOMAIN att /\ \A b \in DOMAIN att \ {a} : att'[b] = att[b]
      /\ att'[a].ini = p /\ att'[a].acc = q /\ att'[a].sv = att[a].sv
      /\ att'[a].cl = "done" /\ att'[a].clCopy = c /\ att'[a].svCopy = att[a].svCopy
  BY <1>1, <1>2, <1>3, ClientMoves
<1>6. /\ Open(a) /\ Pair(a) = {p, q} /\ Pair(a)' = {p, q} /\ Waits(a) /\ ~Waits(a)'
      /\ ~Received(a)' /\ ~Open(a)'
  BY <1>2, <1>3, <1>5 DEF Open, Arriving, Pair, Waits, Received
<1>7. Moves(a)
  BY <1>2, <1>3, <1>5, <1>6 DEF Moves
<1>8. (att[a].sv = "answered" => Pair(a) \in died)
  BY <1>1, <1>3 DEF Sound, InOrder
<1>9. CopyFits(p, c) /\ Waiting(c.row) /\ c.row.of = q /\ c.row.lkey = a
  BY <1>1, <1>2, <1>3, <1>6 DEF Sound, AttemptOK, ClientOK
<1>10. a # NoKey
  BY <1>1, NoKeyAssumption DEF Shape
<1>11. p # q /\ Pair(a) \notin overlapped =>
         /\ c.id = 0 => Table(p, q) = {} /\ c.row.rkey = NoKey
         /\ \A x \in Table(p, q) : x.rkey = c.row.rkey
         /\ att[a].sv = "saved" => Table(q, p) # {} /\ \A y \in Table(q, p) : y.rkey = a
  BY <1>1, <1>2, <1>3, <1>6 DEF Sound, AskOK
<1>12. p # q /\ Pair(a) \notin overlapped =>
         /\ Table(p, q)' = {Core(c.row)} /\ Table(q, p)' = Table(q, p)
         /\ c.id # 0 => Table(p, q) # {}
  BY <1>4, <1>6, <1>8, <1>9, <1>11, TableSaved
<1>13. Core(c.row).lkey = a /\ Core(c.row).rkey = c.row.rkey
  BY <1>9 DEF Core
<1>14. Sound(a)'
  <2>1. InOrder(a)'
    BY <1>2, <1>3, <1>5, <1>6, <1>8 DEF InOrder
  <2>2. AskOK(a)'
    BY <1>5, <1>6 DEF AskOK
  <2> QED BY <1>6, <2>1, <2>2 DEF Sound
<1>15. Pair(a) \notin died => att[a].sv = "saved"
  BY <1>2, <1>8
<1>16. ASSUME p # q, Pair(a) \notin overlapped \cup died' PROVE PublicAt(p, q)' /\ PublicAt(q, p)'
  <2>1. PublicAt(p, q)'
    BY <1>2, <1>11, <1>12, <1>13, <1>15, <1>16 DEF PublicAt
  <2>2. PublicAt(q, p)'
    <3> SUFFICES ASSUME NEW y \in Table(q, p), y.lkey # NoKey PROVE c.row.rkey = y.lkey
      BY <1>12, <1>13, <1>16 DEF PublicAt
    <3>1. {q, p} = Pair(a)
      BY <1>6
    <3>2. Table(p, q) # {} /\ \A x \in Table(p, q) : x.rkey = y.lkey
      BY <1>1, <1>2, <1>8, <1>16, <3>1 DEF PairInv, PublicKept, PublicAt
    <3> QED BY <1>11, <1>16, <3>2
  <2> QED BY <2>1, <2>2
<1>17. ASSUME p # q, Pair(a) \notin overlapped \cup died' \cup ackLost' PROVE PrivateAt(p, q)' /\ PrivateAt(q, p)'
  <2>1. PrivateAt(q, p)'
    BY <1>2, <1>11, <1>12, <1>13, <1>15, <1>17 DEF PrivateAt
  <2>2. PrivateAt(p, q)'
    <3> SUFFICES ASSUME c.row.rkey # NoKey
                 PROVE  \/ c.row.rkey \in DOMAIN att' /\ att'[c.row.rkey].cl = "sent"
                        \/ Table(q, p) # {} /\ \A y \in Table(q, p) : y.lkey = c.row.rkey
      BY <1>12, <1>13, <1>17 DEF PrivateAt
    <3>1. PICK z : z \in Table(p, q)
      BY <1>11, <1>12, <1>17
    <3>2. z.rkey = c.row.rkey
      BY <1>11, <1>17, <3>1
    <3>3. \/ c.row.rkey \in DOMAIN att /\ att[c.row.rkey].cl = "sent"
          \/ Table(q, p) # {} /\ \A y \in Table(q, p) : y.lkey = c.row.rkey
      BY <1>1, <1>2, <1>6, <1>8, <1>17, <3>1, <3>2 DEF PairInv, PrivateKept, PrivateAt
    <3>4. c.row.rkey # a
      <4>1. att[z.rkey].ini = q
        BY <1>1, <3>1, <3>2, CoreFacts
      <4> QED BY <1>3, <1>8, <1>17, <3>2, <4>1
    <3> QED BY <1>5, <3>3, <3>4
  <2> QED BY <2>1, <2>2
<1> QED BY <1>4, <1>6, <1>7, <1>9, <1>11, <1>14, <1>16, <1>17, SavePairs
-----------------------------------------------------------------------------
(* The pair invariant is inductive *)

LEMMA InitPairs == Init => PairInv
<1> SUFFICES ASSUME Init PROVE PairInv
  OBVIOUS
<1>1. /\ DOMAIN att = {} /\ \A p \in Persons : held[p] = {} /\ rows[p] = <<>>
  BY DEF Init
<1>2. \A p \in Persons : DOMAIN rows[p] = {}
  BY <1>1
<1>3. \A p, q \in Persons : Table(p, q) = {} /\ Single(p, q)
  BY <1>2 DEF Table, RowsOf, Single
<1>4. CopiesFit /\ WaitingOK /\ OrderOK /\ OneOpen /\ AsksOK
  BY <1>1, <1>2 DEF CopiesFit, WaitingOK, OrderOK, OneOpen, AsksOK
<1>5. SingleOK /\ FriendsOK /\ PublicKept /\ PrivateKept
  BY <1>1, <1>3 DEF SingleOK, FriendsOK, PublicKept, PublicAt, PrivateKept, PrivateAt
<1> QED BY <1>4, <1>5 DEF PairInv

LEMMA StutterPairs == ASSUME Inv, UNCHANGED vars PROVE PairInv'
<1>1. /\ rows' = rows /\ att' = att /\ held' = held /\ overlapped' = overlapped
      /\ died' = died /\ ackLost' = ackLost /\ raced' = raced
  BY DEF vars, tables, history
<1>2. /\ \A o, s : Table(o, s)' = Table(o, s) /\ Single(o, s)' = Single(o, s)
      /\ \A o, d : CopyFits(o, d)' = CopyFits(o, d)
  BY <1>1 DEF Table, RowsOf, Single, CopyFits, Core
<1>3. OrderOK' /\ SingleOK' /\ OneOpen' /\ AsksOK' /\ PublicKept' /\ PrivateKept'
  BY <1>1, <1>2, People, PairsKept DEF Inv
<1>4. FriendsOK'
  BY <1>1, <1>2, FriendsKept DEF Inv, IInv, Shape
<1>5. CopiesFit'
  BY <1>1, <1>2 DEF Inv, PairInv, CopiesFit, Waits, Received
<1>6. WaitingOK'
  BY <1>1 DEF Inv, PairInv, WaitingOK, Waits, Received, Waiting
<1> QED BY <1>3, <1>4, <1>5, <1>6 DEF PairInv

LEMMA NextPairs == Inv /\ [Next]_vars => Inv'
<1> SUFFICES ASSUME Inv, [Next]_vars PROVE PairInv'
  BY NextInv DEF Inv
<1>1. CASE UNCHANGED vars
  BY <1>1, StutterPairs
<1>2. CASE Commands
  BY <1>2, FriendAddPairs, FlagPairs DEF Commands
<1>3. CASE Requests
  BY <1>3, TranSetupPairs, RecvHandlePairs, AckSentPairs, LostPairs, AckReceivedPairs DEF Requests
<1>4. CASE Messages
  BY <1>4, MessageArrivesPairs, MessageEndsPairs DEF Messages
<1> QED BY <1>1, <1>2, <1>3, <1>4 DEF Next

LEMMA AlwaysPairs == Spec => []Inv
<1>1. Init => Inv
  BY InitInv, InitPairs DEF Inv
<1> QED BY <1>1, NextPairs, PTL DEF Spec

\* What SELECT returns to two persons who know each other: the private key one of them
\* keeps has its public half with the other.
LEMMA Partners ==
  ASSUME Inv, NEW p \in Persons, NEW q \in Persons, p # q, {p, q} \notin overlapped \cup died,
         Known(p, q), Known(q, p)
  PROVE  LET r == ByOnion(p, q).row
             s == ByOnion(q, p).row
         IN  /\ Core(r) \in Table(p, q) /\ Core(s) \in Table(q, p)
             /\ r.lkey # NoKey => s.rkey = r.lkey
             /\ s.lkey # NoKey => r.rkey = s.lkey
<1>1. PICK r : r = ByOnion(p, q).row
  OBVIOUS
<1>2. PICK s : s = ByOnion(q, p).row
  OBVIOUS
<1>3. Core(r) \in Table(p, q) /\ Core(s) \in Table(q, p)
  BY <1>1, <1>2, Selected DEF Inv, IInv
<1>4. {q, p} = {p, q}
  OBVIOUS
<1>5. Core(r).lkey # NoKey => Core(s).rkey = Core(r).lkey
  BY <1>3 DEF Inv, PairInv, PublicKept, PublicAt
<1>6. Core(s).lkey # NoKey => Core(r).rkey = Core(s).lkey
  BY <1>3, <1>4 DEF Inv, PairInv, PublicKept, PublicAt
<1> QED BY <1>1, <1>2, <1>3, <1>5, <1>6 DEF Core

\* A request that is still at its sender's is open.
LEMMA NobodySends ==
  ASSUME NEW p, NEW q, Quiet(p, q), NEW a \in DOMAIN att, Pair(a) = {p, q} PROVE att[a].cl # "sent"
BY DEF Quiet, OpenBetween, Open

\* A save brings back a removed contact only if a command ran while the copy was held.
LEMMA SaveKeepsFlag ==
  ASSUME Shape, NEW o \in Persons, NEW c \in Copy, CopyFits(o, c), rows' = Saved(o, c),
         NEW p \in Persons, NEW i \in DOMAIN rows[p]
  PROVE  rows'[p][i].deleted = rows[p][i].deleted \/ <<p, i>> \in raced
<1>1. \/ rows'[p][i].deleted = rows[p][i].deleted
      \/ p = o /\ i = c.id /\ rows'[p][i] = c.row
  BY SavedTables
<1>2. CASE p = o /\ i = c.id /\ rows'[p][i] = c.row
  <2>1. c.id # 0
    BY <1>2, RowType
  <2>2. rows[p][i].deleted = c.row.deleted \/ <<p, i>> \in raced
    BY <1>2, <2>1 DEF CopyFits
  <2> QED BY <1>2, <2>2
<1> QED BY <1>1, <1>2

\* A person has one row for each other person, in the database of any number of persons,
\* unless two requests between the two were under way at once (prot_friend_req.c:190, 115);
\* persons may send requests to themselves meanwhile.
THEOREM OneRowAlways == Spec => []OneRow
<1>1. Inv => OneRow
  BY DEF Inv, PairInv, SingleOK, Single, RowsOf, OneRow
<1> QED BY <1>1, AlwaysPairs, PTL

\* friendadd never says "nothing to do" to both of two persons one of whom still waits:
\* whoever got the public key of the other kept it, so nobody waits for a friend who answered.
THEOREM NeverStuckAlways == Spec => []NeverStuck
<1>1. ASSUME Inv PROVE NeverStuck
  <2> SUFFICES ASSUME NEW p \in Persons, NEW q \in Persons, p # q, {p, q} \notin overlapped \cup died,
                      NothingToDo(p, q), NothingToDo(q, p)
               PROVE  ByOnion(p, q).row.status = "ACTIVE" /\ ByOnion(q, p).row.status = "ACTIVE"
    BY DEF NeverStuck
  <2>1. PICK r : r = ByOnion(p, q).row
    OBVIOUS
  <2>2. PICK s : s = ByOnion(q, p).row
    OBVIOUS
  <2>3. r.status \in {"ACTIVE", "PENDING_OUT"} /\ s.status \in {"ACTIVE", "PENDING_OUT"}
    BY <2>1, <2>2 DEF NothingToDo
  <2>4. /\ Core(r) \in Table(p, q) /\ Core(s) \in Table(q, p)
        /\ r.lkey # NoKey => s.rkey = r.lkey
        /\ s.lkey # NoKey => r.rkey = s.lkey
    BY <1>1, <2>1, <2>2, Partners DEF NothingToDo
  <2>5. IInv /\ WaitingOK
    BY <1>1 DEF Inv, PairInv
  <2>6. r.lkey # NoKey /\ (r.status = "PENDING_OUT" => r.rkey = NoKey)
    BY <2>3, <2>4, <2>5, CoreFacts DEF Core
  <2>7. s.lkey # NoKey /\ (s.status = "PENDING_OUT" => s.rkey = NoKey)
    BY <2>3, <2>4, <2>5, CoreFacts DEF Core
  <2> QED BY <2>1, <2>2, <2>3, <2>4, <2>6, <2>7
<1> QED BY <1>1, AlwaysPairs, PTL

\* Between two persons no request is open, and none overlapped: their databases mirror each
\* other, or hold each other's current keys once both are ACTIVE though ACKs were lost, for
\* any number of requests and removals (prot_friend_req.c:24 and 115).
THEOREM KeysAlwaysAgree == Spec => []KeysAgree
<1>1. ASSUME Inv PROVE KeysAgree
  <2> SUFFICES ASSUME NEW p \in Persons, NEW q \in Persons, p # q, Quiet(p, q),
                      {p, q} \notin overlapped \cup died
               PROVE  LET r == ByOnion(p, q).row
                          s == ByOnion(q, p).row
                      IN  /\ {p, q} \notin ackLost =>
                               /\ Known(p, q) = Known(q, p)
                               /\ Known(p, q) => /\ SameKeys(r, s)
                                                 /\ BothActive(r, s) \/ {r.status, s.status} = {"PENDING_IN", "PENDING_OUT"}
                          /\ Known(p, q) /\ Known(q, p) /\ BothActive(r, s) => SameKeys(r, s)
    BY DEF KeysAgree
  <2>1. PICK r : r = ByOnion(p, q).row
    OBVIOUS
  <2>2. PICK s : s = ByOnion(q, p).row
    OBVIOUS
  <2>3. IInv /\ WaitingOK /\ Shape /\ PublicKept /\ PrivateKept /\ {q, p} = {p, q}
    BY <1>1 DEF Inv, IInv, PairInv
  <2>4. Known(p, q) /\ Known(q, p) =>
          /\ Core(r) \in Table(p, q) /\ Core(s) \in Table(q, p)
          /\ r.lkey # NoKey => s.rkey = r.lkey
          /\ s.lkey # NoKey => r.rkey = s.lkey
    BY <1>1, <2>1, <2>2, Partners
  <2>5. Known(p, q) /\ Known(q, p) /\ BothActive(r, s) => SameKeys(r, s)
    <3> SUFFICES ASSUME Known(p, q), Known(q, p), BothActive(r, s) PROVE SameKeys(r, s)
      OBVIOUS
    <3>1. Core(r).lkey # NoKey /\ Core(s).lkey # NoKey
      BY <2>3, <2>4, CoreFacts DEF Core, BothActive
    <3> QED BY <2>4, <3>1 DEF Core, SameKeys
  <2>6. ASSUME {p, q} \notin ackLost
        PROVE  /\ \A x \in Table(p, q) : x.rkey # NoKey =>
                    Table(q, p) # {} /\ \A y \in Table(q, p) : y.lkey = x.rkey
               /\ \A y \in Table(q, p) : y.rkey # NoKey =>
                    Table(p, q) # {} /\ \A x \in Table(p, q) : x.lkey = y.rkey
    <3>1. \A x \in Table(p, q) : x.rkey # NoKey =>
            Table(q, p) # {} /\ \A y \in Table(q, p) : y.lkey = x.rkey
      <4> SUFFICES ASSUME NEW x \in Table(p, q), x.rkey # NoKey
                   PROVE  ~(x.rkey \in DOMAIN att /\ att[x.rkey].cl = "sent")
        BY <2>3, <2>6 DEF PrivateKept, PrivateAt
      <4>1. Pair(x.rkey) = {p, q}
        BY <2>3, CoreFacts DEF Pair
      <4> QED BY <4>1, NobodySends
    <3>2. \A y \in Table(q, p) : y.rkey # NoKey =>
            Table(p, q) # {} /\ \A x \in Table(p, q) : x.lkey = y.rkey
      <4> SUFFICES ASSUME NEW y \in Table(q, p), y.rkey # NoKey
                   PROVE  ~(y.rkey \in DOMAIN att /\ att[y.rkey].cl = "sent")
        BY <2>3, <2>6 DEF PrivateKept, PrivateAt
      <4>1. Pair(y.rkey) = {p, q}
        BY <2>3, CoreFacts DEF Pair
      <4> QED BY <4>1, NobodySends
    <3> QED BY <3>1, <3>2
  <2>7. ASSUME {p, q} \notin ackLost PROVE Known(p, q) = Known(q, p)
    <3>1. ASSUME NEW x \in Table(p, q) PROVE Table(q, p) # {}
      <4>1. x.lkey # NoKey \/ x.rkey # NoKey
        BY <2>3, <3>1, CoreFacts DEF Status
      <4> QED BY <2>3, <2>6, <2>7, <3>1, <4>1 DEF PublicKept, PublicAt
    <3>2. ASSUME NEW y \in Table(q, p) PROVE Table(p, q) # {}
      <4>1. y.lkey # NoKey \/ y.rkey # NoKey
        BY <2>3, <3>2, CoreFacts DEF Status
      <4> QED BY <2>3, <2>6, <2>7, <3>2, <4>1 DEF PublicKept, PublicAt
    <3>3. (Known(p, q) <=> Table(p, q) # {}) /\ (Known(q, p) <=> Table(q, p) # {})
      BY <2>3, Selected
    <3>4. Known(p, q) <=> Known(q, p)
      BY <3>1, <3>2, <3>3
    <3> QED BY <3>4 DEF Known
  <2>8. ASSUME {p, q} \notin ackLost, Known(p, q), Known(q, p)
        PROVE  /\ SameKeys(r, s)
               /\ BothActive(r, s) \/ {r.status, s.status} = {"PENDING_IN", "PENDING_OUT"}
    <3>1. /\ Core(r) \in Table(p, q) /\ Core(s) \in Table(q, p)
          /\ Core(r).lkey = r.lkey /\ Core(r).rkey = r.rkey /\ Core(r).status = r.status
          /\ Core(s).lkey = s.lkey /\ Core(s).rkey = s.rkey /\ Core(s).status = s.status
      BY <2>4, <2>8 DEF Core
    <3>2. (r.rkey # NoKey => s.lkey = r.rkey) /\ (s.rkey # NoKey => r.lkey = s.rkey)
      BY <2>6, <2>8, <3>1
    <3>3. SameKeys(r, s)
      BY <2>4, <2>8, <3>2 DEF SameKeys
    <3>4. /\ r.status \in Status
          /\ r.status = "ACTIVE" => r.lkey # NoKey /\ r.rkey # NoKey
          /\ r.status = "PENDING_OUT" => r.lkey # NoKey /\ r.rkey = NoKey
          /\ r.status = "PENDING_IN" => r.lkey = NoKey /\ r.rkey # NoKey
      BY <2>3, <3>1, CoreFacts
    <3>5. /\ s.status \in Status
          /\ s.status = "ACTIVE" => s.lkey # NoKey /\ s.rkey # NoKey
          /\ s.status = "PENDING_OUT" => s.lkey # NoKey /\ s.rkey = NoKey
          /\ s.status = "PENDING_IN" => s.lkey = NoKey /\ s.rkey # NoKey
      BY <2>3, <3>1, CoreFacts
    <3> QED BY <3>3, <3>4, <3>5 DEF SameKeys, BothActive, Status
  <2>9. {p, q} \notin ackLost =>
          /\ Known(p, q) = Known(q, p)
          /\ Known(p, q) => /\ SameKeys(r, s)
                            /\ BothActive(r, s) \/ {r.status, s.status} = {"PENDING_IN", "PENDING_OUT"}
    BY <2>7, <2>8
  <2> QED BY <2>1, <2>2, <2>5, <2>9
<1> QED BY <1>1, AlwaysPairs, PTL

\* A removed friend stays removed until friendadd, whatever requests and messages arrive,
\* unless a command ran while a copy of the row waited to be written back (prot_message.c:134,
\* prot_friend_req.c:24 and 115).
THEOREM RemovedStaysRemoved == Spec => StaysRemoved
<1>1. ASSUME Inv, [Next]_vars
      PROVE  [\A p \in Persons : \A i \in DOMAIN rows[p] :
                (rows[p][i].deleted /\ ~rows'[p][i].deleted) =>
                  \/ <<p, i>> \in raced
                  \/ \E q \in Persons : \/ FriendRestore(p, q)
                                        \/ \E a \in Attempts : FriendAdd(p, q, a)]_vars
  <2> SUFFICES ASSUME NEW p \in Persons, NEW i \in DOMAIN rows[p],
                      rows[p][i].deleted, ~rows'[p][i].deleted
               PROVE  \/ <<p, i>> \in raced
                      \/ \E q \in Persons : \/ FriendRestore(p, q)
                                            \/ \E a \in Attempts : FriendAdd(p, q, a)
    OBVIOUS
  <2>1. rows' # rows /\ rows'[p][i].deleted # rows[p][i].deleted
    OBVIOUS
  <2>2. Shape /\ IInv /\ PairInv
    BY <1>1 DEF Inv, IInv
  <2>3. ASSUME NEW o \in Persons, NEW c \in Copy, CopyFits(o, c), rows' = Saved(o, c)
        PROVE  <<p, i>> \in raced
    BY <2>1, <2>2, <2>3, SaveKeepsFlag
  <2>4. CASE Commands
    <3>1. PICK o \in Persons, q \in Persons :
            \/ \E a \in Attempts : FriendAdd(o, q, a)
            \/ FriendRestore(o, q)
            \/ FriendRm(o, q)
      BY <2>4 DEF Commands
    <3>2. PICK d \in BOOLEAN : Flagged(o, q, d) /\ (FriendRm(o, q) => d = TRUE)
      BY <2>1, <3>1 DEF FriendAdd, FriendRestore, FriendRm, Undeleted, Flagged
    <3>3. PICK k : k = ByOnion(o, q).id
      OBVIOUS
    <3>4. /\ o # p \/ i # k => rows'[p][i] = rows[p][i]
          /\ rows'[o][k].deleted = d
      BY <2>2, <3>2, <3>3, FlagWritten
    <3>5. o = p /\ i = k
      BY <2>1, <3>4
    <3>6. ~FriendRm(o, q)
      BY <3>2, <3>4, <3>5
    <3> QED BY <3>1, <3>5, <3>6
  <2>5. CASE Requests
    <3>1. PICK a \in DOMAIN att : AckSent(a) \/ AckReceived(a)
      BY <2>1, <2>5 DEF Requests, TranSetup, RecvHandle, AcceptorDies, AcceptorDrops, InitiatorFails
    <3>2. Sound(a) /\ att[a].ini \in Persons /\ att[a].acc \in Persons
          /\ att[a].clCopy \in Copy /\ att[a].svCopy \in Copy
      BY <2>2, AllSound, People
    <3>3. CASE AckSent(a)
      <4>1. rows' = Saved(att[a].acc, att[a].svCopy) /\ CopyFits(att[a].acc, att[a].svCopy)
        BY <3>2, <3>3 DEF AckSent, Sound, Received
      <4> QED BY <2>3, <3>2, <4>1
    <3>4. CASE AckReceived(a)
      <4>1. rows' = Saved(att[a].ini, att[a].clCopy) /\ CopyFits(att[a].ini, att[a].clCopy)
        BY <3>2, <3>4 DEF AckReceived, Sound, Waits
      <4> QED BY <2>3, <3>2, <4>1
    <3> QED BY <3>1, <3>3, <3>4
  <2>6. CASE Messages
    <3>1. PICK o \in Persons : \E c \in held[o] : rows' = Saved(o, c)
      BY <2>1, <2>6 DEF Messages, MessageArrives, MessageAckSent, MessageDropped
    <3>2. PICK c \in held[o] : rows' = Saved(o, c)
      BY <3>1
    <3>3. c \in Copy /\ CopyFits(o, c)
      BY <2>2 DEF Shape, PairInv, CopiesFit
    <3> QED BY <2>3, <3>2, <3>3
  <2>7. ~UNCHANGED vars
    BY <2>1 DEF vars, tables
  <2> QED BY <1>1, <2>4, <2>5, <2>6, <2>7 DEF Next
<1> QED BY <1>1, AlwaysPairs, PTL DEF Spec, StaysRemoved
=============================================================================
