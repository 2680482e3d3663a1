---------------------------- MODULE FriendRequest ----------------------------
(***************************************************************************)
(* Becoming and ceasing to be friends: the rows of client_contacts in the  *)
(* database of each person, the friend requests that are on their way, and *)
(* the copies of rows that are written back later (prot_friend_req.c,      *)
(* db_contact.c, the commands friendadd and friendrm, and the contact that *)
(* prot_message.c saves with a message).                                   *)
(*                                                                         *)
(* An attempt is one friendadd: a connection of its own that carries one   *)
(* request and its ACK.  What ProtMain shows of a connection is built in:  *)
(* the acceptor saves when its kernel took the ACK, the initiator when the *)
(* ACK arrives, and either side may lose the connection at any time.  The  *)
(* key pairs drawn for an attempt are named by the attempt.                *)
(***************************************************************************)
EXTENDS Naturals, Sequences, FiniteSets

CONSTANTS Persons,
          Attempts,     \* bound: the friend requests that can be started
          NoKey,        \* a key field of zero bytes
          MaxHeld,      \* bound: messages a person is answering at a time
          MaxRemovals   \* bound: friendrm commands

ASSUME NoKeyAssumption  == NoKey \notin Attempts
ASSUME BoundsAssumption == MaxHeld \in Nat /\ MaxRemovals \in Nat

Status == {"PENDING_IN", "PENDING_OUT", "ACTIVE"}
Keys == Attempts \cup {NoKey}

\* A contact: lkey is the attempt whose key pairs we keep for the friend,
\* rkey the attempt in which the friend sent us its public keys.
Row == [of : Persons, status : Status, deleted : BOOLEAN, lkey : Keys, rkey : Keys]

\* A contact in memory: its row, and where it came from, 0 if not saved yet.
Copy == [id : Nat, row : Row]

VARIABLES
  rows,        \* the table client_contacts of each person, in order of id
  att,         \* the attempts
  held,        \* contacts read with a message whose ACK has not left yet
  asked,       \* <<p, q>>: p ran friendadd for q
  overlapped,  \* pairs with two attempts at the same time
  ackLost,     \* pairs where the ACK left but the initiator never saved
  died,        \* pairs where the acceptor died between its ACK and its save
  raced,       \* <<p, i>>: a command changed row i of p while a copy of it was held
  removals

tables == <<rows, att, held>>
history == <<asked, overlapped, ackLost, died, raced>>
vars == <<tables, history, removals>>
-----------------------------------------------------------------------------
NewContact(q, status) ==
  [id |-> 0,
   row |-> [of |-> q, status |-> status, deleted |-> FALSE,
            lkey |-> NoKey, rkey |-> NoKey]]

\* SELECT returns the row with the smallest id.
First(p, q, i) == /\ i \in DOMAIN rows[p]
                  /\ rows[p][i].of = q
                  /\ \A j \in 1..i - 1 : rows[p][j].of # q
Known(p, q) == \E i \in DOMAIN rows[p] : rows[p][i].of = q
ByOnion(p, q) == LET i == CHOOSE i \in DOMAIN rows[p] : First(p, q, i)
                 IN  [id |-> i, row |-> rows[p][i]]

\* The table of p after it saved copy c.
Saved(p, c) == IF c.id > 0 THEN [rows EXCEPT ![p][c.id] = c.row]
                           ELSE [rows EXCEPT ![p] = Append(@, c.row)]

\* Mutations of Requested: the contact is not looked up; a known one is only asked.
RequestedAnew(p, q) == NewContact(q, "PENDING_OUT")
RequestedAgain(p, q) == IF Known(p, q) THEN [ByOnion(p, q) EXCEPT !.row.status = "PENDING_OUT"]
                                       ELSE NewContact(q, "PENDING_OUT")

\* How prot_friend_req_new fills the contact of a request to q.
Requested(p, q) == IF Known(p, q) THEN [ByOnion(p, q) EXCEPT !.row.status = "ACTIVE"]
                                  ELSE NewContact(q, "PENDING_OUT")

\* Mutations of Accepted: any contact that writes again is a friend; the keys of a
\* known one are kept; a request brings back a removed contact.
AcceptedEagerly(p, q, k) ==
  LET old == IF Known(p, q) THEN ByOnion(p, q) ELSE NewContact(q, "PENDING_IN")
  IN  [old EXCEPT !.row.status = IF Known(p, q) THEN "ACTIVE" ELSE @, !.row.rkey = k]
AcceptedOldKeys(p, q, k) ==
  LET old == IF Known(p, q) THEN ByOnion(p, q) ELSE NewContact(q, "PENDING_IN")
  IN  [old EXCEPT !.row.status = IF @ = "PENDING_OUT" THEN "ACTIVE" ELSE @,
                  !.row.rkey = IF @ = NoKey THEN k ELSE @]
AcceptedUndeletes(p, q, k) ==
  LET old == IF Known(p, q) THEN ByOnion(p, q) ELSE NewContact(q, "PENDING_IN")
  IN  [old EXCEPT !.row.status = IF @ = "PENDING_OUT" THEN "ACTIVE" ELSE @,
                  !.row.deleted = FALSE, !.row.rkey = k]

\* How recv_handle fills the contact of a request with key k from q.
Accepted(p, q, k) ==
  LET old == IF Known(p, q) THEN ByOnion(p, q) ELSE NewContact(q, "PENDING_IN")
  IN  [old EXCEPT !.row.status = IF @ = "PENDING_OUT" THEN "ACTIVE" ELSE @,
                  !.row.rkey = k]

Attempt(p, q, c) == [ini |-> p, acc |-> q, cl |-> "connecting", sv |-> "none",
                     clCopy |-> c, svCopy |-> NewContact(p, "PENDING_IN")]

Pair(a) == {att[a].ini, att[a].acc}
\* The request was transmitted, whatever became of the initiator since then.
Arriving(a) == /\ att[a].cl \in {"sent", "failed"} /\ att[a].clCopy.row.lkey = a
               /\ att[a].sv = "none"
Open(a) == Arriving(a) \/ att[a].cl \in {"connecting", "sent"} \/ att[a].sv = "received"
OpenBetween(p, q) == \E a \in DOMAIN att : Open(a) /\ Pair(a) = {p, q}

\* A copy of row i of p that can still be written back.
CopyInFlight(p, i) ==
  \/ \E c \in held[p] : c.id = i
  \/ \E a \in DOMAIN att : \/ /\ att[a].ini = p
                              /\ att[a].cl \in {"connecting", "sent"}
                              /\ att[a].clCopy.id = i
                           \/ /\ att[a].acc = p
                              /\ att[a].sv = "received"
                              /\ att[a].svCopy.id = i
-----------------------------------------------------------------------------
Init == /\ rows = [p \in Persons |-> <<>>]
        /\ att = [a \in {} |-> {}]
        /\ held = [p \in Persons |-> {}]
        /\ asked = {} /\ overlapped = {} /\ ackLost = {} /\ died = {} /\ raced = {}
        /\ removals = 0

\* The row friendadd leaves behind: the deleted flag is cleared first.
Undeleted(p, q) == IF Known(p, q) /\ ByOnion(p, q).row.deleted
                   THEN Saved(p, [ByOnion(p, q) EXCEPT !.row.deleted = FALSE])
                   ELSE rows

\* A command writes the deleted flag while an older copy will be written back.
Races(p, q) == IF Known(p, q) /\ CopyInFlight(p, ByOnion(p, q).id)
               THEN raced \cup {<<p, ByOnion(p, q).id>>} ELSE raced

\* friendadd stops at a contact that is ACTIVE or PENDING_OUT.
NothingToDo(p, q) == Known(p, q) /\ ByOnion(p, q).row.status \in {"ACTIVE", "PENDING_OUT"}

\* friendadd: the request starts with a copy of the row as it is now.  The address may
\* be one's own: then both ends of the connection are one client.
FriendAdd(p, q, a) ==
  /\ a \notin DOMAIN att
  /\ ~NothingToDo(p, q)
  /\ asked' = asked \cup {<<p, q>>}
  /\ rows' = Undeleted(p, q)
  /\ LET c == IF Known(p, q) THEN [Requested(p, q) EXCEPT !.row.deleted = FALSE]
                             ELSE Requested(p, q)
     IN  att' = [b \in DOMAIN att \cup {a} |-> IF b = a THEN Attempt(p, q, c) ELSE att[b]]
  /\ overlapped' = IF OpenBetween(p, q) THEN overlapped \cup {{p, q}} ELSE overlapped
  /\ raced' = Races(p, q)
  /\ UNCHANGED <<held, ackLost, died, removals>>

\* friendadd for somebody we removed and need not ask again.
FriendRestore(p, q) ==
  /\ NothingToDo(p, q)
  /\ asked' = asked \cup {<<p, q>>}
  /\ rows' = Undeleted(p, q)
  /\ raced' = Races(p, q)
  /\ UNCHANGED <<att, held, overlapped, ackLost, died, removals>>

FriendRm(p, q) ==
  /\ removals < MaxRemovals
  /\ Known(p, q) /\ ~ByOnion(p, q).row.deleted
  /\ rows' = Saved(p, [ByOnion(p, q) EXCEPT !.row.deleted = TRUE])
  /\ raced' = Races(p, q)
  /\ removals' = removals + 1
  /\ UNCHANGED <<att, held, asked, overlapped, ackLost, died>>

\* The transaction was granted: keys are drawn and the request is transmitted.
TranSetup(a) ==
  /\ att[a].cl = "connecting"
  /\ att' = [att EXCEPT ![a].cl = "sent", ![a].clCopy.row.lkey = a]
  /\ UNCHANGED <<rows, held, history, removals>>

\* The request arrives; what becomes of the initiator does not matter to it.
RecvHandle(a) ==
  /\ Arriving(a)
  /\ att' = [att EXCEPT ![a].sv = "received",
                        ![a].svCopy = Accepted(att[a].acc, att[a].ini, a)]
  /\ UNCHANGED <<rows, held, history, removals>>

\* The ACK was transmitted.
AckSent(a) ==
  /\ att[a].sv = "received"
  /\ rows' = Saved(att[a].acc, att[a].svCopy)
  /\ att' = [att EXCEPT ![a].sv = "saved"]
  /\ ackLost' = IF att[a].cl = "failed" THEN ackLost \cup {Pair(a)} ELSE ackLost
  /\ UNCHANGED <<held, asked, overlapped, died, raced, removals>>

\* The acceptor dies after the kernel took the ACK and before the save.
AcceptorDies(a) ==
  /\ att[a].sv = "received"
  /\ att' = [att EXCEPT ![a].sv = "answered",
                        ![a].cl = IF att[a].ini = att[a].acc THEN "failed" ELSE @]
  /\ died' = died \cup {Pair(a)}
  /\ UNCHANGED <<rows, held, asked, overlapped, ackLost, raced, removals>>

\* The acceptor loses the connection before the ACK left.
AcceptorDrops(a) ==
  /\ att[a].sv \in {"none", "received"}
  /\ att' = [att EXCEPT ![a].sv = "dropped"]
  /\ UNCHANGED <<rows, held, history, removals>>

AckReceived(a) ==
  /\ att[a].cl = "sent"
  /\ att[a].sv \in {"saved", "answered"}
  /\ rows' = Saved(att[a].ini, att[a].clCopy)
  /\ att' = [att EXCEPT ![a].cl = "done"]
  /\ UNCHANGED <<held, history, removals>>

\* Mutation of InitiatorFails: the contact is saved although nobody answered.
InitiatorFailsSaves(a) ==
  /\ att[a].cl = "sent"
  /\ rows' = Saved(att[a].ini, att[a].clCopy)
  /\ att' = [att EXCEPT ![a].cl = "failed"]
  /\ UNCHANGED <<held, asked, ackLost, overlapped, died, raced, removals>>

\* The initiator loses the connection, or dies.
InitiatorFails(a) ==
  /\ att[a].cl \in {"connecting", "sent"}
  /\ att' = [att EXCEPT ![a].cl = "failed"]
  /\ ackLost' = IF att[a].sv = "saved" THEN ackLost \cup {Pair(a)} ELSE ackLost
  /\ UNCHANGED <<rows, held, asked, overlapped, died, raced, removals>>

\* A friend can write to us when each has the keys the other expects.
CanWrite(q, r) == \E i \in DOMAIN rows[q] : LET s == rows[q][i] IN
                    /\ s.status = "ACTIVE" /\ s.lkey = r.rkey /\ s.rkey = r.lkey

\* A message arrives and its contact is read: SELECT by the remote key.
MessageArrives(p, i) ==
  /\ i \in DOMAIN rows[p]
  /\ LET r == rows[p][i] IN
       /\ Cardinality(held[p]) < MaxHeld
       /\ \A j \in 1..i - 1 : rows[p][j].rkey # r.rkey
       /\ r.status = "ACTIVE" /\ ~r.deleted
       /\ CanWrite(r.of, r)
       /\ held' = [held EXCEPT ![p] = @ \cup {[id |-> i, row |-> r]}]
  /\ UNCHANGED <<rows, att, history, removals>>

\* The ACK of the message left: the contact is saved as it was read.
MessageAckSent(p, c) ==
  /\ c \in held[p]
  /\ held' = [held EXCEPT ![p] = @ \ {c}]
  /\ rows' = Saved(p, c)
  /\ UNCHANGED <<att, history, removals>>

\* The ACK never left; or the container came in two reads and its object was free
\* before the ACK left (prot_message.c:310), which saves nothing or ends the process.
MessageDropped(p, c) ==
  /\ c \in held[p]
  /\ held' = [held EXCEPT ![p] = @ \ {c}]
  /\ UNCHANGED <<rows, att, history, removals>>

Commands == \E p, q \in Persons : \/ \E a \in Attempts : FriendAdd(p, q, a)
                                  \/ FriendRestore(p, q)
                                  \/ FriendRm(p, q)
Requests == \E a \in DOMAIN att : \/ TranSetup(a) \/ RecvHandle(a) \/ AckSent(a)
                                \/ AcceptorDies(a) \/ AcceptorDrops(a)
                                \/ AckReceived(a) \/ InitiatorFails(a)
Messages == \E p \in Persons : \/ \E i \in DOMAIN rows[p] : MessageArrives(p, i)
                               \/ \E c \in held[p] : MessageAckSent(p, c) \/ MessageDropped(p, c)

Next == Commands \/ Requests \/ Messages
Spec == Init /\ [][Next]_vars
-----------------------------------------------------------------------------
TypeOK == /\ rows \in [Persons -> Seq(Row)]
          /\ DOMAIN att \subseteq Attempts
          /\ att \in [DOMAIN att -> [ini : Persons, acc : Persons,
                                     cl : {"connecting", "sent", "done", "failed"},
                                     sv : {"none", "received", "saved", "answered", "dropped"},
                                     clCopy : Copy, svCopy : Copy]]
          /\ held \in [Persons -> SUBSET Copy]
          /\ asked \subseteq Persons \X Persons
          /\ raced \subseteq Persons \X Nat
          /\ removals \in 0..MaxRemovals

\* Nobody becomes a friend by accident: an ACTIVE contact is one both persons
\* asked for with friendadd, whatever was lost, overlapped or removed
\* (prot_friend_req.c:196, prot_friend_req_new).
Consent == \A p \in Persons : \A i \in DOMAIN rows[p] :
             rows[p][i].status = "ACTIVE" =>
               {<<p, rows[p][i].of>>, <<rows[p][i].of, p>>} \subseteq asked

\* The keys of a contact are never half of an exchange: a private key is kept
\* only if the friend answered the request that carried its public half, a
\* public key only if it came in a request of that friend to us, and a friend
\* has both (tran_setup draws the keys, ack_received_cb saves them).
KeysExchanged ==
  \A p \in Persons : \A i \in DOMAIN rows[p] :
    LET r == rows[p][i] IN
      /\ r.lkey # NoKey => /\ r.lkey \in DOMAIN att /\ att[r.lkey].ini = p /\ att[r.lkey].acc = r.of
                           /\ att[r.lkey].sv \in {"saved", "answered"}
      /\ r.rkey # NoKey => /\ r.rkey \in DOMAIN att /\ att[r.rkey].ini = r.of /\ att[r.rkey].acc = p
                           /\ att[r.rkey].sv = "saved"
      /\ r.status = "ACTIVE" => r.lkey # NoKey /\ r.rkey # NoKey

Quiet(p, q) == ~OpenBetween(p, q)
SameKeys(r, s) == r.lkey = s.rkey /\ r.rkey = s.lkey
BothActive(r, s) == r.status = "ACTIVE" /\ s.status = "ACTIVE"

\* Two persons between whom no request is open, and none ever ran beside another:
\* if no ACK was lost their databases mirror each other, in who knows whom, in
\* status and in keys; if ACKs were lost and requests repeated, they still hold
\* each other's current keys once both are ACTIVE (the saves of
\* prot_friend_req.c:24 and 115, the keys drawn anew at 64).
KeysAgree ==
  \A p, q \in Persons :
    (p # q /\ Quiet(p, q) /\ {p, q} \notin overlapped \cup died) =>
      LET r == ByOnion(p, q).row
          s == ByOnion(q, p).row
      IN  /\ {p, q} \notin ackLost =>
               /\ Known(p, q) = Known(q, p)
               /\ Known(p, q) => /\ SameKeys(r, s)
                                 /\ BothActive(r, s) \/ {r.status, s.status} = {"PENDING_IN", "PENDING_OUT"}
          /\ Known(p, q) /\ Known(q, p) /\ BothActive(r, s) => SameKeys(r, s)

\* A person has one row for another person, unless two requests between them were
\* under way at once (prot_friend_req.c:190 looks up, 115 inserts later).  One's own
\* address is no such friend: a single request to it is new at both of its ends.
OneRow == \A p, q \in Persons : p # q /\ {p, q} \notin overlapped =>
            \A i, j \in DOMAIN rows[p] : rows[p][i].of = q /\ rows[p][j].of = q => i = j

\* Two persons who want to be friends can get there: friendadd never says
\* "nothing to do" to both while one of them is still waiting.  Lost ACKs are
\* survived; requests that overlap and an acceptor that dies are not.
NeverStuck ==
  \A p, q \in Persons :
    (p # q /\ Quiet(p, q) /\ {p, q} \notin overlapped \cup died
       /\ NothingToDo(p, q) /\ NothingToDo(q, p)) =>
      ByOnion(p, q).row.status = "ACTIVE" /\ ByOnion(q, p).row.status = "ACTIVE"

\* A friend that was removed stays removed until friendadd, whatever requests
\* and messages arrive, unless a command ran while a copy of the row was
\* waiting to be written back (prot_message.c:134, prot_friend_req.c:24 and 115).
StaysRemoved ==
  [][\A p \in Persons : \A i \in DOMAIN rows[p] :
       (rows[p][i].deleted /\ ~rows'[p][i].deleted) =>
         \/ <<p, i>> \in raced
         \/ \E q \in Persons : \/ FriendRestore(p, q)
                               \/ \E a \in Attempts : FriendAdd(p, q, a)]_vars
=============================================================================
