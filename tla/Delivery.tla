------------------------------ MODULE Delivery ------------------------------
(***************************************************************************)
(* Messages from one client to another: the rows of client_messages at the *)
(* sender and at the receiver, the rows of mailbox_messages at the         *)
(* receiver's mailbox, and the connections that move messages between them *)
(* (app_actions.c, app_ui_handle_msg.c, prot_message.c,                    *)
(* prot_message_list.c, prot_client_fetch.c, prot_mb_fetch.c,              *)
(* db_message.c, db_mb_message.c).                                         *)
(*                                                                         *)
(* A connection is what ProtMain shows it to be: the acceptor handles the  *)
(* requests in order and answers in order, it commits the effect of a      *)
(* request after its kernel took the answer, the initiator takes the       *)
(* answers in order, and when the connection is lost every request without *)
(* an answer has failed.  A container that reaches a client in two reads   *)
(* is answered like any other, but the object its callback would save is   *)
(* already free.  Requests are numbered: a message, or the receipt for it, *)
(* has the number of the message; the fetch that ends a synchronisation    *)
(* comes after all of them.                                                *)
(*                                                                         *)
(* Both clients are active friends throughout, and the receiver's contact  *)
(* list at the mailbox names the sender.                                   *)
(***************************************************************************)
EXTENDS Naturals

CONSTANTS NumMsgs,       \* messages the sender composes
          Slots,         \* connections that can be open at once
          HasMailbox,    \* the sender knows a mailbox of the receiver
          MailboxOption, \* the receiver's database has the option app_mailbox_sync tests
          Mbox,          \* messages that announce a mailbox (DB_MESSAGE_MBOX)
          Syncers,       \* clients that run contact syncs
          MaxBreaks,     \* bound: connections lost while both ends live
          MaxCrashes,    \* bound: process deaths from outside
          MaxSplits      \* bound: containers that reach a client in two reads

S == "sender"
R == "receiver"
M == "mailbox"

Gids == 1..NumMsgs
Fetch == NumMsgs + 1
NoReq == 0

ASSUME NumMsgsAssumption == NumMsgs \in Nat
ASSUME MboxAssumption    == Mbox \subseteq Gids
ASSUME FlagsAssumption   == HasMailbox \in BOOLEAN /\ MailboxOption \in BOOLEAN
ASSUME SyncersAssumption == Syncers \subseteq {S, R}
ASSUME BoundsAssumption  == MaxBreaks \in Nat /\ MaxCrashes \in Nat /\ MaxSplits \in Nat

SentStatus == {"none", "UNDELIVERED", "SENT", "SENT_CONFIRMED"}
RecvStatus == {"none", "RECV", "RECV_CONFIRMED"}

Kinds == {"direct",   \* app_message_send: one message, falls back to the mailbox
          "store",    \* app_message_send_mb: one message to the mailbox
          "syncS",    \* app_contact_sync of the sender
          "syncR",    \* app_contact_sync of the receiver
          "pull"}     \* app_mailbox_sync of the receiver

\* Connections that carry containers.
ToClient == {"direct", "syncS", "syncR"}
Containers == ToClient \cup {"store"}

Initiator(kind) == IF kind \in {"syncR", "pull"} THEN R ELSE S
Acceptor(kind)  == CASE kind \in {"direct", "syncS"} -> R
                     [] kind = "syncR"               -> S
                     [] OTHER                        -> M

VARIABLES
  sDb,      \* status of each message at the sender, "none" before it is composed
  rDb,      \* status of the row the receiver finds under each global id
  copies,   \* number of rows the receiver has under each global id
  mCopies,  \* number of rows the mailbox has under each global id
  conn,     \* the open connections
  listed,   \* messages the sender confirmed because it transmitted them in a list
  lost,     \* <<p, g>>: p answered for message g and did not save it, because it died
            \* first or because the object that held the message was already free
  breaks, crashes, splits

db == <<sDb, rDb, copies, mCopies>>
history == <<listed, lost>>
bounds == <<breaks, crashes, splits>>
vars == <<db, conn, history, bounds>>
-----------------------------------------------------------------------------
Idle == [kind |-> "idle", reqs |-> {}, handled |-> {}, sent |-> {}, got |-> {},
         flushed |-> NoReq, seen |-> [g \in Gids |-> "none"], list |-> {},
         freed |-> {}, iniUp |-> FALSE, accUp |-> FALSE]

\* A connection carrying the given requests.
Open(kind, reqs) == [Idle EXCEPT !.kind = kind, !.reqs = reqs,
                                 !.iniUp = TRUE, !.accUp = TRUE]

\* A connection both of whose ends are closed leaves its slot.
Release(c) == IF c.iniUp \/ c.accUp THEN c ELSE Idle

First(T) == CHOOSE r \in T : \A q \in T : r <= q

\* The write callback of an answer comes before anything else its process does.
Free(p) == \A s \in Slots : conn[s].flushed # NoReq => Acceptor(conn[s].kind) # p

\* Mutation of Undelivered: the query asks for messages without a receipt.
UndeliveredSent == {g \in Gids : sDb[g] = "SENT"}

\* Rows db_message_get_all returns for the two statuses a sync asks for.
Undelivered == {g \in Gids : sDb[g] = "UNDELIVERED"}

\* Mutation of Unconfirmed: the query asks for the wrong status.
UnconfirmedDone == {g \in Gids : rDb[g] = "RECV_CONFIRMED"}

Unconfirmed == {g \in Gids : rDb[g] = "RECV"}

\* Mutation of Acked: every acknowledgement confirms delivery.
AckedAlways(kind) == "SENT_CONFIRMED"

\* Status tran_done gives a message that waits for its acknowledgement.
Acked(kind) == IF kind = "store" THEN "SENT" ELSE "SENT_CONFIRMED"

\* Mutation of ListOf: the branch of the mailbox is missing.
ListOfClients(kind) == IF kind = "syncR" THEN Undelivered ELSE {}

\* Messages the acceptor of a fetch puts in its list.
ListOf(kind) == CASE kind = "syncR" -> Undelivered
                  [] kind = "pull"  -> {g \in Gids : mCopies[g] > 0}
                  [] OTHER          -> {}

\* Mutation of NewIn: messages of a list are not looked up.
NewInUnchecked(list) == list \ Mbox

\* Messages of a list that recv_handle stores.  An announcement of a mailbox is
\* validated before its address is copied, so it is always dropped.
NewIn(list) == {g \in list \ Mbox : rDb[g] = "none"}

\* A message reaches the receiver's process over c with a body that is invalid: the
\* address of an announcement was cut when its row was read back from the database.
Poisoned(c, r) == c.kind = "syncS" /\ r \in Mbox /\ rDb[r] = "none"
-----------------------------------------------------------------------------
Init ==
  /\ sDb = [g \in Gids |-> "none"]
  /\ rDb = [g \in Gids |-> "none"]
  /\ copies = [g \in Gids |-> 0]
  /\ mCopies = [g \in Gids |-> 0]
  /\ conn = [s \in Slots |-> Idle]
  /\ listed = {}
  /\ lost = {}
  /\ breaks = 0
  /\ crashes = 0
  /\ splits = 0

Starts(f, kind, reqs) ==
  \E s \in Slots : f[s] = Idle /\ conn' = [f EXCEPT ![s] = Open(kind, reqs)]

\* app_message_send_mb with the connections f.
SendMb(f, g) == IF HasMailbox THEN Starts(f, "store", {g}) ELSE conn' = f

\* app_ui_handle_msg: the next message is saved and sent, straight to the mailbox
\* while mb_direct is set.  Announcements are always sent to the client.
HandleMsg(g, mbDirect) ==
  /\ Free(S)
  /\ mbDirect => g \notin Mbox
  /\ sDb[g] = "none"
  /\ \A h \in 1..(g - 1) : sDb[h] # "none"
  /\ sDb' = [sDb EXCEPT ![g] = "UNDELIVERED"]
  /\ IF mbDirect THEN SendMb(conn, g) ELSE Starts(conn, "direct", {g})
  /\ UNCHANGED <<rDb, copies, mCopies, history, bounds>>

\* app_contact_sync: messages not delivered, receipts not confirmed, then a fetch.
ContactSync(p) ==
  /\ p \in Syncers
  /\ Free(p)
  /\ IF p = S THEN Starts(conn, "syncS", Undelivered \cup {Fetch})
              ELSE Starts(conn, "syncR", Unconfirmed \cup {Fetch})
  /\ UNCHANGED <<db, history, bounds>>

\* app_mailbox_sync.
MailboxSync ==
  /\ MailboxOption
  /\ Free(R)
  /\ Starts(conn, "pull", {Fetch})
  /\ UNCHANGED <<db, history, bounds>>

-----------------------------------------------------------------------------
(* Acceptor *)

\* recv_handle of the next request: what it read from the database stays in the
\* message object until the answer is out.  At a client the handler takes the clean-up
\* away from the object and not from the engine, which runs its own copy once the
\* container was split over two reads: the object is freed with its answer queued.
Handle(s, split) ==
  LET c == conn[s]
      r == First(c.reqs \ c.handled)
  IN
  /\ c.accUp /\ Free(Acceptor(c.kind))
  /\ c.handled # c.reqs
  /\ ~Poisoned(c, r)
  /\ split => c.kind \in ToClient /\ r # Fetch /\ splits < MaxSplits
  /\ splits' = IF split THEN splits + 1 ELSE splits
  /\ conn' = [conn EXCEPT ![s] =
       [c EXCEPT !.handled = @ \cup {r},
                 !.freed = IF split THEN @ \cup {r} ELSE @,
                 !.seen = IF c.kind \in {"direct", "syncS"} /\ r # Fetch
                          THEN [@ EXCEPT ![r] = rDb[r]] ELSE
                          IF c.kind = "store" /\ mCopies[r] > 0
                          THEN [@ EXCEPT ![r] = "RECV"] ELSE @,
                 !.list = IF r = Fetch THEN ListOf(c.kind) ELSE @]]
  /\ UNCHANGED <<db, history, breaks, crashes>>

\* A process dies and is started again with its database: its connections are gone,
\* and with them an answer in the kernel that was not yet saved.
Die(p) ==
  /\ conn' = [s \in Slots |->
       LET c == conn[s] IN
       IF c.kind = "idle" THEN c
       ELSE Release([c EXCEPT !.iniUp = @ /\ Initiator(c.kind) # p,
                              !.accUp = @ /\ Acceptor(c.kind) # p,
                              !.flushed = IF Acceptor(c.kind) = p THEN NoReq ELSE @])]
  /\ lost' = lost \cup {<<p, conn[s].flushed>> : s \in
                          {t \in Slots : /\ conn[t].flushed \in Gids
                                         /\ conn[t].kind \in Containers
                                         /\ Acceptor(conn[t].kind) = p}}
  /\ UNCHANGED <<db, listed>>

\* prot_main_fail at the acceptor reports 0 to every answer still queued.  One whose
\* object is already free frees it once more, which the process may not survive.
AcceptorFails(s) ==
  LET c == conn[s] IN
  \/ /\ conn' = [conn EXCEPT ![s] = Release([c EXCEPT !.accUp = FALSE])]
     /\ UNCHANGED <<db, history>>
  \/ /\ c.freed \cap (c.handled \ c.sent) # {}
     /\ Die(Acceptor(c.kind))

\* recv_handle finds the body invalid: the connection fails at once, and the answers
\* still queued with it.
Reject(s) ==
  LET c == conn[s] IN
  /\ c.accUp /\ Free(R)
  /\ c.handled # c.reqs
  /\ Poisoned(c, First(c.reqs \ c.handled))
  /\ AcceptorFails(s)
  /\ UNCHANGED bounds

\* The kernel of the acceptor takes the next answer.
Flush(s) ==
  LET c == conn[s]
      r == First(c.handled \ c.sent)
  IN
  /\ c.accUp /\ Free(Acceptor(c.kind))
  /\ c.handled # c.sent
  /\ conn' = [conn EXCEPT ![s].sent = @ \cup {r}, ![s].flushed = r]
  /\ UNCHANGED <<db, history, bounds>>

\* What done_cb of an answer saves.

\* Mutation of SaveReceived: the test for a known message is inverted.
SaveReceivedKnown(r, row) ==
  /\ rDb' = [rDb EXCEPT ![r] = IF row # "none" THEN row
                               ELSE IF @ = "none" THEN "RECV_CONFIRMED" ELSE @]
  /\ copies' = [copies EXCEPT ![r] = @ + IF row # "none" THEN 1 ELSE 0]
  /\ UNCHANGED <<sDb, mCopies, listed>>

\* Receiver: a message that was new is inserted; one that was there is written back
\* as it was read.
SaveReceived(r, row) ==
  /\ rDb' = [rDb EXCEPT ![r] = IF row # "none" THEN row
                               ELSE IF @ = "none" THEN "RECV_CONFIRMED" ELSE @]
  /\ copies' = [copies EXCEPT ![r] = @ + IF row = "none" THEN 1 ELSE 0]
  /\ UNCHANGED <<sDb, mCopies, listed>>

\* Sender: the message a receipt confirms, or all messages of the transmitted list.
SaveConfirmed(T) ==
  /\ sDb' = [g \in Gids |-> IF g \in T THEN "SENT_CONFIRMED" ELSE sDb[g]]
  /\ UNCHANGED <<rDb, copies, mCopies>>

\* Mutation of SaveStored: the test for a known message is inverted.
SaveStoredKnown(r, row) ==
  /\ mCopies' = [mCopies EXCEPT ![r] = @ + IF row # "none" THEN 1 ELSE 0]
  /\ UNCHANGED <<sDb, rDb, copies, listed>>

\* Mailbox: a new message is inserted.  The statement that would update a known one
\* binds the row id in the place of the data, so it matches no row.
SaveStored(r, row) ==
  /\ mCopies' = [mCopies EXCEPT ![r] = @ + IF row = "none" THEN 1 ELSE 0]
  /\ UNCHANGED <<sDb, rDb, copies, listed>>

\* The message object of an answer that is out goes with it.
ObjectGone(s) ==
  LET r == conn[s].flushed IN
  conn' = [conn EXCEPT ![s].flushed = NoReq,
                       ![s].freed = @ \ {r},
                       ![s].seen = [g \in Gids |-> IF g = r THEN "none" ELSE @[g]]]

\* Write callback of the acceptor: done_cb saves what the answer is for.
AnswerSent(s) ==
  LET c == conn[s]
      r == c.flushed
  IN
  /\ c.accUp
  /\ r # NoReq
  /\ CASE c.kind \in {"direct", "syncS"} /\ r # Fetch -> SaveReceived(r, c.seen[r])
       [] c.kind = "store"                            -> SaveStored(r, c.seen[r])
       [] c.kind = "syncR" /\ r # Fetch -> SaveConfirmed({r}) /\ UNCHANGED listed
       [] c.kind = "syncR" /\ r = Fetch -> SaveConfirmed(c.list) /\ listed' = listed \cup c.list
       [] OTHER                         -> UNCHANGED <<db, listed>>
  /\ ObjectGone(s)
  /\ UNCHANGED <<lost, bounds>>

\* The object was gone before, and what the callback finds in its place saves nothing.
AnswerMissed(s) ==
  LET c == conn[s] IN
  /\ c.accUp
  /\ c.flushed \in c.freed
  /\ lost' = lost \cup {<<Acceptor(c.kind), c.flushed>>}
  /\ ObjectGone(s)
  /\ UNCHANGED <<db, listed, bounds>>

\* The object was gone before, and the process dies of its use.
AckUsesFreed(s) ==
  LET c == conn[s] IN
  /\ c.accUp
  /\ c.flushed \in c.freed
  /\ Die(Acceptor(c.kind))
  /\ UNCHANGED bounds

-----------------------------------------------------------------------------
(* Initiator *)

\* The next answer arrives: an acknowledgement, or the list.  After the last one the
\* initiator closes the connection.
AnswerReceived(s) ==
  LET c == conn[s]
      r == First(c.sent \ c.got)
      new == NewIn(c.list)
  IN
  /\ c.iniUp /\ Free(Initiator(c.kind))
  /\ c.sent # c.got
  /\ sDb' = IF Initiator(c.kind) = S /\ r # Fetch
            THEN [sDb EXCEPT ![r] = Acked(c.kind)] ELSE sDb
  /\ rDb' = [g \in Gids |->
               IF c.kind = "syncR" /\ g = r /\ rDb[g] # "none" THEN "RECV_CONFIRMED" ELSE
               IF Initiator(c.kind) = R /\ r = Fetch /\ g \in new
               THEN IF c.kind = "pull" THEN "RECV" ELSE "RECV_CONFIRMED"
               ELSE rDb[g]]
  /\ copies' = [g \in Gids |->
                  IF Initiator(c.kind) = R /\ r = Fetch /\ g \in new
                  THEN copies[g] + 1 ELSE copies[g]]
  /\ conn' = [conn EXCEPT ![s] =
                LET d == [c EXCEPT !.got = @ \cup {r}]
                IN Release([d EXCEPT !.iniUp = (d.got # d.reqs)])]
  /\ UNCHANGED <<mCopies, history, bounds>>

\* Mutation of InitiatorFails: a message whose sending failed is queued again.
InitiatorFailsResets(s) ==
  LET c == conn[s]
      closed == [conn EXCEPT ![s] = Release([c EXCEPT !.iniUp = FALSE])]
  IN /\ IF c.kind = "direct" THEN \E g \in c.reqs : SendMb(closed, g) ELSE conn' = closed
     /\ sDb' = [g \in Gids |-> IF g \in c.reqs THEN "UNDELIVERED" ELSE sDb[g]]
     /\ UNCHANGED <<rDb, copies, mCopies, history>>

\* prot_main_fail at the initiator.  Hooks hear FAIL of what has no answer; only the
\* hook of app_message_send acts on it.
InitiatorFails(s) ==
  LET c == conn[s]
      closed == [conn EXCEPT ![s] = Release([c EXCEPT !.iniUp = FALSE])]
  IN /\ IF c.kind = "direct" THEN \E g \in c.reqs : SendMb(closed, g) ELSE conn' = closed
     /\ UNCHANGED <<db, history>>

-----------------------------------------------------------------------------
(* Losing connections and processes *)

\* End of file at either end, after what the peer had sent.
InitiatorEof(s) ==
  LET c == conn[s] IN
  /\ c.iniUp /\ ~c.accUp /\ c.sent = c.got
  /\ Free(Initiator(c.kind))
  /\ InitiatorFails(s)
  /\ UNCHANGED bounds

AcceptorEof(s) ==
  LET c == conn[s] IN
  /\ c.accUp /\ ~c.iniUp
  /\ Free(Acceptor(c.kind))
  /\ AcceptorFails(s)
  /\ UNCHANGED bounds

\* One end sees the connection fail while the other is open; this includes a SOCKS
\* failure, after which the acceptor never handles anything.
InitiatorBreak(s) ==
  LET c == conn[s] IN
  /\ breaks < MaxBreaks
  /\ c.iniUp /\ c.accUp
  /\ Free(Initiator(c.kind))
  /\ InitiatorFails(s)
  /\ breaks' = breaks + 1
  /\ UNCHANGED <<crashes, splits>>

AcceptorBreak(s) ==
  LET c == conn[s] IN
  /\ breaks < MaxBreaks
  /\ c.iniUp /\ c.accUp
  /\ Free(Acceptor(c.kind))
  /\ AcceptorFails(s)
  /\ breaks' = breaks + 1
  /\ UNCHANGED <<crashes, splits>>

\* A process is killed.
Crash(p) ==
  /\ crashes < MaxCrashes
  /\ Die(p)
  /\ crashes' = crashes + 1
  /\ UNCHANGED <<breaks, splits>>

-----------------------------------------------------------------------------
Accept(s) ==
  \/ \E split \in BOOLEAN : Handle(s, split)
  \/ AnswerSent(s) \/ AnswerMissed(s) \/ AckUsesFreed(s)
  \/ Flush(s) \/ Reject(s) \/ AcceptorEof(s)

Next ==
  \/ \E g \in Gids, mbDirect \in BOOLEAN : HandleMsg(g, mbDirect)
  \/ \E p \in {S, R} : ContactSync(p)
  \/ MailboxSync
  \/ \E s \in Slots : \/ Accept(s) \/ AnswerReceived(s) \/ InitiatorEof(s)
                      \/ InitiatorBreak(s) \/ AcceptorBreak(s)
  \/ \E p \in {S, R, M} : Crash(p)

Spec == Init /\ [][Next]_vars

\* The event loops run: pending requests, answers and ends of file are handled.
EventLoops ==
  \A s \in Slots : WF_vars(Accept(s)) /\ WF_vars(AnswerReceived(s)) /\ SF_vars(InitiatorEof(s))

\* An assumption about the users and their Tor clients, which start every sync: they
\* do it again and again, and the bound on open connections does not stop them.
UsersSync == SF_vars(MailboxSync) /\ \A p \in {S, R} : SF_vars(ContactSync(p))

FairSpec == Spec /\ EventLoops /\ UsersSync
-----------------------------------------------------------------------------
(* Properties *)

Connection ==
  [kind : Kinds \cup {"idle"}, reqs : SUBSET (1..Fetch), handled : SUBSET (1..Fetch),
   sent : SUBSET (1..Fetch), got : SUBSET (1..Fetch), flushed : 0..Fetch,
   seen : [Gids -> RecvStatus], list : SUBSET Gids, freed : SUBSET Gids, iniUp : BOOLEAN, accUp : BOOLEAN]

\* Every variable has its type; each table holds only statuses of its own side.
TypeOK ==
  /\ sDb \in [Gids -> SentStatus]
  /\ rDb \in [Gids -> RecvStatus]
  /\ copies \in [Gids -> Nat]
  /\ mCopies \in [Gids -> Nat]
  /\ conn \in [Slots -> Connection]
  /\ listed \subseteq Gids
  /\ lost \subseteq {S, R, M} \X Gids
  /\ breaks \in 0..MaxBreaks
  /\ crashes \in 0..MaxCrashes
  /\ splits \in 0..MaxSplits

\* The answer for g has left p, which will save g in its next callback.
Saving(p, g) ==
  \E s \in Slots : /\ conn[s].flushed = g
                   /\ Acceptor(conn[s].kind) = p
                   /\ conn[s].kind \in {"direct", "syncS", "store"}

\* A connection has message g, or a receipt for it, among its requests.
Carried(g) == \E s \in Slots : g \in conn[s].reqs

\* A message the sender shows as confirmed is in the receiver's database, is being
\* saved there, was lost between the acknowledgement and the save (the receiver died, or
\* had freed the message early because it came in two reads), or was transmitted in a
\* list, which nobody acknowledges.
ConfirmedIsStored ==
  \A g \in Gids : sDb[g] = "SENT_CONFIRMED" =>
    rDb[g] # "none" \/ Saving(R, g) \/ <<R, g>> \in lost \/ g \in listed

\* A message the sender leaves to the mailbox is there, or being saved, or was lost
\* in a crash of the mailbox.
SentIsStored ==
  \A g \in Gids : sDb[g] = "SENT" => mCopies[g] > 0 \/ Saving(M, g) \/ <<M, g>> \in lost

\* A second row for a message comes only from a container whose test for a known
\* message is outdated when its row is inserted: lists test and insert in one
\* callback and never repeat a message.
ListsNeverRepeat ==
  [][\A g \in Gids : copies[g] > 0 /\ copies'[g] > copies[g] =>
       \E s \in Slots : /\ conn[s].flushed = g /\ conn[s].seen[g] = "none"
                        /\ Acceptor(conn[s].kind) = R]_vars

\* A confirmed message loses that status only to the acknowledgement of a mailbox that
\* also got it, whose connection holds an older copy of the row, and never becomes
\* undelivered again.
ConfirmationSticks ==
  [][\A g \in Gids : sDb[g] = "SENT_CONFIRMED" /\ sDb'[g] # "SENT_CONFIRMED" =>
       /\ sDb'[g] = "SENT"
       /\ \E s \in Slots : conn[s].kind = "store" /\ g \in conn[s].sent]_vars

\* What Mail promises, with the connections hidden: a place is saving the message whose
\* answer has left its process.
Promise == INSTANCE Mail WITH
  Messages <- Gids,
  status   <- sDb,
  rows     <- [p \in {R, M} |-> IF p = R THEN copies ELSE mCopies],
  saving   <- [p \in {R, M} |-> {g \in Gids : Saving(p, g)}],
  missed   <- [p \in {R, M} |-> {g \in Gids : <<p, g>> \in lost}]

\* Delivery implements Mail: whatever connections break and processes die, what the
\* sender believes of a message and what the receiver and the mailbox keep change only
\* as Mail allows.
ImplementsMail == Promise!Spec

\* As long as the sender keeps syncing, every message it composed arrives and is
\* confirmed: a sync sends all undelivered messages.  Only a message the receiver
\* acknowledged and then lost is never sent again.
SyncDelivers ==
  \A g \in Gids : sDb[g] # "none" ~>
    (rDb[g] # "none" /\ sDb[g] = "SENT_CONFIRMED") \/ <<R, g>> \in lost

\* README says of mbsync "Fetch new messages from mailbox server": every message
\* stored at the mailbox is fetched from it.
MailboxDelivers == \A g \in Gids : mCopies[g] > 0 ~> rDb[g] # "none"

\* The sender learns that a message fetched from the mailbox has arrived, once the
\* connection that brought it to the mailbox is gone: before that, a late
\* acknowledgement can take the confirmation away again (ConfirmationSticks) while the
\* acknowledgement of the receipt is already under way.  Only a receipt the sender
\* acknowledged and then lost is never repeated.
ReceiptReturns ==
  \A g \in Gids : (rDb[g] = "RECV" /\ ~Carried(g)) ~>
    sDb[g] = "SENT_CONFIRMED" \/ <<S, g>> \in lost
=============================================================================
