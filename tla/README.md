# Deep Messenger in TLA+

Deep Messenger is a console chat program in C. Clients talk to each other over Tor;
a client may register at a *mailbox* server, the same program in another mode, which
keeps messages for it while it is offline. Everything runs in one libevent loop per
process, with an SQLite database as the only persistent state. This directory models
the program's own logic in TLA+, checks it with TLC and proves its main properties
with TLAPS.

Source paths below are relative to the repository (`src/prot_main.c` is the C file).

## The system

| component | source | state | operations | hard behaviour |
|---|---|---|---|---|
| protocol engine | `src/prot_main.c` | two queues of handlers, transaction id, flags, a bufferevent | connect, assign, push to either queue, read, write and event callbacks, free | callbacks that free the object they run on; half-received messages; failure with requests at every stage |
| handshake | `src/prot_transaction.c` | drawn id | request, response | nothing may be sent before the id is known |
| acknowledgement | `src/prot_ack.c` | success flag, callback | send, receive | says nothing about *what* it acknowledges |
| message container | `src/prot_message.c` | a row of `client_messages` or `mailbox_messages` in memory | send to client or mailbox, receive, commit when the ACK left | check now, insert later; stale row written back |
| lists and fetches | `src/prot_message_list.c`, `prot_client_fetch.c`, `prot_mb_fetch.c` | rows read when the fetch arrived | fetch, send list, receive list | marked confirmed without acknowledgement |
| sending and syncing | `src/app_actions.c`, `app_ui_handle_msg.c` | none of its own | compose, contact sync, mailbox sync, mailbox fallback | concurrent connections about one message |
| friend requests | `src/prot_friend_req.c`, `db_contact.c` | contact status and keys | request, accept | both sides at once, retries with fresh keys |
| mailbox accounts | `src/prot_mb_acc_*.c`, `prot_mb_set_contacts.c`, `db_mb_*.c` | keys, accounts, contacts | register, delete, set contacts | commit after the answer; deletion under pending saves |
| SOCKS5 client | `src/socks5.c` | step of the negotiation | connect, read, event | answers in pieces, the peer's bytes behind them |
| Tor process | `src/app_tor.c`, `sys_process.c` | child, log line | start, read log, end | ends the child twice after a read error; a crash leaves it |
| client UI | `src/app_ui*.c`, `cmd_parse.c` | contacts, selected contact | commands, select, send | selection cleared while the chat is open |
| queue, hooks | `src/queue.c`, `hooks.c` | linked lists | enqueue, dequeue, peek, call | list ends |
| event loop | `src/app_event.c`, `app_start.c` | listener | accept, signals | - |
| widgets, encodings, cryptography, options | `src/ui_*.c`, `base32.c`, `onion.c`, `array.c`, `*crypto.c`, `db_options.c` | - | - | boundaries of the encodings |

How they interact. The application builds a *batch*: a `prot_main`, a transaction
request and some request handlers pushed to its transmission queue, hooks for OK and
FAIL, and `prot_main_connect`. At the other end the listener gives the socket to a new
`prot_main`, which makes a receive handler for each request from its code, and that
handler pushes the response. The initiator's request handlers push the handler of the
response they expect into the reception queue when they are sent. Effects on the
database happen in the callbacks: at the initiator when the response arrived, at the
acceptor when the response has left its buffer (`tran_done` of the ACK or the list).
There is no retransmission and no timeout; everything that fails ends in
`prot_main_free`, whose cleanup callbacks report FAIL.

What makes each part correct, in one line: the engine tells its caller about every
request exactly once and never says OK for something the peer did not do; a confirmed
message is stored at the other side and stored once; an account key is used as often as
it allows; two friends end up with matching keys; the UI never acts on a contact that is
gone. `PROJECT.json` lists the hazards line by line with the property that covers each.

## Modules

| module | what it is |
|---|---|
| `RequestBatch` | abstract: what one outgoing connection promises to the code that opened it |
| `ProtMain` | the engine at both ends of one connection, handshake, ACKs, faults; its properties |
| `ProtMainPipeline` | the inductive invariant of `ProtMain` |
| `Mail` | abstract: what the delivery of messages promises, whatever connections carry them |
| `Delivery` | messages of one client to another over many connections and a mailbox; three databases; implements `Mail` |
| `FriendRequest` | contact rows and keys of any number of people who add, remove and write to each other |
| `MailboxServer` | access keys, accounts, contact lists, stored messages, and what clients believe of them |
| `Console` | menu, selected contact and prompt of the client while commands and connections change contacts |
| `Fifo`, `Queue` | what a queue promises; the linked list of `queue.c`, which implements it |
| `Socks5` | the SOCKS5 negotiation over a stream that arrives in pieces |
| `TorProcess` | the Tor child: who owns it and whether it is ready |
| `TextWidgets` | positions of the prompt and of the log in their texts |
| `Helpers` | base32, onion addresses, array growth, window division, suffix test as functions |
| `MCProtMain`, `MCDelivery`, `MCFriendRequest`, `MCMailboxServer`, `MCConsole` | instances for TLC |
| `MCTools` | `Queue`, `Socks5`, `TorProcess`, `TextWidgets` and `Helpers` side by side for TLC |
| `ProtMainProofs`, `ProtPipelineProofs` | `ProtMain`: types; the invariant, what follows, and the refinement |
| `DeliveryProofs`, `FriendRequestProofs`, `MailboxServerProofs`, `ConsoleProofs` | the theorems about those modules |
| `ToolProofs` | the theorems about `Queue`, `Socks5`, `TorProcess` and `TextWidgets` |
| `LeastNumber` | a set of positive numbers has a least one, a lemma several of them share |

The modules stand on each other in two levels. `ProtMain` shows what a connection is:
requests are answered in order, the acceptor commits when its kernel took the answer, the
initiator when the answer arrives, and whatever has no answer fails. `Delivery`,
`FriendRequest` and `MailboxServer` take such connections as given and ask what becomes of
the databases when many of them overlap, fail or die. `Console` takes their hooks as given
and asks what the user sees.

### ProtMain and the code

`pmain[e]` is the `struct prot_main` of end `e`; `tranQ`, `recvQ`, `tranInProgress`,
`tranEnabled`, `txnStarted`, `txnId`, `checkDone` are its fields, `output` the
bufferevent's output buffer. `wire[e]` holds what `e`'s kernel accepted and the peer has
not read. A queue element is the number of a message: 0 is the handshake, `r` the r-th
request of the batch; the response to `r` is numbered `r` too. That number is for the
properties only. The engine (`HeaderCheck`) compares codes and transaction ids, as
`prot_main_bev_read_cb` does.

Each libevent callback is one action. `RequestSent` and `ResponseSent` are
`prot_main_bev_write_cb` when the buffer has drained: `done_cb`, dequeue,
`prot_main_done_check`, set up the next message. `HandleRequest` and `HandleResponse` are
`prot_main_bev_read_cb` with a complete message: checks, handler, cleanup, dequeue, done
check. `ReadHead` is the same callback when only the beginning of a message is there: the
handler is queued and the checks may be marked done. `Fail` is `prot_main_fail` with
`prot_main_free`. `Flush`, the kernel taking the output, is separate from the write
callback, because the peer may answer, or the process die, in between; the process itself
runs nothing between them (`Ready`).

The response code is a function of the request and of the acceptor's mode because each
request handler pushes exactly one response and each `tran_done` of a request expects
exactly one code (`ResCode`). What differs between the handlers, the tables they write, is
abstracted to `applied`: the effect of request `r` has been committed. The one handler that
writes at reception instead (the use count of a registration) is in `MailboxServer`.

A container to a client is special (`dangling`): the handler clears the cleanup callback
in the message object rather than in the handler the engine is running, so after a split
read the object is freed while the ACK still refers to it. From there the code is
undefined; the model lets the ACK commit, commit nothing or kill the process.

History variables: `nOk`, `nFail` count hook calls per request, `okBy` remembers which
response confirmed a request, `answered` and `applied` what the acceptor has sent and
committed, `close` what a CLOSE hook could see.

### Faults

`socks` (the proxy refuses), `reset` (socket error at either end), `crash` (process
dies), `reject` (a handler finds a signature, key or length wrong), `split` (a message
arrives in two reads). Each is enabled by membership in `Faults`. The streams neither
lose, repeat nor reorder messages, since they are TCP over Tor; a broken stream loses its
tail.

### Delivery and the code

`Delivery` stands one level above `ProtMain`: it uses connections with the properties
checked and proved there and asks what becomes of messages. Sender, receiver and the
receiver's mailbox are three processes. `sDb[g]` and `rDb[g]` are the `status` column of
message `g` in `client_messages` at each client (`"none"`: no row), `copies[g]` and
`mCopies[g]` the number of rows with its `global_id` at the receiver and in
`mailbox_messages`. `conn` holds the open connections, in `Slots`.

A connection has a kind, one for each place in the code that opens one:

| kind | opened by | requests |
|---|---|---|
| `direct` | `app_message_send` | the message |
| `store` | `app_message_send_mb`, at once under `mb_direct` or from the FAIL hook of `direct` | the message |
| `syncS`, `syncR` | `app_contact_sync` of sender, receiver | undelivered messages, or receipts of `RECV` rows, then the fetch |
| `pull` | `app_mailbox_sync` | the fetch |

| action | code |
|---|---|
| `HandleMsg` | `app_ui_handle_msg`: save, then send directly or to the mailbox |
| `ContactSync`, `MailboxSync` | `app_contact_sync`, `app_mailbox_sync`, typed or run when Tor is ready |
| `Handle` | acceptor's `recv_handle` of a container or a fetch. `seen` is the row it looked up, `list` what the fetch will return; both stay in the message object. A container that reaches a client in two reads (`split`) leaves its object `freed` |
| `Reject` | the same with an invalid body: `prot_main_set_error` and the end of the connection |
| `Flush` | the kernel took the answer |
| `AnswerSent` | `ack_sent`, or `tran_done` of the list: the acceptor's only writes |
| `AnswerMissed`, `AckUsesFreed` | `ack_sent` when the message object is free already: what lies in its place saves nothing, or the process ends |
| `AnswerReceived` | initiator's `ack_received`, or `recv_handle` of the list |
| `InitiatorFails` in `InitiatorEof`, `InitiatorBreak` | `prot_main_fail` with `message_hook_cb` |
| `AcceptorFails` in `AcceptorEof`, `AcceptorBreak`, `Reject` | `prot_main_fail` at the acceptor, which frees the objects of the queued answers, one that was freed early a second time |
| `Die` in `Crash`, `AckUsesFreed`, `AcceptorFails` | the process ends, its database stays |

An answer that left and a message that is saved are therefore two things. `lost` keeps the
messages for which a process answered and which it never saves: it died between kernel and
callback, or the object was free (`prot_message.c:310`, the `dangling` of `ProtMain`; the
engine's copy of the handler in `recv_q` still has its cleanup callback, `prot_main.c:363`).
`AnswerSent` stays possible after a split read too, since the memory may still hold the
message. Lists and the mailbox's containers do not have this defect.

What is taken over from the code without being visible in one place: every save writes
the whole row from the object in memory (`SaveReceived` writes back the status that was
read; an acknowledgement writes its status over any other); the lookup and the insert are
apart by one transmission for containers and together for lists; rows of an announcement
of a mailbox (`Mbox`) lose part of their address when read back, which makes the receiver
refuse them in a sync (`Poisoned`), and are never accepted from a list (`NewIn`).

Left out: texts and nicknames (they do not change the fate of a message, except the limits
on a nickname's length), the contact row saved with a message, which is in `FriendRequest`,
and the reject reasons that unmodified friends do not meet. Both clients stay active friends.

### FriendRequest and the code

`rows[p]` is `client_contacts` in the database of person `p`, in order of id; of a row the
owner, status, deleted flag and the two halves of the keys are kept. A key pair is named by
the attempt it was drawn in: `lkey` is the attempt whose private keys we hold, `rkey` the
one whose public keys we got. `att` holds one record per `friendadd` with the contact object
(`clCopy`, `svCopy`) each end keeps in memory until it is saved; `held` the contact objects
that came with a message and are written back when its ACK leaves.

| action | code |
|---|---|
| `FriendAdd`, `FriendRestore`, `FriendRm` | the commands, with `prot_friend_req_new` and the deleted flag cleared first |
| `TranSetup` | keys drawn and the request transmitted |
| `RecvHandle`, `AckSent` | the acceptor looks the contact up, and saves it when the ACK left |
| `AckReceived` | the initiator saves its contact |
| `AcceptorDies`, `AcceptorDrops`, `InitiatorFails` | death between ACK and save; a lost connection at either end |
| `MessageArrives`, `MessageAckSent`, `MessageDropped` | the contact of a message is read, and written back whole (`prot_message.c`), or not at all: the connection failed, or the object was free after a split read |

Nothing in the code compares an address with one's own, so `friendadd` may name the person
itself: both ends of the connection are then one client, which ends with two rows for its
own address. The properties about two persons leave that pair out by `p # q`, and the others
hold for it as well.

`ByOnion` returns the row with the smallest id, as the query does; `Saved` updates by id or
appends. The history `overlapped`, `ackLost`, `died`, `raced` names the circumstances under
which the code is known to go wrong; the properties say that nothing else goes wrong, and
under each of them which part still holds.

### MailboxServer and the code

`uses` is `uses_left` of `mailbox_keys`, `accounts`, `contacts`, `stored` are the three other
tables, `opt[c]` is the option `client_mailbox_id` of client `c`. A request is a record with
the state at its client (`cl`) and at the server (`sv`). `Receive` is `recv_handle`: it looks
up what it needs (`Accepted`) and a registration already spends its use (`Spend`);
`AnswerSent` is the `tran_done` of the answer, the only other place the server writes.
`ContactsSent` only inserts, `DeleteSent` cascades as the schema says, and an insert for an
account that is gone breaks a foreign key and ends the server (`CrashOnInsert`,
`sys_db_crash`). `AnswerReceived` is the hook of `mbreg` or `mbrm`, which writes the options
without asking whose account they name. `KeyGen`, `KeyDel` are `--keygen` and `--keydel`.

### Console and the code

`rows` is the table, `contacts` the array `app->contacts` read from it earlier; `sel`
`cont_selected` as an index of that array; `cursor`, `start`, `height` the menu. The menu's
items are the friends among `contacts` (`Items`), but `ContactSelect` uses the cursor as an
index of all contacts, as `app_ui_contact_select` does. `UpdateContacts` is
`app_update_contacts`. Reading through a NULL `cont_selected` stops the program (`alive`).

A connection that reads a contact keeps it in memory until its answer has left or arrived,
and then saves the whole row: `held[k]` is that contact in connection `k`. Several
connections can hold the same row, and commands change it meanwhile, so each save may undo
another (`WriteBack`). Whether the contacts are read again after it is decided by the code
behind the save, which looks at the copy and not at what changed:

| action | reads the contact | saves it | reads the contacts again |
|---|---|---|---|
| `FriendAdd` | `prot_friend_req_new`, as the friend it will become | `RequestSaved`, `ack_received_cb` | if it was removed and is active; later `command_friendadd_hook_cb`, if the copy is ACTIVE |
| `RequestReceived` | `recv_handle` of a request; ACTIVE if it was PENDING_OUT, else as it is | `RequestSaved`, `ack_sent_cb` | `hook_friend_req`, if the copy is ACTIVE and not deleted |
| `MessageHandled` | `recv_handle` of a container, from an active friend | `MessageSaved`, `ack_sent` | `hook_message`, if the message is a nickname |
| `FriendRm` | - | at once | if it was active |
| `NickListReceived` | - | - | `hook_contact_sync`, `hook_mb_sync`, if the list has a nickname |

The two tests of `RequestSaved` are one: the copy of an own request is never deleted, because
`friendadd` clears the flag before it reads the row. A row that is inserted (`NewContact`) is
never a friend. `meant` remembers whose item was pressed, `missed` the rows whose friendship
a save changed without the contacts being read. The lines of the chat and what refreshes them
are left out; `TextWidgets` has the position of the log under them.

### The small components

`Queue` works on nodes: `malloc` picks any unused one and leaves what was in it. `Socks5`
chooses the proxy's answer first and delivers its bytes in pieces of any size. `TorProcess`
counts the children ever started and keeps the set of those alive; a crash does not end the
child, since `app_tor_crash` is registered nowhere. `TextWidgets` counts characters, and
fields nobody wrote hold any value of `Garbage`: those of a new prompt, of which
`ui_prompt_new` clears as many bytes as a pointer has, and the position `KEY_UP` computes in
a log without lines. What a key typed into such a prompt writes, and where, is left out:
`Scrolled` is the end of `ui_prompt_input_cb`, `iLine` and `iWrap` the position of the log.
`Helpers` computes the conversions the way the loops do, including memory that is not
cleared before decoding, and compares them with their definitions.

## Properties and runs

| property | kind | says |
|---|---|---|
| `Pipeline` | invariant | every message is in exactly one place, in order (inductive) |
| `OneOutcome` | invariant | OK or FAIL, never both, never twice, and all told once the handler is gone |
| `OkMeansApplied` | invariant | a confirmed request is committed, but for one response in the window between kernel and callback |
| `ResponsesPaired` | invariant | an ACK confirms its own request |
| `NoProtocolError` | invariant | unmodified peers never refuse each other for order or id |
| `ImplementsBatch` | refinement | `ProtMain` implements `RequestBatch`: in-order answers and confirmations, the rest failed at once, and no answer before the one before it is committed |
| `Settled` | liveness | every request gets an outcome unless the asking process dies |
| `AcceptorReleased` | liveness | an accepted connection is released |
| `ConfirmedIsStored` | invariant | a message confirmed at the sender is at the receiver, being saved, lost between its ACK and its save (`lost`), or was in a list |
| `SentIsStored` | invariant | a message the sender left to the mailbox is there, being saved, or lost in a crash between its ACK and its save |
| `ListsNeverRepeat` | action | a second row comes only from a container with an outdated lookup, never from a list |
| `ConfirmationSticks` | action | only a late mailbox acknowledgement takes a confirmation back, and nothing becomes undelivered again |
| `ImplementsMail` | refinement | `Delivery` implements `Mail`: one answer at a time is saved or missed, a belief follows an answer or a list, lists repeat nothing |
| `SyncDelivers` | liveness | a sender that keeps syncing delivers everything and learns it, but for what was acknowledged and not saved |
| `MailboxDelivers` | liveness | what is at the mailbox arrives (violated with the option as the code tests it) |
| `ReceiptReturns` | liveness | the sender learns that a pulled message arrived, unless it acknowledged the receipt and did not save it |
| `Consent` | invariant | an ACTIVE contact is one both persons asked for |
| `KeysExchanged` | invariant | no half of a key exchange is kept, and a friend has both halves |
| `KeysAgree` | invariant | when no request is open, two databases mirror each other in status and keys; after lost ACKs two ACTIVE friends still hold each other's keys |
| `OneRow` | invariant | one row per other person, unless two requests were under way at once |
| `NeverStuck` | invariant | `friendadd` never says "nothing to do" to both while one still waits |
| `StaysRemoved` | action | a removed friend comes back only by `friendadd`, or by a copy that was held while the command ran |
| `UsesConserved` | invariant | uses of a key are neither forged nor doubled |
| `KeepsAccount` | invariant | a client that believes it has an account has one |
| `OrphansExplained` | invariant | where accounts that nobody uses come from |
| `OnlyUploaded` | invariant | what is stored comes from senders the account's owner uploaded |
| `AckMeansStored` | invariant | an acknowledged message is stored, but for a deletion or a death |
| `WrongOnlyBehindHidden` | invariant | another contact is selected only behind one that is not in the menu |
| `RightContact` | violated | the contact whose item was pressed is selected |
| `MenuIsFresh` | invariant | the menu shows the friends of the database, but for rows an old copy was written over |
| `ChosenIsFriend` | invariant | the contact that was chosen and is written to is a friend in the database, but for a stale copy of its row |
| `CursorVisible` | invariant | the item under the cursor is in the window |
| `PromptMatches` | invariant | the prompt fits the selection until the contacts are read again |
| `OneExactOutcome` | invariant | the SOCKS5 client reports one right outcome and leaves the peer's bytes alone |
| `TorOwned` | invariant | the program owns the one child that runs, unless it crashed |
| `QueueKeepsOrder` | invariant | the list is linked, and each index leads to the item of that age |
| `WidgetsInRange` | invariant | cursor and positions stay inside text and window, for a prompt once it was cleared and a log once it has lines |
| `HelpersRight` | invariant | each conversion gives what its definition says |

`TypeOK` of `ProtMain` and of `Delivery` is proved and not run. The `TypeOK` of the other
modules gives the types of their variables.

| run | question |
|---|---|
| `ProtClient` | a sync between clients, two containers and a fetch, all faults, all properties of the engine |
| `ProtMailbox` | three mailbox requests with two kinds of response, all faults |
| `ProtWrongPeer` | mailbox requests sent to a client, which refuses them |
| `DeliverySafety` | two messages, one an announcement, two connections of any kind, one split container, one crash: the safety properties |
| `DeliverySync` | two messages, overlapping attempts and syncs of the sender, one split container, whose use after free may cut a batch |
| `DeliveryMailbox` | one message, both ways, the receiver syncing and fetching, one break, one split container: `Mail` is implemented, and two liveness properties |
| `DeliveryNoPull` | violated: `app_mailbox_sync` tests an option nothing sets |
| `Friends` | two people, three requests in any direction, to oneself too, and at any time, lost or cut anywhere, two removals, messages in between |
| `MailboxAccounts` | two clients, a key of two uses, four requests of any kind open at once, one death of the server |
| `Console` | two contacts in any state, two connections that hold copies of them, a window of one or two rows, all keys and hooks |
| `ConsoleWrongContact` | violated: the cursor of the menu is used as an index of all contacts |
| `Tools` | queue, SOCKS5, Tor process, prompt, log and conversions, each alone |

### Known disagreements without a run

These were met while modelling; the models contain each of them, as an exception a property
names or an outcome it leaves open.

* `prot_message.c:310` clears the cleanup callback in the message object instead of the
  handler, so the ACK of a container that arrived in two reads refers to freed memory
  (`dangling` in `ProtMain`, `freed` in `Delivery`): the sender may hear that a message
  arrived which is never saved, and does not send it again (`lost`).
* `prot_main_fail` stores no error before the CLOSE hooks run, so they read
  `pmain->status` as OK, against `docs/protocol_hook_events.md`.
* `prot_message.c:225`: the lookup is one transmission before the insert, so a message that
  arrives on two connections at once is stored twice.
* `db_message.c:175` cuts the address of an announcement of a mailbox when the row is read
  back: a sync that sends one is refused every time, with everything behind it. With
  `Mbox = {1}` the liveness of `DeliverySync` fails.
* `prot_message_list.c:32` marks a list confirmed when it was transmitted; if the connection
  is lost then, its messages are lost (`listed`). `prot_message_list.c:314` validates an
  announcement before its address is copied, so lists drop every announcement.
* Two people who add each other at once can end with two rows for one friend
  (`overlapped`). A death between ACK and save leaves one side waiting (`died`).
* `friendadd` of one's own address (`app_ui_handle_cmd.c:283`) inserts two rows for it with a
  single request: one PENDING_IN where it arrives, one PENDING_OUT where it was sent.
* `ui_prompt_new` (`ui_prompt.c:18`) clears `sizeof(prt)`, the size of a pointer. The prompt
  for commands is attached and used without being cleared before the first Enter or Ctrl-L,
  with whatever cursor and length the memory held; the prompt of the chat is cleared whenever
  a contact is selected.
* `prot_message.c:134` writes back the contact as it was read with the message and undoes a
  `friendrm` in between (`raced`, `missed`).
* An upload of contacts or a stored message for an account that is deleted before its
  answer left fails a foreign key and ends the server (`CrashOnInsert`).
* `app_update_contacts` clears the selected contact and leaves the chat prompt attached:
  the next message reads through NULL (`app_ui_handle_msg.c:101`), as does the hook of a
  fetch while no contact is selected (`app_actions.c:71`).
* A read error on Tor's output ends the child and then ends it again through NULL
  (`app_tor.c:86`); at the end of the file nothing happens and the child is thought ready.
* `ui_logger.c:151` leaves line 0 of an empty log for line -1. `base32_valid` accepts the
  digits 8 and 9, which decode to zero.

Bounds of `ProtMain`. `N = 3` with the first two requests of one kind is the smallest batch where two
responses cannot be told apart by code and a third can; it has a message in every stage
(unsent, in the buffer, on the wire, awaited) at once. Two transaction ids distinguish a
drawn id from another. Nothing is a counter that needs a cap: each message moves through
the queues once. `CHECK_DEADLOCK FALSE` is set because both ends stop when the batch is
over.

Bounds of `Delivery`. Two open connections are what the races need: each is between two
connections about one message, and a slot is free again when both ends are gone. Two
messages make a batch with a first and a later part, and let one be an announcement.
`MaxBreaks`, `MaxCrashes` and `MaxSplits` bound the faults a behaviour contains, not
when they happen. With a split container the acceptor may die at its ACK or when the
connection fails, so the runs with two messages take it in the place of a lost connection,
which `DeliveryMailbox` has; `DeliverySync` lets only the sender sync and `DeliveryMailbox`
only the receiver, the side its properties are about. A composed message needs a free slot, as the bound on open connections,
and no other, delays it. `ImplementsMail` is checked in `DeliveryMailbox`, where all kinds of
connections but the sender's sync meet; the theorem covers that one, crashes and further
messages. `MailboxOption = TRUE` is how the mailbox path would behave with
the option the code tests: the code never sets it, which `DeliveryNoPull` shows, and the
other runs go on to examine the code behind it. The `DeliverySafety` slots are symmetric:
no action or property names one. `CHECK_DEADLOCK FALSE` because nothing happens when all
messages are delivered and nobody may sync.

Bounds of `FriendRequest`. Two persons, since every step concerns one pair (the theorems
hold for any number). Three attempts
allow a failed one, its retry and one in the other direction. One message answered at a time
per person (`MaxHeld`) is the copy that races with a command; two removals let a restored
friend be removed again. Persons and attempts are symmetric.

Bounds of `MailboxServer`. Four requests are a registration, an upload, a stored message and
a deletion, or two clients that race for a use. One death strikes at any of them.

Bounds of `Console` and `Tools`. Two contacts put a hidden one before or behind another and
give the menu up to three items; heights 1 and 2 make it scroll. Two connections let one save
over what the other saved, or over what a command did; they are symmetric. `Garbage` has a
value below, at and above the ones a prompt can have. Four nodes fill and empty the queue past
its ends; texts are longer than the windows and lines wrap into none, one or several parts;
five bytes are a whole chunk of base32. In `Tools` a behaviour moves one component and the
others stay in one initial state, so the run costs the sum and not the product.
`CHECK_DEADLOCK FALSE` there and in the runs above: bounds run out, and a NULL read ends the
program.

Fairness of `Delivery`. The event loops serve every connection: weak fairness of `Accept`
and `AnswerReceived`, strong fairness of `InitiatorEof`, which another connection's pending
write callback may disable for a moment again and again. `UsersSync` is an assumption about
users, not about the code: nothing in the program repeats a sync but a start of Tor or a
command, so the liveness properties say what happens *if* clients keep being started or
synced; its strong fairness says that a user who tries often enough finds the bound on
connections not in the way. Nothing is assumed of breaks, crashes or composing.

No fairness is stated in the other modules: their properties are safety properties.

Fairness of `ProtMain`. Weak fairness of connecting, accepting, flushing, the write callback, reading,
and end of file: libevent calls back for every pending event and the kernel delivers an
end of file for a closed or dead peer. No fairness for faults or for `ReadHead`. `Settled`
and `AcceptorReleased` lean on the last one: since the code sets no timeout, a peer that
vanishes without its kernel closing the socket would leave the handler for ever, a case
the model leaves out.

## Proofs

The theorems about `ProtMain` hold for every `N`, every batch, both acceptor modes, every set
of ids and faults (the assumptions on the constants are `NAssumption`, `CodeAssumption`, `ModeAssumption`,
`TxnAssumption`, `FaultsAssumption`).

* `TypeCorrect`: the types are inductive once it is known that a flushed end has a
  message in `tranQ` (`TypeInv`).
* `PipelineInvariant`: none of the safety properties is inductive. They hold because the
  queues at both ends and the two streams are intervals of one sequence. `Pipeline` says
  it with four positions `a <= b <= c <= d` (responses handled, responses sent, requests
  handled, requests sent): the initiator awaits `a..d-1` and still holds `d..N`, the
  acceptor holds responses `b..c-1`, the wires hold `c..d-1` and `a..b-1`. Each action
  moves one position, so its lemma chooses the new four and checks each part.
  `a = 0 => d <= 1` is the handshake: nothing follows it before it is answered. The
  operator `Span` turns intervals into sequences, with lemmas for its head, tail and
  extension.
* `OutcomesUnique`, `ConfirmedIsApplied`, `ResponsesInOrder` follow from `Pipeline`;
  `PeersAgree` needs in addition that an accepted header never fails a check, step by step.
* `BatchImplemented`: every step of `ProtMain` is a step of `RequestBatch` or a stutter
  under the mapping `Result`. `Flush` of the acceptor is `Answer`, `ResponseSent` is `Commit`,
  `HandleResponse` is `Confirm`, `Fail` of the initiator is `Abandon`, and a container whose
  object is freed too early is `Spoil`. `AtMostOneLost` then needs no queue or stream any
  more: it follows from `RequestBatch` alone, where an answer waits for the commit before it.

* `Delivery` (`TypeCorrect`, `ConfirmedAlwaysStored`, `SentAlwaysStored`), for any number of
  messages, connections, breaks and crashes. Neither property is inductive: what the sender
  writes depends on what an answer under way means. `Means` says that: an answer sent for a
  message means it is at the acceptor, being saved, or lost between ACK and save, and a receipt among
  the requests is about a stored row. `ConnOK` keeps each connection in order (received
  within sent within handled within requested). Most actions only have to show `Advance`,
  that what is known of a message stays known; the lemmas `SlotSet` and `SlotsSet` turn that
  into the invariant for the connections they leave alone.
* `MailImplemented`: every step of `Delivery` is a step of `Mail` or a stutter, with the
  connections hidden and `saving[p]` mapped to the messages whose answer has left process `p`
  while its write callback is due. `Flush` is `Answer`, `AnswerSent` is `Save` (or `List`),
  `AnswerReceived` is `Hear` (or `Take`), `AnswerMissed` and a death are `Miss`; what else
  ends a connection stutters.
  `MailInv` adds three facts to `IInv` and `RowsFound`. `Alone`: two answers of one process are never under
  way at once, since it runs its callback before anything else; without it a second answer
  could hide behind the first. `RowsKept`, the converse of `RowsFound`: what the receiver's
  lookup finds is a row it counts, so "known" at a container is "kept" in `Mail`. `AllBacked`:
  every request and every entry of a list has the row it was made from, so what is answered
  for was composed and a mailbox lists what it keeps. `AllBacked` rests on the tables only
  growing (`Grows`), and the mapping on `Undisturbed`: most actions leave all answers under
  way alone, so that one lemma shows they stutter.
* `FriendRequest`, for any set of persons and attempts. `TypeCorrect`, `AlwaysConsent` and
  `KeysAlwaysExchanged` need an invariant about one contact at a time, `IInv`: every row
  (`RowsOK`), every copy held with a message (`HeldOK`) and every contact object of an
  attempt (`AttemptsOK`) could be saved now without breaking the properties.
* `OneRowAlways`, `NeverStuckAlways`, `KeysAlwaysAgree` and the action property
  `RemovedStaysRemoved` of `FriendRequest` need two persons at a time, `PairInv`, because a
  save writes back a row that was read earlier. It abstracts the rows of `p` for `q` to
  `Table(p, q)` and says, of pairs without overlapping requests:
  a copy that waits still fits the row it came from (`CopiesFit`), no second row
  appeared since the lookup (`SingleOK`, `OneOpen`, the cases `id = 0` of `AskOK`), the keys
  that will be saved replace only what the request was made from (`AskOK`), the friend whose
  message is being answered has no request open (`FriendsOK`, `NoFriendAsks`), and the steps of the two sides
  come in one of few orders (`InOrder`). Where no acceptor died, `PublicKept` and `PrivateKept` are the two halves
  of `KeysAgree` before the request is over: a private key we keep has its public half with
  the friend; a public key we have has its private half with the friend or in a
  request whose ACK is on its way, unless an ACK was lost. They are inductive only together:
  each ACK saves one key, and the old keys it replaces must be gone on the other side. The
  lemma `SavePairs` covers both saves, `MovePairs` the steps that save nothing.
* `MailboxServer` (`UsesAlwaysConserved`, `AccountsKept`, `OrphansAlwaysExplained`,
  `OnlyUploadedStored`, `AcknowledgedStored`), for any number of clients, keys, requests and
  deaths. The invariant relates each table to the requests that were saved: `Counted` a use
  to a registration, `ContactsOK` a contact to an upload, `StoredOK` a message to a sender
  who was uploaded, `SavesOK` and `Gone` what a saved request left behind and when it is
  gone again, `OneOpen` that a client not in `overlapped` has one request about its account.
* The action properties of `Delivery` (`ListsNeverRepeatMessages`, `ConfirmationsStick`).
  Few steps write the tables of the clients (`Writers`). That a list repeats nothing needs
  one more invariant, `RowsFound`: the receiver counts rows only under ids its lookup finds.
  A confirmation is taken back only where `ConnOK` puts the message among the answers of a
  mailbox.
* `Console` (`CursorAlwaysVisible`, `MenuAlwaysFresh`, `ChosenAlwaysFriend`,
  `PromptAlwaysMatches`, `SelectionWrongOnlyBehindHidden`), for any number of contacts and
  connections and any heights. The properties hold each other up: the cursor stays below `NItems`, which
  counts the friends among `contacts`; `contacts` is never longer than `rows`, since rows are
  only added, so an index of one is an index of the other (`TableOK`); a copy that is held has a row
  to be written over (`HeldOK`). A save changes the friends by one row at most, and either the
  contacts are read again or the row is in `missed`. `ChosenAlwaysFriend` follows from
  `MenuIsFresh` and from the fact that a pressed item is a friend among `contacts`. The menu
  is the ranking of the friends: `Ranks` and `RankOfPrefix` say that item `n` exists up to
  their number, and that it is contact `n` unless one before it is hidden.
* `Queue` (`QueueLinked`, `QueueIsFifo`, `QueueOrderKept`), for any number of nodes: the list
  is linked, and with `items` mapped to the data in order of age it implements `Fifo`. `Peek`
  walks along `next` with a recursive function, which a least counterexample shows to follow
  the order of age.
* `Socks5` (`SocksOneExactOutcome`), for any lengths of the address and of what the peer
  says: in each step of the negotiation `SocksInv` bounds how much has arrived and says how
  much was drained.
* `TorProcess` (`TorAlwaysOwned`), for any number of starts: `TorInv` adds that before the
  first command nothing runs.
* `TextWidgets` (`WidgetsAlwaysInRange`), for any texts, line lengths, windows and garbage. The log is
  the hard half: a key up moves only from behind the place where the loops of `KEY_UP` stop
  (`Stops`), and the proof shows that such a place is never before the first part of line 0.

Assumptions: `NumMsgsAssumption` and `BoundsAssumption` for `Delivery`; `NoKeyAssumption`
and `BoundsAssumption`; `NoAccountAssumption`, `BoundsAssumption`, `RequestsAssumption`;
`MaxRowsAssumption`, `HeightsAssumption`; `NullAssumption`; `BytesAssumption`;
`MaxStartsAssumption`; `SizesAssumption`, for the modules in the order of this list.

Model-checked only: the liveness properties (`Settled`, `AcceptorReleased`, `SyncDelivers`,
`MailboxDelivers`, `ReceiptReturns`), which are out of the prover's reach, and `HelpersRight`:
`Helpers` computes with `Bitwise`, which the prover cannot use, and what its folds compute
needs induction. The violated statements are shown by TLC's counterexamples.

## Plan

1. Done: engine, delivery, friend requests, mailbox, console and the small components.
2. Done: proofs about the engine, delivery, friend requests, the mailbox, the console and
   the small components.
3. Done: every safety and action property of a passing run is a theorem, except `HelpersRight`.
   `BatchImplemented`, `QueueIsFifo` and `MailImplemented` are the three refinements.
4. To model: an acceptor that serves several connections with one database handle, to join
   `ProtMain` and `Delivery` by a refinement.

## Not modelled

OpenSSL calls (`*crypto.c`): a failed signature or decryption is the fault `reject`. Parsing
of arguments and paths, and the order of initialisation: sequential glue. Drawing, borders
and colors: no state a property could be about. The lines of the chat and their refreshes. `debug.c`, allocation wrappers, plain
options. Commands that only print. The programs under `tests/` are run by hand and assert
nothing.
