---------------------------- MODULE MailboxServer ----------------------------
(***************************************************************************)
(* The mailbox service: access keys, accounts, contact lists and stored    *)
(* messages in the server's database, and what clients know of their       *)
(* accounts (prot_mb_acc_register.c, prot_mb_acc_granted.c,                *)
(* prot_mb_acc_delete.c, prot_mb_set_contacts.c, the mailbox branch of     *)
(* prot_message.c, db_mb_*.c, the options --keygen and --keydel, and the   *)
(* commands mbreg, mbrm, mbrmlocal and mbcontacts).                        *)
(*                                                                         *)
(* A request is a connection of its own.  The server checks it when it     *)
(* arrives and commits it when its kernel took the answer, and a register  *)
(* request spends a use of its key on arrival.  An account is named by the *)
(* request that registered it: its id is random.  A server that dies is    *)
(* started again on the same database.                                     *)
(***************************************************************************)
EXTENDS Naturals, FiniteSets

CONSTANTS Clients,
          Keys,       \* bound: access keys the operator generates
          MaxUses,    \* bound: uses of an access key
          Requests,   \* bound: requests clients make
          NoAccount,  \* the option client_mailbox_id is not set
          MaxDeaths   \* bound: deaths of the server

ASSUME NoAccountAssumption == NoAccount \notin Requests
ASSUME BoundsAssumption    == MaxUses \in Nat /\ MaxDeaths \in Nat
ASSUME RequestsAssumption  == IsFiniteSet(Requests)

Kinds == {"register", "delete", "contacts", "store"}

VARIABLES
  given,     \* uses each access key was generated with
  uses,      \* uses_left of each access key
  deleted,   \* access keys removed with --keydel
  accounts,  \* mailbox_accounts
  contacts,  \* mailbox_contacts: <<account, sender>>
  stored,    \* mailbox_messages: <<account, sender, request>>
  opt,       \* the account in each client's options
  req,       \* the requests made so far
  granted,   \* accounts whose id some client learned, and told its friends
  localRm,   \* clients that ran mbrmlocal
  overlapped,\* clients that had two requests about their accounts open at once
  deaths

database == <<given, uses, deleted, accounts, contacts, stored>>
history == <<granted, localRm, overlapped>>
vars == <<database, opt, req, history, deaths>>
-----------------------------------------------------------------------------
Init == /\ given = [k \in {} |-> 0] /\ uses = given /\ deleted = {}
        /\ accounts = {} /\ contacts = {} /\ stored = {}
        /\ opt = [c \in Clients |-> NoAccount]
        /\ req = [n \in {} |-> 0]
        /\ granted = {} /\ localRm = {} /\ overlapped = {}
        /\ deaths = 0

With(f, x, v) == [y \in DOMAIN f \cup {x} |-> IF y = x THEN v ELSE f[y]]

KeyGen(k, n) ==
  /\ k \notin DOMAIN given
  /\ n \in 1..MaxUses
  /\ given' = With(given, k, n) /\ uses' = With(uses, k, n)
  /\ UNCHANGED <<deleted, accounts, contacts, stored, opt, req, history, deaths>>

KeyDel(k) ==
  /\ k \in DOMAIN given \ deleted
  /\ deleted' = deleted \cup {k}
  /\ UNCHANGED <<given, uses, accounts, contacts, stored, opt, req, history, deaths>>

Waiting(n) == req[n].cl = "waiting"
AboutAccount(n) == req[n].kind \in {"register", "delete"}

\* A client opens connection n with a request of the given kind for account acc.
Request(n, c, kind, acc, key, list) ==
  /\ n \in Requests \ DOMAIN req
  /\ req' = With(req, n, [kind |-> kind, by |-> c, acc |-> acc, key |-> key,
                          list |-> list, cl |-> "waiting", sv |-> "none"])
  /\ overlapped' = IF /\ kind \in {"register", "delete"}
                      /\ \E m \in DOMAIN req : req[m].by = c /\ Waiting(m) /\ AboutAccount(m)
                   THEN overlapped \cup {c} ELSE overlapped
  /\ UNCHANGED <<database, opt, granted, localRm, deaths>>

MbReg(c, n, k) == /\ opt[c] = NoAccount
                  /\ k \in DOMAIN given
                  /\ Request(n, c, "register", n, k, {})
MbRm(c, n) == opt[c] # NoAccount /\ Request(n, c, "delete", opt[c], "none", {})
MbContacts(c, n, list) == opt[c] # NoAccount /\ Request(n, c, "contacts", opt[c], "none", list)

\* A friend stores a message in an account that was announced to it.
SendToMailbox(c, n, acc) == /\ acc \in granted /\ req[acc].by # c
                            /\ Request(n, c, "store", acc, "none", {})

MbRmLocal(c) ==
  /\ opt[c] # NoAccount
  /\ opt' = [opt EXCEPT ![c] = NoAccount]
  /\ localRm' = localRm \cup {c}
  /\ UNCHANGED <<database, req, granted, overlapped, deaths>>
-----------------------------------------------------------------------------
\* What recv_handle of each request looks up: an access key with uses left, the
\* account, or the account and the sender among its contacts.
Accepted(n) ==
  CASE req[n].kind = "register" -> req[n].key \notin deleted /\ uses[req[n].key] > 0
    [] req[n].kind = "store"    -> <<req[n].acc, req[n].by>> \in contacts
    [] OTHER                    -> req[n].acc \in accounts

\* Mutation of Spend: the key object is changed but not saved.
SpendUnsaved(n) == uses

\* --uses_left
Spend(n) == IF req[n].kind = "register" THEN [uses EXCEPT ![req[n].key] = @ - 1] ELSE uses

Receive(n) ==
  /\ req[n].sv = "none"
  /\ Accepted(n)
  /\ uses' = Spend(n)
  /\ req' = [req EXCEPT ![n].sv = "received"]
  /\ UNCHANGED <<given, deleted, accounts, contacts, stored, opt, history, deaths>>

Refuse(n) ==
  /\ req[n].sv = "none"
  /\ ~Accepted(n)
  /\ req' = [req EXCEPT ![n].sv = "refused"]
  /\ UNCHANGED <<database, opt, history, deaths>>

\* PROT_MAILBOX_GRANTED left: the account is inserted.
GrantedSent(n) ==
  /\ req[n].kind = "register"
  /\ accounts' = accounts \cup {n}
  /\ UNCHANGED <<given, uses, deleted, contacts, stored>>

\* Mutation of DeleteSent: the row is removed without what refers to it.
DeleteSentAlone(n) ==
  /\ req[n].kind = "delete"
  /\ accounts' = accounts \ {req[n].acc}
  /\ UNCHANGED <<given, uses, deleted, contacts, stored>>

\* The account is deleted, and with it what refers to it (ON DELETE CASCADE).
DeleteSent(n) ==
  /\ req[n].kind = "delete"
  /\ accounts' = accounts \ {req[n].acc}
  /\ contacts' = {r \in contacts : r[1] # req[n].acc}
  /\ stored' = {r \in stored : r[1] # req[n].acc}
  /\ UNCHANGED <<given, uses, deleted>>

\* Mutation of ContactsSent: the old list goes first, and its messages with it.
ContactsSentAnew(n) ==
  /\ req[n].kind = "contacts"
  /\ contacts' = {r \in contacts : r[1] # req[n].acc} \cup ({req[n].acc} \X req[n].list)
  /\ stored' = {r \in stored : r[1] # req[n].acc}
  /\ UNCHANGED <<given, uses, deleted, accounts>>

\* The uploaded contacts are inserted; nothing is removed.
ContactsSent(n) ==
  /\ req[n].kind = "contacts"
  /\ contacts' = contacts \cup ({req[n].acc} \X req[n].list)
  /\ UNCHANGED <<given, uses, deleted, accounts, stored>>

StoreSent(n) ==
  /\ req[n].kind = "store"
  /\ stored' = stored \cup {<<req[n].acc, req[n].by, n>>}
  /\ UNCHANGED <<given, uses, deleted, accounts, contacts>>

\* The insert refers to an account that is gone: a foreign key fails.
BreaksConstraint(n) == /\ req[n].acc \notin accounts
                       /\ \/ req[n].kind = "store"
                          \/ req[n].kind = "contacts" /\ req[n].list # {}

AnswerSent(n) ==
  /\ req[n].sv = "received"
  /\ ~BreaksConstraint(n)
  /\ GrantedSent(n) \/ DeleteSent(n) \/ ContactsSent(n) \/ StoreSent(n)
  /\ req' = [req EXCEPT ![n].sv = "saved"]
  /\ UNCHANGED <<opt, history, deaths>>

\* The server dies after the answer to n left and before it was saved.
DiesAnswering(n) ==
  req' = [m \in DOMAIN req |->
            [req[m] EXCEPT !.sv = IF m = n THEN "answered"
                                  ELSE IF @ = "received" THEN "lost" ELSE @]]

\* sys_db_crash
CrashOnInsert(n) ==
  /\ req[n].sv = "received"
  /\ BreaksConstraint(n)
  /\ DiesAnswering(n)
  /\ UNCHANGED <<database, opt, history, deaths>>

ServerDies(n) ==
  /\ req[n].sv = "received"
  /\ deaths < MaxDeaths
  /\ deaths' = deaths + 1
  /\ DiesAnswering(n)
  /\ UNCHANGED <<database, opt, history>>

\* The connection is lost before the answer left, or the request never arrives.
ServerDrops(n) ==
  /\ req[n].sv \in {"none", "received"}
  /\ req' = [req EXCEPT ![n].sv = IF @ = "none" THEN "unseen" ELSE "lost"]
  /\ UNCHANGED <<database, opt, history, deaths>>
-----------------------------------------------------------------------------
\* Mutation of SetOption: the id of the account is kept after its deletion.
SetOptionKept(n) == IF req[n].kind = "register" THEN [opt EXCEPT ![req[n].by] = n] ELSE opt

\* The hooks of mbreg and mbrm write the options; the others only report.
SetOption(n) ==
  CASE req[n].kind = "register" -> [opt EXCEPT ![req[n].by] = n]
    [] req[n].kind = "delete"   -> [opt EXCEPT ![req[n].by] = NoAccount]
    [] OTHER                    -> opt

AnswerReceived(n) ==
  /\ Waiting(n)
  /\ req[n].sv \in {"saved", "answered"}
  /\ req' = [req EXCEPT ![n].cl = "done"]
  /\ opt' = SetOption(n)
  /\ granted' = IF req[n].kind = "register" THEN granted \cup {n} ELSE granted
  /\ UNCHANGED <<database, localRm, overlapped, deaths>>

\* Mutation of ClientFails: the hook of mbrm clears the options without looking at
\* the event.
ClientFailsForgets(n) ==
  /\ Waiting(n)
  /\ req' = [req EXCEPT ![n].cl = "failed"]
  /\ opt' = IF req[n].kind = "delete" THEN [opt EXCEPT ![req[n].by] = NoAccount] ELSE opt
  /\ UNCHANGED <<database, history, deaths>>

\* The connection fails, or the client dies before it handled the answer.
ClientFails(n) ==
  /\ Waiting(n)
  /\ req' = [req EXCEPT ![n].cl = "failed"]
  /\ UNCHANGED <<database, opt, history, deaths>>

Operator == \E k \in Keys : KeyDel(k) \/ \E n \in 1..MaxUses : KeyGen(k, n)
Commands == \E c \in Clients : \/ MbRmLocal(c)
                               \/ \E n \in Requests : \/ \E k \in Keys : MbReg(c, n, k)
                                                      \/ MbRm(c, n)
                                                      \/ \E l \in SUBSET (Clients \ {c}) : MbContacts(c, n, l)
                                                      \/ \E a \in granted : SendToMailbox(c, n, a)
Server == \E n \in DOMAIN req : \/ Receive(n) \/ Refuse(n) \/ AnswerSent(n)
                                \/ CrashOnInsert(n) \/ ServerDies(n) \/ ServerDrops(n)
Answers == \E n \in DOMAIN req : AnswerReceived(n) \/ ClientFails(n)

Next == Operator \/ Commands \/ Server \/ Answers
Spec == Init /\ [][Next]_vars
-----------------------------------------------------------------------------
Of(n, kind) == n \in DOMAIN req /\ req[n].kind = kind
Spent(k) == {n \in DOMAIN req : /\ req[n].kind = "register" /\ req[n].key = k
                                /\ req[n].sv \notin {"none", "unseen", "refused"}}

TypeOK ==
  /\ DOMAIN given \subseteq Keys /\ given \in [DOMAIN given -> 1..MaxUses]
  /\ uses \in [DOMAIN given -> 0..MaxUses]
  /\ deleted \subseteq DOMAIN given
  /\ accounts \subseteq DOMAIN req
  /\ contacts \subseteq (DOMAIN req) \X Clients
  /\ stored \subseteq (DOMAIN req) \X Clients \X (DOMAIN req)
  /\ opt \in [Clients -> DOMAIN req \cup {NoAccount}]
  /\ DOMAIN req \subseteq Requests
  /\ req \in [DOMAIN req ->
       [kind : Kinds, by : Clients, acc : DOMAIN req, key : Keys \cup {"none"},
        list : SUBSET Clients, cl : {"waiting", "done", "failed"},
        sv : {"none", "unseen", "received", "refused", "saved", "answered", "lost"}]]
  /\ granted \subseteq DOMAIN req /\ localRm \subseteq Clients /\ overlapped \subseteq Clients
  /\ deaths \in 0..MaxDeaths

\* The uses of an access key are neither forged nor doubled: each one the operator
\* gave is still left or was spent on exactly one registration, which became at
\* most one account, whatever was lost or crashed between the decrement
\* (prot_mb_acc_register.c:81) and the insert (prot_mb_acc_granted.c:18).
UsesConserved ==
  \A k \in DOMAIN given :
    /\ uses[k] + Cardinality(Spent(k)) = given[k]
    /\ {n \in accounts : req[n].key = k} \subseteq Spent(k)

\* A client that believes it has an account has one, unless a deletion of that
\* account was carried out and its ACK lost, or the server died between granting
\* the account and saving it.
KeepsAccount ==
  \A c \in Clients : opt[c] # NoAccount =>
    \/ opt[c] \in accounts
    \/ req[opt[c]].sv = "answered"
    \/ \E n \in DOMAIN req : /\ Of(n, "delete") /\ req[n].acc = opt[c]
                            /\ req[n].sv = "saved" /\ req[n].cl # "done"

\* An account nobody uses any more: its client was told of it and points elsewhere.
\* That takes mbrmlocal, a server that dies after it acknowledged the deletion, or
\* two commands about the account at the same time: the hooks write the options
\* without asking whose they are (app_ui_handle_cmd.c:87 and 178).
OrphansExplained ==
  \A n \in accounts :
    (req[n].cl = "done" /\ opt[req[n].by] # n) =>
      \/ req[n].by \in localRm \cup overlapped
      \/ \E m \in DOMAIN req : Of(m, "delete") /\ req[m].acc = n /\ req[m].sv = "answered"

\* What a mailbox holds comes from senders its owner uploaded: for each message
\* the account exists and an upload by the account's owner named the sender.
OnlyUploaded ==
  \A r \in stored :
    /\ r[1] \in accounts
    /\ \E n \in DOMAIN req : /\ Of(n, "contacts") /\ req[n].sv = "saved"
                             /\ req[n].acc = r[1] /\ r[2] \in req[n].list
                             /\ req[n].by = req[r[1]].by

\* A sender whose message was acknowledged can rely on the mailbox: the message is
\* there, unless its owner deleted the account or the server died in that moment.
\* Uploading a new contact list, or deleting another account, does not remove it.
AckMeansStored ==
  \A n \in DOMAIN req :
    (Of(n, "store") /\ req[n].cl = "done") =>
      \/ <<req[n].acc, req[n].by, n>> \in stored
      \/ req[n].sv = "answered"
      \/ \E m \in DOMAIN req : Of(m, "delete") /\ req[m].acc = req[n].acc /\ req[m].sv = "saved"
=============================================================================
