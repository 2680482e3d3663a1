------------------------- MODULE MailboxServerProofs -------------------------
(***************************************************************************)
(* The properties of MailboxServer for any number of clients, keys,        *)
(* requests and deaths.  They lean on each other and on who may know what: *)
(* a request about an account is made by somebody who was told of it.      *)
(***************************************************************************)
EXTENDS MailboxServer, FiniteSetTheorems, TLAPS

Fates == {"none", "unseen", "received", "refused", "saved", "answered", "lost"}

\* Requests are typed, and about an account that its client, or its owner, was told of.
Shape ==
  /\ DOMAIN given \subseteq Keys /\ given \in [DOMAIN given -> 1..MaxUses]
  /\ uses \in [DOMAIN given -> 0..MaxUses]
  /\ deleted \subseteq DOMAIN given
  /\ opt \in [Clients -> DOMAIN req \cup {NoAccount}]
  /\ DOMAIN req \subseteq Requests
  /\ req \in [DOMAIN req ->
       [kind : Kinds, by : Clients, acc : DOMAIN req, key : Keys \cup {"none"},
        list : SUBSET Clients, cl : {"waiting", "done", "failed"}, sv : Fates]]
Done(n) == req[n].cl = "done" => req[n].sv \in {"saved", "answered"}
Owned(n, c) == n \in DOMAIN req /\ req[n].kind = "register" /\ req[n].cl = "done" /\ req[n].by = c
Told(n) ==
  /\ req[n].kind = "register" => req[n].acc = n /\ req[n].key \in DOMAIN given
  /\ req[n].kind # "register" => Owned(req[n].acc, req[req[n].acc].by)
  /\ req[n].kind \in {"delete", "contacts"} => req[n].by = req[req[n].acc].by

KnownAccounts ==
  /\ \A n \in DOMAIN req : Done(n) /\ Told(n)
  /\ \A c \in Clients : opt[c] # NoAccount => Owned(opt[c], c)
  /\ \A n \in granted : Owned(n, req[n].by)
  /\ \A n \in accounts : Of(n, "register") /\ req[n].sv = "saved"

Counted == \A k \in DOMAIN given : uses[k] + Cardinality(Spent(k)) = given[k]

\* The account's owner uploaded s, and the list was saved.
Uploaded(a, s) == \E n \in DOMAIN req :
  /\ req[n].kind = "contacts" /\ req[n].sv = "saved" /\ req[n].acc = a
  /\ s \in req[n].list /\ req[n].by = req[a].by
Deleted(a) == \E m \in DOMAIN req : req[m].kind = "delete" /\ req[m].acc = a /\ req[m].sv = "saved"

ContactsOK == \A r \in contacts : r[1] \in accounts /\ Uploaded(r[1], r[2])
StoredOK == \A r \in stored : r[1] \in accounts /\ Uploaded(r[1], r[2])
SavesOK == \A n \in DOMAIN req :
  /\ req[n].kind = "store" /\ req[n].sv = "received" => Uploaded(req[n].acc, req[n].by)
  /\ req[n].kind = "store" /\ req[n].sv = "saved" =>
       <<req[n].acc, req[n].by, n>> \in stored \/ Deleted(req[n].acc)
  /\ req[n].kind = "register" /\ req[n].sv = "saved" => n \in accounts \/ Deleted(n)

\* An account is deleted once and for all.
Gone == \A m \in DOMAIN req : req[m].kind = "delete" /\ req[m].sv = "saved" => req[m].acc \notin accounts

\* A client that has one open request about its account knows what the answer changes.
OneOpen == \A c \in Clients \ overlapped :
  \A n \in DOMAIN req : (req[n].by = c /\ Waiting(n) /\ AboutAccount(n)) =>
    /\ \A m \in DOMAIN req : (req[m].by = c /\ Waiting(m) /\ AboutAccount(m)) => m = n
    /\ req[n].kind = "register" => opt[c] = NoAccount
    /\ req[n].kind = "delete" => opt[c] = req[n].acc \/ c \in localRm

IInv == /\ Shape /\ KnownAccounts /\ Counted
        /\ ContactsOK /\ StoredOK /\ SavesOK /\ Gone
        /\ KeepsAccount /\ OneOpen /\ OrphansExplained
-----------------------------------------------------------------------------
\* Requests are never forgotten, what was saved or answered stays so, as does an answer
\* that was received.
Keeps ==
  /\ DOMAIN req \subseteq DOMAIN req'
  /\ \A m \in DOMAIN req :
       /\ req'[m].kind = req[m].kind /\ req'[m].by = req[m].by /\ req'[m].acc = req[m].acc
       /\ req'[m].key = req[m].key /\ req'[m].list = req[m].list
       /\ req[m].sv \in {"saved", "answered"} => req'[m].sv = req[m].sv
       /\ req[m].cl # "waiting" => req'[m].cl = req[m].cl

LEMMA ShapeReq == ASSUME Shape, NEW n \in DOMAIN req
                  PROVE  /\ req[n].kind \in Kinds /\ req[n].by \in Clients
                         /\ req[n].acc \in DOMAIN req /\ req[n].key \in Keys \cup {"none"}
                         /\ req[n].list \in SUBSET Clients
                         /\ req[n].cl \in {"waiting", "done", "failed"} /\ req[n].sv \in Fates
  BY DEF Shape

LEMMA KeepsUploaded == ASSUME Keeps, NEW a \in DOMAIN req, NEW s, Uploaded(a, s)
                       PROVE  Uploaded(a, s)'
  BY DEF Keeps, Uploaded

LEMMA KeepsDeleted == ASSUME Keeps, NEW a, Deleted(a) PROVE Deleted(a)'
  BY DEF Keeps, Deleted

LEMMA KeepsOwned == ASSUME Keeps, NEW n, NEW c, Owned(n, c) PROVE Owned(n, c)'
  BY DEF Keeps, Owned

LEMMA KeepsTold == ASSUME Shape, Keeps, DOMAIN given \subseteq DOMAIN given', NEW n \in DOMAIN req, Told(n)
                   PROVE  Told(n)'
<1>1. n \in DOMAIN req' /\ req[n].acc \in DOMAIN req
  BY ShapeReq DEF Keeps
<1>2. /\ req'[n].kind = req[n].kind /\ req'[n].by = req[n].by /\ req'[n].acc = req[n].acc
      /\ req'[n].key = req[n].key /\ req'[req[n].acc].by = req[req[n].acc].by
  BY <1>1 DEF Keeps
<1> QED BY <1>1, <1>2, KeepsOwned DEF Told

\* The contact list and the stored messages, when nothing is removed from them.
LEMMA ContactsKept == ASSUME Shape, Keeps, KnownAccounts, ContactsOK,
                             contacts' = contacts, accounts \subseteq accounts'
                      PROVE  ContactsOK'
<1>1. \A r \in contacts : r[1] \in DOMAIN req /\ r[1] \in accounts'
  BY DEF ContactsOK, KnownAccounts, Of
<1> QED BY <1>1, KeepsUploaded DEF ContactsOK

LEMMA StoredKept == ASSUME Shape, Keeps, KnownAccounts, StoredOK,
                           stored' = stored, accounts \subseteq accounts'
                    PROVE  StoredOK'
<1>1. \A r \in stored : r[1] \in DOMAIN req /\ r[1] \in accounts'
  BY DEF StoredOK, KnownAccounts, Of
<1> QED BY <1>1, KeepsUploaded DEF StoredOK
-----------------------------------------------------------------------------
(* Steps of the server *)

\* Only the server's side of requests changes.
ServerMoves ==
  /\ DOMAIN req' = DOMAIN req
  /\ req' \in [DOMAIN req -> [kind : Kinds, by : Clients, acc : DOMAIN req, key : Keys \cup {"none"},
                              list : SUBSET Clients, cl : {"waiting", "done", "failed"}, sv : Fates]]
  /\ \A m \in DOMAIN req :
       /\ req'[m].kind = req[m].kind /\ req'[m].by = req[m].by /\ req'[m].acc = req[m].acc
       /\ req'[m].key = req[m].key /\ req'[m].list = req[m].list /\ req'[m].cl = req[m].cl
       /\ req[m].sv \in {"saved", "answered"} => req'[m].sv = req[m].sv
  /\ UNCHANGED <<given, deleted, opt, granted, localRm, overlapped>>

LEMMA ServerKeeps == ASSUME ServerMoves PROVE Keeps
  BY DEF ServerMoves, Keeps

LEMMA ServerKnown == ASSUME IInv, ServerMoves, uses' \in [DOMAIN given -> 0..MaxUses],
                            \A n \in accounts' : Of(n, "register") /\ req'[n].sv = "saved"
                     PROVE  Shape' /\ KnownAccounts'
<1>1. Shape /\ KnownAccounts /\ Keeps
  BY ServerKeeps DEF IInv
<1>2. Shape'
  BY <1>1 DEF ServerMoves, Shape
<1>3. \A n \in DOMAIN req' : Done(n)' /\ Told(n)'
  <2> TAKE n \in DOMAIN req'
  <2>1. n \in DOMAIN req /\ Done(n) /\ Told(n)
    BY <1>1 DEF ServerMoves, KnownAccounts
  <2>2. Done(n)'
    BY <2>1 DEF ServerMoves, Done
  <2>3. Told(n)'
    BY <1>1, <2>1, KeepsTold DEF ServerMoves
  <2> QED BY <2>2, <2>3
<1>4. (\A c \in Clients : opt[c] # NoAccount => Owned(opt[c], c))'
  BY <1>1 DEF ServerMoves, KnownAccounts, Owned
<1>5. (\A n \in granted : Owned(n, req[n].by))'
  <2> SUFFICES ASSUME NEW n \in granted' PROVE Owned(n, req[n].by)'
    OBVIOUS
  <2>1. n \in granted /\ Owned(n, req[n].by)
    BY <1>1 DEF ServerMoves, KnownAccounts
  <2>2. n \in DOMAIN req
    BY <2>1 DEF Owned
  <2> QED BY <2>1, <2>2 DEF ServerMoves, Owned
<1>6. (\A n \in accounts : Of(n, "register") /\ req[n].sv = "saved")'
  BY DEF ServerMoves, Of
<1> QED BY <1>2, <1>3, <1>4, <1>5, <1>6 DEF KnownAccounts, ServerMoves

LEMMA ServerOpen == ASSUME IInv, ServerMoves PROVE OneOpen'
  BY DEF IInv, OneOpen, ServerMoves, Waiting, AboutAccount

\* Nothing is committed: some requests are refused, lost or answered in vain.
LEMMA NothingSaved ==
  ASSUME IInv, ServerMoves, UNCHANGED <<accounts, contacts, stored>>,
         \A m \in DOMAIN req : req'[m].sv = "saved" => req[m].sv = "saved",
         \A m \in DOMAIN req : req'[m].sv = "received" /\ req[m].kind = "store" =>
             req[m].sv = "received" \/ Uploaded(req[m].acc, req[m].by)
  PROVE  ContactsOK' /\ StoredOK' /\ SavesOK' /\ Gone' /\ KeepsAccount' /\ OrphansExplained'
<1>1. Shape /\ KnownAccounts /\ Keeps
  BY ServerKeeps DEF IInv
<1>2. ContactsOK' /\ StoredOK'
  BY <1>1, ContactsKept, StoredKept DEF IInv
<1>3. SavesOK'
  <2> SUFFICES ASSUME NEW n \in DOMAIN req
               PROVE  /\ req'[n].kind = "store" /\ req'[n].sv = "received" => Uploaded(req[n].acc, req[n].by)'
                      /\ req'[n].kind = "store" /\ req'[n].sv = "saved" =>
                           <<req'[n].acc, req'[n].by, n>> \in stored \/ Deleted(req[n].acc)'
                      /\ req'[n].kind = "register" /\ req'[n].sv = "saved" => n \in accounts \/ Deleted(n)'
    BY DEF SavesOK, ServerMoves
  <2>1. req'[n].kind = req[n].kind /\ req'[n].by = req[n].by /\ req'[n].acc = req[n].acc
        /\ req[n].acc \in DOMAIN req
    BY <1>1, ShapeReq DEF ServerMoves
  <2>2. req[n].kind = "store" /\ req'[n].sv = "received" => Uploaded(req[n].acc, req[n].by)
    BY DEF IInv, SavesOK
  <2>3. /\ req[n].kind = "store" /\ req'[n].sv = "saved" =>
              <<req[n].acc, req[n].by, n>> \in stored \/ Deleted(req[n].acc)
        /\ req[n].kind = "register" /\ req'[n].sv = "saved" => n \in accounts \/ Deleted(n)
    BY DEF IInv, SavesOK
  <2>4. Uploaded(req[n].acc, req[n].by) => Uploaded(req[n].acc, req[n].by)'
    BY <1>1, <2>1, KeepsUploaded
  <2>5. Deleted(req[n].acc) => Deleted(req[n].acc)'
    BY <1>1, <2>1, KeepsDeleted DEF Deleted, Keeps
  <2>6. Deleted(n) => Deleted(n)'
    BY <1>1, KeepsDeleted
  <2> QED BY <2>1, <2>2, <2>3, <2>4, <2>5, <2>6
<1>4. KeepsAccount'
  BY <1>1 DEF IInv, KeepsAccount, KnownAccounts, Owned, ServerMoves, Of
<1>5. OrphansExplained'
  BY <1>1 DEF IInv, OrphansExplained, KnownAccounts, ServerMoves, Of
<1>6. Gone'
  BY DEF IInv, Gone, ServerMoves
<1> QED BY <1>2, <1>3, <1>4, <1>5, <1>6

LEMMA SpentKept == ASSUME Counted, ServerMoves, uses' = uses,
                          \A m \in DOMAIN req : req'[m].sv \in {"none", "unseen", "refused"}
                                                <=> req[m].sv \in {"none", "unseen", "refused"}
                   PROVE  Counted'
<1>1. \A k : Spent(k)' = Spent(k)
  BY DEF ServerMoves, Spent
<1> QED BY <1>1 DEF Counted, ServerMoves

LEMMA SpentFinite == ASSUME Shape, NEW k PROVE IsFiniteSet(Spent(k))
<1>1. Spent(k) \subseteq Requests
  BY DEF Shape, Spent
<1> QED BY <1>1, RequestsAssumption, FS_Subset

\* One request moves on at the server.
LEMMA OneMoves == ASSUME Shape, NEW n \in DOMAIN req, NEW x \in Fates,
                         req' = [req EXCEPT ![n].sv = x], req[n].sv \notin {"saved", "answered"},
                         UNCHANGED <<given, deleted, opt, granted, localRm, overlapped>>
                  PROVE  ServerMoves /\ req'[n].sv = x /\ \A m \in DOMAIN req \ {n} : req'[m] = req[m]
  BY DEF Shape, ServerMoves

LEMMA RefuseInv == ASSUME IInv, NEW n \in DOMAIN req, Refuse(n) PROVE IInv'
<1>1. Shape /\ Counted
  BY DEF IInv
<1>2. ServerMoves /\ req'[n].sv = "refused" /\ \A m \in DOMAIN req \ {n} : req'[m] = req[m]
  BY <1>1, OneMoves DEF Refuse, Fates, database, history
<1>3. UNCHANGED <<uses, accounts, contacts, stored>>
  BY DEF Refuse, database
<1>4. Shape' /\ KnownAccounts'
  BY <1>1, <1>2, <1>3, ServerKnown DEF IInv, KnownAccounts, Shape, ServerMoves, Of
<1>5. Counted'
  BY <1>1, <1>2, <1>3, SpentKept DEF Refuse
<1>6. ContactsOK' /\ StoredOK' /\ SavesOK' /\ Gone' /\ KeepsAccount' /\ OrphansExplained'
  BY <1>2, <1>3, NothingSaved
<1> QED BY <1>2, <1>4, <1>5, <1>6, ServerOpen DEF IInv

LEMMA ServerDropsInv == ASSUME IInv, NEW n \in DOMAIN req, ServerDrops(n) PROVE IInv'
<1>1. Shape /\ Counted
  BY DEF IInv
<1>2. PICK x \in {"unseen", "lost"} : /\ x = "unseen" <=> req[n].sv = "none"
                                      /\ req' = [req EXCEPT ![n].sv = x]
  BY DEF ServerDrops
<1>3. ServerMoves /\ req'[n].sv = x /\ \A m \in DOMAIN req \ {n} : req'[m] = req[m]
  BY <1>1, <1>2, OneMoves DEF ServerDrops, Fates, database, history
<1>4. UNCHANGED <<uses, accounts, contacts, stored>>
  BY DEF ServerDrops, database
<1>5. Shape' /\ KnownAccounts'
  BY <1>1, <1>3, <1>4, ServerKnown DEF IInv, KnownAccounts, Shape, ServerMoves, Of
<1>6. Counted'
  BY <1>1, <1>2, <1>3, <1>4, SpentKept DEF ServerDrops
<1>7. ContactsOK' /\ StoredOK' /\ SavesOK' /\ Gone' /\ KeepsAccount' /\ OrphansExplained'
  BY <1>3, <1>4, NothingSaved
<1> QED BY <1>3, <1>5, <1>6, <1>7, ServerOpen DEF IInv

\* A request that arrives spends the key it names, and a message its sender's listing.
LEMMA ReceiveInv == ASSUME IInv, NEW n \in DOMAIN req, Receive(n) PROVE IInv'
<1>1. Shape /\ Counted /\ KnownAccounts
  BY DEF IInv
<1>2. ServerMoves /\ req'[n].sv = "received" /\ \A m \in DOMAIN req \ {n} : req'[m] = req[m]
  BY <1>1, OneMoves DEF Receive, Fates, history
<1>3. UNCHANGED <<accounts, contacts, stored>>
  BY DEF Receive
<1>4. req[n].kind = "register" => /\ req[n].key \in DOMAIN given /\ uses[req[n].key] > 0
                                  /\ uses' = [uses EXCEPT ![req[n].key] = uses[req[n].key] - 1]
  BY <1>1 DEF Receive, Accepted, Spend, KnownAccounts, Told
<1>5. req[n].kind # "register" => uses' = uses
  BY DEF Receive, Spend
<1>6. uses' \in [DOMAIN given -> 0..MaxUses]
  BY <1>1, <1>4, <1>5, BoundsAssumption DEF Shape
<1>7. Shape' /\ KnownAccounts'
  BY <1>1, <1>2, <1>3, <1>6, ServerKnown DEF KnownAccounts, ServerMoves, Of
<1>8. Counted'
  <2> SUFFICES ASSUME NEW k \in DOMAIN given
               PROVE  uses'[k] + Cardinality(Spent(k)') = given[k]
    BY <1>2 DEF Counted, ServerMoves
  <2>0. uses[k] + Cardinality(Spent(k)) = given[k] /\ given[k] \in Nat
    BY <1>1, BoundsAssumption DEF Counted, Shape
  <2>1. CASE req[n].kind = "register" /\ req[n].key = k
    <3>1. n \notin Spent(k) /\ Spent(k)' = Spent(k) \cup {n}
      BY <1>2, <2>1 DEF Spent, Receive, ServerMoves
    <3>2. Cardinality(Spent(k)') = Cardinality(Spent(k)) + 1 /\ Cardinality(Spent(k)) \in Nat
      BY <1>1, <3>1, SpentFinite, FS_AddElement, FS_CardinalityType
    <3> QED BY <1>1, <1>4, <2>0, <2>1, <3>2 DEF Shape
  <2>2. CASE ~(req[n].kind = "register" /\ req[n].key = k)
    <3>1. Spent(k)' = Spent(k)
      BY <1>2, <2>2 DEF Spent, ServerMoves
    <3>2. uses'[k] = uses[k]
      BY <1>1, <1>4, <1>5, <2>2 DEF Shape
    <3> QED BY <2>0, <3>1, <3>2
  <2> QED BY <2>1, <2>2
<1>9. req[n].kind = "store" => Uploaded(req[n].acc, req[n].by)
  BY DEF IInv, ContactsOK, Receive, Accepted
<1>10. ContactsOK' /\ StoredOK' /\ SavesOK' /\ Gone' /\ KeepsAccount' /\ OrphansExplained'
  <2>1. \A m \in DOMAIN req : req'[m].sv = "saved" => req[m].sv = "saved"
    BY <1>2
  <2>2. \A m \in DOMAIN req : req'[m].sv = "received" /\ req[m].kind = "store" =>
             req[m].sv = "received" \/ Uploaded(req[m].acc, req[m].by)
    BY <1>2, <1>9
  <2> QED BY <1>2, <1>3, <2>1, <2>2, NothingSaved
<1> QED BY <1>2, <1>7, <1>8, <1>10, ServerOpen DEF IInv

\* The server dies with an answer on its way.
LEMMA DiesInv == ASSUME IInv, NEW n \in DOMAIN req, req[n].sv = "received", DiesAnswering(n),
                        UNCHANGED <<database, opt, history>>
                 PROVE  IInv'
<1>1. Shape /\ Counted
  BY DEF IInv
<1>2. DOMAIN req' = DOMAIN req /\ \A m \in DOMAIN req :
        req'[m] = [req[m] EXCEPT !.sv = IF m = n THEN "answered"
                                        ELSE IF req[m].sv = "received" THEN "lost" ELSE req[m].sv]
  BY DEF DiesAnswering
<1>3. \A m \in DOMAIN req :
        /\ req'[m] \in [kind : Kinds, by : Clients, acc : DOMAIN req, key : Keys \cup {"none"},
                        list : SUBSET Clients, cl : {"waiting", "done", "failed"}, sv : Fates]
        /\ req'[m].kind = req[m].kind /\ req'[m].by = req[m].by /\ req'[m].acc = req[m].acc
        /\ req'[m].key = req[m].key /\ req'[m].list = req[m].list /\ req'[m].cl = req[m].cl
        /\ req'[m].sv = IF m = n THEN "answered"
                        ELSE IF req[m].sv = "received" THEN "lost" ELSE req[m].sv
  <2> TAKE m \in DOMAIN req
  <2>1. req[m] \in [kind : Kinds, by : Clients, acc : DOMAIN req, key : Keys \cup {"none"},
                    list : SUBSET Clients, cl : {"waiting", "done", "failed"}, sv : Fates]
    BY <1>1 DEF Shape
  <2> QED BY <1>2, <2>1 DEF Fates
<1>4. ServerMoves
  <2>1. req' = [m \in DOMAIN req |-> req'[m]]
    BY <1>2 DEF DiesAnswering
  <2>2. req' \in [DOMAIN req -> [kind : Kinds, by : Clients, acc : DOMAIN req, key : Keys \cup {"none"},
                              list : SUBSET Clients, cl : {"waiting", "done", "failed"}, sv : Fates]]
    BY <1>3, <2>1
  <2> QED BY <1>2, <1>3, <2>2 DEF ServerMoves, database, history
<1>5. UNCHANGED <<uses, accounts, contacts, stored>>
  BY DEF database
<1>6. Shape' /\ KnownAccounts'
  BY <1>1, <1>3, <1>4, <1>5, ServerKnown DEF IInv, KnownAccounts, Shape, ServerMoves, Of
<1>7. Counted'
  BY <1>1, <1>3, <1>4, <1>5, SpentKept
<1>8. ContactsOK' /\ StoredOK' /\ SavesOK' /\ Gone' /\ KeepsAccount' /\ OrphansExplained'
  BY <1>3, <1>4, <1>5, NothingSaved
<1> QED BY <1>4, <1>6, <1>7, <1>8, ServerOpen DEF IInv
-----------------------------------------------------------------------------
(* The four commits *)

LEMMA SavedMoves == ASSUME Shape, NEW n \in DOMAIN req, AnswerSent(n)
                    PROVE  /\ ServerMoves /\ req[n].sv = "received" /\ req'[n].sv = "saved"
                           /\ \A m \in DOMAIN req \ {n} : req'[m] = req[m]
                           /\ uses' = uses /\ ~BreaksConstraint(n)
<1>1. UNCHANGED <<given, deleted, uses>>
  BY DEF AnswerSent, GrantedSent, DeleteSent, ContactsSent, StoreSent
<1> QED BY <1>1, OneMoves DEF AnswerSent, Fates, history

\* What a commit of request n leaves to show, once its table is known.
LEMMA CommitInv ==
  ASSUME IInv, NEW n \in DOMAIN req, AnswerSent(n),
         \A a \in accounts' : Of(a, "register") /\ req'[a].sv = "saved",
         ContactsOK', StoredOK', SavesOK', Gone', KeepsAccount', OrphansExplained'
  PROVE  IInv'
<1>1. Shape /\ Counted
  BY DEF IInv
<1>2. ServerMoves /\ uses' = uses /\ req[n].sv = "received" /\ req'[n].sv = "saved"
      /\ \A m \in DOMAIN req \ {n} : req'[m] = req[m]
  BY <1>1, SavedMoves
<1>3. Shape' /\ KnownAccounts'
  BY <1>1, <1>2, ServerKnown DEF Shape
<1>4. Counted'
  BY <1>1, <1>2, SpentKept
<1> QED BY <1>2, <1>3, <1>4, ServerOpen DEF IInv

\* What the commit of request n says of the saves of the others, when no message is removed.
LEMMA SavesKept ==
  ASSUME IInv, NEW n \in DOMAIN req, AnswerSent(n),
         accounts \subseteq accounts', stored \subseteq stored',
         req[n].kind = "store" => <<req[n].acc, req[n].by, n>> \in stored',
         req[n].kind = "register" => n \in accounts'
  PROVE  SavesOK'
<1>1. Shape /\ SavesOK
  BY DEF IInv
<1>2. ServerMoves /\ req'[n].sv = "saved" /\ Keeps /\ \A m \in DOMAIN req \ {n} : req'[m] = req[m]
  BY <1>1, SavedMoves, ServerKeeps
<1>3. ASSUME NEW m \in DOMAIN req
      PROVE  /\ (req[m].kind = "store" /\ req[m].sv = "received" => Uploaded(req[m].acc, req[m].by))'
             /\ (req[m].kind = "store" /\ req[m].sv = "saved" =>
                   <<req[m].acc, req[m].by, m>> \in stored \/ Deleted(req[m].acc))'
             /\ (req[m].kind = "register" /\ req[m].sv = "saved" => m \in accounts \/ Deleted(m))'
  <2>1. CASE m = n
    BY <1>2, <2>1 DEF ServerMoves
  <2>2. CASE m # n
    <3>1. req'[m] = req[m] /\ req[m].acc \in DOMAIN req
      BY <1>1, <1>2, <2>2, ShapeReq
    <3>2. Uploaded(req[m].acc, req[m].by) => Uploaded(req[m].acc, req[m].by)'
      BY <1>2, <3>1, KeepsUploaded
    <3>3. Deleted(req[m].acc) => Deleted(req[m].acc)'
      BY <1>2, <3>1, KeepsDeleted DEF Deleted, Keeps
    <3>4. Deleted(m) => Deleted(m)'
      BY <1>2, KeepsDeleted
    <3> QED BY <1>1, <3>1, <3>2, <3>3, <3>4 DEF SavesOK
  <2> QED BY <2>1, <2>2
<1> QED BY <1>2, <1>3 DEF SavesOK, ServerMoves

LEMMA GrantedSentInv == ASSUME IInv, NEW n \in DOMAIN req, AnswerSent(n), GrantedSent(n) PROVE IInv'
<1>1. Shape /\ KnownAccounts /\ OrphansExplained
  BY DEF IInv
<1>2. ServerMoves /\ Keeps /\ req[n].sv = "received" /\ req'[n].sv = "saved" /\ \A m \in DOMAIN req \ {n} : req'[m] = req[m]
  BY <1>1, SavedMoves, ServerKeeps
<1>3. req[n].kind = "register" /\ accounts' = accounts \cup {n} /\ UNCHANGED <<contacts, stored>>
  BY DEF GrantedSent
<1>4. ContactsOK' /\ StoredOK'
  BY <1>1, <1>2, <1>3, ContactsKept, StoredKept DEF IInv
<1>5. SavesOK'
  BY <1>3, SavesKept
<1>6. \A a \in accounts' : Of(a, "register") /\ req'[a].sv = "saved"
  BY <1>1, <1>2, <1>3 DEF KnownAccounts, Of
<1>7. KeepsAccount'
  BY <1>1, <1>2, <1>3 DEF IInv, KeepsAccount, KnownAccounts, Owned, ServerMoves, Of
<1>8. OrphansExplained'
  <2>1. req[n].cl # "done"
    BY <1>1, <1>2 DEF KnownAccounts, Done
  <2> QED BY <1>1, <1>2, <1>3, <2>1 DEF OrphansExplained, ServerMoves, Of, KnownAccounts
<1>9. Gone'
  BY <1>1, <1>2, <1>3 DEF IInv, Gone, ServerMoves, KnownAccounts, Told, Owned, Done
<1> QED BY <1>4, <1>5, <1>6, <1>7, <1>8, <1>9, CommitInv

LEMMA ContactsSentInv == ASSUME IInv, NEW n \in DOMAIN req, AnswerSent(n), ContactsSent(n) PROVE IInv'
<1>1. Shape /\ KnownAccounts /\ ContactsOK
  BY DEF IInv
<1>2. /\ ServerMoves /\ Keeps /\ req[n].sv = "received" /\ req'[n].sv = "saved" /\ ~BreaksConstraint(n)
      /\ \A m \in DOMAIN req \ {n} : req'[m] = req[m]
  BY <1>1, SavedMoves, ServerKeeps
<1>3. /\ req[n].kind = "contacts" /\ UNCHANGED <<accounts, stored>>
      /\ contacts' = contacts \cup ({req[n].acc} \X req[n].list)
  BY DEF ContactsSent
<1>4. ContactsOK'
  <2> SUFFICES ASSUME NEW r \in contacts' PROVE r[1] \in accounts' /\ Uploaded(r[1], r[2])'
    BY DEF ContactsOK
  <2>1. CASE r \in contacts
    <3>1. r[1] \in accounts /\ r[1] \in DOMAIN req /\ Uploaded(r[1], r[2])
      BY <1>1, <2>1 DEF ContactsOK, KnownAccounts, Of
    <3> QED BY <1>2, <1>3, <3>1, KeepsUploaded
  <2>2. CASE r \in {req[n].acc} \X req[n].list
    <3>1. r[1] = req[n].acc /\ r[2] \in req[n].list /\ req[n].acc \in DOMAIN req
      BY <1>1, <2>2, ShapeReq
    <3>2. req[n].acc \in accounts
      BY <1>2, <1>3, <3>1 DEF BreaksConstraint
    <3>3. Uploaded(r[1], r[2])'
      BY <1>1, <1>2, <1>3, <3>1 DEF Uploaded, ServerMoves, KnownAccounts, Told
    <3> QED BY <1>3, <3>1, <3>2, <3>3
  <2> QED BY <1>3, <2>1, <2>2
<1>5. StoredOK'
  BY <1>1, <1>2, <1>3, StoredKept DEF IInv
<1>6. SavesOK'
  BY <1>3, SavesKept
<1>7. \A a \in accounts' : Of(a, "register") /\ req'[a].sv = "saved"
  BY <1>1, <1>2, <1>3 DEF KnownAccounts, Of
<1>8. KeepsAccount'
  BY <1>1, <1>2, <1>3 DEF IInv, KeepsAccount, KnownAccounts, Owned, ServerMoves, Of
<1>9. OrphansExplained'
  BY <1>1, <1>2, <1>3 DEF IInv, OrphansExplained, ServerMoves, Of, KnownAccounts
<1>10. Gone'
  BY <1>1, <1>2, <1>3 DEF IInv, Gone, ServerMoves, KnownAccounts
<1> QED BY <1>4, <1>5, <1>6, <1>7, <1>8, <1>9, <1>10, CommitInv

LEMMA StoreSentInv == ASSUME IInv, NEW n \in DOMAIN req, AnswerSent(n), StoreSent(n) PROVE IInv'
<1>1. Shape /\ KnownAccounts /\ StoredOK
  BY DEF IInv
<1>2. /\ ServerMoves /\ Keeps /\ req[n].sv = "received" /\ req'[n].sv = "saved" /\ ~BreaksConstraint(n)
      /\ \A m \in DOMAIN req \ {n} : req'[m] = req[m]
  BY <1>1, SavedMoves, ServerKeeps
<1>3. /\ req[n].kind = "store" /\ UNCHANGED <<accounts, contacts>>
      /\ stored' = stored \cup {<<req[n].acc, req[n].by, n>>}
  BY DEF StoreSent
<1>4. ContactsOK'
  BY <1>1, <1>2, <1>3, ContactsKept DEF IInv
<1>5. StoredOK'
  <2> SUFFICES ASSUME NEW r \in stored' PROVE r[1] \in accounts' /\ Uploaded(r[1], r[2])'
    BY DEF StoredOK
  <2>1. CASE r \in stored
    <3>1. r[1] \in accounts /\ r[1] \in DOMAIN req /\ Uploaded(r[1], r[2])
      BY <1>1, <2>1 DEF StoredOK, KnownAccounts, Of
    <3> QED BY <1>2, <1>3, <3>1, KeepsUploaded
  <2>2. CASE r = <<req[n].acc, req[n].by, n>>
    <3>1. r[1] = req[n].acc /\ r[2] = req[n].by /\ req[n].acc \in DOMAIN req
      BY <1>1, <2>2, ShapeReq
    <3>2. req[n].acc \in accounts /\ Uploaded(req[n].acc, req[n].by)
      BY <1>2, <1>3 DEF BreaksConstraint, IInv, SavesOK
    <3> QED BY <1>2, <1>3, <3>1, <3>2, KeepsUploaded
  <2> QED BY <1>3, <2>1, <2>2
<1>6. SavesOK'
  BY <1>3, SavesKept
<1>7. \A a \in accounts' : Of(a, "register") /\ req'[a].sv = "saved"
  BY <1>1, <1>2, <1>3 DEF KnownAccounts, Of
<1>8. KeepsAccount'
  BY <1>1, <1>2, <1>3 DEF IInv, KeepsAccount, KnownAccounts, Owned, ServerMoves, Of
<1>9. OrphansExplained'
  BY <1>1, <1>2, <1>3 DEF IInv, OrphansExplained, ServerMoves, Of, KnownAccounts
<1>10. Gone'
  BY <1>1, <1>2, <1>3 DEF IInv, Gone, ServerMoves, KnownAccounts
<1> QED BY <1>4, <1>5, <1>6, <1>7, <1>8, <1>9, <1>10, CommitInv

\* The deletion takes with it what refers to the account, and explains what is missing.
LEMMA DeleteSentInv == ASSUME IInv, NEW n \in DOMAIN req, AnswerSent(n), DeleteSent(n) PROVE IInv'
<1>1. Shape /\ KnownAccounts /\ SavesOK /\ KeepsAccount
  BY DEF IInv
<1>2. ServerMoves /\ Keeps /\ req[n].sv = "received" /\ req'[n].sv = "saved" /\ \A m \in DOMAIN req \ {n} : req'[m] = req[m]
  BY <1>1, SavedMoves, ServerKeeps
<1> DEFINE a == req[n].acc
<1>3. /\ req[n].kind = "delete" /\ accounts' = accounts \ {a}
      /\ contacts' = {r \in contacts : r[1] # a}
      /\ stored' = {r \in stored : r[1] # a}
  BY DEF DeleteSent
<1>4. ContactsOK'
  <2> SUFFICES ASSUME NEW r \in contacts' PROVE r[1] \in accounts' /\ Uploaded(r[1], r[2])'
    BY DEF ContactsOK
  <2>1. r[1] \in accounts' /\ r[1] \in DOMAIN req /\ Uploaded(r[1], r[2])
    BY <1>1, <1>3 DEF IInv, ContactsOK, KnownAccounts, Of
  <2> QED BY <1>2, <2>1, KeepsUploaded
<1>5. StoredOK'
  <2> SUFFICES ASSUME NEW r \in stored' PROVE r[1] \in accounts' /\ Uploaded(r[1], r[2])'
    BY DEF StoredOK
  <2>1. r[1] \in accounts' /\ r[1] \in DOMAIN req /\ Uploaded(r[1], r[2])
    BY <1>1, <1>3 DEF IInv, StoredOK, KnownAccounts, Of
  <2> QED BY <1>2, <2>1, KeepsUploaded
<1>6. SavesOK'
  <2>1. ASSUME NEW m \in DOMAIN req
        PROVE  /\ (req[m].kind = "store" /\ req[m].sv = "received" => Uploaded(req[m].acc, req[m].by))'
               /\ (req[m].kind = "store" /\ req[m].sv = "saved" =>
                     <<req[m].acc, req[m].by, m>> \in stored \/ Deleted(req[m].acc))'
               /\ (req[m].kind = "register" /\ req[m].sv = "saved" => m \in accounts \/ Deleted(m))'
    <3>1. CASE m = n
      BY <1>2, <1>3, <3>1 DEF ServerMoves
    <3>2. CASE m # n
      <4>1. req'[m] = req[m] /\ req[m].acc \in DOMAIN req
        BY <1>1, <1>2, <3>2, ShapeReq
      <4>2. Uploaded(req[m].acc, req[m].by) => Uploaded(req[m].acc, req[m].by)'
        BY <1>2, <4>1, KeepsUploaded
      <4>3. Deleted(req[m].acc) \/ req[m].acc = a => Deleted(req[m].acc)'
        BY <1>2, <1>3, <4>1 DEF Deleted, Keeps, ServerMoves
      <4>4. Deleted(m) \/ m = a => Deleted(m)'
        BY <1>2, <1>3 DEF Deleted, Keeps, ServerMoves
      <4> QED BY <1>1, <1>3, <4>1, <4>2, <4>3, <4>4 DEF SavesOK
    <3> QED BY <3>1, <3>2
  <2> QED BY <1>2, <2>1 DEF SavesOK, ServerMoves
<1>7. \A x \in accounts' : Of(x, "register") /\ req'[x].sv = "saved"
  BY <1>1, <1>2, <1>3 DEF KnownAccounts, Of
<1>8. KeepsAccount'
  <2> SUFFICES ASSUME NEW c \in Clients, opt[c] # NoAccount
               PROVE  \/ opt[c] \in accounts'
                      \/ req'[opt[c]].sv = "answered"
                      \/ \E m \in DOMAIN req' : /\ req'[m].kind = "delete" /\ req'[m].acc = opt[c]
                                                /\ req'[m].sv = "saved" /\ req'[m].cl # "done"
    BY <1>2 DEF KeepsAccount, ServerMoves, Of
  <2>1. CASE opt[c] = a
    <3>1. req[n].cl # "done"
      BY <1>1, <1>2 DEF KnownAccounts, Done
    <3> QED BY <1>2, <1>3, <2>1, <3>1 DEF ServerMoves
  <2>2. CASE opt[c] # a
    BY <1>1, <1>2, <1>3, <2>2 DEF KeepsAccount, KnownAccounts, Owned, ServerMoves, Of
  <2> QED BY <2>1, <2>2
<1>9. OrphansExplained'
  BY <1>1, <1>2, <1>3 DEF IInv, OrphansExplained, ServerMoves, Of, KnownAccounts
<1>10. Gone'
  BY <1>1, <1>2, <1>3 DEF IInv, Gone, ServerMoves, KnownAccounts
<1> QED BY <1>4, <1>5, <1>6, <1>7, <1>8, <1>9, <1>10, CommitInv
-----------------------------------------------------------------------------
(* Steps of the operator *)

LEMMA KeyGenInv == ASSUME IInv, NEW k \in Keys, NEW n \in 1..MaxUses, KeyGen(k, n) PROVE IInv'
<1>1. Shape /\ KnownAccounts /\ Counted
  BY DEF IInv
<1>2. UNCHANGED <<accounts, contacts, stored, opt, req, granted, localRm, overlapped>> /\ k \notin DOMAIN given
  BY DEF KeyGen, history
<1>3. /\ DOMAIN given' = DOMAIN given \cup {k} /\ DOMAIN uses' = DOMAIN given'
      /\ given'[k] = n /\ uses'[k] = n
      /\ \A j \in DOMAIN given : given'[j] = given[j] /\ uses'[j] = uses[j]
      /\ given' \in [DOMAIN given' -> 1..MaxUses] /\ uses' \in [DOMAIN given' -> 0..MaxUses]
  BY <1>1, <1>2, BoundsAssumption DEF KeyGen, With, Shape
<1>4. Shape' /\ Keeps
  BY <1>1, <1>2, <1>3 DEF KeyGen, Shape, Keeps
<1>5. KnownAccounts'
  BY <1>1, <1>2, <1>3 DEF KnownAccounts, Done, Told, Owned, Of
<1>6. Counted'
  <2>1. \A j : Spent(j)' = Spent(j)
    BY <1>2 DEF Spent
  <2>2. Spent(k) = {}
    BY <1>1, <1>2 DEF Spent, KnownAccounts, Told
  <2>3. Cardinality(Spent(k)) = 0
    BY <2>2, FS_EmptySet
  <2> QED BY <1>1, <1>3, <2>1, <2>3 DEF Counted
<1>7. ContactsOK' /\ StoredOK' /\ SavesOK' /\ Gone' /\ KeepsAccount' /\ OneOpen' /\ OrphansExplained'
  BY <1>2 DEF IInv, ContactsOK, StoredOK, SavesOK, Gone, Uploaded, Deleted, KeepsAccount, OneOpen,
              OrphansExplained, Of, Waiting, AboutAccount
<1> QED BY <1>4, <1>5, <1>6, <1>7 DEF IInv

LEMMA KeyDelInv == ASSUME IInv, NEW k \in Keys, KeyDel(k) PROVE IInv'
<1>1. UNCHANGED <<given, uses, accounts, contacts, stored, opt, req, granted, localRm, overlapped>>
      /\ deleted' = deleted \cup {k} /\ k \in DOMAIN given
  BY DEF KeyDel, history
<1>2. Shape' /\ KnownAccounts' /\ Counted'
  BY <1>1 DEF IInv, Shape, KnownAccounts, Done, Told, Owned, Of, Counted, Spent
<1>3. ContactsOK' /\ StoredOK' /\ SavesOK' /\ Gone' /\ KeepsAccount' /\ OneOpen' /\ OrphansExplained'
  BY <1>1 DEF IInv, ContactsOK, StoredOK, SavesOK, Gone, Uploaded, Deleted, KeepsAccount, OneOpen,
              OrphansExplained, Of, Waiting, AboutAccount
<1> QED BY <1>2, <1>3 DEF IInv
-----------------------------------------------------------------------------
(* Steps of the clients *)

\* A new request about an account its client, or the account's owner, was told of.
LEMMA RequestInv ==
  ASSUME IInv, NEW n \in Requests, NEW c \in Clients, NEW kind \in Kinds,
         NEW acc, NEW key \in Keys \cup {"none"}, NEW list \in SUBSET Clients,
         Request(n, c, kind, acc, key, list),
         kind = "register" => acc = n /\ key \in DOMAIN given /\ opt[c] = NoAccount,
         kind # "register" => Owned(acc, req[acc].by),
         kind \in {"delete", "contacts"} => req[acc].by = c,
         kind = "delete" => opt[c] = acc
  PROVE  IInv'
<1> DEFINE new == [kind |-> kind, by |-> c, acc |-> acc, key |-> key, list |-> list,
                   cl |-> "waiting", sv |-> "none"]
<1>1. Shape /\ KnownAccounts /\ Counted
  BY DEF IInv
<1>2. /\ n \notin DOMAIN req /\ DOMAIN req' = DOMAIN req \cup {n} /\ req'[n] = new
      /\ \A m \in DOMAIN req : req'[m] = req[m]
      /\ req' = [m \in DOMAIN req' |-> req'[m]]
  BY DEF Request, With
<1>3. UNCHANGED <<given, uses, deleted, accounts, contacts, stored, opt, granted, localRm>>
      /\ overlapped \subseteq overlapped'
  BY DEF Request, database
<1>4. acc \in DOMAIN req'
  BY <1>2 DEF Owned, Kinds
<1>5. Shape' /\ Keeps
  <2>1. \A m \in DOMAIN req' :
          req'[m] \in [kind : Kinds, by : Clients, acc : DOMAIN req', key : Keys \cup {"none"},
                       list : SUBSET Clients, cl : {"waiting", "done", "failed"}, sv : Fates]
    <3> SUFFICES ASSUME NEW m \in DOMAIN req'
                 PROVE  req'[m] \in [kind : Kinds, by : Clients, acc : DOMAIN req', key : Keys \cup {"none"},
                       list : SUBSET Clients, cl : {"waiting", "done", "failed"}, sv : Fates]
      OBVIOUS
    <3>1. CASE m = n
      BY <1>2, <1>4, <3>1 DEF Fates
    <3>2. CASE m # n
      <4>1. m \in DOMAIN req /\ req'[m] = req[m]
        BY <1>2, <3>2
      <4>2. req[m] \in [kind : Kinds, by : Clients, acc : DOMAIN req, key : Keys \cup {"none"},
                        list : SUBSET Clients, cl : {"waiting", "done", "failed"}, sv : Fates]
        BY <1>1, <4>1 DEF Shape
      <4> QED BY <1>2, <4>1, <4>2
    <3> QED BY <3>1, <3>2
  <2>2. Keeps
    BY <1>2 DEF Keeps
  <2>3. req' \in [DOMAIN req' -> [kind : Kinds, by : Clients, acc : DOMAIN req', key : Keys \cup {"none"},
                       list : SUBSET Clients, cl : {"waiting", "done", "failed"}, sv : Fates]]
    BY <1>2, <2>1
  <2> QED BY <1>1, <1>2, <1>3, <2>2, <2>3 DEF Shape
<1>6. KnownAccounts'
  <2>1. (\A m \in DOMAIN req : Done(m) /\ Told(m))'
    <3> SUFFICES ASSUME NEW m \in DOMAIN req' PROVE Done(m)' /\ Told(m)'
      OBVIOUS
    <3>1. CASE m = n
      <4>1. kind # "register" => Owned(acc, req[acc].by)' /\ acc \in DOMAIN req
        BY <1>2 DEF Owned
      <4> QED BY <1>2, <1>3, <3>1, <4>1 DEF Done, Told
    <3>2. CASE m # n
      <4>1. m \in DOMAIN req /\ req'[m] = req[m] /\ Done(m) /\ Told(m)
        BY <1>1, <1>2, <3>2 DEF KnownAccounts
      <4>2. Told(m)'
        BY <1>1, <1>3, <1>5, <4>1, KeepsTold
      <4> QED BY <4>1, <4>2 DEF Done
    <3> QED BY <3>1, <3>2
  <2>2. (\A d \in Clients : opt[d] # NoAccount => Owned(opt[d], d))'
    BY <1>1, <1>2, <1>3 DEF KnownAccounts, Owned
  <2>3. (\A m \in granted : Owned(m, req[m].by))'
    BY <1>1, <1>2, <1>3 DEF KnownAccounts, Owned
  <2>4. (\A m \in accounts : Of(m, "register") /\ req[m].sv = "saved")'
    BY <1>1, <1>2, <1>3 DEF KnownAccounts, Of
  <2> QED BY <2>1, <2>2, <2>3, <2>4 DEF KnownAccounts
<1>7. Counted'
  <2>1. \A k : Spent(k)' = Spent(k)
    BY <1>2 DEF Spent
  <2> QED BY <1>1, <1>3, <2>1 DEF Counted
<1>8. ContactsOK' /\ StoredOK'
  BY <1>1, <1>3, <1>5, ContactsKept, StoredKept DEF IInv
<1>9. SavesOK'
  <2> SUFFICES ASSUME NEW m \in DOMAIN req'
               PROVE  /\ (req[m].kind = "store" /\ req[m].sv = "received" => Uploaded(req[m].acc, req[m].by))'
                      /\ (req[m].kind = "store" /\ req[m].sv = "saved" =>
                            <<req[m].acc, req[m].by, m>> \in stored \/ Deleted(req[m].acc))'
                      /\ (req[m].kind = "register" /\ req[m].sv = "saved" => m \in accounts \/ Deleted(m))'
    BY DEF SavesOK
  <2>1. CASE m = n
    BY <1>2, <2>1
  <2>2. CASE m # n
    <3>1. m \in DOMAIN req /\ req'[m] = req[m] /\ req[m].acc \in DOMAIN req
      BY <1>1, <1>2, <2>2, ShapeReq
    <3>2. Uploaded(req[m].acc, req[m].by) => Uploaded(req[m].acc, req[m].by)'
      BY <1>5, <3>1, KeepsUploaded
    <3>3. Deleted(req[m].acc) => Deleted(req[m].acc)'
      BY <1>5, <3>1, KeepsDeleted DEF Deleted, Keeps
    <3>4. Deleted(m) => Deleted(m)'
      BY <1>5, KeepsDeleted
    <3> QED BY <1>3, <3>1, <3>2, <3>3, <3>4 DEF IInv, SavesOK
  <2> QED BY <2>1, <2>2
<1>10. KeepsAccount'
  BY <1>1, <1>2, <1>3 DEF IInv, KeepsAccount, KnownAccounts, Owned, Of
<1>11. OneOpen'
  <2> SUFFICES ASSUME NEW d \in Clients \ overlapped', NEW m \in DOMAIN req',
                      (req[m].by = d /\ Waiting(m) /\ AboutAccount(m))'
               PROVE  /\ (\A l \in DOMAIN req : (req[l].by = d /\ Waiting(l) /\ AboutAccount(l)) => l = m)'
                      /\ (req[m].kind = "register" => opt[d] = NoAccount)'
                      /\ (req[m].kind = "delete" => opt[d] = req[m].acc \/ d \in localRm)'
    BY DEF OneOpen
  <2>1. CASE d = c /\ kind \in {"register", "delete"}
    <3>1. ~ \E l \in DOMAIN req : req[l].by = c /\ Waiting(l) /\ AboutAccount(l)
      BY <2>1 DEF Request
    <3>2. m = n
      BY <1>2, <2>1, <3>1 DEF Waiting, AboutAccount
    <3> QED BY <1>2, <1>3, <2>1, <3>1, <3>2 DEF Waiting, AboutAccount
  <2>2. CASE ~(d = c /\ kind \in {"register", "delete"})
    <3>1. m # n /\ \A l \in DOMAIN req' : (req[l].by = d /\ Waiting(l) /\ AboutAccount(l))' => l # n
      BY <1>2, <2>2 DEF AboutAccount
    <3> QED BY <1>2, <1>3, <3>1 DEF IInv, OneOpen, Waiting, AboutAccount
  <2> QED BY <2>1, <2>2
<1>12. OrphansExplained'
  BY <1>1, <1>2, <1>3 DEF IInv, OrphansExplained, KnownAccounts, Of
<1>13. Gone'
  BY <1>2, <1>3 DEF IInv, Gone
<1> QED BY <1>5, <1>6, <1>7, <1>8, <1>9, <1>10, <1>11, <1>12, <1>13 DEF IInv

LEMMA MbRmLocalInv == ASSUME IInv, NEW c \in Clients, MbRmLocal(c) PROVE IInv'
<1>1. UNCHANGED <<given, uses, deleted, accounts, contacts, stored, req, granted, overlapped>>
      /\ localRm' = localRm \cup {c} /\ opt' = [opt EXCEPT ![c] = NoAccount]
  BY DEF MbRmLocal, database
<1>2. /\ \A d \in Clients : opt'[d] = IF d = c THEN NoAccount ELSE opt[d]
      /\ opt' \in [Clients -> DOMAIN req \cup {NoAccount}]
  BY <1>1 DEF IInv, Shape
<1>3. Shape' /\ KnownAccounts' /\ Counted'
  BY <1>1, <1>2 DEF IInv, Shape, KnownAccounts, Done, Told, Owned, Of, Counted, Spent
<1>4. ContactsOK' /\ StoredOK' /\ SavesOK' /\ Gone'
  BY <1>1 DEF IInv, ContactsOK, StoredOK, SavesOK, Gone, Uploaded, Deleted
<1>5. KeepsAccount' /\ OneOpen'
  BY <1>1, <1>2 DEF IInv, KeepsAccount, OneOpen, Of, Waiting, AboutAccount
<1>6. OrphansExplained'
  BY <1>1, <1>2 DEF IInv, OrphansExplained, KnownAccounts, Of, Shape
<1> QED BY <1>3, <1>4, <1>5, <1>6 DEF IInv

\* Only the client's side of request n changes.
LEMMA ClientMoves ==
  ASSUME IInv, NEW n \in DOMAIN req, Waiting(n), NEW x \in {"done", "failed"},
         x = "done" => req[n].sv \in {"saved", "answered"},
         req' = [req EXCEPT ![n].cl = x],
         UNCHANGED <<given, uses, deleted, accounts, contacts, stored>>,
         opt' \in [Clients -> DOMAIN req \cup {NoAccount}]
  PROVE  /\ Shape' /\ Keeps /\ Counted' /\ ContactsOK' /\ StoredOK' /\ SavesOK' /\ Gone'
         /\ DOMAIN req' = DOMAIN req /\ req'[n].cl = x
         /\ \A m \in DOMAIN req : /\ req'[m].kind = req[m].kind /\ req'[m].by = req[m].by
                                  /\ req'[m].acc = req[m].acc /\ req'[m].sv = req[m].sv
                                  /\ m # n => req'[m] = req[m]
         /\ \A m \in DOMAIN req : Done(m)' /\ Told(m)'
         /\ (\A a \in accounts : Of(a, "register") /\ req[a].sv = "saved")'
<1>1. Shape /\ KnownAccounts /\ Counted
  BY DEF IInv
<1>2. /\ DOMAIN req' = DOMAIN req /\ req'[n].cl = x
      /\ \A m \in DOMAIN req : /\ req'[m].kind = req[m].kind /\ req'[m].by = req[m].by
                               /\ req'[m].acc = req[m].acc /\ req'[m].sv = req[m].sv
                               /\ req'[m].key = req[m].key /\ req'[m].list = req[m].list
                               /\ m # n => req'[m] = req[m]
  BY <1>1 DEF Shape
<1>3. Keeps
  BY <1>2 DEF Keeps, Waiting
<1>4. Shape'
  <2>1. req' \in [DOMAIN req -> [kind : Kinds, by : Clients, acc : DOMAIN req, key : Keys \cup {"none"},
                       list : SUBSET Clients, cl : {"waiting", "done", "failed"}, sv : Fates]]
    BY <1>1 DEF Shape
  <2> QED BY <1>1, <1>2, <2>1 DEF Shape
<1>5. Counted'
  <2>1. \A k : Spent(k)' = Spent(k)
    BY <1>2 DEF Spent
  <2> QED BY <1>1, <2>1 DEF Counted
<1>6. ContactsOK' /\ StoredOK'
  BY <1>1, <1>3, ContactsKept, StoredKept DEF IInv
<1>7. SavesOK'
  <2> SUFFICES ASSUME NEW m \in DOMAIN req
               PROVE  /\ (req[m].kind = "store" /\ req[m].sv = "received" => Uploaded(req[m].acc, req[m].by))'
                      /\ (req[m].kind = "store" /\ req[m].sv = "saved" =>
                            <<req[m].acc, req[m].by, m>> \in stored \/ Deleted(req[m].acc))'
                      /\ (req[m].kind = "register" /\ req[m].sv = "saved" => m \in accounts \/ Deleted(m))'
    BY <1>2 DEF SavesOK
  <2>1. req[m].acc \in DOMAIN req
    BY <1>1, ShapeReq
  <2>2. Uploaded(req[m].acc, req[m].by) => Uploaded(req[m].acc, req[m].by)'
    BY <1>2, <1>3, <2>1, KeepsUploaded
  <2>3. Deleted(req[m].acc) => Deleted(req[m].acc)'
    BY <1>2, <1>3, <2>1, KeepsDeleted DEF Deleted, Keeps
  <2>4. Deleted(m) => Deleted(m)'
    BY <1>3, KeepsDeleted
  <2> QED BY <1>2, <2>1, <2>2, <2>3, <2>4 DEF IInv, SavesOK
<1>8. \A m \in DOMAIN req : Done(m)' /\ Told(m)'
  <2> TAKE m \in DOMAIN req
  <2>1. Done(m) /\ Told(m)
    BY <1>1 DEF KnownAccounts
  <2>2. Done(m)'
    BY <1>2, <2>1 DEF Done
  <2> QED BY <1>1, <1>3, <2>1, <2>2, KeepsTold
<1>9. (\A a \in accounts : Of(a, "register") /\ req[a].sv = "saved")'
  BY <1>1, <1>2 DEF KnownAccounts, Of
<1>10. Gone'
  BY <1>2 DEF IInv, Gone
<1> QED BY <1>2, <1>3, <1>4, <1>5, <1>6, <1>7, <1>8, <1>9, <1>10

LEMMA ClientFailsInv == ASSUME IInv, NEW n \in DOMAIN req, ClientFails(n) PROVE IInv'
<1>1. Shape /\ KnownAccounts
  BY DEF IInv
<1>2. UNCHANGED <<given, uses, deleted, accounts, contacts, stored, opt, granted, localRm, overlapped>>
  BY DEF ClientFails, database, history
<1>3. /\ Shape' /\ Keeps /\ Counted' /\ ContactsOK' /\ StoredOK' /\ SavesOK' /\ Gone'
      /\ DOMAIN req' = DOMAIN req /\ req'[n].cl = "failed"
      /\ \A m \in DOMAIN req : /\ req'[m].kind = req[m].kind /\ req'[m].by = req[m].by
                               /\ req'[m].acc = req[m].acc /\ req'[m].sv = req[m].sv
                               /\ m # n => req'[m] = req[m]
      /\ \A m \in DOMAIN req : Done(m)' /\ Told(m)'
      /\ (\A a \in accounts : Of(a, "register") /\ req[a].sv = "saved")'
  BY <1>1, <1>2, ClientMoves DEF ClientFails, Shape
<1>4. req[n].cl = "waiting"
  BY DEF ClientFails, Waiting
<1>5. KnownAccounts'
  BY <1>1, <1>2, <1>3, <1>4 DEF KnownAccounts, Owned
<1>6. KeepsAccount'
  BY <1>1, <1>2, <1>3, <1>4 DEF IInv, KeepsAccount, KnownAccounts, Owned, Of
<1>7. OneOpen'
  BY <1>1, <1>2, <1>3, <1>4 DEF IInv, OneOpen, Waiting, AboutAccount
<1>8. OrphansExplained'
  BY <1>1, <1>2, <1>3, <1>4 DEF IInv, OrphansExplained, Of, KnownAccounts
<1> QED BY <1>3, <1>5, <1>6, <1>7, <1>8 DEF IInv

\* An answer that arrives: the options name the account registered, or none, or stay.
LEMMA AnswerReceivedInv == ASSUME IInv, NEW n \in DOMAIN req, AnswerReceived(n) PROVE IInv'
<1> DEFINE c == req[n].by
<1>1. /\ Shape /\ KnownAccounts /\ KeepsAccount /\ OneOpen /\ OrphansExplained
      /\ c \in Clients /\ req[n].kind \in Kinds /\ req[n].cl = "waiting"
  BY ShapeReq DEF IInv, AnswerReceived, Waiting, AboutAccount
<1>2. /\ UNCHANGED <<given, uses, deleted, accounts, contacts, stored, localRm, overlapped>>
      /\ req[n].sv \in {"saved", "answered"} /\ req' = [req EXCEPT ![n].cl = "done"]
  BY DEF AnswerReceived, database
<1>3. /\ opt' \in [Clients -> DOMAIN req \cup {NoAccount}]
      /\ \A d \in Clients : d # c => opt'[d] = opt[d]
      /\ req[n].kind = "register" => opt'[c] = n
      /\ req[n].kind = "delete" => opt'[c] = NoAccount
      /\ req[n].kind \notin {"register", "delete"} => opt'[c] = opt[c]
  BY <1>1 DEF AnswerReceived, SetOption, Shape
<1>4. /\ Shape' /\ Keeps /\ Counted' /\ ContactsOK' /\ StoredOK' /\ SavesOK' /\ Gone'
      /\ DOMAIN req' = DOMAIN req /\ req'[n].cl = "done"
      /\ \A m \in DOMAIN req : /\ req'[m].kind = req[m].kind /\ req'[m].by = req[m].by
                               /\ req'[m].acc = req[m].acc /\ req'[m].sv = req[m].sv
                               /\ m # n => req'[m] = req[m]
      /\ \A m \in DOMAIN req : Done(m)' /\ Told(m)'
      /\ (\A a \in accounts : Of(a, "register") /\ req[a].sv = "saved")'
  BY <1>2, <1>3, ClientMoves DEF AnswerReceived
<1>5. KnownAccounts'
  <2>1. (\A d \in Clients : opt[d] # NoAccount => Owned(opt[d], d))'
    BY <1>1, <1>2, <1>3, <1>4 DEF KnownAccounts, Owned
  <2>2. (\A m \in granted : Owned(m, req[m].by))'
    BY <1>1, <1>4 DEF AnswerReceived, KnownAccounts, Owned
  <2> QED BY <1>4, <2>1, <2>2 DEF KnownAccounts
<1>6. KeepsAccount'
  <2> SUFFICES ASSUME NEW d \in Clients, opt'[d] # NoAccount
               PROVE  \/ opt'[d] \in accounts
                      \/ req'[opt'[d]].sv = "answered"
                      \/ \E m \in DOMAIN req' : /\ req'[m].kind = "delete" /\ req'[m].acc = opt'[d]
                                                /\ req'[m].sv = "saved" /\ req'[m].cl # "done"
    BY <1>2 DEF KeepsAccount, Of
  <2>1. CASE opt'[d] = opt[d]
    <3>1. Owned(opt[d], d)
      BY <1>1, <2>1 DEF KnownAccounts
    <3>2. CASE \E m \in DOMAIN req : /\ req[m].kind = "delete" /\ req[m].acc = opt[d]
                                     /\ req[m].sv = "saved" /\ req[m].cl # "done"
      <4>1. PICK m \in DOMAIN req : /\ req[m].kind = "delete" /\ req[m].acc = opt[d]
                                     /\ req[m].sv = "saved" /\ req[m].cl # "done"
        BY <3>2
      <4>2. req[m].by = d
        BY <1>1, <3>1, <4>1 DEF KnownAccounts, Told, Owned
      <4>3. m # n
        BY <1>3, <2>1, <4>1, <4>2
      <4> QED BY <1>4, <2>1, <4>1, <4>3
    <3> QED BY <1>1, <1>4, <2>1, <3>1, <3>2 DEF KeepsAccount, Owned, Of
  <2>2. CASE opt'[d] # opt[d]
    <3>1. d = c /\ req[n].kind = "register" /\ opt'[d] = n
      BY <1>3, <2>2
    <3>2. ~Deleted(n)
      BY <1>1 DEF Deleted, KnownAccounts, Told, Owned
    <3> QED BY <1>2, <1>4, <3>1, <3>2 DEF IInv, SavesOK
  <2> QED BY <2>1, <2>2
<1>7. OneOpen'
  <2> SUFFICES ASSUME NEW d \in Clients \ overlapped, NEW m \in DOMAIN req,
                      (req[m].by = d /\ Waiting(m) /\ AboutAccount(m))'
               PROVE  /\ (\A l \in DOMAIN req : (req[l].by = d /\ Waiting(l) /\ AboutAccount(l)) => l = m)'
                      /\ (req[m].kind = "register" => opt[d] = NoAccount)'
                      /\ (req[m].kind = "delete" => opt[d] = req[m].acc \/ d \in localRm)'
    BY <1>2, <1>4 DEF OneOpen
  <2>1. m # n /\ req[m].by = d /\ Waiting(m) /\ AboutAccount(m)
    BY <1>4 DEF Waiting, AboutAccount
  <2>2. c = d => ~AboutAccount(n)
    BY <1>1, <2>1 DEF OneOpen, Waiting
  <2>3. opt'[d] = opt[d]
    BY <1>1, <1>3, <2>2 DEF AboutAccount
  <2> QED BY <1>1, <1>2, <1>4, <2>1, <2>3 DEF OneOpen, Waiting, AboutAccount
<1>8. OrphansExplained'
  <2> SUFFICES ASSUME NEW a \in accounts, req'[a].cl = "done", opt'[req[a].by] # a
               PROVE  \/ req[a].by \in localRm \cup overlapped
                      \/ \E m \in DOMAIN req' : /\ req'[m].kind = "delete" /\ req'[m].acc = a
                                                /\ req'[m].sv = "answered"
    BY <1>1, <1>2, <1>4 DEF OrphansExplained, Of, KnownAccounts
  <2>1. a \in DOMAIN req /\ req[a].kind = "register" /\ req[a].by \in Clients
    BY <1>1, ShapeReq DEF KnownAccounts, Of
  <2>2. CASE a = n
    BY <1>3, <2>1, <2>2
  <2>3. CASE a # n /\ opt[req[a].by] # a
    BY <1>1, <1>4, <2>1, <2>3 DEF OrphansExplained, Of
  <2>4. CASE a # n /\ opt[req[a].by] = a
    <3>1. req[a].by = c /\ AboutAccount(n)
      BY <1>1, <1>3, <2>1, <2>4 DEF AboutAccount
    <3>2. CASE c \in overlapped
      BY <3>1, <3>2
    <3>3. CASE c \notin overlapped
      <4>0. opt[c] = a /\ a # NoAccount
        BY <1>1, <2>1, <2>4, <3>1, NoAccountAssumption DEF Shape
      <4>1. req[n].kind = "register" => opt[c] = NoAccount
        BY <1>1, <3>1, <3>3 DEF OneOpen, Waiting
      <4>2. req[n].kind = "delete" => opt[c] = req[n].acc \/ c \in localRm
        BY <1>1, <3>1, <3>3 DEF OneOpen, Waiting
      <4>3. c \in localRm \/ (req[n].kind = "delete" /\ req[n].acc = a)
        BY <1>1, <3>1, <4>0, <4>1, <4>2 DEF AboutAccount
      <4>4. CASE c \in localRm
        BY <3>1, <4>4
      <4>5. CASE req[n].kind = "delete" /\ req[n].acc = a /\ req[n].sv = "answered"
        BY <1>4, <4>5
      <4>6. CASE req[n].kind = "delete" /\ req[n].acc = a /\ req[n].sv = "saved"
        BY <4>6 DEF IInv, Gone
      <4> QED BY <1>2, <4>3, <4>4, <4>5, <4>6
    <3> QED BY <3>2, <3>3
  <2> QED BY <2>2, <2>3, <2>4
<1> QED BY <1>4, <1>5, <1>6, <1>7, <1>8 DEF IInv
-----------------------------------------------------------------------------
(* The theorems *)

LEMMA InitInv == Init => IInv
<1> SUFFICES ASSUME Init PROVE IInv
  OBVIOUS
<1>1. /\ DOMAIN given = {} /\ DOMAIN req = {} /\ DOMAIN uses = {} /\ uses = [k \in {} |-> 0]
      /\ accounts = {} /\ contacts = {} /\ stored = {} /\ granted = {} /\ deleted = {}
      /\ \A c \in Clients : opt[c] = NoAccount
  BY DEF Init
<1>2. Shape
  BY <1>1 DEF Init, Shape
<1> QED BY <1>1, <1>2 DEF IInv, KnownAccounts, Counted, ContactsOK, StoredOK, SavesOK, Gone,
                         KeepsAccount, OneOpen, OrphansExplained

LEMMA CommandsInv == ASSUME IInv, NEW c \in Clients, NEW n \in Requests,
                            \/ \E k \in Keys : MbReg(c, n, k)
                            \/ MbRm(c, n)
                            \/ \E l \in SUBSET (Clients \ {c}) : MbContacts(c, n, l)
                            \/ \E a \in granted : SendToMailbox(c, n, a)
                     PROVE  IInv'
<1>1. KnownAccounts
  BY DEF IInv
<1>2. ASSUME NEW k \in Keys, MbReg(c, n, k) PROVE IInv'
  BY <1>2, RequestInv DEF MbReg, Kinds
<1>3. CASE MbRm(c, n)
  <2>1. Owned(opt[c], c) /\ req[opt[c]].by = c
    BY <1>1, <1>3 DEF MbRm, KnownAccounts, Owned
  <2> QED BY <1>3, <2>1, RequestInv DEF MbRm, Kinds
<1>4. ASSUME NEW l \in SUBSET (Clients \ {c}), MbContacts(c, n, l) PROVE IInv'
  <2>1. Owned(opt[c], c) /\ req[opt[c]].by = c
    BY <1>1, <1>4 DEF MbContacts, KnownAccounts, Owned
  <2> QED BY <1>4, <2>1, RequestInv DEF MbContacts, Kinds
<1>5. ASSUME NEW a \in granted, SendToMailbox(c, n, a) PROVE IInv'
  BY <1>1, <1>5, RequestInv DEF SendToMailbox, Kinds, KnownAccounts
<1> QED BY <1>2, <1>3, <1>4, <1>5

LEMMA AnswerSentInv == ASSUME IInv, NEW n \in DOMAIN req, AnswerSent(n) PROVE IInv'
  BY GrantedSentInv, DeleteSentInv, ContactsSentInv, StoreSentInv DEF AnswerSent

LEMMA NextInv == IInv /\ [Next]_vars => IInv'
<1> SUFFICES ASSUME IInv, [Next]_vars PROVE IInv'
  OBVIOUS
<1>1. CASE Operator
  BY <1>1, KeyDelInv, KeyGenInv DEF Operator
<1>2. CASE Commands
  BY <1>2, CommandsInv, MbRmLocalInv DEF Commands
<1>3. CASE Server
  <2>1. ASSUME NEW n \in DOMAIN req, CrashOnInsert(n) \/ ServerDies(n) PROVE IInv'
    BY <2>1, DiesInv DEF CrashOnInsert, ServerDies
  <2> QED BY <1>3, <2>1, ReceiveInv, RefuseInv, AnswerSentInv, ServerDropsInv DEF Server
<1>4. CASE Answers
  BY <1>4, AnswerReceivedInv, ClientFailsInv DEF Answers
<1>5. CASE UNCHANGED vars
  BY <1>5 DEF vars, database, history, IInv, Shape, KnownAccounts, Done, Told, Owned, Of, Counted, Spent,
              ContactsOK, StoredOK, SavesOK, Gone, Uploaded, Deleted, KeepsAccount, OneOpen,
              OrphansExplained, Waiting, AboutAccount
<1> QED BY <1>1, <1>2, <1>3, <1>4, <1>5 DEF Next

\* Every reachable state of clients and mailbox satisfies the inductive invariant.
THEOREM Invariant == Spec => []IInv
  BY InitInv, NextInv, PTL DEF Spec

\* The uses an operator gave an access key are left or were spent, each on one
\* registration, whatever requests overlap, are lost, or die with the server
\* (prot_mb_acc_register.c:81).
THEOREM UsesAlwaysConserved == Spec => []UsesConserved
<1>1. IInv => UsesConserved
  <2> SUFFICES ASSUME IInv, NEW k \in DOMAIN given
               PROVE  /\ uses[k] + Cardinality(Spent(k)) = given[k]
                      /\ {n \in accounts : req[n].key = k} \subseteq Spent(k)
    BY DEF UsesConserved
  <2>1. uses[k] + Cardinality(Spent(k)) = given[k]
    BY DEF IInv, Counted
  <2>2. {n \in accounts : req[n].key = k} \subseteq Spent(k)
    BY DEF IInv, KnownAccounts, Of, Spent
  <2> QED BY <2>1, <2>2
<1> QED BY <1>1, Invariant, PTL

\* What a mailbox holds comes from senders its owner uploaded (prot_message.c:340,
\* prot_mb_set_contacts.c:68).
THEOREM OnlyUploadedStored == Spec => []OnlyUploaded
<1>1. IInv => OnlyUploaded
  BY DEF IInv, OnlyUploaded, StoredOK, Uploaded, Of
<1> QED BY <1>1, Invariant, PTL

\* A message whose ACK arrived is stored, but for a deletion of the account or a
\* death of the server (prot_message.c:127).
THEOREM AcknowledgedStored == Spec => []AckMeansStored
<1>1. IInv => AckMeansStored
  BY DEF IInv, AckMeansStored, SavesOK, KnownAccounts, Done, Deleted, Of
<1> QED BY <1>1, Invariant, PTL

\* A client that believes it has an account has one, but for an ACK of a deletion
\* that is lost and a death of the server (app_ui_handle_cmd.c:77).
THEOREM AccountsKept == Spec => []KeepsAccount
<1>1. IInv => KeepsAccount
  BY DEF IInv
<1> QED BY <1>1, Invariant, PTL

\* An account its client was told of and no longer uses comes from mbrmlocal, from two
\* commands at once, or from a death of the server (app_ui_handle_cmd.c:178).
THEOREM OrphansAlwaysExplained == Spec => []OrphansExplained
<1>1. IInv => OrphansExplained
  BY DEF IInv
<1> QED BY <1>1, Invariant, PTL
=============================================================================
