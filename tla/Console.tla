------------------------------- MODULE Console -------------------------------
(***************************************************************************)
(* What the user of the client selects and sees while the network changes  *)
(* the contacts below it: the menu of friends, the prompt and the selected *)
(* contact (app_ui.c, ui_menu.c, ui_manager.c, app_ui_handle_msg.c,        *)
(* app_ui_handle_cmd.c), and the hooks that read the contacts again        *)
(* (app_actions.c).  The lines of the chat are left out.                   *)
(*                                                                         *)
(* The application is one thread: keys, signals and hooks are callbacks of *)
(* one event loop and each is one action.  The keys that only scroll or    *)
(* edit text are in TextWidgets.                                           *)
(***************************************************************************)
EXTENDS Naturals, Sequences, FiniteSets, SequencesExt

CONSTANTS MaxRows,   \* bound: contacts in the database
          Heights,   \* bound: the sizes the window of the menu can be given
          Conns      \* bound: the connections that hold a contact at the same time

ASSUME MaxRowsAssumption == MaxRows \in Nat
ASSUME HeightsAssumption == Heights \subseteq Nat \ {0}

Row == [active : BOOLEAN, deleted : BOOLEAN]
Copy == [kind : {"message", "request"}, id : 1..MaxRows, active : BOOLEAN, deleted : BOOLEAN]
Nothing == [kind |-> "nothing"]
Windows == 0..3
Info == 0  Prompt == 2  Menu == 3

VARIABLES
  rows,      \* the table client_contacts, in order of id
  contacts,  \* app->contacts, the rows as they were when they were last read
  cursor,    \* the item of the menu under the cursor
  start,     \* display_start, the first item that is drawn
  height,    \* the rows of the window of the menu
  focus,     \* the selected window
  prompt,    \* the prompt in the prompt window, and with it the log above it
  sel,       \* app->cont_selected, an index of contacts, 0 for NULL
  held,      \* the contact each connection has read and will save later, or Nothing
  alive,     \* "yes", or the function that read through a NULL cont_selected
  meant,     \* history: the row of the item that was pressed, 0 for the console
  missed,    \* history: rows whose friendship a stale copy changed, contacts not read since
  reloaded   \* history: the contacts were read since an item was pressed

menu == <<contacts, cursor, start, sel, meant, missed, reloaded>>
keys == <<height, focus, prompt>>
vars == <<rows, menu, keys, held, alive>>
-----------------------------------------------------------------------------
Friend(r) == r.active /\ ~r.deleted
Friends(table) == {i \in DOMAIN table : Friend(table[i])}

\* The rows behind the items of the menu: item 0 is the console, item n the n-th friend.
Items(table) == [n \in 1..Cardinality(Friends(table)) |->
                   CHOOSE i \in Friends(table) : Cardinality({j \in Friends(table) : j <= i}) = n]
NItems == 1 + Cardinality(Friends(contacts))

\* Mutation: the selection survives.
UpdateContactsKeeps ==
  /\ contacts' = rows'
  /\ cursor' = 0 /\ start' = 0
  /\ missed' = {} /\ reloaded' = TRUE
  /\ UNCHANGED <<sel, meant>>
\* app_update_contacts reads the contacts again and builds a new menu.
UpdateContacts ==
  /\ contacts' = rows'
  /\ cursor' = 0 /\ start' = 0
  /\ sel' = 0 /\ meant' = 0
  /\ missed' = {} /\ reloaded' = TRUE

\* Mutation: the cursor may be below the window.
FixedTop(n, top, c, h) ==
  IF top > 0 /\ n - top < h THEN 0 ELSE top
\* Where ui_menu_draw_cb puts the first item, with n items and the cursor at c.
Fixed(n, top, c, h) ==
  LET t == IF top > 0 /\ n - top < h THEN 0 ELSE top
  IN  IF c - t > h - 1 THEN c - (h - 1) ELSE t

Drawn(c, top) == /\ cursor' = c
                 /\ start' = Fixed(NItems, top, c, height)

\* Connection k reads contact i and will save it with these fields.
Hold(k, kind, i, active, deleted) ==
  /\ held[k] = Nothing
  /\ held' = [held EXCEPT ![k] = [kind |-> kind, id |-> i, active |-> active, deleted |-> deleted]]
Release(k) == held' = [held EXCEPT ![k] = Nothing]

\* The whole row is written, as it was read (db_contact_save).
WriteBack(c) == rows' = [rows EXCEPT ![c.id] = [active |-> c.active, deleted |-> c.deleted]]

\* The contacts are not read again after copy c was saved.
Unseen(c) ==
  /\ missed' = IF Friend(c) <=> Friend(rows[c.id]) THEN missed ELSE missed \cup {c.id}
  /\ UNCHANGED <<contacts, cursor, start, sel, meant, reloaded>>

-----------------------------------------------------------------------------
Init ==
  /\ rows \in BoundedSeq(Row, MaxRows)   \* saved by earlier sessions
  /\ contacts = rows
  /\ cursor = 0 /\ start = 0
  /\ height \in Heights
  /\ focus = Info /\ prompt = "cmd"
  /\ sel = 0
  /\ held = [k \in Conns |-> Nothing] /\ alive = "yes"
  /\ meant = 0 /\ missed = {} /\ reloaded = TRUE
-----------------------------------------------------------------------------
(* Keys *)

Tab == /\ focus' = (focus + 1) % 4
       /\ start' = IF focus = Menu \/ focus' = Menu THEN Fixed(NItems, start, cursor, height)
                                                    ELSE start
       /\ UNCHANGED <<rows, contacts, cursor, sel, meant, missed, reloaded,
                      height, prompt, held, alive>>

Resize(h) == /\ height' = h
             /\ start' = Fixed(NItems, start, cursor, h)
             /\ UNCHANGED <<rows, contacts, cursor, sel, meant, missed, reloaded,
                            focus, prompt, held, alive>>

KeyUp == /\ focus = Menu /\ cursor > 0
         /\ Drawn(cursor - 1, IF start > cursor - 1 THEN start - 1 ELSE start)
         /\ UNCHANGED <<rows, contacts, sel, meant, missed, reloaded, keys, held, alive>>

KeyDown == /\ focus = Menu /\ cursor < NItems - 1
           /\ Drawn(cursor + 1, IF start + height <= cursor + 1 THEN start + 1 ELSE start)
           /\ UNCHANGED <<rows, contacts, sel, meant, missed, reloaded, keys, held, alive>>

\* Mutation: the console is selected and the contact kept.
ShellSelectKeeps ==
  /\ focus = Menu /\ cursor = 0
  /\ prompt' = "cmd" /\ reloaded' = FALSE
  /\ start' = Fixed(NItems, start, cursor, height)
  /\ UNCHANGED <<rows, contacts, cursor, sel, meant, missed, height, focus, held, alive>>
\* Enter on the console.
ShellSelect ==
  /\ focus = Menu /\ cursor = 0
  /\ sel' = 0 /\ meant' = 0
  /\ prompt' = "cmd" /\ reloaded' = FALSE
  /\ start' = Fixed(NItems, start, cursor, height)
  /\ UNCHANGED <<rows, contacts, cursor, missed, height, focus, held, alive>>

\* Mutation: the index of the item, and not the one before, is the contact.
SelectedNext == cursor + 1
\* The contact of the item under the cursor, an index of the array from 1.
Selected == cursor

\* Enter on a contact: the index of the item serves as an index of all contacts.
ContactSelect ==
  /\ focus = Menu /\ cursor > 0
  /\ sel' = Selected /\ meant' = Items(contacts)[cursor]
  /\ prompt' = "chat" /\ reloaded' = FALSE
  /\ start' = Fixed(NItems, start, cursor, height)
  /\ UNCHANGED <<rows, contacts, cursor, missed, height, focus, held, alive>>

\* Enter in the prompt of the chat writes a message to the selected contact.
HandleMsg ==
  /\ focus = Prompt /\ prompt = "chat"
  /\ alive' = IF sel = 0 THEN "app_ui_handle_msg" ELSE alive
  /\ UNCHANGED <<rows, menu, keys, held>>

Command == focus = Prompt /\ prompt = "cmd"

\* friendrm: the contacts are read again if a friend is removed.
FriendRm(i) ==
  /\ Command /\ ~rows[i].deleted
  /\ rows' = [rows EXCEPT ![i].deleted = TRUE]
  /\ IF rows[i].active THEN UpdateContacts ELSE UNCHANGED menu
  /\ UNCHANGED <<keys, held, alive>>

\* friendadd for a known contact restores it if it was removed, and answers its request
\* if it waits for one: the contact is then in memory as the friend it will become.
FriendAdd(i) ==
  /\ Command
  /\ rows' = [rows EXCEPT ![i].deleted = FALSE]
  /\ IF rows[i].active /\ rows[i].deleted THEN UpdateContacts ELSE UNCHANGED menu
  /\ \/ UNCHANGED held
     \/ ~rows[i].active /\ \E k \in Conns : Hold(k, "request", i, TRUE, FALSE)
  /\ UNCHANGED <<keys, alive>>
-----------------------------------------------------------------------------
(* Friend requests *)

\* A request to or from somebody new is saved.
NewContact ==
  /\ Len(rows) < MaxRows
  /\ rows' = Append(rows, [active |-> FALSE, deleted |-> FALSE])
  /\ UNCHANGED <<menu, keys, held, alive>>

\* A request of a known contact is accepted and answered.  One the user has asked
\* becomes a friend; one who asks again stays as it was read.
RequestReceived(k, i) ==
  /\ \E becomes \in {rows[i].active, TRUE} : Hold(k, "request", i, becomes, rows[i].deleted)
  /\ UNCHANGED <<rows, menu, keys, alive>>

\* Mutation: the contacts are not read again.
RequestSavedUnseen(k) ==
  /\ held[k].kind = "request" /\ Release(k) /\ WriteBack(held[k])
  /\ UNCHANGED <<contacts, cursor, start, sel, meant, missed, reloaded, keys, alive>>
\* The answer has left, or the answer to the user's own request has come: the contact is
\* saved.  The contacts are read again if it was saved as a friend (hook_friend_req,
\* command_friendadd_hook_cb).
RequestSaved(k) ==
  /\ held[k].kind = "request" /\ Release(k) /\ WriteBack(held[k])
  /\ IF Friend(held[k]) THEN UpdateContacts ELSE Unseen(held[k])
  /\ UNCHANGED <<keys, alive>>
-----------------------------------------------------------------------------
(* Messages *)

\* A message of a friend is accepted and answered: its contact is in memory.
MessageHandled(k, i) ==
  /\ Friend(rows[i]) /\ Hold(k, "message", i, TRUE, FALSE)
  /\ UNCHANGED <<rows, menu, keys, alive>>

\* The connection is lost before the contact is saved, or its object was freed.
Dropped(k) == held[k] # Nothing /\ Release(k) /\ UNCHANGED <<rows, menu, keys, alive>>

\* The answer has left: message and contact are saved, the contact as it was read.
\* If the message changed the nickname the contacts are read again (hook_message).
MessageSaved(k, nick) ==
  /\ held[k].kind = "message" /\ Release(k) /\ WriteBack(held[k])
  /\ IF nick THEN UpdateContacts ELSE Unseen(held[k])
  /\ UNCHANGED <<keys, alive>>

\* A friend was sent its undelivered messages in a list (hook_client_fetch).
ListTransmitted ==
  /\ Friends(rows) # {}
  /\ alive' = IF sel = 0 THEN "hook_client_fetch" ELSE alive
  /\ UNCHANGED <<rows, menu, keys, held>>

\* A list with a new nickname was received, from a contact or from the mailbox
\* (hook_contact_sync, hook_mb_sync).
NickListReceived ==
  /\ \E i \in DOMAIN rows : rows[i].active
  /\ UNCHANGED rows /\ UpdateContacts
  /\ UNCHANGED <<keys, held, alive>>
-----------------------------------------------------------------------------
Key == \/ Tab \/ KeyUp \/ KeyDown \/ ShellSelect \/ ContactSelect \/ HandleMsg
       \/ \E h \in Heights : Resize(h)
       \/ \E i \in DOMAIN rows : FriendRm(i) \/ FriendAdd(i)

Hook == \/ NewContact \/ ListTransmitted \/ NickListReceived
        \/ \E k \in Conns :
             \/ \E i \in DOMAIN rows : RequestReceived(k, i) \/ MessageHandled(k, i)
             \/ RequestSaved(k) \/ Dropped(k)
             \/ \E nick \in BOOLEAN : MessageSaved(k, nick)

Next == alive = "yes" /\ (Key \/ Hook)

Spec == Init /\ [][Next]_vars
-----------------------------------------------------------------------------
(* Properties *)

\* Every variable has its type, and no index leaves its array: the cursor the items
\* of the menu, cont_selected the contacts.
TypeOK ==
  /\ rows \in Seq(Row) /\ Len(rows) <= MaxRows
  /\ contacts \in Seq(Row) /\ Len(contacts) <= Len(rows)
  /\ cursor \in 0..NItems - 1 /\ start \in 0..NItems - 1
  /\ sel \in 0..Len(contacts) /\ meant \in 0..Len(contacts)
  /\ height \in Heights /\ focus \in Windows
  /\ prompt \in {"cmd", "chat"}
  /\ held \in [Conns -> Copy \cup {Nothing}]
  /\ missed \subseteq DOMAIN rows /\ reloaded \in BOOLEAN
  /\ alive \in {"yes", "app_ui_handle_msg", "hook_client_fetch"}

\* app.h calls app_ui_contact_select the "Menu callback used to select contact": the
\* contact whose item was pressed is the one that is selected.
RightContact == sel = meant

\* Another contact is selected only if a contact with a smaller id is not in the menu.
WrongOnlyBehindHidden == sel # meant => \E i \in 1..meant - 1 : ~Friend(contacts[i])

\* The menu, and the contacts the nickname command writes to, are the friends in the
\* database, but for contacts whose friendship a stale copy of the row changed.
MenuIsFresh == Friends(contacts) \ missed = Friends(rows) \ missed

\* The contact the user chose and writes to is a friend in the database, however long
\* ago it was chosen and whatever was saved since, but for a stale copy of its row:
\* whatever ends a friendship otherwise ends the selection too.
ChosenIsFriend == sel # 0 /\ sel = meant => sel \in Friends(rows) \cup missed

\* The item under the cursor is drawn, whatever window size and however the menu was
\* reached.
CursorVisible == start <= cursor /\ cursor < start + height

\* The prompt for commands is attached while no contact is selected, the one for
\* messages while one is, until the contacts are read again.
PromptMatches == IF prompt = "cmd" THEN sel = 0 ELSE sel = 0 => reloaded
=============================================================================
