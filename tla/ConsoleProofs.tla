---------------------------- MODULE ConsoleProofs ----------------------------
(***************************************************************************)
(* What the user selects and sees, for any number of contacts and any      *)
(* window sizes: the types of Console and its invariants.                  *)
(***************************************************************************)
EXTENDS Console, LeastNumber

\* What is in memory was read from a row of the table.
HeldOK == /\ held \in [Conns -> Copy \cup {Nothing}]
          /\ \A k \in Conns : held[k] # Nothing => held[k] \in Copy /\ held[k].id \in DOMAIN rows

\* The contacts in memory against the database; where the cursor is; what is selected.
TableOK == /\ rows \in Seq(Row) /\ Len(rows) <= MaxRows
           /\ contacts \in Seq(Row) /\ Len(contacts) <= Len(rows)
           /\ missed \subseteq DOMAIN rows
           /\ HeldOK /\ MenuIsFresh
CursorOK == /\ cursor \in 0..NItems - 1 /\ start \in 0..NItems - 1 /\ height \in Heights
            /\ CursorVisible
ChosenOK == /\ sel \in 0..Len(contacts) /\ meant \in 0..Len(contacts)
            /\ prompt \in {"cmd", "chat"} /\ reloaded \in BOOLEAN
            /\ PromptMatches /\ WrongOnlyBehindHidden
            /\ meant # 0 => Friend(contacts[meant])
RestOK == /\ focus \in Windows
          /\ alive \in {"yes", "app_ui_handle_msg", "hook_client_fetch"}

IInv == TableOK /\ CursorOK /\ ChosenOK /\ RestOK
-----------------------------------------------------------------------------
(* The items of the menu *)

\* A set of indices has an element of every rank up to its size: the first index with so many
\* elements below it.
LEMMA Ranks ==
  ASSUME NEW L \in Nat, NEW F \in SUBSET (1..L), NEW n \in 1..Cardinality(F)
  PROVE  \E i \in F : Cardinality({j \in F : j <= i}) = n
<1> DEFINE Below(k) == {j \in F : j <= k}
<1>0. F \subseteq Nat \ {0} /\ \A j \in F : j <= L /\ j > 0
  OBVIOUS
<1>1. IsFiniteSet(F) /\ Cardinality(F) \in Nat
  <2>1. IsFiniteSet(1..L)
    BY FS_Interval
  <2>2. IsFiniteSet(F)
    BY <2>1, FS_Subset
  <2> QED BY <2>2, FS_CardinalityType
<1>2. \A k \in Nat : IsFiniteSet(Below(k)) /\ Cardinality(Below(k)) \in Nat
  <2> TAKE k \in Nat
  <2>1. Below(k) \in SUBSET F
    OBVIOUS
  <2> QED BY <1>1, <2>1, FS_Subset, FS_CardinalityType
<1>3. Below(L) = F /\ Below(0) = {}
  <2>1. \A j \in F : j <= L /\ ~(j <= 0)
    BY <1>0
  <2> QED BY <2>1
<1>4. Cardinality(Below(L)) = Cardinality(F) /\ Cardinality(Below(0)) = 0
  BY <1>3, FS_EmptySet
<1> DEFINE S == {k \in Nat \ {0} : Cardinality(Below(k)) >= n}
<1>5. L \in S
  BY <1>1, <1>4
<1>6. PICK i \in S : \A k \in S : i <= k
  <2>1. S # {} /\ S \subseteq Nat \ {0}
    BY <1>5
  <2> HIDE DEF S
  <2> QED BY <2>1, Least
<1>7. i \in Nat /\ i > 0 /\ Cardinality(Below(i)) >= n /\ i - 1 \in Nat
  BY <1>6
<1>8. Cardinality(Below(i - 1)) < n
  <2>1. CASE i - 1 = 0
    <3>1. Cardinality(Below(i - 1)) = 0
      BY <1>4, <2>1
    <3> QED BY <3>1
  <2>2. CASE i - 1 # 0
    <3>1. i - 1 \notin S
      <4> HIDE DEF S
      <4> QED BY <1>6, <1>7
    <3>2. ~(Cardinality(Below(i - 1)) >= n)
      BY <1>7, <2>2, <3>1
    <3> HIDE DEF Below
    <3> QED BY <1>2, <1>7, <3>2
  <2> QED BY <2>1, <2>2
<1>9. i \in F
  <2> SUFFICES ASSUME i \notin F PROVE FALSE
    OBVIOUS
  <2>1. Below(i) = Below(i - 1)
    <3>1. \A j \in F : j <= i <=> j <= i - 1
      BY <1>0, <1>7
    <3> QED BY <3>1
  <2> HIDE DEF Below
  <2> QED BY <1>2, <1>7, <1>8, <2>1
<1>10. Below(i) = Below(i - 1) \cup {i} /\ i \notin Below(i - 1)
  <2>1. \A j \in F : j <= i <=> (j <= i - 1 \/ j = i)
    BY <1>0, <1>7
  <2>2. i <= i /\ ~(i <= i - 1)
    BY <1>7
  <2> QED BY <1>9, <2>1, <2>2
<1>11. Cardinality(Below(i)) = Cardinality(Below(i - 1)) + 1
  BY <1>2, <1>7, <1>10, FS_AddElement
<1>12. Cardinality(Below(i)) = n
  <2> HIDE DEF Below
  <2> QED BY <1>2, <1>7, <1>8, <1>11
<1> QED BY <1>9, <1>12

LEMMA ItemFacts ==
  ASSUME NEW table \in Seq(Row)
  PROVE  /\ Cardinality(Friends(table)) \in 0..Len(table)
         /\ \A n \in 1..Cardinality(Friends(table)) :
              /\ Items(table)[n] \in Friends(table)
              /\ Cardinality({j \in Friends(table) : j <= Items(table)[n]}) = n
<1>1. Len(table) \in Nat /\ Friends(table) \in SUBSET (1..Len(table))
  BY DEF Friends
<1>2. Cardinality(Friends(table)) \in 0..Len(table)
  <2>1. IsFiniteSet(1..Len(table)) /\ Cardinality(1..Len(table)) = Len(table)
    <3> PICK L \in Nat : L = Len(table)
      BY <1>1
    <3>1. IsFiniteSet(1..L) /\ Cardinality(1..L) = IF 1 > L THEN 0 ELSE L - 1 + 1
      <4>1. 1 \in Int /\ L \in Int
        OBVIOUS
      <4> QED BY <4>1, FS_Interval
    <3>2. Cardinality(1..L) = L
      BY <3>1
    <3> QED BY <3>1, <3>2
  <2>2. /\ IsFiniteSet(Friends(table))
        /\ Cardinality(Friends(table)) <= Cardinality(1..Len(table))
    BY <1>1, <2>1, FS_Subset
  <2>3. Cardinality(Friends(table)) \in Nat
    BY <2>2, FS_CardinalityType
  <2> QED BY <1>1, <2>1, <2>2, <2>3
<1>3. ASSUME NEW n \in 1..Cardinality(Friends(table))
      PROVE  /\ Items(table)[n] \in Friends(table)
             /\ Cardinality({j \in Friends(table) : j <= Items(table)[n]}) = n
  <2>1. \E i \in Friends(table) : Cardinality({j \in Friends(table) : j <= i}) = n
    BY <1>1, Ranks
  <2>2. Items(table)[n] =
          CHOOSE i \in Friends(table) : Cardinality({j \in Friends(table) : j <= i}) = n
    BY DEF Items
  <2> QED BY <2>1, <2>2
<1> QED BY <1>2, <1>3

\* If the contacts before the m-th and the m-th are friends, it is the m-th item.
LEMMA RankOfPrefix ==
  ASSUME NEW table \in Seq(Row), NEW m \in Friends(table),
         \A i \in 1..m - 1 : Friend(table[i])
  PROVE  Cardinality({j \in Friends(table) : j <= m}) = m
<1>1. m \in 1..Len(table) /\ Len(table) \in Nat /\ DOMAIN table = 1..Len(table)
  BY DEF Friends
<1>2. {j \in Friends(table) : j <= m} = 1..m
  <2>1. ASSUME NEW j \in 1..m PROVE j \in Friends(table)
    BY <1>1 DEF Friends
  <2>2. \A j \in Friends(table) : j \in 1..Len(table)
    BY <1>1 DEF Friends
  <2>3. m \in Nat /\ \A j \in 1..m : j <= m
    BY <1>1
  <2>4. \A j \in Friends(table) : j \in Nat /\ j >= 1
    BY <1>1, <2>2
  <2>5. \A j \in Friends(table) : j <= m => j \in 1..m
    BY <2>3, <2>4
  <2> QED BY <2>1, <2>3, <2>5
<1>3. Cardinality(1..m) = m
  BY <1>1, FS_Interval
<1> QED BY <1>2, <1>3
-----------------------------------------------------------------------------
(* What actions have in common *)

LEMMA RowSet ==
  ASSUME NEW table \in Seq(Row), NEW i \in DOMAIN table, NEW r \in Row,
         NEW t, t = [table EXCEPT ![i] = r]
  PROVE  /\ t \in Seq(Row) /\ Len(t) = Len(table) /\ DOMAIN t = DOMAIN table
         /\ t[i] = r /\ \A j \in DOMAIN table \ {i} : t[j] = table[j]
<1>1. Len(table) \in Nat /\ table \in [1..Len(table) -> Row] /\ DOMAIN table = 1..Len(table)
  OBVIOUS
<1>2. t \in [1..Len(table) -> Row]
  BY <1>1
<1> QED BY <1>1, <1>2

LEMMA CursorKept == CursorOK /\ UNCHANGED <<contacts, cursor, start, height>> => CursorOK'
BY DEF CursorOK, CursorVisible, NItems

LEMMA ChosenKept == ChosenOK /\ UNCHANGED <<contacts, sel, meant, prompt, reloaded>> => ChosenOK'
BY DEF ChosenOK, PromptMatches, WrongOnlyBehindHidden

LEMMA TableKept == TableOK /\ UNCHANGED <<rows, contacts, held, missed>> => TableOK'
BY DEF TableOK, HeldOK, MenuIsFresh

LEMMA RestKept == RestOK /\ UNCHANGED <<focus, alive>> => RestOK'
BY DEF RestOK

\* The drawing leaves the cursor in the window and starts with an item.
LEMMA FixedShows ==
  ASSUME NEW n \in Nat, NEW c \in 0..n - 1, NEW top \in 0..c, NEW h \in Nat \ {0}
  PROVE  LET f == Fixed(n, top, c, h) IN f \in 0..n - 1 /\ f <= c /\ c < f + h
BY DEF Fixed

LEMMA TopShows == \A n, h \in Nat \ {0} : 0 \in 0..n - 1 /\ 0 <= 0 /\ 0 < 0 + h
OBVIOUS

\* Reading the contacts again puts the cursor and the selection on the console.
LEMMA UpdateInv ==
  ASSUME UpdateContacts, rows' \in Seq(Row), height' \in Heights, prompt' \in {"cmd", "chat"}
  PROVE  CursorOK' /\ ChosenOK' /\ contacts' = rows' /\ MenuIsFresh' /\ missed' = {}
<1>1. /\ contacts' = rows' /\ cursor' = 0 /\ start' = 0 /\ sel' = 0 /\ meant' = 0
      /\ missed' = {} /\ reloaded' = TRUE
  BY DEF UpdateContacts
<1>2. Cardinality(Friends(contacts')) \in Nat /\ Len(contacts') \in Nat
  BY <1>1, ItemFacts
<1>3. CursorOK'
  <2> PICK n : n = NItems'
    OBVIOUS
  <2> PICK h \in Heights : h = height'
    OBVIOUS
  <2>1. n \in Nat \ {0}
    BY <1>2 DEF NItems
  <2>2. h \in Nat \ {0}
    BY HeightsAssumption
  <2>3. 0 \in 0..n - 1 /\ 0 <= 0 /\ 0 < 0 + h
    BY <2>1, <2>2, TopShows
  <2>4. CursorVisible'
    BY <1>1, <2>3 DEF CursorVisible
  <2> QED BY <1>1, <2>3, <2>4 DEF CursorOK
<1>4. ChosenOK'
  BY <1>1, <1>2 DEF ChosenOK, PromptMatches, WrongOnlyBehindHidden
<1> QED BY <1>1, <1>3, <1>4 DEF MenuIsFresh

LEMMA InitInv == Init => IInv
<1> SUFFICES ASSUME Init PROVE IInv
  OBVIOUS
<1>1. rows \in Seq(Row) /\ Len(rows) <= MaxRows /\ Len(rows) \in Nat
  <2>1. PICK m \in 0..MaxRows : rows \in [1..m -> Row]
    BY DEF Init, BoundedSeq, SeqOf
  <2> QED BY <2>1, MaxRowsAssumption
<1>2. Cardinality(Friends(contacts)) \in Nat
  BY <1>1, ItemFacts DEF Init
<1>3. TableOK
  <2>1. HeldOK
    BY DEF Init, HeldOK
  <2> QED BY <1>1, <2>1 DEF Init, TableOK, MenuIsFresh
<1>4. CursorOK
  BY <1>2, HeightsAssumption DEF Init, CursorOK, CursorVisible, NItems
<1>5. ChosenOK /\ RestOK
  BY <1>1 DEF Init, ChosenOK, PromptMatches, WrongOnlyBehindHidden, RestOK, Windows, Info
<1> QED BY <1>3, <1>4, <1>5 DEF IInv
-----------------------------------------------------------------------------
(* Keys *)

\* An action that draws the menu anew, with the cursor at c.
LEMMA DrawnInv ==
  ASSUME IInv, NEW h \in Heights, NEW c \in 0..NItems - 1, NEW top \in 0..c,
         contacts' = contacts, height' = h, cursor' = c, start' = Fixed(NItems, top, c, h)
  PROVE  CursorOK'
<1>1. NItems \in Nat
  BY ItemFacts DEF IInv, TableOK, NItems
<1>2. start' \in 0..NItems - 1 /\ start' <= c /\ c < start' + h
  BY <1>1, FixedShows, HeightsAssumption
<1>3. NItems' = NItems
  BY DEF NItems
<1> QED BY <1>2, <1>3 DEF CursorOK, CursorVisible

LEMMA CursorFacts ==
  ASSUME IInv
  PROVE  /\ NItems \in Nat /\ cursor \in 0..NItems - 1 /\ start \in 0..cursor /\ height \in Heights
         /\ cursor \in Nat /\ start \in Nat /\ start < NItems
BY ItemFacts DEF IInv, TableOK, CursorOK, CursorVisible, NItems

LEMMA TabInv == ASSUME IInv, Tab PROVE IInv'
<1>1. start' = start \/ start' = Fixed(NItems, start, cursor, height)
  BY DEF Tab
<1>2. CursorOK'
  BY <1>1, CursorFacts, CursorKept, DrawnInv DEF Tab, IInv
<1>3. TableOK' /\ ChosenOK'
  BY TableKept, ChosenKept DEF Tab, IInv
<1>4. RestOK'
  BY DEF Tab, IInv, RestOK, Windows
<1> QED BY <1>2, <1>3, <1>4 DEF IInv

LEMMA ResizeInv == ASSUME IInv, NEW h \in Heights, Resize(h) PROVE IInv'
<1>1. CursorOK'
  BY CursorFacts, DrawnInv DEF Resize
<1> QED BY <1>1, TableKept, ChosenKept, RestKept DEF Resize, IInv

LEMMA KeyUpInv == ASSUME IInv, KeyUp PROVE IInv'
<1>1. cursor - 1 \in 0..NItems - 1
  BY CursorFacts DEF KeyUp
<1>2. (IF start > cursor - 1 THEN start - 1 ELSE start) \in 0..cursor - 1
  BY CursorFacts DEF KeyUp
<1>3. CursorOK'
  BY <1>1, <1>2, CursorFacts, DrawnInv DEF KeyUp, Drawn, keys
<1> QED BY <1>3, TableKept, ChosenKept, RestKept DEF KeyUp, IInv, keys

LEMMA KeyDownInv == ASSUME IInv, KeyDown PROVE IInv'
<1>1. cursor + 1 \in 0..NItems - 1
  BY CursorFacts DEF KeyDown
<1>2. (IF start + height <= cursor + 1 THEN start + 1 ELSE start) \in 0..cursor + 1
  BY CursorFacts DEF KeyDown
<1>3. CursorOK'
  BY <1>1, <1>2, CursorFacts, DrawnInv DEF KeyDown, Drawn, keys
<1> QED BY <1>3, TableKept, ChosenKept, RestKept DEF KeyDown, IInv, keys

LEMMA ShellSelectInv == ASSUME IInv, ShellSelect PROVE IInv'
<1>1. CursorOK'
  BY CursorFacts, DrawnInv DEF ShellSelect
<1>2. /\ sel' = 0 /\ meant' = 0 /\ prompt' = "cmd" /\ reloaded' = FALSE
      /\ Len(contacts') \in Nat
  BY DEF ShellSelect, IInv, TableOK
<1>3. ChosenOK'
  <2>1. PromptMatches' /\ WrongOnlyBehindHidden'
    BY <1>2 DEF PromptMatches, WrongOnlyBehindHidden
  <2>2. 0 \in 0..Len(contacts')
    BY <1>2
  <2> QED BY <1>2, <2>1, <2>2 DEF ChosenOK
<1> QED BY <1>1, <1>3, TableKept, RestKept DEF ShellSelect, IInv

\* The index of the item is the index of its contact if no contact before it is hidden.
LEMMA ContactSelectInv == ASSUME IInv, ContactSelect PROVE IInv'
<1>1. CursorOK'
  BY CursorFacts, DrawnInv DEF ContactSelect
<1>2. contacts \in Seq(Row) /\ DOMAIN contacts = 1..Len(contacts) /\ Len(contacts) \in Nat
  BY DEF IInv, TableOK
<1>3. cursor \in 1..Cardinality(Friends(contacts)) /\ Cardinality(Friends(contacts)) \in 0..Len(contacts)
  BY <1>2, CursorFacts, ItemFacts DEF ContactSelect, NItems
<1> PICK m : m = Items(contacts)[cursor]
  OBVIOUS
<1>4. /\ m \in Friends(contacts) /\ m \in 1..Len(contacts)
      /\ Cardinality({j \in Friends(contacts) : j <= m}) = cursor
  BY <1>2, <1>3, ItemFacts DEF Friends
<1>5. cursor # m => \E i \in 1..m - 1 : ~Friend(contacts[i])
  BY <1>2, <1>4, RankOfPrefix
<1>6. /\ sel' = cursor /\ meant' = m /\ prompt' = "chat" /\ reloaded' = FALSE
      /\ contacts' = contacts
  BY DEF ContactSelect, Selected
<1>7. ChosenOK'
  <2>1. WrongOnlyBehindHidden'
    BY <1>5, <1>6 DEF WrongOnlyBehindHidden
  <2>2. cursor \in 0..Len(contacts) /\ cursor # 0 /\ m \in 0..Len(contacts)
    BY <1>2, <1>3, <1>4
  <2>3. PromptMatches'
    BY <1>6, <2>2 DEF PromptMatches
  <2>4. Friend(contacts[m])
    BY <1>4 DEF Friends
  <2> QED BY <1>6, <2>1, <2>2, <2>3, <2>4 DEF ChosenOK
<1> QED BY <1>1, <1>7, TableKept, RestKept DEF ContactSelect, IInv

LEMMA HandleMsgInv == ASSUME IInv, HandleMsg PROVE IInv'
<1>1. RestOK'
  BY DEF HandleMsg, IInv, RestOK, keys
<1> QED BY <1>1, TableKept, CursorKept, ChosenKept DEF HandleMsg, IInv, menu, keys
-----------------------------------------------------------------------------
(* Rows change *)

\* Which contacts are friends after row i has become r.
LEMMA FriendsAfter ==
  ASSUME NEW table \in Seq(Row), NEW i \in DOMAIN table, NEW r \in Row,
         NEW t, t = [table EXCEPT ![i] = r]
  PROVE  Friends(t) \ {i} = Friends(table) \ {i} /\ (i \in Friends(t) <=> Friend(r))
<1>1. DOMAIN t = DOMAIN table /\ t[i] = r /\ \A j \in DOMAIN table \ {i} : t[j] = table[j]
  BY RowSet
<1> QED BY <1>1 DEF Friends

\* A step that sets row i and either reads the contacts again or leaves the menu alone
\* without making the row differ from it unnoticed.
LEMMA RowInv ==
  ASSUME IInv, NEW i \in DOMAIN rows, NEW r \in Row,
         rows' = [rows EXCEPT ![i] = r], HeldOK', UNCHANGED keys,
         \/ UpdateContacts
         \/ /\ UNCHANGED <<contacts, cursor, start, sel, meant, reloaded>>
            /\ missed' \in {missed, missed \cup {i}}
            /\ i \in missed' \/ (Friend(rows[i]) <=> Friend(r))
  PROVE  TableOK' /\ CursorOK' /\ ChosenOK'
<1> PICK t : t = rows'
  OBVIOUS
<1>1. rows \in Seq(Row) /\ rows[i] \in Row /\ DOMAIN rows = 1..Len(rows) /\ Len(rows) \in Nat
  BY DEF IInv, TableOK
<1>2. /\ t \in Seq(Row) /\ Len(t) = Len(rows) /\ DOMAIN t = DOMAIN rows
      /\ t[i] = r /\ \A j \in DOMAIN rows \ {i} : t[j] = rows[j]
  BY <1>1, RowSet
<1>3. Friends(t) \ {i} = Friends(rows) \ {i} /\ (i \in Friends(t) <=> Friend(r))
  BY <1>1, FriendsAfter
<1>5. Len(t) <= MaxRows /\ DOMAIN rows' = DOMAIN rows
  BY <1>2 DEF IInv, TableOK
<1>6. CASE UpdateContacts
  <2>1. height' \in Heights /\ prompt' \in {"cmd", "chat"}
    BY DEF IInv, CursorOK, ChosenOK, keys
  <2>2. CursorOK' /\ ChosenOK' /\ contacts' = rows' /\ MenuIsFresh' /\ missed' = {}
    BY <1>2, <1>6, <2>1, UpdateInv
  <2>3. Len(contacts') <= Len(rows')
    BY <1>1, <1>2, <2>2
  <2> QED BY <1>2, <1>5, <2>2, <2>3 DEF TableOK
<1>7. CASE /\ UNCHANGED <<contacts, cursor, start, sel, meant, reloaded>>
           /\ missed' \in {missed, missed \cup {i}}
           /\ i \in missed' \/ (Friend(rows[i]) <=> Friend(r))
  <2>1. CursorOK' /\ ChosenOK'
    BY <1>7, CursorKept, ChosenKept DEF IInv, keys
  <2>2. missed' \subseteq DOMAIN rows' /\ contacts' \in Seq(Row) /\ Len(contacts') <= Len(rows')
    BY <1>2, <1>5, <1>7 DEF IInv, TableOK
  <2>3. i \in Friends(rows) <=> Friend(rows[i])
    BY <1>1 DEF Friends
  <2>4. Friends(contacts) \ missed' = Friends(rows) \ missed'
    BY <1>7 DEF IInv, TableOK, MenuIsFresh
  <2>5. Friends(rows) \ missed' = Friends(t) \ missed'
    BY <1>3, <1>7, <2>3
  <2>6. MenuIsFresh'
    BY <1>7, <2>4, <2>5 DEF MenuIsFresh
  <2> QED BY <1>2, <1>5, <2>1, <2>2, <2>6 DEF TableOK
<1> QED BY <1>6, <1>7

LEMMA RowFacts ==
  ASSUME IInv, NEW i \in DOMAIN rows
  PROVE  i \in 1..MaxRows /\ rows[i] \in Row /\ rows[i].active \in BOOLEAN /\ rows[i].deleted \in BOOLEAN
<1>1. rows \in Seq(Row) /\ Len(rows) \in Nat /\ Len(rows) <= MaxRows /\ DOMAIN rows = 1..Len(rows)
  BY DEF IInv, TableOK
<1>2. rows[i] \in Row
  BY <1>1
<1> QED BY <1>1, <1>2, MaxRowsAssumption DEF Row

\* A contact that is read is one of the table, and stays one.
LEMMA HoldInv ==
  ASSUME IInv, NEW k \in Conns, NEW kind \in {"message", "request"}, NEW i \in DOMAIN rows,
         NEW active \in BOOLEAN, NEW deleted \in BOOLEAN, Hold(k, kind, i, active, deleted),
         DOMAIN rows' = DOMAIN rows
  PROVE  HeldOK'
<1> PICK c : c = [kind |-> kind, id |-> i, active |-> active, deleted |-> deleted]
  OBVIOUS
<1>1. c \in Copy /\ c.id \in DOMAIN rows
  BY RowFacts DEF Copy
<1>2. held' = [held EXCEPT ![k] = c]
  BY DEF Hold
<1> QED BY <1>1, <1>2 DEF IInv, TableOK, HeldOK

\* friendrm and friendadd: a row that is not active is in no menu.
LEMMA SetDeletedInv ==
  ASSUME IInv, NEW i \in DOMAIN rows, NEW d \in BOOLEAN,
         rows' = [rows EXCEPT ![i].deleted = d],
         UpdateContacts \/ ((~rows[i].active \/ rows[i].deleted = d) /\ UNCHANGED menu),
         HeldOK', UNCHANGED <<keys, alive>>
  PROVE  IInv'
<1>1. rows \in Seq(Row) /\ rows[i] \in Row
  BY DEF IInv, TableOK
<1> PICK r : r = [active |-> rows[i].active, deleted |-> d]
  OBVIOUS
<1>2. r \in Row /\ rows' = [rows EXCEPT ![i] = r]
  <2>1. r \in Row
    BY <1>1 DEF Row
  <2>2. [rows EXCEPT ![i].deleted = d] = [rows EXCEPT ![i] = r]
    <3>1. [rows[i] EXCEPT !.deleted = d] = r
      BY <1>1 DEF Row
    <3> QED BY <3>1
  <2> QED BY <2>1, <2>2
<1>3. r.active = rows[i].active
  OBVIOUS
<1>4. ~rows[i].active \/ rows[i].deleted = d => (Friend(rows[i]) <=> Friend(r))
  BY <1>3 DEF Friend
<1>5. \/ UpdateContacts
      \/ /\ UNCHANGED <<contacts, cursor, start, sel, meant, reloaded>>
         /\ missed' \in {missed, missed \cup {i}}
         /\ i \in missed' \/ (Friend(rows[i]) <=> Friend(r))
  BY <1>4 DEF menu
<1>6. TableOK' /\ CursorOK' /\ ChosenOK'
  BY <1>2, <1>5, RowInv
<1> QED BY <1>6, RestKept DEF IInv, keys

LEMMA FriendRmInv == ASSUME IInv, NEW i \in DOMAIN rows, FriendRm(i) PROVE IInv'
<1>1. HeldOK'
  BY DEF FriendRm, IInv, TableOK, HeldOK
<1> QED BY <1>1, SetDeletedInv DEF FriendRm

LEMMA FriendAddInv == ASSUME IInv, NEW i \in DOMAIN rows, FriendAdd(i) PROVE IInv'
<1>1. DOMAIN rows' = DOMAIN rows
  BY DEF FriendAdd
<1>2. HeldOK'
  <2>1. CASE UNCHANGED held
    BY <1>1, <2>1 DEF IInv, TableOK, HeldOK
  <2>2. CASE \E k \in Conns : Hold(k, "request", i, TRUE, FALSE)
    BY <1>1, <2>2, HoldInv
  <2> QED BY <2>1, <2>2 DEF FriendAdd
<1>3. rows[i].deleted \in BOOLEAN
  BY RowFacts
<1> QED BY <1>2, <1>3, SetDeletedInv DEF FriendAdd

LEMMA NewContactInv == ASSUME IInv, NewContact PROVE IInv'
<1> PICK r : r = [active |-> FALSE, deleted |-> FALSE]
  OBVIOUS
<1> PICK t : t = Append(rows, r)
  OBVIOUS
<1>1. rows \in Seq(Row) /\ Len(rows) \in Nat /\ DOMAIN rows = 1..Len(rows) /\ Len(rows) < MaxRows
  BY DEF IInv, TableOK, NewContact
<1>2. r \in Row /\ ~Friend(r)
  BY DEF Row, Friend
<1>3. /\ t \in Seq(Row) /\ Len(t) = Len(rows) + 1 /\ t[Len(rows) + 1] = r
      /\ \A j \in 1..Len(rows) : t[j] = rows[j]
  BY <1>1, <1>2
<1>4. DOMAIN t = 1..Len(rows) + 1 /\ Len(t) <= MaxRows /\ 1..Len(rows) \subseteq DOMAIN t
  BY <1>1, <1>3, MaxRowsAssumption
<1>5. \A j \in DOMAIN t : j \in DOMAIN rows \/ j = Len(rows) + 1
  BY <1>1, <1>4
<1>6. Friends(t) = Friends(rows)
  BY <1>1, <1>2, <1>3, <1>4, <1>5 DEF Friends
<1>7. rows' = t /\ UNCHANGED <<menu, keys, held, alive>>
  BY DEF NewContact
<1>8. HeldOK' /\ MenuIsFresh' /\ missed' \subseteq DOMAIN rows'
  BY <1>1, <1>3, <1>4, <1>6, <1>7 DEF IInv, TableOK, HeldOK, MenuIsFresh, menu
<1>9. contacts' \in Seq(Row) /\ Len(contacts') <= Len(rows')
  <2>1. Len(contacts) \in Nat /\ Len(contacts) <= Len(rows) /\ contacts \in Seq(Row)
    BY DEF IInv, TableOK
  <2> QED BY <1>1, <1>3, <1>7, <2>1 DEF IInv, TableOK, menu
<1>10. TableOK'
  BY <1>3, <1>4, <1>7, <1>8, <1>9 DEF TableOK
<1> QED BY <1>7, <1>10, CursorKept, ChosenKept, RestKept DEF IInv, menu, keys
-----------------------------------------------------------------------------
(* Friend requests and messages *)

LEMMA ReleaseInv ==
  ASSUME IInv, NEW k \in Conns, Release(k), DOMAIN rows' = DOMAIN rows
  PROVE  HeldOK'
BY DEF Release, IInv, TableOK, HeldOK

\* A step that changes no more than what is in memory.
LEMMA OnlyHeldInv ==
  ASSUME IInv, UNCHANGED <<rows, menu, keys, alive>>, HeldOK'
  PROVE  IInv'
<1>1. TableOK'
  BY DEF IInv, TableOK, MenuIsFresh, menu
<1> QED BY <1>1, CursorKept, ChosenKept, RestKept DEF IInv, menu, keys

LEMMA RequestReceivedInv ==
  ASSUME IInv, NEW k \in Conns, NEW i \in DOMAIN rows, RequestReceived(k, i) PROVE IInv'
<1>1. PICK becomes \in {rows[i].active, TRUE} : Hold(k, "request", i, becomes, rows[i].deleted)
  BY DEF RequestReceived
<1>2. becomes \in BOOLEAN /\ rows[i].deleted \in BOOLEAN /\ DOMAIN rows' = DOMAIN rows
  BY RowFacts DEF RequestReceived
<1>3. HeldOK'
  BY <1>1, <1>2, HoldInv
<1> QED BY <1>3, OnlyHeldInv DEF RequestReceived

LEMMA MessageHandledInv ==
  ASSUME IInv, NEW k \in Conns, NEW i \in DOMAIN rows, MessageHandled(k, i) PROVE IInv'
<1>1. HeldOK'
  BY HoldInv DEF MessageHandled
<1> QED BY <1>1, OnlyHeldInv DEF MessageHandled

LEMMA DroppedInv == ASSUME IInv, NEW k \in Conns, Dropped(k) PROVE IInv'
BY ReleaseInv, OnlyHeldInv DEF Dropped

\* The row is written whole, as it was read: if the contacts are not read again, a changed
\* friendship is in missed.
LEMMA WriteBackInv ==
  ASSUME IInv, NEW k \in Conns, held[k] # Nothing, Release(k), WriteBack(held[k]),
         UpdateContacts \/ Unseen(held[k]), UNCHANGED <<keys, alive>>
  PROVE  IInv'
<1> PICK i : i = held[k].id
  OBVIOUS
<1> PICK r : r = [active |-> held[k].active, deleted |-> held[k].deleted]
  OBVIOUS
<1>1. held[k] \in Copy /\ i \in DOMAIN rows
  BY DEF IInv, TableOK, HeldOK
<1>2. r \in Row /\ (Friend(r) <=> Friend(held[k]))
  BY <1>1 DEF Copy, Row, Friend
<1>3. rows' = [rows EXCEPT ![i] = r]
  BY DEF WriteBack
<1>4. DOMAIN rows' = DOMAIN rows
  BY <1>3
<1>5. HeldOK'
  BY <1>4, ReleaseInv
<1>6. \/ UpdateContacts
      \/ /\ UNCHANGED <<contacts, cursor, start, sel, meant, reloaded>>
         /\ missed' \in {missed, missed \cup {i}}
         /\ i \in missed' \/ (Friend(rows[i]) <=> Friend(r))
  BY <1>2 DEF Unseen
<1>7. TableOK' /\ CursorOK' /\ ChosenOK'
  BY <1>1, <1>2, <1>3, <1>5, <1>6, RowInv
<1> QED BY <1>7, RestKept DEF IInv, keys

LEMMA RequestSavedInv == ASSUME IInv, NEW k \in Conns, RequestSaved(k) PROVE IInv'
<1>1. held[k] # Nothing
  BY DEF RequestSaved, Nothing
<1> QED BY <1>1, WriteBackInv DEF RequestSaved

LEMMA MessageSavedInv ==
  ASSUME IInv, NEW k \in Conns, NEW nick \in BOOLEAN, MessageSaved(k, nick) PROVE IInv'
<1>1. held[k] # Nothing
  BY DEF MessageSaved, Nothing
<1> QED BY <1>1, WriteBackInv DEF MessageSaved

LEMMA ListTransmittedInv == ASSUME IInv, ListTransmitted PROVE IInv'
<1>1. RestOK'
  BY DEF ListTransmitted, IInv, RestOK, keys
<1> QED BY <1>1, TableKept, CursorKept, ChosenKept DEF ListTransmitted, IInv, menu, keys

LEMMA NickListReceivedInv == ASSUME IInv, NickListReceived PROVE IInv'
<1>1. rows' = rows /\ UpdateContacts /\ UNCHANGED <<keys, held, alive>>
  BY DEF NickListReceived
<1>2. /\ rows \in Seq(Row) /\ Len(rows) \in Nat /\ Len(rows) <= MaxRows
      /\ height' \in Heights /\ prompt' \in {"cmd", "chat"}
  BY <1>1 DEF IInv, TableOK, CursorOK, ChosenOK, keys
<1>3. CursorOK' /\ ChosenOK' /\ contacts' = rows' /\ MenuIsFresh' /\ missed' = {}
  BY <1>1, <1>2, UpdateInv
<1>4. HeldOK'
  BY <1>1 DEF IInv, TableOK, HeldOK
<1>5. TableOK'
  BY <1>1, <1>2, <1>3, <1>4 DEF TableOK
<1> QED BY <1>1, <1>3, <1>5, RestKept DEF IInv, keys
-----------------------------------------------------------------------------
LEMMA NextInv == IInv /\ [Next]_vars => IInv'
<1> SUFFICES ASSUME IInv, [Next]_vars PROVE IInv'
  OBVIOUS
<1>1. CASE UNCHANGED vars
  BY <1>1, TableKept, CursorKept, ChosenKept, RestKept DEF IInv, vars, menu, keys
<1>2. CASE Key
  <2>1. \A h \in Heights : Resize(h) => IInv'
    BY ResizeInv
  <2>2. \A i \in DOMAIN rows : FriendRm(i) \/ FriendAdd(i) => IInv'
    BY FriendRmInv, FriendAddInv
  <2> QED BY <1>2, <2>1, <2>2, TabInv, KeyUpInv, KeyDownInv, ShellSelectInv, ContactSelectInv,
             HandleMsgInv DEF Key
<1>3. CASE Hook
  <2>1. ASSUME NEW k \in Conns,
               \/ \E i \in DOMAIN rows : RequestReceived(k, i) \/ MessageHandled(k, i)
               \/ RequestSaved(k) \/ Dropped(k)
               \/ \E nick \in BOOLEAN : MessageSaved(k, nick)
        PROVE  IInv'
    BY <2>1, RequestReceivedInv, MessageHandledInv, RequestSavedInv, DroppedInv, MessageSavedInv
  <2> QED BY <1>3, <2>1, NewContactInv, ListTransmittedInv, NickListReceivedInv DEF Hook
<1> QED BY <1>1, <1>2, <1>3 DEF Next

\* The contacts in memory and in the database, the cursor of the menu, the selection and what
\* is shown fit together, whatever keys are pressed and whatever hooks run.
THEOREM Invariant == Spec => []IInv
BY InitInv, NextInv, PTL DEF Spec

\* No index of the menu or of the contacts leaves its array (app_ui.c, ui_menu.c).
THEOREM TypeCorrect == Spec => []TypeOK
<1>1. IInv => TypeOK
  BY DEF IInv, TypeOK, TableOK, HeldOK, CursorOK, ChosenOK, RestOK
<1> QED BY <1>1, Invariant, PTL

\* The item under the cursor is drawn (ui_menu_draw_cb).
THEOREM CursorAlwaysVisible == Spec => []CursorVisible
<1>1. IInv => CursorVisible
  BY DEF IInv, CursorOK
<1> QED BY <1>1, Invariant, PTL

\* The menu shows the friends in the database, but for rows saved over a newer one
\* (app_update_contacts and the hooks that call it or do not).
THEOREM MenuAlwaysFresh == Spec => []MenuIsFresh
<1>1. IInv => MenuIsFresh
  BY DEF IInv, TableOK
<1> QED BY <1>1, Invariant, PTL

\* The contact the user chose and writes to is a friend in the database, whatever was saved
\* since it was chosen, but for a stale copy of its row (app_update_contacts clears the
\* selection, and every command and hook that ends a friendship calls it).
THEOREM ChosenAlwaysFriend == Spec => []ChosenIsFriend
<1>1. IInv => ChosenIsFriend
  <2> SUFFICES ASSUME IInv, sel # 0, sel = meant PROVE sel \in Friends(rows) \cup missed
    BY DEF ChosenIsFriend
  <2>1. sel \in DOMAIN contacts /\ Friend(contacts[sel])
    BY DEF IInv, TableOK, ChosenOK
  <2>2. sel \in Friends(contacts)
    BY <2>1 DEF Friends
  <2> QED BY <2>2 DEF IInv, TableOK, MenuIsFresh
<1> QED BY <1>1, Invariant, PTL

\* The prompt for messages is attached only while a contact is selected, until the contacts
\* are read again (app_ui_contact_select, app_ui_shell_select).
THEOREM PromptAlwaysMatches == Spec => []PromptMatches
<1>1. IInv => PromptMatches
  BY DEF IInv, ChosenOK
<1> QED BY <1>1, Invariant, PTL

\* The item pressed selects another contact only if a contact before it is not in the menu
\* (app_ui_contact_select takes the index of the item for an index of all contacts).
THEOREM SelectionWrongOnlyBehindHidden == Spec => []WrongOnlyBehindHidden
<1>1. IInv => WrongOnlyBehindHidden
  BY DEF IInv, ChosenOK
<1> QED BY <1>1, Invariant, PTL
=============================================================================
