-------------------------------- MODULE Mail --------------------------------
(***************************************************************************)
(* What the delivery of messages promises to the two people who write to   *)
(* each other.                                                             *)
(*                                                                         *)
(* Two places keep messages: the receiver and its mailbox.  A place        *)
(* answers for one message at a time and saves it before it does anything  *)
(* else, or misses it: it dies in between, or the message it answered for  *)
(* is already freed.  Nothing else separates an answer from what is saved. *)
(* The sender believes a message delivered, or left to the mailbox, only   *)
(* after the place answered for it, or when it has transmitted it in a     *)
(* list, for which nobody answers.  A place may save a message again after *)
(* it answered for it again, but no list brings what the receiver has.     *)
(***************************************************************************)
EXTENDS Naturals

CONSTANT Messages

VARIABLES status,  \* what the sender believes of each message
          rows,    \* rows[p][g]: how often place p has saved message g
          saving,  \* saving[p]: the message p has answered for and not yet saved
          missed,  \* missed[p]: messages p answered for and never saves
          listed   \* messages the sender believes delivered because it listed them

vars == <<status, rows, saving, missed, listed>>

Places == {"receiver", "mailbox"}

Composed == {g \in Messages : status[g] # "none"}

Kept(p) == {g \in Messages : rows[p][g] > 0}

\* What p has answered for, or was brought by a list.
Answered(p) == Kept(p) \cup saving[p] \cup missed[p]

Init == /\ status = [g \in Messages |-> "none"]
        /\ rows = [p \in Places |-> [g \in Messages |-> 0]]
        /\ saving = [p \in Places |-> {}]
        /\ missed = [p \in Places |-> {}]
        /\ listed = {}

Compose(g) == /\ g \notin Composed
              /\ status' = [status EXCEPT ![g] = "UNDELIVERED"]
              /\ UNCHANGED <<rows, saving, missed, listed>>

Answer(p, g) == /\ g \in Composed
                /\ saving[p] = {}
                /\ saving' = [saving EXCEPT ![p] = {g}]
                /\ UNCHANGED <<status, rows, missed, listed>>

\* A message that is already kept may be found, or kept once more.
Save(p, g) == /\ g \in saving[p]
              /\ saving' = [saving EXCEPT ![p] = {}]
              /\ \/ rows' = [rows EXCEPT ![p][g] = @ + 1]
                 \/ g \in Kept(p) /\ rows' = rows
              /\ UNCHANGED <<status, missed, listed>>

\* Nothing is saved of what p has answered for.
Miss(p) == /\ missed' = [missed EXCEPT ![p] = @ \cup saving[p]]
           /\ saving' = [saving EXCEPT ![p] = {}]
           /\ UNCHANGED <<status, rows, listed>>

\* The sender hears that p answered for g.
Hear(p, g) == /\ g \in Answered(p)
              /\ status' = [status EXCEPT ![g] =
                              IF p = "mailbox" THEN "SENT" ELSE "SENT_CONFIRMED"]
              /\ UNCHANGED <<rows, saving, missed, listed>>

\* The sender has transmitted the list T.
List(T) == /\ T \subseteq Composed
           /\ status' = [g \in Messages |-> IF g \in T THEN "SENT_CONFIRMED" ELSE status[g]]
           /\ listed' = listed \cup T
           /\ UNCHANGED <<rows, saving, missed>>

\* The receiver keeps messages a list of the sender, or of the mailbox, brought.
Take(T) == /\ T \subseteq Composed \/ T \subseteq Kept("mailbox")
           /\ T \cap Kept("receiver") = {}
           /\ saving["receiver"] = {}
           /\ rows' = [rows EXCEPT !["receiver"] =
                         [g \in Messages |-> IF g \in T THEN 1 ELSE @[g]]]
           /\ UNCHANGED <<status, saving, missed, listed>>

Next == \/ \E T \in SUBSET Messages : List(T) \/ Take(T)
        \/ \E g \in Messages : Compose(g)
        \/ \E p \in Places : Miss(p) \/ \E g \in Messages : Answer(p, g) \/ Save(p, g) \/ Hear(p, g)

Spec == Init /\ [][Next]_vars
=============================================================================
