----------------------------- MODULE MCProtMain -----------------------------
(* Instances of ProtMain for TLC: the batches a connection carries. *)
EXTENDS ProtMainPipeline

\* What app_message_send and a contact sync put on one connection to a client:
\* two requests with the same response code, then one with another.
ClientBatch == <<"MESSAGE_CONTAINER", "MESSAGE_CONTAINER", "CLIENT_FETCH">>

\* What a client sends to its mailbox server.
MailboxBatch == <<"MAILBOX_SET_CONTACTS", "MESSAGE_CONTAINER", "MAILBOX_FETCH">>

\* Mailbox requests sent to an onion address that turns out to be a client's.
WrongPeerBatch == <<"MAILBOX_SET_CONTACTS", "MAILBOX_FETCH">>
=============================================================================
