------------------------------- MODULE Socks5 -------------------------------
(***************************************************************************)
(* The SOCKS5 client that asks Tor for a connection to an onion service    *)
(* (socks5.c): a state machine over a byte stream that arrives in pieces   *)
(* of any size.  What the proxy answers is chosen first; bytes are counted *)
(* and not spelled out.                                                    *)
(***************************************************************************)
EXTENDS Naturals, Sequences

CONSTANTS DomainLens,  \* the lengths of a domain name in the answer
          PeerBytes    \* the most bytes of the peer that follow the answer

ASSUME BytesAssumption == DomainLens \subseteq Nat /\ PeerBytes \in Nat

VARIABLES
  proxy,     \* what the proxy answers
  arrived,   \* bytes that have reached the input buffer
  drained,   \* bytes removed from it
  step,      \* dat->step, "done" once dat is freed
  outcomes   \* history: the calls of done_cb

svars == <<proxy, arrived, drained, step, outcomes>>

Answers == [auth : {"accepted", "refused"},
            status : {"success", "failure", "wrong version"},
            type : {"IPv4", "IPv6", "domain", "unknown"},
            len : DomainLens, follow : 0..PeerBytes]

MethodLen == 2   \* the answer to the method selection
HeaderLen == 4   \* version, status, reserved byte, address type
PortLen   == 2
-----------------------------------------------------------------------------
SocksInit ==
  /\ proxy \in Answers
  /\ arrived = 0 /\ drained = 0
  /\ step = "auth" /\ outcomes = <<>>

\* Mutation: the length byte of a domain name is forgotten.
AddressLenNoByte == CASE proxy.type = "IPv4" -> 4 [] proxy.type = "IPv6" -> 16
                      [] OTHER -> proxy.len
\* The bytes of the bound address, with the length byte of a domain name.
AddressLen == CASE proxy.type = "IPv4" -> 4 [] proxy.type = "IPv6" -> 16
                [] OTHER -> proxy.len + 1

\* The bytes the proxy really sends: an answer to the method selection, an answer to the
\* request once the request has been sent, then what the peer sends.
ReplyLen == HeaderLen + PortLen + CASE proxy.type = "IPv4" -> 4 [] proxy.type = "IPv6" -> 16
                                    [] OTHER -> proxy.len + 1
Sent == IF step = "auth" THEN MethodLen ELSE MethodLen + ReplyLen + proxy.follow

\* done_cb is called, dat is freed and no callback of this module runs again.
Done(result) == step' = "done" /\ outcomes' = Append(outcomes, result)
Wait == UNCHANGED <<drained, step, outcomes>>

\* The answer to the method selection.
ReadAuth(buffered) ==
  IF buffered < MethodLen THEN Wait
  ELSE /\ drained' = drained + MethodLen
       /\ IF proxy.auth = "refused" THEN Done("auth failed")
          ELSE step' = "connect" /\ UNCHANGED outcomes   \* and the request is sent

\* The answer to the request: nothing is drained until all of it is there.
ReadConnect(buffered) ==
  IF buffered < HeaderLen + 1 THEN Wait
  ELSE IF proxy.status # "success" \/ proxy.type = "unknown"
  THEN Done("refused") /\ UNCHANGED drained
  ELSE IF buffered < HeaderLen + AddressLen + PortLen THEN Wait
  ELSE drained' = drained + HeaderLen + AddressLen + PortLen /\ Done("ok")

\* More bytes arrive and libevent calls socks5_read_cb.
Read == /\ step # "done"
        /\ \E n \in arrived + 1..Sent :
             /\ arrived' = n
             /\ IF step = "auth" THEN ReadAuth(n - drained) ELSE ReadConnect(n - drained)
        /\ UNCHANGED proxy

\* libevent reports an error or the end of the stream, never both in one event.
Event == step # "done" /\ Done("closed") /\ UNCHANGED <<proxy, arrived, drained>>

SocksNext == Read \/ Event

SocksSpec == SocksInit /\ [][SocksNext]_svars
-----------------------------------------------------------------------------
(* Properties *)

Granted == proxy.auth = "accepted" /\ proxy.status = "success" /\ proxy.type # "unknown"

\* However the answer is cut into pieces: the owner is called at most once; a connection
\* is handed over only if the proxy granted it, with the bytes of the peer, and only
\* those, left in the buffer; an error is reported only if the proxy refused or the
\* stream ended; and a complete answer never leaves the client waiting.
OneExactOutcome ==
  /\ Len(outcomes) <= 1
  /\ outcomes = <<"ok">> => Granted /\ drained = MethodLen + ReplyLen
  /\ outcomes \in {<<"auth failed">>, <<"refused">>} => ~Granted
  /\ step # "done" => arrived < MethodLen + ReplyLen
=============================================================================
