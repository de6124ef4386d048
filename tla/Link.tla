-------------------------------- MODULE Link --------------------------------
(***************************************************************************)
(* One direction of a connection: a thread that serializes and sends       *)
(* messages, a thread that receives and deserializes them, over sockets    *)
(* that split the bytes and may be killed by either end at any moment      *)
(* (src/common/socket_manager.cpp, receive_and_deserialize_action() and    *)
(* serialize_and_send_action() of both protocols).                         *)
(*                                                                         *)
(* The two directions share nothing but the sockets' end, so a behaviour   *)
(* carries messages in one of them, chosen at the start.                   *)
(***************************************************************************)
EXTENDS Socket, Wire

CONSTANTS
    ServerMessages, ClientMessages,    \* what each end may send
    Followers,                         \* bound: what it may send after that
    id,                                \* the client's, in its ServerProtocol
    MaxMessages                        \* bound: messages sent

ASSUME LinkAssumption == MaxMessages \in Nat

VARIABLES
    from,           \* the end that sends
    sent, delivered,
    told,           \* the client's queue has been given an UNKNOWN
    sender,         \* "idle", "header", "body" or "ended"
    left,           \* bytes of the current sendall() still to be sent
    body,           \* data, to be sent after its size
    receiver,       \* "header", "type", "body" or "ended"
    inside,         \* the receiver is inside recv()
    want,           \* bytes the current recvall() still waits for
    buffer,         \* bytes it has
    code            \* the type byte, at the client

sendVars == <<from, sent, sender, left, body>>
receiveVars == <<delivered, told, receiver, inside, want, buffer, code>>
vars == <<socketVars, sendVars, receiveVars>>

to == Other(from)

Messages == IF from = "peer" THEN ServerMessages ELSE ClientMessages
Connected == Built("client") /\ Built("peer")
Killed == shut # {} \/ (\E e \in Ends : Built(e) /\ closed[e])

TypeOK ==
    /\ SocketTypeOK
    /\ from \in Ends
    /\ Len(sent) <= MaxMessages
    /\ told \in BOOLEAN
    /\ sender \in {"idle", "header", "body", "ended"}
    /\ receiver \in {"header", "type", "body", "ended"}
    /\ inside \in BOOLEAN
    /\ left \in Seq(0 .. 255) /\ body \in Seq(0 .. 255) /\ buffer \in Seq(0 .. 255)
    /\ want \in Nat

Init ==
    /\ SocketInit
    /\ from \in Ends
    /\ sent = <<>> /\ delivered = <<>> /\ told = FALSE
    /\ sender = "idle" /\ left = <<>> /\ body = <<>>
    /\ receiver = "header" /\ inside = FALSE /\ want = 2 /\ buffer = <<>>
    /\ code = 0

(***************************************************************************)
(* Sending: two bytes of size, then the data.                              *)
(***************************************************************************)
Serialize(m) == IF from = "peer" THEN server_serialize(m) ELSE client_serialize(m)

Uint16 == 65536

Send(m) ==
    /\ Connected /\ sender = "idle" /\ Len(sent) < MaxMessages
    /\ sent # <<>> => m \in Followers
    /\ sent' = Append(sent, m)
    /\ body' = Serialize(m)
    /\ left' = Encode(Len(Serialize(m)) % Uint16, 2)
    /\ sender' = "header"
    /\ UNCHANGED <<from, receiveVars, socketVars>>

\* serialize_and_send_action() gave false: the server's sender ends, the
\* client's does not look at the result.
SendFailed ==
    /\ sender' = IF from = "peer" THEN "ended" ELSE "idle"
    /\ left' = <<>> /\ body' = <<>>

SendEnds == sender' = "ended" /\ left' = <<>> /\ body' = <<>>

\* sendall() has sent part of its bytes.
SomeSent == Len(left) < IF sender = "header" THEN 2 ELSE Len(body)

\* Bound: a call to sendall() or recvall() is cut short at most once.
Cuts(n, begun) == IF begun THEN {n} ELSE {1, n}

SendSome ==
    /\ sender \in {"header", "body"}
    /\ \E n \in Cuts(Len(left), SomeSent) :
         /\ SendGoes(from, SubSeq(left, 1, n))
         /\ IF n < Len(left)
            THEN left' = SubSeq(left, n + 1, Len(left)) /\ UNCHANGED <<sender, body>>
            ELSE IF "SEND" \in stream_status[from]
            THEN SendFailed
            ELSE IF sender = "header"
            THEN sender' = "body" /\ left' = body /\ UNCHANGED body
            ELSE sender' = "idle" /\ left' = <<>> /\ body' = <<>>
    /\ UNCHANGED <<from, sent, receiveVars>>

SendStops ==
    /\ sender \in {"header", "body"}
    /\ \/ SendIsClosed(from) /\ IF SomeSent THEN SendEnds ELSE SendFailed
       \/ SendThrows(from) /\ SendEnds
    /\ UNCHANGED <<from, sent, receiveVars>>

(***************************************************************************)
(* Receiving: the size, at the client the type, then the rest.             *)
(***************************************************************************)
Await(stage, n) == receiver' = stage /\ want' = n /\ buffer' = <<>>

ReceiveEnds ==
    /\ receiver' = "ended" /\ want' = 0 /\ buffer' = <<>>
    /\ UNCHANGED <<told, delivered, code>>

\* receive_and_deserialize_action() gave UNKNOWN: the server's receiver ends,
\* the client's pushes it and goes on.
ReceiveUnknown ==
    /\ IF to = "peer"
       THEN receiver' = "ended" /\ want' = 0 /\ buffer' = <<>> /\ UNCHANGED told
       ELSE Await("header", 2) /\ told' = TRUE
    /\ UNCHANGED <<delivered, code>>

Deliver(m) ==
    IF m = Unknown THEN ReceiveUnknown
    ELSE Await("header", 2) /\ delivered' = Append(delivered, m) /\ UNCHANGED <<told, code>>

\* recvall() at the server has all its bytes.
ServerReceived(bytes) ==
    IF receiver = "header"
    THEN Await("body", U16At(bytes, 0)) /\ UNCHANGED <<delivered, told, code>>
    ELSE Deliver(server_deserialize(bytes, id))

\* Mutant: the client waits for size bytes after the type.
ClientReceivedWhole(bytes) ==
    CASE receiver = "header" ->
           Await("type", 1) /\ code' = U16At(bytes, 0) /\ UNCHANGED <<delivered, told>>
      [] receiver = "type" /\ code > 1 ->
           Await("body", code) /\ code' = bytes[1] /\ UNCHANGED <<delivered, told>>
      [] receiver = "type" /\ code <= 1 -> Deliver(client_deserialize(bytes[1], <<>>, 0))
      [] receiver = "body" -> \E past \in {0, 255} : Deliver(client_deserialize(code, bytes, past))

\* recvall() at the client has all its bytes; code holds the size until the
\* type is there.
ClientReceived(bytes) ==
    CASE receiver = "header" ->
           Await("type", 1) /\ code' = U16At(bytes, 0) /\ UNCHANGED <<delivered, told>>
      [] receiver = "type" /\ code > 1 ->
           Await("body", code - 1) /\ code' = bytes[1] /\ UNCHANGED <<delivered, told>>
      [] receiver = "type" /\ code <= 1 -> Deliver(client_deserialize(bytes[1], <<>>, 0))
      [] receiver = "body" -> \E past \in {0, 255} : Deliver(client_deserialize(code, bytes, past))

EnterRecv ==
    /\ Connected /\ receiver # "ended" /\ ~inside
    /\ IF closed[to]
       THEN ReceiveEnds /\ UNCHANGED inside
       ELSE inside' = TRUE /\ UNCHANGED <<delivered, told, receiver, want, buffer, code>>
    /\ UNCHANGED <<sendVars, socketVars>>

RecvSome ==
    /\ inside
    /\ inside' = FALSE
    /\ \E n \in Cuts(want, buffer # <<>>) \cup {Len(channel[to])} :
         /\ n <= want
         /\ RecvGets(to, n)
         /\ LET bytes == buffer \o SubSeq(channel[to], 1, n)
            IN  IF n < want
                THEN /\ buffer' = bytes /\ want' = want - n
                     /\ UNCHANGED <<delivered, told, receiver, code>>
                ELSE IF "RECV" \in stream_status[to]
                THEN ReceiveUnknown
                ELSE IF to = "peer" THEN ServerReceived(bytes) ELSE ClientReceived(bytes)
    /\ UNCHANGED sendVars

RecvStops ==
    /\ inside
    /\ inside' = FALSE
    /\ \/ RecvIsClosed(to) /\ IF buffer # <<>> THEN ReceiveEnds ELSE ReceiveUnknown
       \/ RecvThrows(to) /\ ReceiveEnds
    /\ UNCHANGED sendVars

(***************************************************************************)
(* SocketManager::kill(): shutdown, then close.                            *)
(***************************************************************************)
KillShutdown(e) ==
    /\ Connected /\ e \notin shut
    /\ Shutdown(e)
    /\ UNCHANGED <<sendVars, receiveVars>>

KillClose(e) ==
    /\ stream_status[e] = BothClosed
    /\ Close(e, inside /\ e = to /\ e \notin shut)
    /\ UNCHANGED <<sendVars, receiveVars>>

Establish ==
    /\ \/ ConnectTo
       \/ ListenOn
       \/ \E s \in {"client", "listener"} : GiveUp(s)
       \/ Accept
       \/ ~Built("peer") /\ Move("accepted", "peer")
    /\ UNCHANGED <<sendVars, receiveVars>>

Threads == SendSome \/ SendStops \/ EnterRecv \/ RecvSome \/ RecvStops

Next ==
    \/ Establish
    \/ \E m \in Messages : Send(m)
    \/ Threads
    \/ \E e \in Ends : KillShutdown(e) \/ KillClose(e)

Spec ==
    /\ Init /\ [][Next]_vars
    /\ WF_vars(SendSome \/ SendStops)
    /\ WF_vars(EnterRecv \/ RecvSome \/ RecvStops)
    /\ \A e \in Ends : WF_vars(KillClose(e))

(***************************************************************************)
(* Properties.                                                             *)
(***************************************************************************)
\* What the server adds to a message of the match: whose it is, and for ammunition
\* the kind of weapon.
With(m, more) ==
    [f \in DOMAIN m \cup DOMAIN more |-> IF f \in DOMAIN more THEN more[f] ELSE m[f]]

Named(m) ==
    IF m.type \in {"CREATE", "JOIN"} THEN m
    ELSE IF m.type \in {"AMMOPRIMARY", "AMMOSECONDARY"}
    THEN With(m, [id |-> id, weapon_type |-> IF m.type = "AMMOPRIMARY" THEN "PRIMARY" ELSE "SECONDARY"])
    ELSE With(m, [id |-> id])

Received(m) == IF from = "peer" THEN m ELSE Named(m)

\* What each end writes are bytes whose number fits in the two of the size.
Framed(bytes) == bytes \in Seq(0 .. 255) /\ 0 < Len(bytes) /\ Len(bytes) < Uint16

\* The two ends agree on a message: what one writes the other reads, if it is given
\* just the bytes that were written.
ClientReads(m) ==
    LET bytes == server_serialize(m)
    IN  /\ Framed(bytes) /\ m # Unknown
        /\ IF Len(bytes) = 1 THEN client_deserialize(bytes[1], <<>>, 0) = m
           ELSE \A past \in {0, 255} :
                  client_deserialize(bytes[1], SubSeq(bytes, 2, Len(bytes)), past) = m

ServerReads(m) ==
    LET bytes == client_serialize(m)
    IN  Framed(bytes) /\ Named(m) # Unknown /\ server_deserialize(bytes, id) = Named(m)

ClientUnderstands == \A m \in ServerMessages : ClientReads(m)
ServerUnderstands == \A m \in ClientMessages : ServerReads(m)

\* Wherever the bytes are split and whenever either end is killed, what has been
\* received is what was sent, in order, each field as it was: never half a message,
\* never one that begins in the middle of another.
InOrder == IsPrefix(delivered, [k \in DOMAIN sent |-> Received(sent[k])])

\* Unless an end is killed, every message that is sent is received.
Delivered ==
    \A k \in 1 .. MaxMessages : (Len(sent) >= k) ~> (Len(delivered) >= k \/ Killed)

\* Once an end is killed its own receiver, or the one at the other end, does not
\* stay blocked: it ends or hands the client an UNKNOWN.
KillEndsReceiver == Killed ~> (receiver = "ended" \/ told)

\* "ID del jugador -> ..." (src/common/stats.h): the statistics the client has are
\* those of the players the server sent, and the score is the server's.
StatsArrive ==
    \A k \in DOMAIN delivered : delivered[k].type = "STATS" => delivered[k] = sent[k]

=============================================================================
