------------------------------- MODULE Socket -------------------------------
(***************************************************************************)
(* The sockets of one connection (src/common/socket.cpp): the client's,    *)
(* the server's listener, the temporary accept() returns and the one the   *)
(* client handler keeps (the peer).  A Socket owns a descriptor of its     *)
(* process; the kernel's side is the set of open descriptors, the bytes on *)
(* their way and which ends have been shut down.                           *)
(***************************************************************************)
EXTENDS Integers, Sequences

CONSTANT MaxAddresses    \* bound: addresses the resolver may find

ASSUME SocketAssumption == MaxAddresses \in Nat

VARIABLES
    skt,            \* descriptor of each Socket, -1 when moved or not built
    closed,
    stream_status,  \* of each Socket: what is closed, of "SEND" and "RECV"
    addresses,      \* addresses each constructor has left to try
    trying,         \* the constructor's local descriptor
    open,           \* kernel: descriptors open in each process
    channel,        \* kernel: bytes sent to each end and not received
    shut            \* kernel: ends that have been shut down

socketVars == <<skt, closed, stream_status, addresses, trying, open, channel, shut>>

Sockets == {"client", "listener", "accepted", "peer"}
Process == [s \in Sockets |-> IF s = "client" THEN "client" ELSE "server"]
Ends == {"client", "peer"}
Other(e) == IF e = "client" THEN "peer" ELSE "client"
BothClosed == {"SEND", "RECV"}
Descriptors == 1 .. MaxAddresses + 2

SocketTypeOK ==
    /\ skt \in [Sockets -> Descriptors \cup {-1}]
    /\ closed \in [Sockets -> BOOLEAN]
    /\ stream_status \in [Sockets -> SUBSET BothClosed]
    /\ addresses \in [{"client", "listener"} -> 0 .. MaxAddresses]
    /\ trying \in [{"client", "listener"} -> Descriptors \cup {-1}]
    /\ open \in [{"client", "server"} -> SUBSET Descriptors]
    /\ channel \in [Ends -> Seq(0 .. 255)]
    /\ shut \subseteq Ends

\* The Resolver has found some addresses, or its constructor would have thrown.
SocketInit ==
    /\ skt = [s \in Sockets |-> -1]
    /\ closed = [s \in Sockets |-> TRUE]
    /\ stream_status = [s \in Sockets |-> BothClosed]
    /\ addresses = [s \in {"client", "listener"} |-> MaxAddresses]
    /\ trying = [s \in {"client", "listener"} |-> -1]
    /\ open = [p \in {"client", "server"} |-> {}]
    /\ channel = [e \in Ends |-> <<>>]
    /\ shut = {}

\* The lowest descriptor that is free.
NewDescriptor(fds) == CHOOSE d \in Descriptors \ fds : \A x \in Descriptors \ fds : d <= x

Built(s) == skt[s] # -1

Take(s, d) ==
    /\ skt' = [skt EXCEPT ![s] = d]
    /\ closed' = [closed EXCEPT ![s] = FALSE]
    /\ stream_status' = [stream_status EXCEPT ![s] = {}]

(***************************************************************************)
(* A constructor's loop: one address.  What the last one left open is      *)
(* closed, then socket() fails, or a later call does, or all succeed.      *)
(***************************************************************************)
TryNext(s, reachable) ==
    LET p == Process[s]
        left == open[p] \ {trying[s]}
        d == NewDescriptor(left)
    IN  /\ ~Built(s)
        /\ addresses[s] > 0
        /\ \/ /\ addresses' = [addresses EXCEPT ![s] = @ - 1]
              /\ \/ trying' = [trying EXCEPT ![s] = -1] /\ open' = [open EXCEPT ![p] = left]
                 \/ /\ trying' = [trying EXCEPT ![s] = d]
                    /\ open' = [open EXCEPT ![p] = left \cup {d}]
              /\ UNCHANGED <<skt, closed, stream_status>>
           \/ /\ reachable
              /\ Take(s, d)
              /\ trying' = [trying EXCEPT ![s] = -1]
              /\ addresses' = [addresses EXCEPT ![s] = 0]
              /\ open' = [open EXCEPT ![p] = left \cup {d}]
        /\ UNCHANGED <<channel, shut>>

ConnectTo == TryNext("client", Built("listener") /\ ~closed["listener"])

ListenOn == TryNext("listener", TRUE)

\* No address is left: the constructor closes what it holds and throws.
GiveUp(s) ==
    /\ ~Built(s) /\ addresses[s] = 0 /\ trying[s] # -1
    /\ open' = [open EXCEPT ![Process[s]] = @ \ {trying[s]}]
    /\ trying' = [trying EXCEPT ![s] = -1]
    /\ UNCHANGED <<skt, closed, stream_status, addresses, channel, shut>>

Accept ==
    /\ Built("client")
    /\ Built("listener") /\ ~closed["listener"]
    /\ ~Built("accepted") /\ ~Built("peer")
    /\ LET d == NewDescriptor(open["server"])
       IN  /\ Take("accepted", d)
           /\ open' = [open EXCEPT !["server"] = @ \cup {d}]
    /\ UNCHANGED <<addresses, trying, channel, shut>>

\* Mutant: the socket that is moved from still believes it has the descriptor.
MoveAndKeep(other, this) ==
    /\ Built(other)
    /\ skt' = [skt EXCEPT ![this] = skt[other], ![other] = -1]
    /\ closed' = [closed EXCEPT ![this] = closed[other]]
    /\ stream_status' = [stream_status EXCEPT ![this] = stream_status[other],
                                              ![other] = BothClosed]
    /\ UNCHANGED <<addresses, trying, open, channel, shut>>

\* Socket(Socket&&): the handler's socket takes over the temporary's.
Move(other, this) ==
    /\ Built(other)
    /\ skt' = [skt EXCEPT ![this] = skt[other], ![other] = -1]
    /\ closed' = [closed EXCEPT ![this] = closed[other], ![other] = TRUE]
    /\ stream_status' = [stream_status EXCEPT ![this] = stream_status[other],
                                              ![other] = BothClosed]
    /\ UNCHANGED <<addresses, trying, open, channel, shut>>

\* Mutant: the stream is marked closed, the kernel is not told.
ShutdownUntold(e) ==
    /\ Built(e) /\ ~closed[e]
    /\ stream_status' = [stream_status EXCEPT ![e] = BothClosed]
    /\ UNCHANGED <<skt, closed, addresses, trying, open, channel, shut>>

\* shutdown(2), both directions.
Shutdown(e) ==
    /\ Built(e) /\ ~closed[e]
    /\ shut' = IF e \in Ends THEN shut \cup {e} ELSE shut
    /\ stream_status' = [stream_status EXCEPT ![e] = BothClosed]
    /\ UNCHANGED <<skt, closed, addresses, trying, open, channel>>

\* Closing a descriptor another thread is blocked on (inUse) leaves the
\* connection up until that thread returns.
Close(e, inUse) ==
    /\ Built(e) /\ ~closed[e]
    /\ closed' = [closed EXCEPT ![e] = TRUE]
    /\ stream_status' = [stream_status EXCEPT ![e] = BothClosed]
    /\ open' = [open EXCEPT ![Process[e]] = @ \ {skt[e]}]
    /\ shut' = IF e \in Ends /\ ~inUse THEN shut \cup {e} ELSE shut
    /\ UNCHANGED <<skt, addresses, trying, channel>>

(***************************************************************************)
(* sendsome() and recvsome().  Each has three outcomes: some bytes, zero   *)
(* because the stream is closed, or an exception.                          *)
(***************************************************************************)
SendGoes(e, bytes) ==
    /\ ~closed[e] /\ e \notin shut
    /\ channel' = IF Other(e) \in shut THEN channel    \* accepted, and lost
                  ELSE [channel EXCEPT ![Other(e)] = @ \o bytes]
    /\ UNCHANGED <<skt, closed, stream_status, addresses, trying, open, shut>>

SendIsClosed(e) ==
    /\ ~closed[e] /\ shut # {}
    /\ stream_status' = [stream_status EXCEPT ![e] = @ \cup {"SEND"}]
    /\ UNCHANGED <<skt, closed, addresses, trying, open, channel, shut>>

SendThrows(e) == (closed[e] \/ Other(e) \in shut) /\ UNCHANGED socketVars

\* The caller is inside recv(), entered while the descriptor was open.
RecvGets(e, n) ==
    /\ n \in 1 .. Len(channel[e])
    /\ channel' = [channel EXCEPT ![e] = SubSeq(@, n + 1, Len(@))]
    /\ UNCHANGED <<skt, closed, stream_status, addresses, trying, open, shut>>

RecvIsClosed(e) ==
    /\ channel[e] = <<>> /\ shut # {}
    /\ stream_status' = [stream_status EXCEPT ![e] = @ \cup {"RECV"}]
    /\ UNCHANGED <<skt, closed, addresses, trying, open, channel, shut>>

\* A descriptor that is closed and not shut down leaves the caller where it is.
RecvThrows(e) == ((closed[e] /\ e \in shut) \/ Other(e) \in shut) /\ UNCHANGED socketVars

(***************************************************************************)
(* Each descriptor that is open belongs to exactly one Socket that will    *)
(* close it, or is the constructor's own: none is leaked by a failed       *)
(* address, and none is closed twice after a move.                         *)
(***************************************************************************)
DescriptorsOwned ==
    \A p \in DOMAIN open :
      LET mine == {s \in Sockets : Process[s] = p /\ ~closed[s]}
          temporary == {trying[s] : s \in {x \in DOMAIN trying : Process[x] = p}} \ {-1}
      IN  /\ open[p] = {skt[s] : s \in mine} \cup temporary
          /\ \A s, t \in mine : skt[s] = skt[t] => s = t

=============================================================================
