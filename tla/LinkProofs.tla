----------------------------- MODULE LinkProofs -----------------------------
(***************************************************************************)
(* For any messages and any number of addresses: who owns the descriptors  *)
(* of a connection; that the bytes received are those sent, message by     *)
(* message, wherever they are split; and that what the serializers of one  *)
(* end write the deserializers of the other give back.                     *)
(***************************************************************************)
EXTENDS Link, SequenceTheorems, WellFoundedInduction, TLAPS

-----------------------------------------------------------------------------
(* The sockets *)

Constructors == {"client", "listener"}
Handles == Descriptors \cup {-1}

SocketTypes ==
    /\ skt \in [Sockets -> Handles]
    /\ closed \in [Sockets -> BOOLEAN]
    /\ trying \in [Constructors -> Handles]
    /\ open \in [{"client", "server"} -> SUBSET Descriptors]

\* A Socket that was not built holds nothing, a constructor that is done tries
\* nothing, and the server's sockets for a client come after the listener.
Stages ==
    /\ \A s \in Sockets : ~closed[s] => Built(s)
    /\ \A s \in Constructors : Built(s) => trying[s] = -1
    /\ Built("accepted") \/ Built("peer") => Built("listener")
    /\ ~(Built("accepted") /\ Built("peer"))

Holds(p, d) == \E s \in Sockets : Process[s] = p /\ ~closed[s] /\ skt[s] = d
Tries(p, d) == \E s \in Constructors : Process[s] = p /\ trying[s] = d

Owned ==
    /\ \A p \in {"client", "server"}, d \in Descriptors :
         d \in open[p] <=> Holds(p, d) \/ Tries(p, d)
    /\ \A s, t \in Sockets :
         (Process[s] = Process[t] /\ ~closed[s] /\ ~closed[t] /\ skt[s] = skt[t]) => s = t

SocketInv == SocketTypes /\ Stages /\ Owned

LEMMA DescriptorsAre == Descriptors \subseteq Nat /\ 1 \in Descriptors /\ 2 \in Descriptors
                          /\ -1 \notin Descriptors
BY SocketAssumption DEF SocketAssumption, Descriptors

LEMMA ProcessIs ==
  /\ Process["client"] = "client" /\ Process["listener"] = "server"
  /\ Process["accepted"] = "server" /\ Process["peer"] = "server"
BY DEF Process, Sockets

LEMMA HasLeast ==
  ASSUME NEW S \in SUBSET Nat, S # {}
  PROVE  \E m \in S : \A k \in S : m <= k
<1> DEFINE Less == {p \in Nat \X Nat : p[1] < p[2]}
<1>1. IsWellFoundedOn(Less, Nat)
  <2>1. Less = OpToRel(<, Nat)
    BY Zenon DEF OpToRel
  <2> QED BY <2>1, NatLessThanWellFounded, Zenon
<1> HIDE DEF Less
<1>2. PICK m \in S : \A k \in S : ~(<<k, m>> \in Less)
  BY <1>1, WFMin
<1>3. \A k \in S : ~(k < m)
  BY <1>2 DEF Less
<1> QED BY <1>3

\* A process with at most one descriptor open has another one free.
LEMMA NewDescriptorIsFree ==
  ASSUME NEW fds \in SUBSET Descriptors, NEW x, fds \subseteq {x}
  PROVE  NewDescriptor(fds) \in Descriptors \ fds
<1>1. Descriptors \ fds \in SUBSET Nat /\ Descriptors \ fds # {}
  BY DescriptorsAre
<1>2. PICK d \in Descriptors \ fds : \A y \in Descriptors \ fds : d <= y
  BY <1>1, HasLeast
<1> QED BY <1>2 DEF NewDescriptor

LEMMA InvGivesOwned == SocketInv => DescriptorsOwned
<1> SUFFICES ASSUME SocketInv, NEW p \in {"client", "server"}
             PROVE  /\ open[p] = {skt[s] : s \in {s \in Sockets : Process[s] = p /\ ~closed[s]}}
                         \cup ({trying[s] : s \in {x \in Constructors : Process[x] = p}} \ {-1})
                    /\ \A s, t \in {s \in Sockets : Process[s] = p /\ ~closed[s]} :
                         skt[s] = skt[t] => s = t
  BY DEF DescriptorsOwned, SocketInv, SocketTypes, Constructors
<1>1. open[p] \subseteq Descriptors
  BY DEF SocketInv, SocketTypes
<1>2. \A s \in Sockets : ~closed[s] => skt[s] \in Descriptors
  BY DEF SocketInv, SocketTypes, Stages, Built, Handles
<1>3. \A s \in Constructors : trying[s] # -1 => trying[s] \in Descriptors
  BY DEF SocketInv, SocketTypes, Handles
<1>4. \A d : d \in open[p] <=>
        \/ \E s \in Sockets : Process[s] = p /\ ~closed[s] /\ skt[s] = d
        \/ d # -1 /\ \E s \in Constructors : Process[s] = p /\ trying[s] = d
  <2>1. ASSUME NEW d \in Descriptors
        PROVE  d \in open[p] <=> Holds(p, d) \/ Tries(p, d)
    BY DEF SocketInv, Owned
  <2> QED BY <1>1, <1>2, <1>3, <2>1, DescriptorsAre DEF Holds, Tries
<1> QED BY <1>4 DEF SocketInv, Owned

LEMMA InitStep == Init => SocketInv
<1> SUFFICES ASSUME Init PROVE SocketInv
  OBVIOUS
<1>1. SocketTypes
  BY DEF Init, SocketInit, SocketTypes, Constructors, Handles
<1>2. Stages
  BY DEF Init, SocketInit, Stages, Built, Sockets, Constructors
<1>3. Owned
  BY DescriptorsAre DEF Init, SocketInit, Owned, Holds, Tries, Sockets, Constructors
<1> QED BY <1>1, <1>2, <1>3 DEF SocketInv

LEMMA Untouched ==
  ASSUME SocketInv, UNCHANGED <<skt, closed, trying, open>>
  PROVE  SocketInv'
<1>1. SocketTypes'
  BY DEF SocketInv, SocketTypes
<1>2. Stages'
  BY DEF SocketInv, Stages, Built
<1>3. Owned'
  BY DEF SocketInv, Owned, Holds, Tries
<1> QED BY <1>1, <1>2, <1>3 DEF SocketInv

-----------------------------------------------------------------------------
(* The constructors *)

\* Until a constructor is done its process has only what it tries.
LEMMA OnlyTries ==
  ASSUME SocketInv, NEW s \in Constructors, ~Built(s)
  PROVE  /\ open[Process[s]] = {trying[s]} \ {-1}
         /\ \A t \in Sockets : Process[t] = Process[s] => closed[t] /\ ~Built(t)
<1>1. \A t \in Sockets : Process[t] = Process[s] => ~Built(t)
  BY ProcessIs DEF SocketInv, Stages, Sockets, Constructors
<1>2. \A t \in Sockets : Process[t] = Process[s] => closed[t]
  BY <1>1 DEF SocketInv, SocketTypes, Stages
<1>3. \A t \in Constructors : Process[t] = Process[s] => t = s
  BY ProcessIs DEF Constructors
<1>4. open[Process[s]] \subseteq Descriptors /\ trying[s] \in Handles
      /\ Process[s] \in {"client", "server"}
  BY ProcessIs DEF SocketInv, SocketTypes, Constructors
<1>5. \A d \in Descriptors : d \in open[Process[s]] <=> d = trying[s]
  BY <1>2, <1>3, <1>4 DEF SocketInv, Owned, Holds, Tries
<1> QED BY <1>1, <1>2, <1>4, <1>5, DescriptorsAre DEF Handles

\* A constructor drops what it has and holds h instead, or nothing.
LEMMA TriesOther ==
  ASSUME SocketInv, NEW s \in Constructors, ~Built(s), NEW h \in Handles,
         trying' = [trying EXCEPT ![s] = h],
         open' = [open EXCEPT ![Process[s]] = {h} \ {-1}],
         UNCHANGED <<skt, closed>>
  PROVE  SocketInv'
<1>1. Process[s] \in {"client", "server"} /\ s \in Sockets
  BY ProcessIs DEF Constructors, Sockets
<1>2. SocketTypes'
  <2>1. {h} \ {-1} \in SUBSET Descriptors
    BY DEF Handles
  <2> QED BY <1>1, <2>1 DEF SocketInv, SocketTypes
<1>3. Stages'
  BY DEF SocketInv, SocketTypes, Stages, Built
<1>4. Owned'
  <2>1. \A t \in Sockets : Process[t] = Process[s] => closed[t]
    BY OnlyTries
  <2>2. \A t \in Constructors : /\ Process[t] = Process[s] <=> t = s
                                /\ t # s => trying'[t] = trying[t]
    BY ProcessIs DEF Constructors, SocketInv, SocketTypes
  <2>3. trying'[s] = h /\ open'[Process[s]] = {h} \ {-1}
    BY <1>1 DEF SocketInv, SocketTypes
  <2>4. ASSUME NEW p \in {"client", "server"}, NEW d \in Descriptors
        PROVE  (d \in open'[p]) <=> (Holds(p, d)' \/ Tries(p, d)')
    <3>1. CASE p = Process[s]
      BY <2>1, <2>2, <2>3, <3>1, DescriptorsAre DEF Holds, Tries
    <3>2. CASE p # Process[s]
      <4>1. open'[p] = open[p]
        BY <1>1, <3>2 DEF SocketInv, SocketTypes
      <4>2. Holds(p, d)' <=> Holds(p, d)
        BY DEF Holds
      <4>3. Tries(p, d)' <=> Tries(p, d)
        BY <2>2, <3>2 DEF Tries
      <4> QED BY <4>1, <4>2, <4>3 DEF SocketInv, Owned
    <3> QED BY <3>1, <3>2
  <2> QED BY <2>4 DEF Owned, SocketInv
<1> QED BY <1>2, <1>3, <1>4 DEF SocketInv

\* A Socket that was not built takes a descriptor its process had not open, and the
\* process has besides only what its other sockets hold.
LEMMA Takes ==
  ASSUME SocketInv, NEW s \in Sockets, ~Built(s), NEW d \in Descriptors, ~Holds(Process[s], d),
         Take(s, d), Stages',
         trying' \in [Constructors -> Handles],
         \A t \in Constructors : Process[t] = Process[s] => trying'[t] = -1,
         \A t \in Constructors : Process[t] # Process[s] => trying'[t] = trying[t],
         open' = [open EXCEPT ![Process[s]] =
                    {e \in Descriptors : Holds(Process[s], e)} \cup {d}]
  PROVE  SocketInv'
<1>1. Process[s] \in {"client", "server"}
  BY ProcessIs DEF Sockets
<1>2. SocketTypes'
  <2>1. {e \in Descriptors : Holds(Process[s], e)} \cup {d} \in SUBSET Descriptors
    OBVIOUS
  <2> QED BY <1>1, <2>1 DEF SocketInv, SocketTypes, Take, Handles
<1>3. /\ skt'[s] = d /\ ~closed'[s]
      /\ \A t \in Sockets : t # s => skt'[t] = skt[t] /\ closed'[t] = closed[t]
      /\ closed[s]
  BY DEF Take, SocketInv, SocketTypes, Stages
<1>4. \A t \in Sockets : (Process[t] = Process[s] /\ ~closed[t]) => skt[t] # d
  BY DEF Holds
<1>5. ASSUME NEW p \in {"client", "server"}, NEW e \in Descriptors
      PROVE  (e \in open'[p]) <=> (Holds(p, e)' \/ Tries(p, e)')
  <2>1. CASE p = Process[s]
    <3>1. e \in open'[p] <=> Holds(p, e) \/ e = d
      BY <1>1, <2>1 DEF SocketInv, SocketTypes
    <3>2. Holds(p, e)' <=> Holds(p, e) \/ e = d
      BY <1>3, <2>1 DEF Holds
    <3>3. ~Tries(p, e)'
      BY <2>1, DescriptorsAre DEF Tries
    <3> QED BY <3>1, <3>2, <3>3
  <2>2. CASE p # Process[s]
    <3>1. open'[p] = open[p]
      BY <1>1, <2>2 DEF SocketInv, SocketTypes
    <3>2. Holds(p, e)' <=> Holds(p, e)
      BY <1>3, <2>2 DEF Holds
    <3>3. Tries(p, e)' <=> Tries(p, e)
      BY <2>2 DEF Tries
    <3> QED BY <3>1, <3>2, <3>3 DEF SocketInv, Owned
  <2> QED BY <2>1, <2>2
<1>6. \A t, u \in Sockets :
        (Process[t] = Process[u] /\ ~closed'[t] /\ ~closed'[u] /\ skt'[t] = skt'[u]) => t = u
  BY <1>3, <1>4 DEF SocketInv, Owned
<1> QED BY <1>2, <1>5, <1>6 DEF SocketInv, Owned

LEMMA TryNextStep ==
  ASSUME SocketInv, NEW s \in Constructors, NEW reachable, TryNext(s, reachable)
  PROVE  SocketInv'
<1> DEFINE p == Process[s]
           kept == open[p] \ {trying[s]}
           d == NewDescriptor(kept)
<1>1. ~Built(s) /\ p \in {"client", "server"} /\ s \in Sockets
  BY ProcessIs DEF TryNext, Constructors, Sockets
<1>2. kept = {} /\ \A t \in Sockets : Process[t] = p => closed[t] /\ ~Built(t)
  BY <1>1, OnlyTries
<1>3. d \in Descriptors
  BY <1>2, NewDescriptorIsFree
<1>4. CASE /\ trying' = [trying EXCEPT ![s] = -1] /\ open' = [open EXCEPT ![p] = kept]
           /\ UNCHANGED <<skt, closed>>
  <2>1. {-1} \ {-1} = kept /\ -1 \in Handles
    BY <1>2 DEF Handles
  <2> QED BY <1>1, <1>4, <2>1, TriesOther
<1>5. CASE /\ trying' = [trying EXCEPT ![s] = d] /\ open' = [open EXCEPT ![p] = kept \cup {d}]
           /\ UNCHANGED <<skt, closed>>
  <2>1. {d} \ {-1} = kept \cup {d} /\ d \in Handles
    BY <1>2, <1>3, DescriptorsAre DEF Handles
  <2> HIDE DEF d
  <2> QED BY <1>1, <1>5, <2>1, TriesOther
<1>6. CASE /\ Take(s, d) /\ trying' = [trying EXCEPT ![s] = -1]
           /\ open' = [open EXCEPT ![p] = kept \cup {d}]
  <2>1. {e \in Descriptors : Holds(p, e)} \cup {d} = kept \cup {d} /\ ~Holds(p, d)
    BY <1>2 DEF Holds
  <2>2. /\ trying' \in [Constructors -> Handles]
        /\ \A t \in Constructors : Process[t] = p => trying'[t] = -1
        /\ \A t \in Constructors : Process[t] # p => trying'[t] = trying[t]
    BY <1>6, ProcessIs DEF SocketInv, SocketTypes, Constructors, Handles
  <2>3. Stages'
    BY <1>1, <1>2, <1>3, <1>6, <2>2, ProcessIs, DescriptorsAre
       DEF SocketInv, SocketTypes, Stages, Take, Built, Sockets, Constructors
  <2> HIDE DEF d
  <2> QED BY <1>1, <1>3, <1>6, <2>1, <2>2, <2>3, Takes
<1> QED BY <1>4, <1>5, <1>6 DEF TryNext

LEMMA GiveUpStep ==
  ASSUME SocketInv, NEW s \in Constructors, GiveUp(s)
  PROVE  SocketInv'
<1>1. ~Built(s) /\ Process[s] \in {"client", "server"}
  BY ProcessIs DEF GiveUp, Constructors
<1>2. open[Process[s]] \ {trying[s]} = {-1} \ {-1} /\ -1 \in Handles
  BY <1>1, OnlyTries DEF Handles
<1>3. open' = [open EXCEPT ![Process[s]] = {-1} \ {-1}]
  BY <1>2 DEF GiveUp
<1> QED BY <1>1, <1>2, <1>3, TriesOther DEF GiveUp

-----------------------------------------------------------------------------
(* Accepting, moving and closing *)

LEMMA AcceptStep ==
  ASSUME SocketInv, Accept
  PROVE  SocketInv'
<1> DEFINE d == NewDescriptor(open["server"])
<1>1. /\ Built("client") /\ Built("listener") /\ ~Built("accepted") /\ ~Built("peer")
      /\ Take("accepted", d)
      /\ open' = [open EXCEPT !["server"] = @ \cup {d}]
      /\ UNCHANGED trying
  BY DEF Accept
<1>2. open["server"] = {e \in Descriptors : Holds("server", e)}
  <2>1. trying["listener"] = -1
    BY <1>1 DEF SocketInv, Stages, Constructors
  <2>2. \A e \in Descriptors : ~Tries("server", e)
    BY <2>1, ProcessIs, DescriptorsAre DEF Tries, Constructors
  <2> QED BY <2>2 DEF SocketInv, SocketTypes, Owned
<1>3. \A e \in open["server"] : e = skt["listener"]
  BY <1>1, <1>2, ProcessIs DEF Holds, SocketInv, Stages, Sockets
<1>4. d \in Descriptors /\ d \notin open["server"]
  BY <1>3, NewDescriptorIsFree DEF SocketInv, SocketTypes
<1>5. /\ "accepted" \in Sockets /\ Process["accepted"] = "server"
      /\ ~Holds(Process["accepted"], d)
  BY <1>2, <1>4, ProcessIs DEF Sockets
<1>6. Stages'
  BY <1>1, <1>4, DescriptorsAre DEF SocketInv, SocketTypes, Stages, Take, Built, Sockets, Constructors
<1>7. /\ trying' \in [Constructors -> Handles]
      /\ \A t \in Constructors : Process[t] = Process["accepted"] => trying'[t] = -1
      /\ \A t \in Constructors : Process[t] # Process["accepted"] => trying'[t] = trying[t]
  BY <1>1, ProcessIs DEF SocketInv, SocketTypes, Stages, Constructors
<1>8. open' = [open EXCEPT ![Process["accepted"]] =
                   {e \in Descriptors : Holds(Process["accepted"], e)} \cup {d}]
  BY <1>1, <1>2, ProcessIs
<1> HIDE DEF d
<1> QED BY <1>1, <1>4, <1>5, <1>6, <1>7, <1>8, Takes

\* The temporary of accept() gives its descriptor to the handler's Socket and does
\* not close it.
LEMMA MoveStep ==
  ASSUME SocketInv, ~Built("peer"), Move("accepted", "peer")
  PROVE  SocketInv'
<1>1. /\ Built("accepted") /\ UNCHANGED <<trying, open>>
      /\ skt' = [skt EXCEPT !["peer"] = skt["accepted"], !["accepted"] = -1]
      /\ closed' = [closed EXCEPT !["peer"] = closed["accepted"], !["accepted"] = TRUE]
      /\ closed["peer"]
  BY DEF Move, SocketInv, SocketTypes, Stages, Sockets
<1>2. /\ skt'["peer"] = skt["accepted"] /\ closed'["peer"] = closed["accepted"]
      /\ skt'["accepted"] = -1 /\ closed'["accepted"]
      /\ \A s \in {"client", "listener"} : skt'[s] = skt[s] /\ closed'[s] = closed[s]
  BY <1>1 DEF SocketInv, SocketTypes, Sockets
<1>3. SocketTypes'
  BY <1>1 DEF SocketInv, SocketTypes, Sockets, Handles
<1>4. Stages'
  BY <1>1, <1>2 DEF SocketInv, Stages, Built, Sockets, Constructors
<1>5. \A p \in {"client", "server"}, d \in Descriptors : Holds(p, d)' <=> Holds(p, d)
  BY <1>1, <1>2, ProcessIs DEF Holds, Sockets
<1>6. \A p \in {"client", "server"}, d \in Descriptors : Tries(p, d)' <=> Tries(p, d)
  BY <1>1 DEF Tries
<1>7. \A s, t \in Sockets :
        (Process[s] = Process[t] /\ ~closed'[s] /\ ~closed'[t] /\ skt'[s] = skt'[t]) => s = t
  <2> DEFINE was(s) == IF s = "peer" THEN "accepted" ELSE s
  <2>1. ASSUME NEW s \in Sockets, ~closed'[s]
        PROVE  /\ was(s) \in Sockets /\ Process[was(s)] = Process[s]
               /\ ~closed[was(s)] /\ skt[was(s)] = skt'[s] /\ s # "accepted"
    BY <1>2, <2>1, ProcessIs DEF Sockets
  <2>2. \A s, t \in Sockets : (was(s) = was(t) /\ s # "accepted" /\ t # "accepted") => s = t
    OBVIOUS
  <2> HIDE DEF was
  <2> QED BY <2>1, <2>2 DEF SocketInv, Owned
<1> QED BY <1>1, <1>3, <1>4, <1>5, <1>6, <1>7 DEF SocketInv, Owned

LEMMA CloseStep ==
  ASSUME SocketInv, NEW e \in Ends, NEW inUse, Close(e, inUse)
  PROVE  SocketInv'
<1>1. /\ e \in Sockets /\ Process[e] \in {"client", "server"}
      /\ Built(e) /\ ~closed[e] /\ UNCHANGED <<skt, trying>>
      /\ closed' = [closed EXCEPT ![e] = TRUE]
      /\ open' = [open EXCEPT ![Process[e]] = @ \ {skt[e]}]
  BY ProcessIs DEF Close, Ends, Sockets
<1>2. SocketTypes'
  BY <1>1 DEF SocketInv, SocketTypes
<1>3. \A s \in Sockets : closed'[s] <=> closed[s] \/ s = e
  BY <1>1 DEF SocketInv, SocketTypes
<1>4. Stages'
  BY <1>1, <1>3 DEF SocketInv, Stages, Built
<1>5. \A s \in Constructors : Process[s] = Process[e] => trying[s] = -1
  BY <1>1, ProcessIs DEF SocketInv, Stages, Constructors, Ends
<1>6. ASSUME NEW p \in {"client", "server"}, NEW d \in Descriptors
      PROVE  (d \in open'[p]) <=> (Holds(p, d)' \/ Tries(p, d)')
  <2>1. Tries(p, d)' <=> Tries(p, d)
    BY <1>1 DEF Tries
  <2>2. CASE p = Process[e]
    <3>1. ~Tries(p, d)
      BY <1>5, <2>2, DescriptorsAre DEF Tries
    <3>2. Holds(p, d)' <=> Holds(p, d) /\ d # skt[e]
      BY <1>1, <1>3, <2>2 DEF Holds, SocketInv, Owned
    <3>3. d \in open'[p] <=> d \in open[p] /\ d # skt[e]
      BY <1>1, <2>2 DEF SocketInv, SocketTypes
    <3> QED BY <2>1, <3>1, <3>2, <3>3 DEF SocketInv, Owned
  <2>3. CASE p # Process[e]
    <3>1. open'[p] = open[p]
      BY <1>1, <2>3 DEF SocketInv, SocketTypes
    <3>2. Holds(p, d)' <=> Holds(p, d)
      BY <1>1, <1>3, <2>3 DEF Holds
    <3> QED BY <2>1, <3>1, <3>2 DEF SocketInv, Owned
  <2> QED BY <2>2, <2>3
<1>7. \A s, t \in Sockets :
        (Process[s] = Process[t] /\ ~closed'[s] /\ ~closed'[t] /\ skt'[s] = skt'[t]) => s = t
  BY <1>1, <1>3 DEF SocketInv, Owned
<1> QED BY <1>2, <1>4, <1>6, <1>7 DEF SocketInv, Owned

-----------------------------------------------------------------------------
(* Every step *)

LEMMA EstablishStep ==
  ASSUME SocketInv, Establish
  PROVE  SocketInv'
<1>1. "client" \in Constructors /\ "listener" \in Constructors
  BY DEF Constructors
<1> QED BY <1>1, TryNextStep, GiveUpStep, AcceptStep, MoveStep
        DEF Establish, ConnectTo, ListenOn, Constructors

\* Sending, receiving and shutting down touch no descriptor.
LEMMA TrafficStep ==
  ASSUME (\E m \in Messages : Send(m)) \/ Threads \/ \E e \in Ends : KillShutdown(e)
  PROVE  UNCHANGED <<skt, closed, trying, open>>
<1>1. Threads => UNCHANGED <<skt, closed, trying, open>>
  BY DEF Threads, SendSome, SendStops, EnterRecv, RecvSome, RecvStops, SendGoes, SendIsClosed,
         SendThrows, RecvGets, RecvIsClosed, RecvThrows, socketVars
<1>2. \A m \in Messages : Send(m) => UNCHANGED <<skt, closed, trying, open>>
  BY DEF Send, socketVars
<1>3. \A e \in Ends : KillShutdown(e) => UNCHANGED <<skt, closed, trying, open>>
  BY DEF KillShutdown, Shutdown
<1> QED BY <1>1, <1>2, <1>3

LEMMA NextStep ==
  ASSUME SocketInv, [Next]_vars
  PROVE  SocketInv'
<1>1. ASSUME NEW e \in Ends, KillClose(e)
      PROVE  SocketInv'
  BY <1>1, CloseStep DEF KillClose
<1>2. CASE UNCHANGED vars
  BY <1>2, Untouched DEF vars, socketVars
<1> QED BY <1>1, <1>2, EstablishStep, TrafficStep, Untouched DEF Next

-----------------------------------------------------------------------------
(* Theorem *)

\* Whatever addresses fail and whenever sockets are moved, shut down and closed, each
\* open descriptor has one owner, which has not closed it: none leaks, and none is
\* closed twice.
THEOREM DescriptorsOwnedHolds == Spec => []DescriptorsOwned
<1>1. Init => SocketInv
  BY InitStep
<1>2. SocketInv /\ [Next]_vars => SocketInv'
  BY NextStep
<1> QED BY <1>1, <1>2, InvGivesOwned, PTL DEF Spec

-----------------------------------------------------------------------------
(* The types of what is sent and received *)

Bytes == 0 .. 255

\* What either end may write is bytes, and not too many.
AllFramed ==
    /\ \A m \in ServerMessages : Framed(server_serialize(m))
    /\ \A m \in ClientMessages : Framed(client_serialize(m))

TrafficTypes ==
    /\ addresses \in [Constructors -> 0 .. MaxAddresses]
    /\ stream_status \in [Sockets -> SUBSET BothClosed]
    /\ channel \in [Ends -> Seq(Bytes)]
    /\ shut \subseteq Ends
    /\ from \in Ends
    /\ sent \in Seq(Messages) /\ Len(sent) <= MaxMessages
    /\ told \in BOOLEAN /\ inside \in BOOLEAN
    /\ sender \in {"idle", "header", "body", "ended"}
    /\ receiver \in {"header", "type", "body", "ended"}
    /\ left \in Seq(Bytes) /\ body \in Seq(Bytes) /\ buffer \in Seq(Bytes)
    /\ want \in Nat /\ code \in Nat

\* A call to sendall() that is not over has bytes left, and a thread that has ended
\* is inside none.
Calls ==
    /\ sender \in {"idle", "ended"} => left = <<>>
    /\ sender \in {"header", "body"} => left # <<>>
    /\ sender = "header" => body # <<>>
    /\ receiver = "ended" => ~inside

TrafficInv == TrafficTypes /\ Calls

LEMMA BytesAre == Bytes \subseteq Nat
BY DEF Bytes

LEMMA EndsAre == Ends \subseteq Sockets /\ to \in Ends
BY DEF Ends, Sockets, to, Other

LEMMA Part ==
  ASSUME NEW s \in Seq(Bytes), NEW i \in Nat \ {0}, NEW j \in Nat, j <= Len(s)
  PROVE  /\ SubSeq(s, i, j) \in Seq(Bytes)
         /\ Len(SubSeq(s, i, j)) = IF i <= j THEN j - i + 1 ELSE 0
         /\ \A k \in 1 .. j - i + 1 : SubSeq(s, i, j)[k] = s[i + k - 1]
<1>1. \A k \in i .. j : s[k] \in Bytes
  BY ElementOfSeq
<1>2. /\ SubSeq(s, i, j) \in Seq(Bytes)
      /\ Len(SubSeq(s, i, j)) = IF i <= j THEN j - i + 1 ELSE 0
      /\ \A k \in 1 .. j - i + 1 : SubSeq(s, i, j)[k] = s[i + k - 1]
  BY <1>1, SubSeqProperties, i \in Int, j \in Int
<1> QED BY <1>2

LEMMA Both ==
  ASSUME NEW s \in Seq(Bytes), NEW t \in Seq(Bytes)
  PROVE  /\ s \o t \in Seq(Bytes)
         /\ Len(s \o t) = Len(s) + Len(t)
         /\ \A i \in 1 .. Len(s) + Len(t) :
              (s \o t)[i] = IF i <= Len(s) THEN s[i] ELSE t[i - Len(s)]
BY ConcatProperties

LEMMA Lengths ==
  ASSUME NEW s \in Seq(Bytes)
  PROVE  /\ Len(s) \in Nat
         /\ s = <<>> <=> Len(s) = 0
         /\ \A i \in 1 .. Len(s) : s[i] \in Bytes
BY LenProperties, EmptySeq, ElementOfSeq

LEMMA NoBytes == <<>> \in Seq(Bytes) /\ Len(<<>>) = 0
BY EmptySeq

\* The two bytes of a size, and how they are read.
LEMMA Halves ==
  ASSUME NEW n \in Nat, n < Uint16
  PROVE  \E h, l \in Bytes : /\ n = 256 * h + l /\ n % Uint16 = n
                             /\ h = (n \div 256) % 256 /\ l = n % 256
<1>1. PICK h \in Int : h = n \div 256
  OBVIOUS
<1>2. h \in Bytes
  BY <1>1 DEF Bytes, Uint16
<1>3. PICK l \in Int : l = n % 256
  OBVIOUS
<1>4. l \in Bytes
  BY <1>3 DEF Bytes
<1>5. n = 256 * h + l
  BY <1>1, <1>3
<1>6. n % Uint16 = n
  BY DEF Uint16
<1>7. h = (n \div 256) % 256
  BY <1>1, <1>2 DEF Bytes
<1> QED BY <1>2, <1>3, <1>4, <1>5, <1>6, <1>7

LEMMA SizeWritten ==
  ASSUME NEW n \in Nat, n < Uint16
  PROVE  \E h, l \in Bytes : Encode(n % Uint16, 2) = <<h, l>> /\ n = 256 * h + l
<1>1. Encode(n, 2) = <<(n \div 256) % 256, n % 256>>
  BY DEF Encode, uint_16_to_hex_big_endian
<1>2. PICK h, l \in Bytes : /\ n = 256 * h + l /\ n % Uint16 = n
                           /\ h = (n \div 256) % 256 /\ l = n % 256
  BY Halves
<1>3. Encode(n % Uint16, 2) = <<h, l>>
  BY <1>1, <1>2, ZenonT(60)
<1> QED BY <1>2, <1>3, ZenonT(60)

LEMMA SizeRead ==
  ASSUME NEW s, NEW h \in Bytes, NEW l \in Bytes, Len(s) = 2, s[1] = h, s[2] = l
  PROVE  U16At(s, 0) = 256 * h + l
<1>1. Slice(s, 0, 0 + 2, 0)[1] = s[1] /\ Slice(s, 0, 0 + 2, 0)[2] = s[2]
  BY DEF Slice
<1> QED BY <1>1 DEF U16At, hex_big_endian_to_uint_16

LEMMA SerializeFramed ==
  ASSUME AllFramed, NEW m \in Messages
  PROVE  Serialize(m) \in Seq(Bytes) /\ 0 < Len(Serialize(m)) /\ Len(Serialize(m)) < Uint16
BY DEF AllFramed, Framed, Messages, Serialize, Bytes

LEMMA TrafficInit == Init => TrafficInv
<1> SUFFICES ASSUME Init PROVE TrafficInv
  OBVIOUS
<1>1. TrafficTypes
  <2>1. /\ addresses \in [Constructors -> 0 .. MaxAddresses]
        /\ stream_status \in [Sockets -> SUBSET BothClosed]
    BY SocketAssumption
       DEF Init, SocketInit, SocketAssumption, Constructors, BothClosed
  <2>2. channel \in [Ends -> Seq(Bytes)] /\ shut \subseteq Ends
    BY NoBytes DEF Init, SocketInit
  <2>3. sent \in Seq(Messages) /\ Len(sent) <= MaxMessages
    BY EmptySeq, LinkAssumption DEF Init, LinkAssumption
  <2>4. left \in Seq(Bytes) /\ body \in Seq(Bytes) /\ buffer \in Seq(Bytes)
    BY NoBytes DEF Init
  <2> QED BY <2>1, <2>2, <2>3, <2>4 DEF Init, TrafficTypes
<1>2. Calls
  BY DEF Init, Calls
<1> QED BY <1>1, <1>2 DEF TrafficInv

LEMMA TrafficEstablish ==
  ASSUME SocketInv, TrafficInv, Establish
  PROVE  TrafficInv'
<1>1. UNCHANGED <<sendVars, receiveVars, channel, shut>>
  BY DEF Establish, ConnectTo, ListenOn, TryNext, GiveUp, Accept, Move
<1>2. addresses' \in [Constructors -> 0 .. MaxAddresses]
  <2>1. ASSUME NEW s \in Constructors, NEW reachable, TryNext(s, reachable)
        PROVE  addresses' \in [Constructors -> 0 .. MaxAddresses]
    <3>1. addresses[s] - 1 \in 0 .. MaxAddresses /\ 0 \in 0 .. MaxAddresses
      BY <2>1, SocketAssumption DEF TryNext, TrafficInv, TrafficTypes, SocketAssumption
    <3> QED BY <2>1, <3>1 DEF TryNext, TrafficInv, TrafficTypes
  <2>2. "client" \in Constructors /\ "listener" \in Constructors
    BY DEF Constructors
  <2>3. CASE ConnectTo \/ ListenOn
    BY <2>1, <2>2, <2>3 DEF ConnectTo, ListenOn
  <2>4. CASE UNCHANGED addresses
    BY <2>4 DEF TrafficInv, TrafficTypes
  <2> QED BY <2>3, <2>4 DEF Establish, GiveUp, Accept, Move
<1>3. stream_status' \in [Sockets -> SUBSET BothClosed]
  <2>1. \A s, d : Take(s, d) => stream_status' \in [Sockets -> SUBSET BothClosed]
    BY DEF Take, TrafficInv, TrafficTypes, BothClosed
  <2>2. Move("accepted", "peer") => stream_status' \in [Sockets -> SUBSET BothClosed]
    BY DEF Move, TrafficInv, TrafficTypes, BothClosed, Sockets
  <2> QED BY <2>1, <2>2
          DEF Establish, ConnectTo, ListenOn, TryNext, GiveUp, Accept, TrafficInv, TrafficTypes
<1> QED BY <1>1, <1>2, <1>3
        DEF TrafficInv, TrafficTypes, Calls, sendVars, receiveVars, Messages

LEMMA TrafficSend ==
  ASSUME AllFramed, TrafficInv, NEW m \in Messages, Send(m)
  PROVE  TrafficInv'
<1>1. Serialize(m) \in Seq(Bytes) /\ Serialize(m) # <<>>
  BY SerializeFramed, Lengths
<1>2. Encode(Len(Serialize(m)) % Uint16, 2) \in Seq(Bytes) /\ Encode(Len(Serialize(m)) % Uint16, 2) # <<>>
  <2>1. PICK h, l \in Bytes : Encode(Len(Serialize(m)) % Uint16, 2) = <<h, l>>
    BY <1>1, SerializeFramed, SizeWritten, Lengths
  <2>2. <<h, l>> \in Seq(Bytes) /\ <<h, l>> # <<>>
    OBVIOUS
  <2> QED BY <2>1, <2>2, Zenon
<1>3. sent' \in Seq(Messages) /\ Len(sent') <= MaxMessages
  BY LinkAssumption, AppendProperties, LenProperties DEF Send, TrafficInv, TrafficTypes, LinkAssumption
<1> QED BY <1>1, <1>2, <1>3
        DEF Send, TrafficInv, TrafficTypes, Calls, receiveVars, socketVars, Messages

LEMMA TrafficSendSome ==
  ASSUME TrafficInv, SendSome
  PROVE  TrafficInv'
<1>1. PICK n \in Cuts(Len(left), SomeSent) :
        /\ SendGoes(from, SubSeq(left, 1, n))
        /\ IF n < Len(left)
           THEN left' = SubSeq(left, n + 1, Len(left)) /\ UNCHANGED <<sender, body>>
           ELSE IF "SEND" \in stream_status[from]
           THEN SendFailed
           ELSE IF sender = "header"
           THEN sender' = "body" /\ left' = body /\ UNCHANGED body
           ELSE sender' = "idle" /\ left' = <<>> /\ body' = <<>>
  BY DEF SendSome
<1>2. sender \in {"header", "body"} /\ left \in Seq(Bytes) /\ Len(left) \in Nat \ {0}
  BY Lengths DEF SendSome, TrafficInv, TrafficTypes, Calls
<1>3. n \in 1 .. Len(left)
  BY <1>2 DEF Cuts
<1>4. UNCHANGED <<from, sent, receiveVars, addresses, stream_status, shut>>
  BY <1>1 DEF SendSome, SendGoes
<1>5. channel' \in [Ends -> Seq(Bytes)]
  <2>1. SubSeq(left, 1, n) \in Seq(Bytes) /\ Other(from) \in Ends
    BY <1>2, <1>3, Part DEF Ends, Other
  <2>2. channel[Other(from)] \o SubSeq(left, 1, n) \in Seq(Bytes)
    BY <2>1, Both DEF TrafficInv, TrafficTypes
  <2> QED BY <1>1, <2>1, <2>2 DEF SendGoes, TrafficInv, TrafficTypes
<1>6. /\ left' \in Seq(Bytes) /\ body' \in Seq(Bytes)
      /\ sender' \in {"idle", "header", "body", "ended"}
      /\ sender' \in {"idle", "ended"} => left' = <<>>
      /\ sender' \in {"header", "body"} => left' # <<>>
      /\ sender' = "header" => body' # <<>>
  <2>1. CASE n < Len(left)
    <3>1. n + 1 \in Nat \ {0} /\ n + 1 <= Len(left) /\ Len(left) <= Len(left)
      BY <1>2, <1>3, <2>1
    <3>2. /\ SubSeq(left, n + 1, Len(left)) \in Seq(Bytes)
          /\ Len(SubSeq(left, n + 1, Len(left))) = Len(left) - (n + 1) + 1
      BY <1>2, <3>1, Part
    <3>3. Len(SubSeq(left, n + 1, Len(left))) # 0
      BY <1>2, <1>3, <2>1, <3>2
    <3>4. SubSeq(left, n + 1, Len(left)) # <<>>
      BY <3>2, <3>3, Lengths
    <3>5. left' \in Seq(Bytes) /\ left' # <<>> /\ sender' = sender /\ body' = body
      BY <1>1, <2>1, <3>2, <3>4
    <3> QED BY <1>2, <3>5 DEF TrafficInv, TrafficTypes, Calls
  <2>2. CASE ~(n < Len(left))
    BY <1>1, <1>2, <2>2, NoBytes DEF SendFailed, TrafficInv, TrafficTypes, Calls
  <2> QED BY <2>1, <2>2
<1> QED BY <1>4, <1>5, <1>6 DEF TrafficInv, TrafficTypes, Calls, receiveVars, Messages

LEMMA TrafficSendStops ==
  ASSUME TrafficInv, SendStops
  PROVE  TrafficInv'
<1>1. UNCHANGED <<from, sent, receiveVars, addresses, channel, shut>>
  BY DEF SendStops, SendIsClosed, SendThrows, socketVars
<1>2. stream_status' \in [Sockets -> SUBSET BothClosed]
  BY EndsAre DEF SendStops, SendIsClosed, SendThrows, socketVars, TrafficInv, TrafficTypes, BothClosed
<1>3. left' = <<>> /\ body' = <<>> /\ sender' \in {"idle", "ended"}
  BY DEF SendStops, SendEnds, SendFailed
<1> QED BY <1>1, <1>2, <1>3, NoBytes DEF TrafficInv, TrafficTypes, Calls, receiveVars, Messages

LEMMA TrafficEnterRecv ==
  ASSUME TrafficInv, EnterRecv
  PROVE  TrafficInv'
<1>1. UNCHANGED <<sendVars, socketVars>>
  BY DEF EnterRecv
<1>2. CASE closed[to]
  BY <1>1, <1>2, NoBytes
     DEF EnterRecv, ReceiveEnds, TrafficInv, TrafficTypes, Calls, sendVars, socketVars, Messages
<1>3. CASE ~closed[to]
  BY <1>1, <1>3 DEF EnterRecv, TrafficInv, TrafficTypes, Calls, sendVars, socketVars, Messages
<1> QED BY <1>2, <1>3

LEMMA SizeIsNumber ==
  ASSUME NEW s \in Seq(Bytes)
  PROVE  U16At(s, 0) \in Nat
<1>1. /\ Slice(s, 0, 0 + 2, 0)[1] = IF 1 <= Len(s) THEN s[1] ELSE 0
      /\ Slice(s, 0, 0 + 2, 0)[2] = IF 2 <= Len(s) THEN s[2] ELSE 0
  BY DEF Slice
<1>2. \A i \in 1 .. Len(s) : s[i] \in Nat
  BY Lengths, BytesAre
<1>3. (1 <= Len(s) => 1 \in 1 .. Len(s)) /\ (2 <= Len(s) => 2 \in 1 .. Len(s))
  BY Lengths
<1>4. Slice(s, 0, 0 + 2, 0)[1] \in Nat
  BY <1>1, <1>2, <1>3
<1>5. Slice(s, 0, 0 + 2, 0)[2] \in Nat
  BY <1>1, <1>2, <1>3
<1> QED BY <1>4, <1>5 DEF U16At, hex_big_endian_to_uint_16

\* What recvall() with all its bytes leaves the receiver with.
LEMMA ReceivedTypes ==
  ASSUME TrafficInv, receiver # "ended", NEW bytes \in Seq(Bytes), bytes # <<>>,
         \/ ReceiveUnknown
         \/ to = "peer" /\ ServerReceived(bytes)
         \/ to # "peer" /\ ClientReceived(bytes)
  PROVE  /\ told' \in BOOLEAN /\ receiver' \in {"header", "type", "body", "ended"}
         /\ buffer' = <<>> /\ want' \in Nat /\ code' \in Nat
<1> DEFINE Typed == /\ told' \in BOOLEAN /\ receiver' \in {"header", "type", "body", "ended"}
                    /\ buffer' = <<>> /\ want' \in Nat /\ code' \in Nat
<1>1. ReceiveUnknown => Typed
  <2>1. ReceiveUnknown => told' \in BOOLEAN
    BY DEF ReceiveUnknown, TrafficInv, TrafficTypes
  <2> QED BY <2>1 DEF ReceiveUnknown, Await, TrafficInv, TrafficTypes
<1>2. \A m : Deliver(m) => Typed
  BY <1>1 DEF Deliver, Await, TrafficInv, TrafficTypes
<1>3. U16At(bytes, 0) \in Nat /\ bytes[1] \in Nat
  <2>1. Len(bytes) \in Nat /\ Len(bytes) # 0
    BY Lengths
  <2>2. 1 \in 1 .. Len(bytes)
    BY <2>1
  <2> QED BY <2>2, SizeIsNumber, Lengths, BytesAre
<1>4. CASE to = "peer" /\ ServerReceived(bytes)
  BY <1>2, <1>3, <1>4 DEF ServerReceived, Await, TrafficInv, TrafficTypes
<1>5. CASE to # "peer" /\ ClientReceived(bytes)
  <2>1. CASE receiver = "header"
    BY <1>3, <1>5, <2>1 DEF ClientReceived, Await, TrafficInv, TrafficTypes
  <2>2. CASE receiver = "type" /\ code > 1
    <3>1. /\ receiver' = "body" /\ want' = code - 1 /\ buffer' = <<>> /\ code' = bytes[1]
          /\ told' = told
      <4>1. Await("body", code - 1) /\ code' = bytes[1] /\ UNCHANGED <<delivered, told>>
        <5>1. ~(code <= 1)
          BY <2>2 DEF TrafficInv, TrafficTypes
        <5> QED BY <1>5, <2>2, <5>1, Zenon DEF ClientReceived
      <4> QED BY <4>1 DEF Await
    <3> QED BY <1>3, <2>2, <3>1 DEF TrafficInv, TrafficTypes
  <2>3. CASE receiver = "type" /\ ~(code > 1)
    <3>1. code <= 1
      BY <2>3 DEF TrafficInv, TrafficTypes
    <3>2. Deliver(client_deserialize(bytes[1], <<>>, 0))
      BY <1>5, <2>3, <3>1 DEF ClientReceived
    <3> QED BY <1>2, <3>2
  <2>4. CASE receiver = "body"
    <3>1. PICK past \in {0, 255} : Deliver(client_deserialize(code, bytes, past))
      BY <1>5, <2>4 DEF ClientReceived
    <3> QED BY <1>2, <3>1
  <2> QED BY <2>1, <2>2, <2>3, <2>4 DEF TrafficInv, TrafficTypes
<1> QED BY <1>1, <1>4, <1>5

\* One call to recv() that got n bytes.
LEMMA Gets ==
  ASSUME TrafficInv, RecvSome
  PROVE  \E n \in Nat \ {0}, bytes \in Seq(Bytes) :
           /\ n <= want /\ n <= Len(channel[to])
           /\ bytes = buffer \o SubSeq(channel[to], 1, n)
           /\ Len(bytes) = Len(buffer) + n
           /\ channel' = [channel EXCEPT ![to] = SubSeq(@, n + 1, Len(@))]
           /\ inside /\ inside' = FALSE
           /\ UNCHANGED <<sendVars, skt, closed, stream_status, addresses, trying, open, shut>>
           /\ n < want => buffer' = bytes /\ want' = want - n
                          /\ UNCHANGED <<delivered, told, receiver, code>>
           /\ n = want /\ "RECV" \in stream_status[to] => ReceiveUnknown
           /\ n = want /\ "RECV" \notin stream_status[to] /\ to = "peer" => ServerReceived(bytes)
           /\ n = want /\ "RECV" \notin stream_status[to] /\ to # "peer" => ClientReceived(bytes)
<1>1. PICK n : /\ n <= want
               /\ RecvGets(to, n)
               /\ IF n < want
                  THEN /\ buffer' = buffer \o SubSeq(channel[to], 1, n) /\ want' = want - n
                       /\ UNCHANGED <<delivered, told, receiver, code>>
                  ELSE IF "RECV" \in stream_status[to]
                  THEN ReceiveUnknown
                  ELSE IF to = "peer" THEN ServerReceived(buffer \o SubSeq(channel[to], 1, n))
                       ELSE ClientReceived(buffer \o SubSeq(channel[to], 1, n))
  BY DEF RecvSome
<1>2. channel[to] \in Seq(Bytes) /\ buffer \in Seq(Bytes) /\ want \in Nat
  BY EndsAre DEF TrafficInv, TrafficTypes
<1>3. n \in Nat \ {0} /\ n <= Len(channel[to])
  BY <1>1, <1>2, Lengths DEF RecvGets
<1>4. SubSeq(channel[to], 1, n) \in Seq(Bytes) /\ Len(SubSeq(channel[to], 1, n)) = n
  BY <1>2, <1>3, Part
<1>5. /\ buffer \o SubSeq(channel[to], 1, n) \in Seq(Bytes)
      /\ Len(buffer \o SubSeq(channel[to], 1, n)) = Len(buffer) + n
  BY <1>2, <1>4, Both
<1> DEFINE bytes == buffer \o SubSeq(channel[to], 1, n)
<1>6. /\ channel' = [channel EXCEPT ![to] = SubSeq(@, n + 1, Len(@))]
      /\ inside /\ inside' = FALSE
      /\ UNCHANGED <<sendVars, skt, closed, stream_status, addresses, trying, open, shut>>
  BY <1>1 DEF RecvSome, RecvGets
<1>7. n >= want => n = want
  BY <1>1, <1>2, <1>3
<1> n \in Nat \ {0} /\ bytes \in Seq(Bytes)
  BY <1>3, <1>5
<1> WITNESS n \in Nat \ {0}, bytes \in Seq(Bytes)
<1> QED BY <1>1, <1>2, <1>3, <1>5, <1>6, <1>7

LEMMA TrafficRecvSome ==
  ASSUME TrafficInv, RecvSome
  PROVE  TrafficInv'
<1>1. PICK n \in Nat \ {0}, bytes \in Seq(Bytes) :
           /\ n <= want /\ n <= Len(channel[to])
           /\ bytes = buffer \o SubSeq(channel[to], 1, n)
           /\ Len(bytes) = Len(buffer) + n
           /\ channel' = [channel EXCEPT ![to] = SubSeq(@, n + 1, Len(@))]
           /\ inside /\ inside' = FALSE
           /\ UNCHANGED <<sendVars, skt, closed, stream_status, addresses, trying, open, shut>>
           /\ n < want => buffer' = bytes /\ want' = want - n
                          /\ UNCHANGED <<delivered, told, receiver, code>>
           /\ n = want /\ "RECV" \in stream_status[to] => ReceiveUnknown
           /\ n = want /\ "RECV" \notin stream_status[to] /\ to = "peer" => ServerReceived(bytes)
           /\ n = want /\ "RECV" \notin stream_status[to] /\ to # "peer" => ClientReceived(bytes)
  BY Gets
<1>2. channel[to] \in Seq(Bytes) /\ want \in Nat /\ receiver # "ended" /\ to \in Ends
  BY <1>1, EndsAre DEF TrafficInv, TrafficTypes, Calls
<1>3. channel' \in [Ends -> Seq(Bytes)]
  <2>1. Len(channel[to]) \in Nat /\ n + 1 \in Nat \ {0} /\ Len(channel[to]) <= Len(channel[to])
    BY <1>2, Lengths
  <2>2. SubSeq(channel[to], n + 1, Len(channel[to])) \in Seq(Bytes)
    BY <1>2, <2>1, Part
  <2> QED BY <1>1, <1>2, <2>2 DEF TrafficInv, TrafficTypes
<1>4. /\ told' \in BOOLEAN /\ receiver' \in {"header", "type", "body", "ended"}
      /\ buffer' \in Seq(Bytes) /\ want' \in Nat /\ code' \in Nat
  <2>1. CASE n < want
    <3>1. want - n \in Nat
      BY <1>2, <2>1
    <3> QED BY <1>1, <2>1, <3>1 DEF TrafficInv, TrafficTypes
  <2>2. CASE n = want
    <3>1. Len(buffer) \in Nat /\ Len(bytes) # 0
      BY <1>1, Lengths DEF TrafficInv, TrafficTypes
    <3>2. bytes # <<>>
      BY <3>1, Lengths
    <3>3. \/ ReceiveUnknown
          \/ to = "peer" /\ ServerReceived(bytes)
          \/ to # "peer" /\ ClientReceived(bytes)
      BY <1>1, <2>2
    <3> QED BY <1>2, <3>2, <3>3, ReceivedTypes, NoBytes
  <2> QED BY <1>1, <1>2, <2>1, <2>2
<1> QED BY <1>1, <1>3, <1>4 DEF TrafficInv, TrafficTypes, Calls, sendVars, Messages

LEMMA TrafficRecvStops ==
  ASSUME TrafficInv, RecvStops
  PROVE  TrafficInv'
<1>1. UNCHANGED <<sendVars, addresses, channel, shut>> /\ inside' = FALSE
  BY DEF RecvStops, RecvIsClosed, RecvThrows, socketVars
<1>2. stream_status' \in [Sockets -> SUBSET BothClosed]
  <2>1. \/ UNCHANGED stream_status
        \/ stream_status' = [stream_status EXCEPT ![to] = @ \cup {"RECV"}]
    BY DEF RecvStops, RecvIsClosed, RecvThrows, socketVars
  <2>2. to \in Sockets /\ "RECV" \in BothClosed
    BY EndsAre DEF BothClosed
  <2> QED BY <2>1, <2>2 DEF TrafficInv, TrafficTypes
<1>3. ReceiveEnds \/ ReceiveUnknown
  BY DEF RecvStops
<1>4. told' \in BOOLEAN
  BY <1>3 DEF ReceiveEnds, ReceiveUnknown, TrafficInv, TrafficTypes
<1>5. /\ receiver' \in {"header", "type", "body", "ended"}
      /\ buffer' = <<>> /\ want' \in Nat /\ code' = code
  BY <1>3 DEF ReceiveEnds, ReceiveUnknown, Await
<1> QED BY <1>1, <1>2, <1>4, <1>5, NoBytes DEF TrafficInv, TrafficTypes, Calls, sendVars, Messages

LEMMA TrafficKill ==
  ASSUME TrafficInv, NEW e \in Ends, KillShutdown(e) \/ KillClose(e)
  PROVE  TrafficInv'
<1>1. UNCHANGED <<sendVars, receiveVars, addresses, channel>> /\ shut' \subseteq Ends
  BY DEF KillShutdown, KillClose, Shutdown, Close, TrafficInv, TrafficTypes
<1>2. stream_status' \in [Sockets -> SUBSET BothClosed]
  BY DEF KillShutdown, KillClose, Shutdown, Close, TrafficInv, TrafficTypes
<1> QED BY <1>1, <1>2 DEF TrafficInv, TrafficTypes, Calls, sendVars, receiveVars, Messages

LEMMA TrafficNext ==
  ASSUME AllFramed, SocketInv, TrafficInv, [Next]_vars
  PROVE  TrafficInv'
<1>1. CASE UNCHANGED vars
  BY <1>1 DEF vars, socketVars, sendVars, receiveVars, TrafficInv, TrafficTypes, Calls, Messages
<1>2. CASE Threads
  BY <1>2, TrafficSendSome, TrafficSendStops, TrafficEnterRecv, TrafficRecvSome, TrafficRecvStops
     DEF Threads
<1> QED BY <1>1, <1>2, TrafficEstablish, TrafficSend, TrafficKill DEF Next

\* If both ends write bytes, and less than a size can say, every reachable state of a
\* connection is well typed: what is on its way are bytes, and no recvall() waits for
\* less than nothing.
THEOREM TypeCorrect ==
  ASSUME AllFramed
  PROVE  Spec => []TypeOK
<1>1. Init => SocketInv /\ TrafficInv
  BY InitStep, TrafficInit
<1>2. SocketInv /\ TrafficInv /\ [Next]_vars => (SocketInv /\ TrafficInv)'
  BY NextStep, TrafficNext
<1>3. SocketInv /\ TrafficInv => TypeOK
  BY DEF SocketInv, SocketTypes, TrafficInv, TrafficTypes, TypeOK, SocketTypeOK, Handles,
         Constructors, Bytes
<1> QED BY <1>1, <1>2, <1>3, PTL DEF Spec

-----------------------------------------------------------------------------
(* What the receiver gets is what was sent: the invariant *)

\* Until both ends are built nothing is sent, and nobody has closed anything.
Fresh ==
    /\ shut = {} /\ sent = <<>> /\ delivered = <<>>
    /\ sender = "idle" /\ left = <<>> /\ body = <<>>
    /\ receiver = "header" /\ ~inside /\ want = 2 /\ buffer = <<>>
    /\ channel = [e \in Ends |-> <<>>]
    /\ \A s \in {"client", "accepted", "peer"} : Built(s) => ~closed[s] /\ stream_status[s] = {}

\* What the stream states say of the kernel's side.
Marked ==
    /\ to \in shut \/ closed[to] => "RECV" \in stream_status[to]
    /\ ~closed[from] /\ from \notin shut /\ "SEND" \in stream_status[from] => to \in shut

Expected == {Received(m) : m \in Messages}

Prefixed ==
    /\ delivered \in Seq(Expected) /\ Len(delivered) <= Len(sent)
    /\ \A k \in 1 .. Len(delivered) : delivered[k] = Received(sent[k])

\* The sender may go on; the receiver still may get a message.
Flowing == ~closed[from] /\ from \notin shut
Intact == Connected /\ receiver # "ended" /\ "RECV" \notin stream_status[to]

Pending == IF sender = "header" THEN left \o body ELSE left
Data(k) == Serialize(sent[k])

\* All bytes ever sent, one after the other; message k ends at cut[k].
Layout(stream, cut) ==
    /\ cut[0] = 0
    /\ \A k \in 0 .. Len(sent) : cut[k] <= cut[Len(sent)]
    /\ \A k \in 1 .. Len(sent) :
         /\ cut[k] = cut[k - 1] + 2 + Len(Data(k))
         /\ 256 * stream[cut[k - 1] + 1] + stream[cut[k - 1] + 2] = Len(Data(k))
         /\ \A i \in 1 .. Len(Data(k)) : stream[cut[k - 1] + 2 + i] = Data(k)[i]

Agrees(s, stream, p) == \A i \in 1 .. Len(s) : s[i] = stream[p + i]

\* What the receiver has not got yet lies ahead of it, in the channel and, unless its
\* end was closed, with the sender.
Supplies(stream, at, end) ==
    /\ Agrees(channel[to], stream, at) /\ at + Len(channel[to]) <= end
    /\ Flowing => /\ Agrees(Pending, stream, at + Len(channel[to]))
                  /\ at + Len(channel[to]) + Len(Pending) = end

\* The current recvall() began at base, and base is where its stage of the next
\* message begins.
Reads(stream, cut, base) ==
    LET d == Len(delivered)
    IN  /\ Agrees(buffer, stream, base) /\ want > 0
        /\ receiver = "header" => base = cut[d] /\ want + Len(buffer) = 2
        /\ receiver # "header" => d < Len(sent)
        /\ receiver = "type" => /\ to # "peer" /\ base = cut[d] + 2
                                /\ want = 1 /\ buffer = <<>> /\ code = Len(Data(d + 1))
        /\ receiver = "body" /\ to = "peer" =>
             base = cut[d] + 2 /\ want + Len(buffer) = Len(Data(d + 1))
        /\ receiver = "body" /\ to # "peer" =>
             /\ base = cut[d] + 3 /\ want + Len(buffer) + 1 = Len(Data(d + 1))
             /\ code = Data(d + 1)[1]

Stream ==
    \E stream \in [Nat -> Bytes], cut \in [Nat -> Nat], base \in Nat :
      /\ Layout(stream, cut)
      /\ Supplies(stream, base + Len(buffer), cut[Len(sent)])
      /\ Reads(stream, cut, base)

OrderInv ==
    /\ ~Connected => Fresh
    /\ Connected => Marked
    /\ Prefixed
    /\ Intact => Stream

LEMMA OtherEnd == from \in Ends => to \in Ends /\ to # from /\ Ends = {from, to}
BY DEF Ends, to, Other

-----------------------------------------------------------------------------
(* Bytes that agree with the stream *)

LEMMA AgreeJoined ==
  ASSUME NEW s \in Seq(Bytes), NEW t \in Seq(Bytes), NEW stream, NEW p \in Nat,
         Agrees(s, stream, p), Agrees(t, stream, p + Len(s))
  PROVE  Agrees(s \o t, stream, p)
<1> SUFFICES ASSUME NEW i \in 1 .. Len(s \o t)
             PROVE  (s \o t)[i] = stream[p + i]
  BY DEF Agrees
<1>1. Len(s) \in Nat /\ Len(t) \in Nat /\ Len(s \o t) = Len(s) + Len(t)
  BY Lengths, Both
<1>2. (s \o t)[i] = IF i <= Len(s) THEN s[i] ELSE t[i - Len(s)]
  BY <1>1, Both
<1>3. CASE i <= Len(s)
  BY <1>1, <1>2, <1>3 DEF Agrees
<1>4. CASE ~(i <= Len(s))
  <2>1. i - Len(s) \in 1 .. Len(t) /\ p + Len(s) + (i - Len(s)) = p + i
    BY <1>1, <1>4
  <2>2. t[i - Len(s)] = stream[p + Len(s) + (i - Len(s))]
    BY <2>1 DEF Agrees
  <2> QED BY <1>2, <1>4, <2>1, <2>2
<1> QED BY <1>3, <1>4

LEMMA AgreeSplit ==
  ASSUME NEW s \in Seq(Bytes), NEW t \in Seq(Bytes), NEW stream, NEW p \in Nat,
         Agrees(s \o t, stream, p)
  PROVE  Agrees(s, stream, p) /\ Agrees(t, stream, p + Len(s))
<1>1. Len(s) \in Nat /\ Len(t) \in Nat /\ Len(s \o t) = Len(s) + Len(t)
  BY Lengths, Both
<1>2. ASSUME NEW i \in 1 .. Len(s) PROVE s[i] = stream[p + i]
  <2>1. i \in 1 .. Len(s \o t) /\ (s \o t)[i] = s[i]
    BY <1>1, Both
  <2> QED BY <2>1 DEF Agrees
<1>3. ASSUME NEW i \in 1 .. Len(t) PROVE t[i] = stream[p + Len(s) + i]
  <2>1. Len(s) + i \in 1 .. Len(s \o t) /\ ~(Len(s) + i <= Len(s)) /\ Len(s) + i - Len(s) = i
    BY <1>1
  <2>2. (s \o t)[Len(s) + i] = t[i]
    BY <1>1, <2>1, Both
  <2>3. (s \o t)[Len(s) + i] = stream[p + (Len(s) + i)]
    BY <2>1 DEF Agrees
  <2>4. p + (Len(s) + i) = p + Len(s) + i
    BY <1>1
  <2> QED BY <2>2, <2>3, <2>4
<1> QED BY <1>2, <1>3 DEF Agrees

LEMMA AgreeParts ==
  ASSUME NEW s \in Seq(Bytes), NEW n \in Nat, n <= Len(s), NEW stream, NEW p \in Nat,
         Agrees(s, stream, p)
  PROVE  /\ SubSeq(s, 1, n) \in Seq(Bytes) /\ Len(SubSeq(s, 1, n)) = n
         /\ Agrees(SubSeq(s, 1, n), stream, p)
         /\ SubSeq(s, n + 1, Len(s)) \in Seq(Bytes)
         /\ Len(SubSeq(s, n + 1, Len(s))) = Len(s) - n
         /\ Agrees(SubSeq(s, n + 1, Len(s)), stream, p + n)
<1>1. Len(s) \in Nat /\ 1 \in Nat \ {0} /\ n + 1 \in Nat \ {0} /\ Len(s) <= Len(s)
  BY Lengths
<1>2. /\ SubSeq(s, 1, n) \in Seq(Bytes)
      /\ Len(SubSeq(s, 1, n)) = IF 1 <= n THEN n - 1 + 1 ELSE 0
      /\ \A k \in 1 .. n - 1 + 1 : SubSeq(s, 1, n)[k] = s[1 + k - 1]
  BY <1>1, Part
<1>3. /\ SubSeq(s, n + 1, Len(s)) \in Seq(Bytes)
      /\ Len(SubSeq(s, n + 1, Len(s))) = IF n + 1 <= Len(s) THEN Len(s) - (n + 1) + 1 ELSE 0
      /\ \A k \in 1 .. Len(s) - (n + 1) + 1 : SubSeq(s, n + 1, Len(s))[k] = s[n + 1 + k - 1]
  BY <1>1, Part
<1>4. Len(SubSeq(s, 1, n)) = n /\ Len(SubSeq(s, n + 1, Len(s))) = Len(s) - n
  BY <1>1, <1>2, <1>3
<1>5. ASSUME NEW i \in 1 .. n PROVE SubSeq(s, 1, n)[i] = stream[p + i]
  <2>1. i \in 1 .. n - 1 + 1 /\ 1 + i - 1 = i /\ i \in 1 .. Len(s)
    BY <1>1
  <2>2. SubSeq(s, 1, n)[i] = s[i]
    BY <1>2, <2>1
  <2> QED BY <2>1, <2>2 DEF Agrees
<1>6. ASSUME NEW i \in 1 .. Len(s) - n PROVE SubSeq(s, n + 1, Len(s))[i] = stream[p + n + i]
  <2>1. /\ i \in 1 .. Len(s) - (n + 1) + 1 /\ n + 1 + i - 1 = n + i
        /\ n + i \in 1 .. Len(s) /\ p + (n + i) = p + n + i
    BY <1>1
  <2>2. SubSeq(s, n + 1, Len(s))[i] = s[n + i]
    BY <1>3, <2>1
  <2>3. s[n + i] = stream[p + (n + i)]
    BY <2>1 DEF Agrees
  <2> QED BY <2>1, <2>2, <2>3
<1> QED BY <1>2, <1>3, <1>4, <1>5, <1>6 DEF Agrees

LEMMA AgreeKept ==
  ASSUME NEW s \in Seq(Bytes), NEW old, NEW new, NEW p \in Nat, NEW end \in Nat,
         Agrees(s, old, p), p + Len(s) <= end,
         \A i \in Nat : i <= end => new[i] = old[i]
  PROVE  Agrees(s, new, p)
<1> SUFFICES ASSUME NEW i \in 1 .. Len(s) PROVE s[i] = new[p + i]
  BY DEF Agrees
<1>1. Len(s) \in Nat
  BY Lengths
<1>2. p + i \in Nat /\ p + i <= end
  BY <1>1
<1> QED BY <1>2 DEF Agrees

LEMMA PendingTypes ==
  ASSUME TrafficInv
  PROVE  /\ Pending \in Seq(Bytes) /\ channel[to] \in Seq(Bytes) /\ buffer \in Seq(Bytes)
         /\ Len(Pending) \in Nat /\ Len(channel[to]) \in Nat /\ Len(buffer) \in Nat
<1>1. left \in Seq(Bytes) /\ body \in Seq(Bytes) /\ buffer \in Seq(Bytes) /\ channel[to] \in Seq(Bytes)
  BY EndsAre DEF TrafficInv, TrafficTypes
<1>2. Pending \in Seq(Bytes)
  BY <1>1, Both DEF Pending
<1> QED BY <1>1, <1>2, Lengths

-----------------------------------------------------------------------------
(* Sending *)

LEMMA StreamSend ==
  ASSUME AllFramed, TrafficInv, Prefixed, NEW m \in Messages, Send(m), Stream
  PROVE  Stream'
<1>1. PICK stream \in [Nat -> Bytes], cut \in [Nat -> Nat], base \in Nat :
        /\ Layout(stream, cut)
        /\ Supplies(stream, base + Len(buffer), cut[Len(sent)])
        /\ Reads(stream, cut, base)
  BY DEF Stream
<1>2. PICK data \in Seq(Bytes) : data = Serialize(m) /\ Len(data) < Uint16
  BY SerializeFramed
<1>3. PICK size \in Nat : size = Len(data)
  BY Lengths
<1>4. PICK h, l \in Bytes : Encode(size % Uint16, 2) = <<h, l>> /\ size = 256 * h + l
  BY <1>2, <1>3, SizeWritten
<1>5. PICK n \in Nat : n = Len(sent)
  BY LenProperties DEF TrafficInv, TrafficTypes
<1>6. PICK end \in Nat : end = cut[n]
  BY <1>1
<1>7. PICK have \in Nat : have = Len(buffer)
  BY PendingTypes
<1>8. PICK way \in Nat : way = Len(channel[to])
  BY PendingTypes
<1>9. /\ left' = <<h, l>> /\ body' = data /\ sender' = "header" /\ sent' = Append(sent, m)
      /\ sender = "idle" /\ left = <<>>
      /\ UNCHANGED <<from, receiveVars, socketVars>>
  BY <1>2, <1>3, <1>4 DEF Send, TrafficInv, Calls
<1>10. /\ Len(sent') = n + 1 /\ sent'[n + 1] = m
       /\ \A k \in 1 .. n : sent'[k] = sent[k]
  BY <1>5, <1>9, AppendProperties DEF TrafficInv, TrafficTypes
<1>11. /\ \A k \in 1 .. n : Data(k)' = Data(k)
       /\ Data(n + 1)' = data
  BY <1>2, <1>9, <1>10 DEF Data, Serialize
<1> DEFINE stream2 == [i \in Nat |-> IF i <= end THEN stream[i]
                                    ELSE IF i = end + 1 THEN h
                                    ELSE IF i = end + 2 THEN l
                                    ELSE IF i <= end + 2 + size THEN data[i - (end + 2)]
                                    ELSE h]
           cut2 == [k \in Nat |-> IF k = n + 1 THEN end + 2 + size ELSE cut[k]]
<1>12. stream2 \in [Nat -> Bytes] /\ cut2 \in [Nat -> Nat]
  <2>1. ASSUME NEW i \in Nat, ~(i <= end + 2), i <= end + 2 + size
        PROVE  data[i - (end + 2)] \in Bytes
    <3>1. i - (end + 2) \in 1 .. Len(data)
      BY <1>3, <2>1
    <3> QED BY <3>1, Lengths
  <2>2. stream2 \in [Nat -> Bytes]
    <3> SUFFICES ASSUME NEW i \in Nat PROVE stream2[i] \in Bytes
      OBVIOUS
    <3>1. CASE i <= end
      BY <3>1
    <3>2. CASE ~(i <= end) /\ i <= end + 2
      BY <3>2
    <3>3. CASE ~(i <= end + 2)
      BY <2>1, <3>3
    <3> QED BY <3>1, <3>2, <3>3
  <2>3. cut2 \in [Nat -> Nat]
    <3> SUFFICES ASSUME NEW k \in Nat PROVE cut2[k] \in Nat
      OBVIOUS
    <3> QED OBVIOUS
  <2> QED BY <2>2, <2>3
<1>13. /\ \A i \in Nat : i <= end => stream2[i] = stream[i]
       /\ stream2[end + 1] = h /\ stream2[end + 2] = l
  OBVIOUS
<1>14. \A i \in 1 .. size : stream2[end + 2 + i] = data[i]
  <2> SUFFICES ASSUME NEW i \in 1 .. size PROVE stream2[end + 2 + i] = data[i]
    OBVIOUS
  <2>1. /\ end + 2 + i \in Nat /\ ~(end + 2 + i <= end) /\ end + 2 + i # end + 1
        /\ end + 2 + i # end + 2 /\ end + 2 + i <= end + 2 + size
        /\ end + 2 + i - (end + 2) = i
    OBVIOUS
  <2> QED BY <2>1
<1>15. /\ \A k \in 0 .. n : cut2[k] = cut[k]
       /\ cut2[n + 1] = end + 2 + size
  OBVIOUS
<1> HIDE DEF stream2, cut2
<1>16. cut[0] = 0 /\ \A k \in 0 .. n : cut[k] <= end
  BY <1>1, <1>5, <1>6 DEF Layout
<1>17. Layout(stream2, cut2)'
  <2>1. ASSUME NEW k \in 1 .. n
        PROVE  /\ cut2[k] = cut2[k - 1] + 2 + Len(Data(k)')
               /\ 256 * stream2[cut2[k - 1] + 1] + stream2[cut2[k - 1] + 2] = Len(Data(k)')
               /\ \A i \in 1 .. Len(Data(k)') : stream2[cut2[k - 1] + 2 + i] = Data(k)'[i]
    <3>1. PICK p \in Nat : p = cut[k - 1]
      BY <1>1
    <3>2. k - 1 \in 0 .. n /\ k \in 0 .. n
      OBVIOUS
    <3>3. cut2[k - 1] = p /\ cut2[k] = cut[k] /\ cut[k] <= end
      BY <1>15, <1>16, <3>1, <3>2
    <3> cut[k] \in Nat
      BY <3>2
    <3>4. PICK d : d = Data(k) /\ d = Data(k)'
      BY <1>11
    <3>5. PICK z \in Nat : z = Len(d)
      BY <1>5, <3>4, SerializeFramed, ElementOfSeq, LenProperties DEF Data, TrafficInv, TrafficTypes
    <3>6. /\ cut[k] = p + 2 + z
          /\ 256 * stream[p + 1] + stream[p + 2] = z
          /\ \A i \in 1 .. z : stream[p + 2 + i] = d[i]
      <4>1. /\ cut[k] = cut[k - 1] + 2 + Len(Data(k))
            /\ 256 * stream[cut[k - 1] + 1] + stream[cut[k - 1] + 2] = Len(Data(k))
            /\ \A i \in 1 .. Len(Data(k)) : stream[cut[k - 1] + 2 + i] = Data(k)[i]
        BY <1>1, <1>5 DEF Layout
      <4> QED BY <3>1, <3>4, <3>5, <4>1
    <3>7. stream2[p + 1] = stream[p + 1] /\ stream2[p + 2] = stream[p + 2]
      <4>1. p + 1 \in Nat /\ p + 2 \in Nat /\ p + 1 <= end /\ p + 2 <= end
        BY <3>3, <3>6
      <4> QED BY <1>13, <4>1
    <3>8. \A i \in 1 .. z : stream2[p + 2 + i] = d[i]
      <4> SUFFICES ASSUME NEW i \in 1 .. z PROVE stream2[p + 2 + i] = d[i]
        OBVIOUS
      <4>1. p + 2 + i \in Nat /\ p + 2 + i <= end
        BY <3>3, <3>6
      <4> QED BY <1>13, <3>6, <4>1
    <3> QED BY <3>3, <3>4, <3>5, <3>6, <3>7, <3>8
  <2>2. cut2[0] = 0
    <3>1. 0 \in 0 .. n
      OBVIOUS
    <3> QED BY <1>15, <1>16, <3>1, Zenon
  <2>3. \A k \in 0 .. n + 1 : cut2[k] <= cut2[n + 1]
    <3> SUFFICES ASSUME NEW k \in 0 .. n + 1 PROVE cut2[k] <= cut2[n + 1]
      OBVIOUS
    <3>1. CASE k = n + 1
      BY <1>12, <3>1
    <3>2. CASE k \in 0 .. n
      <4>1. cut2[k] = cut[k] /\ cut[k] <= end
        BY <1>15, <1>16, <3>2
      <4>2. cut[k] \in Nat
        BY <3>2
      <4> QED BY <1>15, <4>1, <4>2
    <3> QED BY <3>1, <3>2
  <2>4. \A k \in 1 .. n + 1 : k \in 1 .. n \/ k = n + 1
    OBVIOUS
  <2>5. \A k \in 1 .. n + 1 :
          /\ cut2[k] = cut2[k - 1] + 2 + Len(Data(k)')
          /\ 256 * stream2[cut2[k - 1] + 1] + stream2[cut2[k - 1] + 2] = Len(Data(k)')
          /\ \A i \in 1 .. Len(Data(k)') : stream2[cut2[k - 1] + 2 + i] = Data(k)'[i]
    <3> SUFFICES ASSUME NEW k \in 1 .. n + 1
                 PROVE  /\ cut2[k] = cut2[k - 1] + 2 + Len(Data(k)')
                        /\ 256 * stream2[cut2[k - 1] + 1] + stream2[cut2[k - 1] + 2] = Len(Data(k)')
                        /\ \A i \in 1 .. Len(Data(k)') : stream2[cut2[k - 1] + 2 + i] = Data(k)'[i]
      OBVIOUS
    <3>1. CASE k \in 1 .. n
      BY <2>1, <3>1, Zenon
    <3>2. CASE k = n + 1
      <4>1. PICK d : d = Data(k)' /\ d = data
        BY <1>2, <1>9, <1>10, <3>2 DEF Data, Serialize
      <4>2. k - 1 = n /\ n \in 0 .. n
        BY <3>2
      <4>3. cut2[n] = end
        BY <1>6, <1>15, <4>2
      <4>4. cut2[k - 1] = end /\ cut2[k] = end + 2 + size
        BY <1>15, <3>2, <4>2, <4>3
      <4>5. Len(d) = size
        BY <1>3, <4>1, Zenon
      <4>6. 256 * stream2[end + 1] + stream2[end + 2] = size
        BY <1>4, <1>13
      <4>7. \A i \in 1 .. size : stream2[end + 2 + i] = d[i]
        BY <1>14, <4>1, Zenon
      <4>8. /\ cut2[k] = cut2[k - 1] + 2 + Len(d)
            /\ 256 * stream2[cut2[k - 1] + 1] + stream2[cut2[k - 1] + 2] = Len(d)
        BY <4>4, <4>5, <4>6
      <4>9. \A i \in 1 .. Len(d) : stream2[cut2[k - 1] + 2 + i] = d[i]
        BY <4>4, <4>5, <4>7
      <4> QED BY <4>1, <4>8, <4>9, Zenon
    <3> QED BY <2>4, <3>1, <3>2
  <2> QED BY <1>10, <2>2, <2>3, <2>5 DEF Layout
<1>18. Agrees(buffer, stream, base) /\ Agrees(channel[to], stream, base + have)
  BY <1>1, <1>7 DEF Supplies, Reads
<1>19. base + have + way <= end
  BY <1>1, <1>5, <1>6, <1>7, <1>8 DEF Supplies
<1>20. /\ Agrees(buffer, stream2, base) /\ Agrees(channel[to], stream2, base + have)
  <2>1. base + Len(buffer) <= end /\ base + have + Len(channel[to]) <= end /\ base + have \in Nat
    <3>1. base + have <= end /\ base + have \in Nat
      BY <1>19
    <3>2. base + have + Len(channel[to]) <= end
      BY <1>8, <1>19
    <3> QED BY <1>7, <3>1, <3>2
  <2> QED BY <1>13, <1>18, <2>1, PendingTypes, AgreeKept
<1>21. Supplies(stream2, base + Len(buffer), cut2[Len(sent)])'
  <2>1. UNCHANGED <<to, channel, buffer, Flowing>>
    BY <1>9 DEF receiveVars, socketVars, to, Flowing
  <2>2. base + have + way <= end + 2 + size
    BY <1>19
  <2>3. ASSUME Flowing
        PROVE  /\ Agrees(Pending', stream2, base + have + way)
               /\ base + have + way + Len(Pending') = end + 2 + size
    <3>1. Pending = <<>> /\ Len(Pending) = 0
      BY <1>9, NoBytes DEF Pending
    <3>2. base + have + way = end
      <4>1. base + Len(buffer) + Len(channel[to]) + Len(Pending) = cut[Len(sent)]
        BY <1>1, <2>3 DEF Supplies
      <4>2. base + have + way + 0 = end
        BY <1>5, <1>6, <1>7, <1>8, <3>1, <4>1
      <4> QED BY <4>2
    <3>3. Pending' = <<h, l>> \o data
      BY <1>9 DEF Pending
    <3>4. <<h, l>> \in Seq(Bytes) /\ Len(<<h, l>>) = 2 /\ <<h, l>>[1] = h /\ <<h, l>>[2] = l
      OBVIOUS
    <3>5. Agrees(<<h, l>>, stream2, end)
      <4>1. \A i \in 1 .. 2 : <<h, l>>[i] = stream2[end + i]
        <5>1. \A i \in 1 .. 2 : i = 1 \/ i = 2
          OBVIOUS
        <5> QED BY <1>13, <3>4, <5>1
      <4> QED BY <3>4, <4>1 DEF Agrees
    <3>6. Agrees(data, stream2, end + 2)
      BY <1>3, <1>14 DEF Agrees
    <3>7. Agrees(<<h, l>> \o data, stream2, end) /\ Len(<<h, l>> \o data) = 2 + size
      BY <1>3, <3>4, <3>5, <3>6, AgreeJoined, Both
    <3>8. Agrees(Pending', stream2, base + have + way)
      BY <3>2, <3>3, <3>7
    <3>9. Len(Pending') = 2 + size
      BY <3>3, <3>7
    <3>10. base + have + way + (2 + size) = end + 2 + size
      BY <3>2
    <3> QED BY <3>8, <3>9, <3>10
  <2> QED BY <1>7, <1>8, <1>10, <1>15, <1>20, <2>1, <2>2, <2>3 DEF Supplies
<1>22. Reads(stream2, cut2, base)'
  <2>1. UNCHANGED <<to, buffer, want, receiver, code, delivered>>
    BY <1>9 DEF receiveVars, to
  <2>2. PICK d \in Nat : d = Len(delivered) /\ d <= n
    BY <1>5, LenProperties DEF Prefixed
  <2>3. cut2[d] = cut[d]
    BY <1>15, <2>2
  <2>4. d < n => Data(d + 1)' = Data(d + 1)
    BY <1>11, <2>2
  <2>5. d < n => d < n + 1
    BY <2>2
  <2> QED BY <1>1, <1>5, <1>10, <1>20, <2>1, <2>2, <2>3, <2>4, <2>5 DEF Reads
<1> QED BY <1>12, <1>17, <1>21, <1>22 DEF Stream

\* What was not sent of the current sendall() and of the body, after n more bytes.
LEMMA PendingMoves ==
  ASSUME TrafficInv, sender \in {"header", "body"}, NEW n \in 1 .. Len(left),
         n < Len(left) => left' = SubSeq(left, n + 1, Len(left)) /\ UNCHANGED <<sender, body>>,
         n = Len(left) /\ sender = "header" => sender' = "body" /\ left' = body,
         n = Len(left) /\ sender # "header" => sender' = "idle" /\ left' = <<>>,
         NEW stream, NEW p \in Nat, Agrees(Pending, stream, p)
  PROVE  /\ SubSeq(left, 1, n) \in Seq(Bytes) /\ Len(SubSeq(left, 1, n)) = n
         /\ Agrees(SubSeq(left, 1, n), stream, p)
         /\ Agrees(Pending', stream, p + n) /\ Len(Pending') = Len(Pending) - n
         /\ n <= Len(Pending)
<1>1. left \in Seq(Bytes) /\ body \in Seq(Bytes)
  BY DEF TrafficInv, TrafficTypes
<1>2. PICK x \in Nat, y \in Nat : x = Len(left) /\ y = Len(body)
  BY <1>1, Lengths
<1>3. n \in Nat /\ n <= x
  BY <1>2
<1>4. /\ Agrees(left, stream, p)
      /\ sender = "header" => Agrees(body, stream, p + x)
      /\ Len(Pending) = IF sender = "header" THEN x + y ELSE x
  <2>1. CASE sender = "header"
    <3>1. Pending = left \o body
      BY <2>1 DEF Pending
    <3> QED BY <1>1, <1>2, <2>1, <3>1, AgreeSplit, Both
  <2>2. CASE sender # "header"
    BY <1>2, <2>2 DEF Pending
  <2> QED BY <2>1, <2>2
<1> DEFINE rest == SubSeq(left, n + 1, Len(left))
<1>5. /\ SubSeq(left, 1, n) \in Seq(Bytes) /\ Len(SubSeq(left, 1, n)) = n
      /\ Agrees(SubSeq(left, 1, n), stream, p)
      /\ rest \in Seq(Bytes) /\ Len(rest) = x - n
      /\ Agrees(rest, stream, p + n)
  BY <1>1, <1>2, <1>3, <1>4, AgreeParts
<1> HIDE DEF rest
<1>6. CASE n < x
  <2>1. left' = rest /\ sender' = sender /\ body' = body
    BY <1>2, <1>6 DEF rest
  <2>2. CASE sender = "header"
    <3>1. Pending' = rest \o body
      BY <2>1, <2>2 DEF Pending
    <3>2. p + n \in Nat /\ p + n + Len(rest) = p + x
      BY <1>3, <1>5
    <3>3. Agrees(body, stream, p + n + Len(rest))
      BY <1>4, <2>2, <3>2
    <3>4. Agrees(rest \o body, stream, p + n) /\ Len(rest \o body) = Len(rest) + Len(body)
      BY <1>1, <1>5, <3>2, <3>3, AgreeJoined, Both
    <3>5. x - n + y = x + y - n
      BY <1>3
    <3> QED BY <1>2, <1>4, <1>5, <2>2, <3>1, <3>4, <3>5
  <2>3. CASE sender # "header"
    BY <1>4, <1>5, <2>1, <2>3 DEF Pending
  <2> QED BY <1>5, <2>2, <2>3
<1>7. CASE n = x
  <2>1. CASE sender = "header"
    <3>1. Pending' = body
      BY <1>2, <1>7, <2>1 DEF Pending
    <3>2. x + y - n = y
      BY <1>7
    <3> QED BY <1>2, <1>4, <1>5, <1>7, <2>1, <3>1, <3>2
  <2>2. CASE sender # "header"
    <3>1. Pending' = <<>>
      BY <1>2, <1>7, <2>2 DEF Pending
    <3>2. Len(Pending) - n = 0
      BY <1>4, <1>7, <2>2
    <3>3. Agrees(<<>>, stream, p + n)
      BY NoBytes DEF Agrees
    <3> QED BY <1>5, <3>1, <3>2, <3>3, NoBytes
  <2> QED BY <2>1, <2>2
<1>8. n <= Len(Pending)
  BY <1>3, <1>4
<1> QED BY <1>2, <1>3, <1>6, <1>7, <1>8

LEMMA StreamSendSome ==
  ASSUME TrafficInv, Marked, Intact, SendSome, Stream
  PROVE  Stream'
<1>1. PICK n \in Cuts(Len(left), SomeSent) :
        /\ SendGoes(from, SubSeq(left, 1, n))
        /\ IF n < Len(left)
           THEN left' = SubSeq(left, n + 1, Len(left)) /\ UNCHANGED <<sender, body>>
           ELSE IF "SEND" \in stream_status[from]
           THEN SendFailed
           ELSE IF sender = "header"
           THEN sender' = "body" /\ left' = body /\ UNCHANGED body
           ELSE sender' = "idle" /\ left' = <<>> /\ body' = <<>>
  BY DEF SendSome
<1>2. sender \in {"header", "body"} /\ left \in Seq(Bytes) /\ Len(left) \in Nat \ {0}
  BY Lengths DEF SendSome, TrafficInv, TrafficTypes, Calls
<1>3. n \in 1 .. Len(left)
  BY <1>2 DEF Cuts
<1>4. /\ UNCHANGED <<from, sent, delivered, receiver, want, buffer, code, closed, stream_status, shut>>
      /\ Flowing /\ to' = to
  BY <1>1 DEF SendSome, SendGoes, receiveVars, Flowing, to
<1>5. to \notin shut /\ "SEND" \notin stream_status[from]
  BY <1>4 DEF Intact, Marked, Flowing
<1>6. channel[to]' = channel[to] \o SubSeq(left, 1, n)
  <2>1. Other(from) = to /\ to \in Ends /\ channel \in [Ends -> Seq(Bytes)]
    BY EndsAre DEF to, TrafficInv, TrafficTypes
  <2>2. channel' = [channel EXCEPT ![to] = channel[to] \o SubSeq(left, 1, n)]
    BY <1>1, <1>5, <2>1 DEF SendGoes
  <2> QED BY <1>4, <2>1, <2>2
<1>7. /\ n < Len(left) => left' = SubSeq(left, n + 1, Len(left)) /\ UNCHANGED <<sender, body>>
      /\ n = Len(left) /\ sender = "header" => sender' = "body" /\ left' = body
      /\ n = Len(left) /\ sender # "header" => sender' = "idle" /\ left' = <<>>
  BY <1>1, <1>2, <1>5
<1>8. PICK stream \in [Nat -> Bytes], cut \in [Nat -> Nat], base \in Nat :
        /\ Layout(stream, cut)
        /\ Supplies(stream, base + Len(buffer), cut[Len(sent)])
        /\ Reads(stream, cut, base)
  BY DEF Stream
<1>9. PICK at \in Nat : at = base + Len(buffer)
  BY PendingTypes
<1>10. PICK way \in Nat : way = Len(channel[to])
  BY PendingTypes
<1>11. PICK rest \in Nat : rest = Len(Pending)
  BY PendingTypes
<1>12. PICK end \in Nat : end = cut[Len(sent)]
  BY <1>8, LenProperties DEF TrafficInv, TrafficTypes
<1>13. /\ Agrees(channel[to], stream, at) /\ Agrees(Pending, stream, at + way)
       /\ at + way + rest = end
  BY <1>4, <1>8, <1>9, <1>12, <1>10, <1>11 DEF Supplies
<1>14. /\ SubSeq(left, 1, n) \in Seq(Bytes) /\ Len(SubSeq(left, 1, n)) = n
       /\ Agrees(SubSeq(left, 1, n), stream, at + way)
       /\ Agrees(Pending', stream, at + way + n) /\ Len(Pending') = rest - n
       /\ n <= rest
  <2>1. at + way \in Nat
    OBVIOUS
  <2>2. /\ SubSeq(left, 1, n) \in Seq(Bytes) /\ Len(SubSeq(left, 1, n)) = n
        /\ Agrees(SubSeq(left, 1, n), stream, at + way)
        /\ Agrees(Pending', stream, at + way + n) /\ Len(Pending') = Len(Pending) - n
        /\ n <= Len(Pending)
    BY <1>2, <1>3, <1>7, <1>13, <2>1, PendingMoves
  <2> QED BY <1>11, <2>2
<1>15. Agrees(channel[to]', stream, at) /\ Len(channel[to]') = way + n
  <2>1. PICK s \in Seq(Bytes) : s = SubSeq(left, 1, n)
    BY <1>14
  <2>2. PICK c \in Seq(Bytes) : c = channel[to]
    BY PendingTypes
  <2>3. Agrees(c \o s, stream, at) /\ Len(c \o s) = Len(c) + Len(s)
    BY <1>13, <1>14, <1>10, <2>1, <2>2, AgreeJoined, Both
  <2> QED BY <1>6, <1>14, <1>10, <2>1, <2>2, <2>3
<1>16. at + (way + n) = at + way + n /\ at + way + n + (rest - n) = end /\ at + way + n <= end
  BY <1>2, <1>3, <1>13, <1>14
<1>17. Supplies(stream, at, end)'
  BY <1>14, <1>15, <1>16 DEF Supplies
<1>18. Layout(stream, cut)' /\ Reads(stream, cut, base)'
  BY <1>4, <1>8 DEF Layout, Reads, Data, Serialize
<1> QED BY <1>4, <1>9, <1>12, <1>17, <1>18 DEF Stream

\* A step that moves no byte, and can only take the sender its way.
LEMMA StreamKept ==
  ASSUME Stream, UNCHANGED <<from, sent, delivered, receiver, want, buffer, code, channel>>,
         Flowing' => Flowing /\ UNCHANGED <<sender, left, body>>
  PROVE  Stream'
<1>1. PICK stream \in [Nat -> Bytes], cut \in [Nat -> Nat], base \in Nat :
        /\ Layout(stream, cut)
        /\ Supplies(stream, base + Len(buffer), cut[Len(sent)])
        /\ Reads(stream, cut, base)
  BY DEF Stream
<1>2. to' = to /\ (Flowing' => Pending' = Pending)
  BY DEF to, Pending
<1>3. Layout(stream, cut)' /\ Reads(stream, cut, base)'
  BY <1>1, <1>2 DEF Layout, Reads, Data, Serialize
<1>4. Supplies(stream, base + Len(buffer), cut[Len(sent)])'
  BY <1>1, <1>2 DEF Supplies
<1> QED BY <1>3, <1>4 DEF Stream

\* sendall() gives up only when an end was closed.
LEMMA StreamSendStops ==
  ASSUME TrafficInv, Marked, Intact, SendStops, Stream
  PROVE  Stream'
<1>1. /\ UNCHANGED <<from, sent, delivered, receiver, want, buffer, code, channel, closed, shut>>
  BY DEF SendStops, SendIsClosed, SendThrows, socketVars, receiveVars
<1>2. to \notin shut /\ shut \subseteq Ends /\ Other(from) = to /\ from \in Ends
  BY DEF Intact, Marked, to, TrafficInv, TrafficTypes
<1>3. ~Flowing
  BY <1>2, OtherEnd DEF SendStops, SendIsClosed, SendThrows, Flowing
<1>4. ~Flowing'
  BY <1>1, <1>3 DEF Flowing
<1> QED BY <1>1, <1>4, StreamKept

-----------------------------------------------------------------------------
(* Receiving *)

\* The n bytes that recv() took off the channel are those that were due.
LEMMA SuppliesLess ==
  ASSUME TrafficInv, NEW n \in Nat, n <= Len(channel[to]),
         channel' = [channel EXCEPT ![to] = SubSeq(@, n + 1, Len(@))],
         UNCHANGED <<sendVars, closed, shut>>,
         NEW stream, NEW at \in Nat, NEW end \in Nat, Supplies(stream, at, end)
  PROVE  /\ Agrees(SubSeq(channel[to], 1, n), stream, at)
         /\ SubSeq(channel[to], 1, n) \in Seq(Bytes) /\ Len(SubSeq(channel[to], 1, n)) = n
         /\ at + n <= end
         /\ Supplies(stream, at + n, end)'
<1>1. PICK c \in Seq(Bytes) : c = channel[to]
  BY PendingTypes
<1>2. PICK way \in Nat : way = Len(c)
  BY Lengths
<1>3. PICK rest \in Nat : rest = Len(Pending)
  BY PendingTypes
<1>4. /\ SubSeq(c, 1, n) \in Seq(Bytes) /\ Len(SubSeq(c, 1, n)) = n
      /\ Agrees(SubSeq(c, 1, n), stream, at)
      /\ Agrees(SubSeq(c, n + 1, Len(c)), stream, at + n)
      /\ Len(SubSeq(c, n + 1, Len(c))) = way - n
  BY <1>1, <1>2, AgreeParts DEF Supplies
<1>5. to' = to /\ Flowing' = Flowing /\ Pending' = Pending
  BY DEF sendVars, to, Flowing, Pending
<1>6. channel[to]' = SubSeq(c, n + 1, Len(c))
  <2>1. to \in Ends /\ channel \in [Ends -> Seq(Bytes)]
    BY EndsAre DEF TrafficInv, TrafficTypes
  <2> QED BY <1>1, <1>5, <2>1
<1>7. at + way <= end /\ n <= way
  BY <1>1, <1>2 DEF Supplies
<1>8. at + n <= end /\ at + n + (way - n) = at + way
  BY <1>7
<1>9. ASSUME Flowing
      PROVE  Agrees(Pending, stream, at + way) /\ at + way + rest = end
  BY <1>1, <1>2, <1>3, <1>9 DEF Supplies
<1>10. Agrees(channel[to]', stream, at + n) /\ at + n + Len(channel[to]') = at + way
  BY <1>4, <1>6, <1>8
<1>11. Supplies(stream, at + n, end)'
  BY <1>3, <1>5, <1>7, <1>9, <1>10 DEF Supplies
<1> QED BY <1>1, <1>4, <1>8, <1>11

LEMMA UnderstoodFramed ==
  ASSUME ClientUnderstands, ServerUnderstands
  PROVE  AllFramed
BY DEF AllFramed, ClientUnderstands, ServerUnderstands, ClientReads, ServerReads

\* What the other end makes of the data of a message.
LEMMA Understood ==
  ASSUME ClientUnderstands, ServerUnderstands, TrafficInv, NEW k \in 1 .. Len(sent)
  PROVE  /\ Data(k) \in Seq(Bytes) /\ Len(Data(k)) \in Nat \ {0}
         /\ sent[k] \in Messages /\ Received(sent[k]) # Unknown
         /\ to = "peer" => server_deserialize(Data(k), id) = Received(sent[k])
         /\ to # "peer" /\ Len(Data(k)) = 1 =>
              client_deserialize(Data(k)[1], <<>>, 0) = Received(sent[k])
         /\ to # "peer" /\ Len(Data(k)) # 1 =>
              \A past \in {0, 255} :
                client_deserialize(Data(k)[1], SubSeq(Data(k), 2, Len(Data(k))), past) = Received(sent[k])
<1>1. PICK m \in Messages : m = sent[k]
  BY ElementOfSeq DEF TrafficInv, TrafficTypes
<1>2. PICK data : data = Serialize(m) /\ data = Data(k)
  BY <1>1 DEF Data
<1>3. data \in Seq(Bytes) /\ Len(data) \in Nat \ {0}
  <2>1. data \in Seq(Bytes) /\ 0 < Len(data)
    BY <1>2, UnderstoodFramed, SerializeFramed
  <2>2. Len(data) \in Nat
    BY <2>1, Lengths
  <2> QED BY <2>1, <2>2
<1>4. CASE to = "peer"
  <2>1. from # "peer"
    BY <1>4 DEF to, Other
  <2>2. data = client_serialize(m) /\ m \in ClientMessages /\ Received(m) = Named(m)
    BY <1>2, <2>1 DEF Serialize, Messages, Received
  <2>3. Named(m) # Unknown /\ server_deserialize(data, id) = Named(m)
    BY <2>2 DEF ServerUnderstands, ServerReads
  <2> QED BY <1>1, <1>2, <1>3, <1>4, <2>2, <2>3
<1>5. CASE to # "peer"
  <2>1. from = "peer"
    BY <1>5 DEF to, Other, TrafficInv, TrafficTypes, Ends
  <2>2. data = server_serialize(m) /\ m \in ServerMessages /\ Received(m) = m
    BY <1>2, <2>1 DEF Serialize, Messages, Received
  <2>3. /\ m # Unknown
        /\ IF Len(data) = 1 THEN client_deserialize(data[1], <<>>, 0) = m
           ELSE \A past \in {0, 255} :
                  client_deserialize(data[1], SubSeq(data, 2, Len(data)), past) = m
    BY <2>2 DEF ClientUnderstands, ClientReads
  <2> QED BY <1>1, <1>2, <1>3, <1>5, <2>2, <2>3
<1> QED BY <1>4, <1>5

\* The two bytes of a size are the size of the message that is due.
LEMMA SizeGot ==
  ASSUME TrafficInv, Prefixed, NEW stream \in [Nat -> Bytes], NEW cut \in [Nat -> Nat],
         NEW d \in Nat, NEW bytes \in Seq(Bytes)
  PROVE  /\ Layout(stream, cut) /\ d = Len(delivered) /\ cut[d] + 2 <= cut[Len(sent)]
         /\ Len(bytes) = 2 /\ Agrees(bytes, stream, cut[d])
         => d < Len(sent) /\ U16At(bytes, 0) = Len(Data(d + 1))
<1>1. SUFFICES ASSUME Layout(stream, cut), d = Len(delivered), cut[d] + 2 <= cut[Len(sent)],
                      Len(bytes) = 2, Agrees(bytes, stream, cut[d])
               PROVE  d < Len(sent) /\ U16At(bytes, 0) = Len(Data(d + 1))
  OBVIOUS
<1>2. PICK n \in Nat : n = Len(sent)
  BY LenProperties DEF TrafficInv, TrafficTypes
<1>3. PICK p \in Nat : p = cut[d]
  OBVIOUS
<1>4. d <= n /\ d # n
  <2>1. d <= n
    BY <1>1, <1>2 DEF Prefixed
  <2>2. d = n => p + 2 <= p
    BY <1>1, <1>2, <1>3
  <2> QED BY <2>1, <2>2
<1>5. d + 1 \in 1 .. n /\ d + 1 - 1 = d
  BY <1>4
<1>6. 256 * stream[p + 1] + stream[p + 2] = Len(Data(d + 1))
  <2>1. \A k \in 1 .. n :
          256 * stream[cut[k - 1] + 1] + stream[cut[k - 1] + 2] = Len(Data(k))
    BY <1>1, <1>2 DEF Layout
  <2>2. PICK k \in 1 .. n : k = d + 1 /\ k - 1 = d
    BY <1>5
  <2>3. 256 * stream[cut[k - 1] + 1] + stream[cut[k - 1] + 2] = Len(Data(k))
    BY <2>1, Zenon
  <2>4. 256 * stream[p + 1] + stream[p + 2] = Len(Data(k))
    BY <1>3, <2>2, <2>3
  <2> QED BY <2>2, <2>4
<1>7. bytes[1] = stream[p + 1] /\ bytes[2] = stream[p + 2]
  BY <1>1, <1>3 DEF Agrees
<1>8. stream[p + 1] \in Bytes /\ stream[p + 2] \in Bytes
  OBVIOUS
<1>9. U16At(bytes, 0) = 256 * stream[p + 1] + stream[p + 2]
  <2>1. PICK h \in Bytes, l \in Bytes : h = stream[p + 1] /\ l = stream[p + 2]
    BY <1>8, Zenon
  <2>2. Len(bytes) = 2 /\ bytes[1] = h /\ bytes[2] = l
    BY <1>1, <1>7, <2>1
  <2>3. U16At(bytes, 0) = 256 * h + l
    BY <2>2, SizeRead, ZenonT(60)
  <2> QED BY <2>1, <2>3
<1> QED BY <1>2, <1>4, <1>6, <1>9

\* Bytes that agree with the stream where the data do are the data.
LEMMA DataGot ==
  ASSUME NEW data \in Seq(Bytes), NEW stream, NEW p \in Nat,
         \A i \in 1 .. Len(data) : stream[p + i] = data[i],
         NEW bytes \in Seq(Bytes)
  PROVE  /\ Agrees(bytes, stream, p) /\ Len(bytes) = Len(data) => bytes = data
         /\ Agrees(bytes, stream, p + 1) /\ Len(bytes) + 1 = Len(data)
              => bytes = SubSeq(data, 2, Len(data))
<1>1. PICK n \in Nat : n = Len(data)
  BY Lengths
<1>2. PICK k \in Nat : k = Len(bytes)
  BY Lengths
<1>3. ASSUME Agrees(bytes, stream, p), k = n
      PROVE  bytes = data
  <2>1. \A i \in 1 .. n : bytes[i] = data[i]
    BY <1>1, <1>2, <1>3 DEF Agrees
  <2> QED BY <1>1, <1>2, <1>3, <2>1, SeqEqual
<1>4. ASSUME Agrees(bytes, stream, p + 1), k + 1 = n
      PROVE  bytes = SubSeq(data, 2, n)
  <2>1. /\ SubSeq(data, 2, n) \in Seq(Bytes) /\ Len(SubSeq(data, 2, n)) = k
        /\ \A i \in 1 .. k : SubSeq(data, 2, n)[i] = data[2 + i - 1]
    <3>1. 2 \in Nat \ {0} /\ n <= Len(data) /\ n - 2 + 1 = k /\ (2 <= n \/ k = 0)
      BY <1>1, <1>4
    <3> QED BY <1>1, <3>1, Part
  <2>2. ASSUME NEW i \in 1 .. k PROVE bytes[i] = SubSeq(data, 2, n)[i]
    <3>1. i + 1 \in 1 .. n /\ 2 + i - 1 = i + 1 /\ p + 1 + i = p + (i + 1)
      BY <1>4
    <3>2. bytes[i] = stream[p + 1 + i]
      BY <1>2, <1>4 DEF Agrees
    <3> QED BY <1>1, <2>1, <3>1, <3>2
  <2> QED BY <1>2, <2>1, <2>2, SeqEqual
<1> QED BY <1>1, <1>2, <1>3, <1>4

LEMMA LayoutKept ==
  ASSUME UNCHANGED <<from, sent>>, NEW stream, NEW cut, Layout(stream, cut)
  PROVE  Layout(stream, cut)'
BY DEF Layout, Data, Serialize

\* The message that is due is delivered.
LEMMA MessageTaken ==
  ASSUME TrafficInv, Prefixed, UNCHANGED <<from, sent>>,
         NEW stream \in [Nat -> Bytes], NEW cut \in [Nat -> Nat], NEW d \in Nat
  PROVE  /\ Layout(stream, cut) /\ d = Len(delivered) /\ d < Len(sent)
         /\ Received(sent[d + 1]) # Unknown /\ Deliver(Received(sent[d + 1]))
         /\ Supplies(stream, cut[d + 1], cut[Len(sent)])'
         => Prefixed' /\ Stream'
<1>1. SUFFICES ASSUME Layout(stream, cut), d = Len(delivered), d < Len(sent),
                      Received(sent[d + 1]) # Unknown, Deliver(Received(sent[d + 1])),
                      Supplies(stream, cut[d + 1], cut[Len(sent)])'
               PROVE  Prefixed' /\ Stream'
  OBVIOUS
<1>2. PICK n \in Nat : n = Len(sent) /\ d < n
  BY <1>1, LenProperties DEF TrafficInv, TrafficTypes
<1>3. PICK k \in 1 .. n : k = d + 1 /\ k <= n
  BY <1>2
<1>4. sent[k] \in Messages
  BY <1>2, ElementOfSeq DEF TrafficInv, TrafficTypes
<1>5. PICK x : x = Received(sent[k])
  OBVIOUS
<1>6. x \in Expected
  BY <1>4, <1>5 DEF Expected
<1>7. /\ delivered' = Append(delivered, x) /\ receiver' = "header" /\ want' = 2 /\ buffer' = <<>>
  BY <1>1, <1>3, <1>5 DEF Deliver, Await
<1>8. Expected' = Expected /\ (\A j \in 1 .. n : Received(sent[j])' = Received(sent[j]))
  BY DEF Expected, Messages, Received
<1>9. /\ delivered' \in Seq(Expected) /\ Len(delivered') = k
      /\ \A j \in 1 .. d : delivered'[j] = delivered[j]
      /\ delivered'[k] = x
  BY <1>1, <1>3, <1>6, <1>7, AppendProperties DEF Prefixed
<1>10. Prefixed'
  <2>1. \A j \in 1 .. k : delivered'[j] = Received(sent[j])
    <3>1. \A j \in 1 .. k : j = k \/ j \in 1 .. d
      BY <1>3
    <3> QED BY <1>1, <1>5, <1>9, <3>1 DEF Prefixed
  <2>2. \A j \in 1 .. k : j \in 1 .. n
    BY <1>3
  <2> QED BY <1>2, <1>3, <1>8, <1>9, <2>1, <2>2 DEF Prefixed
<1>11. Layout(stream, cut)'
  BY <1>1, LayoutKept
<1>12. Reads(stream, cut, cut[k])'
  BY <1>7, <1>9, NoBytes DEF Reads, Agrees
<1>13. PICK base \in Nat : base = cut[k]
  OBVIOUS
<1>14. base + Len(buffer') = cut[d + 1]
  BY <1>3, <1>7, <1>13, NoBytes
<1>15. Supplies(stream, base + Len(buffer), cut[Len(sent)])'
  BY <1>1, <1>14
<1> QED BY <1>10, <1>11, <1>12, <1>13, <1>15 DEF Stream

\* A recvall() goes on, or the next begins where it ended.
LEMMA StageBegun ==
  ASSUME UNCHANGED <<from, sent>>,
         NEW stream \in [Nat -> Bytes], NEW cut \in [Nat -> Nat], NEW base \in Nat, NEW stop \in Nat
  PROVE  /\ Layout(stream, cut) /\ Supplies(stream, stop, cut[Len(sent)])'
         /\ base + Len(buffer') = stop /\ Reads(stream, cut, base)'
         => Stream'
<1>1. SUFFICES ASSUME Layout(stream, cut), Supplies(stream, stop, cut[Len(sent)])',
                      base + Len(buffer') = stop, Reads(stream, cut, base)'
               PROVE  Stream'
  OBVIOUS
<1>2. Layout(stream, cut)'
  BY <1>1, LayoutKept
<1>3. Supplies(stream, base + Len(buffer), cut[Len(sent)])'
  BY <1>1
<1> QED BY <1>1, <1>2, <1>3 DEF Stream

LEMMA StreamRecvSome ==
  ASSUME ClientUnderstands, ServerUnderstands, TrafficInv, Prefixed, Intact, RecvSome, Stream
  PROVE  Prefixed' /\ Stream'
<1>1. PICK n \in Nat \ {0}, bytes \in Seq(Bytes) :
           /\ n <= want /\ n <= Len(channel[to])
           /\ bytes = buffer \o SubSeq(channel[to], 1, n)
           /\ Len(bytes) = Len(buffer) + n
           /\ channel' = [channel EXCEPT ![to] = SubSeq(@, n + 1, Len(@))]
           /\ inside /\ inside' = FALSE
           /\ UNCHANGED <<sendVars, skt, closed, stream_status, addresses, trying, open, shut>>
           /\ n < want => buffer' = bytes /\ want' = want - n
                          /\ UNCHANGED <<delivered, told, receiver, code>>
           /\ n = want /\ "RECV" \in stream_status[to] => ReceiveUnknown
           /\ n = want /\ "RECV" \notin stream_status[to] /\ to = "peer" => ServerReceived(bytes)
           /\ n = want /\ "RECV" \notin stream_status[to] /\ to # "peer" => ClientReceived(bytes)
  BY Gets
<1>2. PICK stream \in [Nat -> Bytes], cut \in [Nat -> Nat], base \in Nat :
        /\ Layout(stream, cut)
        /\ Supplies(stream, base + Len(buffer), cut[Len(sent)])
        /\ Reads(stream, cut, base)
  BY DEF Stream
<1>3. UNCHANGED <<from, sent>> /\ to' = to
  BY <1>1 DEF sendVars, to
<1>4. PICK have \in Nat : have = Len(buffer)
  BY PendingTypes
<1>5. PICK end \in Nat : end = cut[Len(sent)]
  BY <1>2, LenProperties DEF TrafficInv, TrafficTypes
<1>6. PICK d \in Nat : d = Len(delivered)
  BY LenProperties DEF Prefixed
<1>7. PICK w \in Nat : w = want
  BY DEF TrafficInv, TrafficTypes
<1>8. PICK stop \in Nat : stop = base + have + n
  OBVIOUS
<1>9. /\ Agrees(SubSeq(channel[to], 1, n), stream, base + have)
      /\ SubSeq(channel[to], 1, n) \in Seq(Bytes)
      /\ stop <= end /\ Supplies(stream, stop, end)'
  <2>1. n \in Nat /\ base + have \in Nat /\ UNCHANGED <<sendVars, closed, shut>>
    BY <1>1
  <2>2. Supplies(stream, base + have, end)
    BY <1>2, <1>4, <1>5
  <2> QED BY <1>1, <1>8, <2>1, <2>2, SuppliesLess
<1>10. Agrees(bytes, stream, base) /\ Len(bytes) = have + n
  <2>1. PICK c \in Seq(Bytes) : c = SubSeq(channel[to], 1, n)
    BY <1>9
  <2>2. buffer \in Seq(Bytes) /\ Agrees(buffer, stream, base) /\ Agrees(c, stream, base + Len(buffer))
    BY <1>2, <1>4, <1>9, <2>1, PendingTypes DEF Reads
  <2> QED BY <1>1, <1>4, <2>1, <2>2, AgreeJoined
<1>11. CASE n < w
  <2>1. buffer' = bytes /\ want' = w - n /\ UNCHANGED <<delivered, receiver, code>>
    BY <1>1, <1>7, <1>11
  <2>2. Prefixed'
    BY <1>3, <2>1 DEF Prefixed, Expected, Messages, Received
  <2>3. w - n > 0 /\ w - n + (have + n) = w + have /\ ~(w = 1)
    BY <1>11
  <2>4. /\ receiver = "header" => w + have = 2
        /\ receiver # "type"
        /\ receiver = "body" /\ to = "peer" => w + have = Len(Data(d + 1))
        /\ receiver = "body" /\ to # "peer" => w + have + 1 = Len(Data(d + 1))
    BY <1>2, <1>4, <1>6, <1>7, <2>3 DEF Reads
  <2>5. Reads(stream, cut, base)'
    BY <1>2, <1>3, <1>6, <1>10, <2>1, <2>3, <2>4 DEF Reads, Data, Serialize
  <2>6. base + Len(buffer') = stop
    <3>1. Len(buffer') = have + n
      BY <1>10, <2>1
    <3>2. base + (have + n) = stop
      BY <1>8
    <3> QED BY <3>1, <3>2
  <2>7. Supplies(stream, stop, cut[Len(sent)])'
    BY <1>3, <1>5, <1>9
  <2> QED BY <1>2, <1>3, <2>2, <2>5, <2>6, <2>7, StageBegun
<1>12. CASE n = w
  <2>1. /\ to = "peer" => ServerReceived(bytes)
        /\ to # "peer" => ClientReceived(bytes)
    BY <1>1, <1>7, <1>12 DEF Intact
  <2>2. Len(bytes) = w + have /\ stop = base + (w + have)
    BY <1>8, <1>10, <1>12
  <2>3. Supplies(stream, stop, cut[Len(sent)])'
    BY <1>3, <1>5, <1>9
  <2>4. UNCHANGED delivered => Prefixed'
    BY <1>3 DEF Prefixed, Expected, Messages, Received
  <2>5. /\ receiver = "header" => base = cut[d] /\ w + have = 2
        /\ receiver # "header" => d < Len(sent)
        /\ receiver = "type" => to # "peer" /\ base = cut[d] + 2 /\ w = 1 /\ have = 0
                                /\ code = Len(Data(d + 1))
        /\ receiver = "body" /\ to = "peer" => base = cut[d] + 2 /\ w + have = Len(Data(d + 1))
        /\ receiver = "body" /\ to # "peer" => base = cut[d] + 3 /\ w + have + 1 = Len(Data(d + 1))
                                               /\ code = Data(d + 1)[1]
    BY <1>2, <1>4, <1>6, <1>7, NoBytes DEF Reads
  <2>6. ASSUME d < Len(sent)
        PROVE  /\ Data(d + 1) \in Seq(Bytes) /\ Len(Data(d + 1)) \in Nat \ {0}
               /\ Received(sent[d + 1]) # Unknown
               /\ to = "peer" => server_deserialize(Data(d + 1), id) = Received(sent[d + 1])
               /\ to # "peer" /\ Len(Data(d + 1)) = 1 =>
                    client_deserialize(Data(d + 1)[1], <<>>, 0) = Received(sent[d + 1])
               /\ to # "peer" /\ Len(Data(d + 1)) # 1 =>
                    \A past \in {0, 255} :
                      client_deserialize(Data(d + 1)[1], SubSeq(Data(d + 1), 2, Len(Data(d + 1))), past)
                        = Received(sent[d + 1])
               /\ cut[d + 1] = cut[d] + 2 + Len(Data(d + 1))
               /\ \A i \in 1 .. Len(Data(d + 1)) : stream[cut[d] + 2 + i] = Data(d + 1)[i]
    <3>1. PICK z \in Nat : z = Len(sent)
      BY LenProperties DEF TrafficInv, TrafficTypes
    <3>2. PICK k \in 1 .. Len(sent) : k = d + 1 /\ k - 1 = d
      BY <2>6, <3>1
    <3>3. /\ cut[k] = cut[k - 1] + 2 + Len(Data(k))
          /\ \A i \in 1 .. Len(Data(k)) : stream[cut[k - 1] + 2 + i] = Data(k)[i]
      BY <1>2 DEF Layout
    <3> QED BY <3>2, <3>3, Understood
  <2>7. ASSUME d < Len(sent), Deliver(Received(sent[d + 1])), stop = cut[d + 1]
        PROVE  Prefixed' /\ Stream'
    <3>1. Received(sent[d + 1]) # Unknown
      BY <2>6, <2>7
    <3>2. Supplies(stream, cut[d + 1], cut[Len(sent)])'
      BY <2>3, <2>7
    <3> QED BY <1>2, <1>3, <1>6, <2>7, <3>1, <3>2, MessageTaken
  <2>8. ASSUME UNCHANGED delivered, buffer' = <<>>, Reads(stream, cut, stop)'
        PROVE  Prefixed' /\ Stream'
    <3>1. stop + Len(buffer') = stop
      BY <2>8, NoBytes
    <3> QED BY <1>2, <1>3, <2>3, <2>4, <2>8, <3>1, StageBegun
  <2>9. CASE receiver = "header"
    <3>1. base = cut[d] /\ Len(bytes) = 2 /\ stop = cut[d] + 2 /\ cut[d] + 2 <= cut[Len(sent)]
      BY <1>5, <1>9, <2>2, <2>5, <2>9
    <3>2. d < Len(sent) /\ U16At(bytes, 0) = Len(Data(d + 1))
      BY <1>2, <1>6, <1>10, <3>1, SizeGot
    <3>3. UNCHANGED delivered /\ buffer' = <<>>
      BY <2>1, <2>9 DEF ServerReceived, ClientReceived, Await
    <3>4. Len(Data(d + 1)) > 0
      BY <2>6, <3>2
    <3>5. CASE to = "peer"
      <4>1. receiver' = "body" /\ want' = Len(Data(d + 1))
        BY <2>1, <2>9, <3>2, <3>5 DEF ServerReceived, Await
      <4>2. Len(Data(d + 1)) + 0 = Len(Data(d + 1))
        BY <2>6, <3>2
      <4>3. Reads(stream, cut, stop)'
        BY <1>3, <1>6, <3>1, <3>2, <3>3, <3>4, <3>5, <4>1, <4>2, NoBytes
           DEF Reads, Agrees, Data, Serialize
      <4> QED BY <2>8, <3>3, <4>3
    <3>6. CASE to # "peer"
      <4>1. receiver' = "type" /\ want' = 1 /\ code' = Len(Data(d + 1))
        BY <2>1, <2>9, <3>2, <3>6 DEF ClientReceived, Await
      <4>2. Reads(stream, cut, stop)'
        BY <1>3, <1>6, <3>1, <3>2, <3>3, <3>6, <4>1, NoBytes DEF Reads, Agrees, Data, Serialize
      <4> QED BY <2>8, <3>3, <4>2
    <3> QED BY <3>5, <3>6
  <2>10. CASE receiver = "type"
    <3>1. /\ d < Len(sent) /\ to # "peer" /\ base = cut[d] + 2 /\ w = 1 /\ have = 0
          /\ code = Len(Data(d + 1)) /\ ClientReceived(bytes)
      BY <2>1, <2>5, <2>10
    <3>2. PICK size \in Nat \ {0} : size = Len(Data(d + 1))
      BY <2>6, <3>1
    <3>3. PICK q \in Nat : q = cut[d]
      OBVIOUS
    <3>4. Len(bytes) = 1 /\ stop = cut[d] + 3
      <4>1. stop = q + 2 + (1 + 0) /\ Len(bytes) = 1 + 0
        BY <2>2, <3>1, <3>3
      <4>2. q + 2 + (1 + 0) = q + 3 /\ 1 + 0 = 1
        OBVIOUS
      <4> QED BY <3>3, <4>1, <4>2
    <3>5. bytes[1] = Data(d + 1)[1]
      <4>1. bytes[1] = stream[base + 1]
        BY <1>10, <3>4, 1 \in 1 .. 1 DEF Agrees
      <4>2. 1 \in 1 .. size
        OBVIOUS
      <4>3. stream[cut[d] + 2 + 1] = Data(d + 1)[1]
        BY <2>6, <3>1, <3>2, <4>2
      <4> QED BY <3>1, <4>1, <4>3
    <3>6. CASE size > 1
      <4>1. code > 1 /\ ~(code <= 1)
        BY <3>1, <3>2, <3>6
      <4>2. Await("body", code - 1) /\ code' = bytes[1] /\ UNCHANGED <<delivered, told>>
        BY <2>10, <3>1, <4>1, Zenon DEF ClientReceived
      <4>3. /\ receiver' = "body" /\ want' = size - 1 /\ buffer' = <<>> /\ UNCHANGED delivered
            /\ code' = Data(d + 1)[1]
        BY <3>1, <3>2, <3>5, <4>2 DEF Await
      <4>4. size - 1 > 0 /\ size - 1 + 0 + 1 = size
        BY <3>6
      <4>5. Reads(stream, cut, stop)'
        BY <1>3, <1>6, <3>1, <3>2, <3>4, <4>3, <4>4, NoBytes DEF Reads, Agrees, Data, Serialize
      <4> QED BY <2>8, <4>3, <4>5
    <3>7. CASE size = 1
      <4>1. code <= 1 /\ ~(code > 1)
        <5>1. code = 1
          BY <3>1, <3>2, <3>7
        <5> QED BY <5>1
      <4>2. Deliver(client_deserialize(bytes[1], <<>>, 0))
        BY <2>10, <3>1, <4>1 DEF ClientReceived
      <4>3. client_deserialize(Data(d + 1)[1], <<>>, 0) = Received(sent[d + 1])
        BY <2>6, <3>1, <3>2, <3>7
      <4>4. Deliver(Received(sent[d + 1]))
        BY <3>5, <4>2, <4>3
      <4>5. stop = cut[d + 1]
        <5>1. cut[d + 1] = q + 2 + 1
          BY <2>6, <3>1, <3>2, <3>7, <3>3
        <5>2. q + 2 + 1 = q + 3
          OBVIOUS
        <5> QED BY <3>4, <3>3, <5>1, <5>2
      <4> QED BY <2>7, <3>1, <4>4, <4>5
    <3> QED BY <3>6, <3>7
  <2>11. CASE receiver = "body" /\ to = "peer"
    <3>1. bytes = Data(d + 1)
      BY <1>10, <2>2, <2>5, <2>6, <2>11, DataGot
    <3>2. Deliver(Received(sent[d + 1]))
      BY <2>1, <2>5, <2>6, <2>11, <3>1 DEF ServerReceived
    <3>3. stop = cut[d + 1]
      BY <2>2, <2>5, <2>6, <2>11
    <3> QED BY <2>5, <2>7, <2>11, <3>2, <3>3
  <2>12. CASE receiver = "body" /\ to # "peer"
    <3>1. /\ d < Len(sent) /\ base = cut[d] + 3 /\ w + have + 1 = Len(Data(d + 1))
          /\ code = Data(d + 1)[1] /\ ClientReceived(bytes)
      BY <2>1, <2>5, <2>12
    <3>2. PICK data \in Seq(Bytes) : data = Data(d + 1)
      BY <2>6, <3>1
    <3>3. PICK q \in Nat : q = cut[d]
      OBVIOUS
    <3>4. PICK p \in Nat : p = q + 2
      OBVIOUS
    <3>5. p = cut[d] + 2 /\ base = p + 1
      <4>1. base = q + 3
        BY <3>1, <3>3
      <4> QED BY <3>3, <3>4, <4>1
    <3>6. PICK size \in Nat : size = Len(Data(d + 1)) /\ size = w + have + 1
      BY <2>6, <3>1
    <3>7. \A i \in 1 .. Len(data) : stream[p + i] = data[i]
      BY <2>6, <3>1, <3>2, <3>5
    <3>8. Agrees(bytes, stream, p + 1) /\ Len(bytes) + 1 = Len(data)
      BY <1>10, <2>2, <3>1, <3>2, <3>5
    <3>9. bytes = SubSeq(data, 2, Len(data))
      BY <3>7, <3>8, DataGot
    <3>10. PICK past \in {0, 255} : Deliver(client_deserialize(code, bytes, past))
      BY <2>12, <3>1 DEF ClientReceived
    <3>11. Len(Data(d + 1)) # 1
      <4>1. size # 1
        <5>1. size = w + have + 1
          BY <3>6
        <5>2. w >= 1
          BY <1>12
        <5> QED BY <5>1, <5>2
      <4> QED BY <3>6, <4>1
    <3>12. client_deserialize(code, bytes, past) = Received(sent[d + 1])
      BY <2>6, <2>12, <3>1, <3>2, <3>9, <3>11
    <3>13. Deliver(Received(sent[d + 1]))
      BY <3>10, <3>12
    <3>14. stop = cut[d + 1]
      <4>1. cut[d + 1] = q + 2 + size
        BY <2>6, <3>1, <3>3, <3>6
      <4>2. stop = q + 3 + (w + have)
        BY <2>2, <3>1, <3>3
      <4>3. q + 2 + (w + have + 1) = q + 3 + (w + have)
        OBVIOUS
      <4> QED BY <3>6, <4>1, <4>2, <4>3
    <3> QED BY <2>7, <3>1, <3>13, <3>14
  <2>13. receiver \in {"header", "type", "body"}
    BY DEF Intact, TrafficInv, TrafficTypes
  <2> QED BY <2>9, <2>10, <2>11, <2>12, <2>13
<1> QED BY <1>1, <1>7, <1>11, <1>12

-----------------------------------------------------------------------------
(* Every step keeps the invariant *)

LEMMA FreshStream == TrafficInv /\ Fresh => Prefixed /\ Stream /\ (Connected => Marked)
<1> SUFFICES ASSUME TrafficInv, Fresh
             PROVE  Prefixed /\ Stream /\ (Connected => Marked)
  OBVIOUS
<1> from \in Ends
  BY DEF TrafficInv, TrafficTypes
<1>1. /\ shut = {} /\ sent = <<>> /\ delivered = <<>> /\ sender = "idle" /\ left = <<>>
      /\ receiver = "header" /\ want = 2 /\ buffer = <<>> /\ channel[to] = <<>>
  BY EndsAre DEF Fresh
<1>2. Len(sent) = 0 /\ Len(delivered) = 0 /\ Len(buffer) = 0 /\ Len(channel[to]) = 0
  BY <1>1, NoBytes
<1>3. Prefixed
  <2>1. delivered \in Seq(Expected)
    BY <1>1, EmptySeq
  <2> QED BY <1>2, <2>1 DEF Prefixed
<1>4. Connected => Marked
  <2>1. to \in {"client", "accepted", "peer"} /\ from \in {"client", "accepted", "peer"}
    BY OtherEnd DEF Ends
  <2>2. ASSUME Connected
        PROVE  ~closed[to] /\ stream_status[from] = {}
    <3>1. Built(to) /\ Built(from)
      BY <2>2, OtherEnd DEF Connected, Ends
    <3> QED BY <2>1, <3>1 DEF Fresh
  <2> QED BY <1>1, <2>2 DEF Marked
<1>5. Stream
  <2> DEFINE zeros == [n \in Nat |-> 0]
  <2>1. zeros \in [Nat -> Bytes] /\ zeros \in [Nat -> Nat] /\ zeros[0] = 0 /\ 0 \in Nat
    BY DEF Bytes
  <2> HIDE DEF zeros
  <2>2. Layout(zeros, zeros)
    BY <1>2, <2>1 DEF Layout
  <2>3. Pending = <<>> /\ Len(Pending) = 0
    BY <1>1, NoBytes DEF Pending
  <2>4. Agrees(channel[to], zeros, 0) /\ Agrees(Pending, zeros, 0) /\ Agrees(buffer, zeros, 0)
    BY <1>2, <2>3 DEF Agrees
  <2>5. Supplies(zeros, 0 + Len(buffer), zeros[Len(sent)])
    BY <1>2, <2>1, <2>3, <2>4 DEF Supplies
  <2>6. Reads(zeros, zeros, 0)
    BY <1>1, <1>2, <2>1, <2>4 DEF Reads
  <2> QED BY <2>1, <2>2, <2>5, <2>6 DEF Stream
<1> QED BY <1>3, <1>4, <1>5

LEMMA OrderInit == Init => OrderInv
<1> SUFFICES ASSUME Init PROVE OrderInv
  OBVIOUS
<1>1. Fresh
  BY DEF Init, SocketInit, Fresh, Built, Sockets
<1> QED BY <1>1, TrafficInit, FreshStream DEF OrderInv

\* Both ends are built only once.
LEMMA OrderEstablish ==
  ASSUME SocketInv, TrafficInv, OrderInv, Establish
  PROVE  OrderInv'
<1>1. /\ UNCHANGED <<sendVars, receiveVars, channel, shut>>
      /\ \/ \E s \in Constructors : ~Built(s) /\ (UNCHANGED <<skt, closed, stream_status>>
                                                  \/ \E d : Take(s, d))
         \/ ~Built("peer") /\ ~Built("accepted") /\ \E d : Take("accepted", d)
         \/ ~Built("peer") /\ Move("accepted", "peer")
  BY DEF Establish, ConnectTo, ListenOn, TryNext, GiveUp, Accept, Move, Constructors
<1>2. ~Connected
  BY <1>1 DEF Connected, SocketInv, Stages, Constructors
<1>3. Fresh
  BY <1>2 DEF OrderInv
<1>4. \A s \in {"client", "accepted", "peer"} : Built(s)' => ~closed'[s] /\ stream_status'[s] = {}
  <2> SUFFICES ASSUME NEW s \in {"client", "accepted", "peer"}, skt'[s] # -1
               PROVE  ~closed'[s] /\ stream_status'[s] = {}
    BY DEF Built
  <2>1. skt[s] # -1 => ~closed[s] /\ stream_status[s] = {}
    BY <1>3 DEF Fresh, Built
  <2>2. skt \in [Sockets -> Handles] /\ closed \in [Sockets -> BOOLEAN]
        /\ stream_status \in [Sockets -> SUBSET BothClosed] /\ s \in Sockets
    BY DEF SocketInv, SocketTypes, TrafficInv, TrafficTypes, Sockets
  <2>3. ASSUME NEW t, NEW d, Take(t, d)
        PROVE  ~closed'[s] /\ stream_status'[s] = {}
    BY <2>1, <2>2, <2>3 DEF Take
  <2>4. ASSUME Move("accepted", "peer")
        PROVE  ~closed'[s] /\ stream_status'[s] = {}
    <3>1. skt["accepted"] # -1 => ~closed["accepted"] /\ stream_status["accepted"] = {}
      BY <1>3 DEF Fresh, Built
    <3>2. CASE s = "peer"
      BY <2>2, <2>4, <3>1, <3>2 DEF Move, Built
    <3>3. CASE s = "accepted"
      BY <2>2, <2>4, <3>3 DEF Move, Built
    <3>4. CASE s = "client"
      BY <2>1, <2>2, <2>4, <3>4 DEF Move, Built
    <3> QED BY <3>2, <3>3, <3>4
  <2> QED BY <1>1, <2>1, <2>3, <2>4
<1>5. Fresh'
  BY <1>1, <1>3, <1>4 DEF Fresh, sendVars, receiveVars
<1>6. TrafficInv'
  BY TrafficEstablish
<1>7. TrafficInv' /\ Fresh' => Prefixed' /\ Stream' /\ (Connected' => Marked')
  BY FreshStream, PTL
<1> QED BY <1>5, <1>6, <1>7 DEF OrderInv

LEMMA OrderSend ==
  ASSUME AllFramed, TrafficInv, OrderInv, NEW m \in Messages, Send(m)
  PROVE  OrderInv'
<1>1. /\ UNCHANGED <<from, receiveVars, socketVars>> /\ sent' = Append(sent, m) /\ Connected
  BY DEF Send
<1>2. Connected' = Connected /\ Intact' = Intact /\ Marked' = Marked
  BY <1>1 DEF Connected, Built, Intact, Marked, socketVars, receiveVars, to
<1>3. Prefixed'
  <2>1. PICK n \in Nat : n = Len(sent)
    BY LenProperties DEF TrafficInv, TrafficTypes
  <2>2. Len(sent') = n + 1 /\ \A k \in 1 .. n : sent'[k] = sent[k]
    BY <1>1, <2>1, AppendProperties DEF TrafficInv, TrafficTypes
  <2>3. PICK d \in Nat : d = Len(delivered) /\ d <= n
    BY <2>1, LenProperties DEF OrderInv, Prefixed
  <2>4. d <= n + 1 /\ \A k \in 1 .. d : k \in 1 .. n
    BY <2>3
  <2> QED BY <1>1, <2>1, <2>2, <2>3, <2>4
          DEF OrderInv, Prefixed, Expected, Messages, Received, receiveVars
<1>4. Intact' => Stream'
  BY <1>2, StreamSend DEF OrderInv
<1> QED BY <1>1, <1>2, <1>3, <1>4 DEF OrderInv

LEMMA OrderSendSome ==
  ASSUME TrafficInv, OrderInv, SendSome
  PROVE  OrderInv'
<1>1. UNCHANGED <<from, sent, receiveVars, skt, closed, stream_status, shut>>
  BY DEF SendSome, SendGoes
<1>2. Connected
  BY DEF SendSome, OrderInv, Fresh
<1>3. Connected' = Connected /\ Intact' = Intact /\ Marked' = Marked /\ Prefixed' = Prefixed
  BY <1>1 DEF Connected, Built, Intact, Marked, Prefixed, Expected, Messages, Received, receiveVars, to
<1>4. Intact' => Stream'
  BY <1>2, <1>3, StreamSendSome DEF OrderInv
<1> QED BY <1>2, <1>3, <1>4 DEF OrderInv

LEMMA OrderSendStops ==
  ASSUME TrafficInv, OrderInv, SendStops
  PROVE  OrderInv'
<1>1. UNCHANGED <<from, sent, receiveVars, skt, closed, shut, channel>>
  BY DEF SendStops, SendIsClosed, SendThrows, socketVars
<1>2. Connected /\ Marked
  BY DEF SendStops, OrderInv, Fresh
<1>3. stream_status'[to] = stream_status[to]
  <2>1. \/ UNCHANGED stream_status
        \/ stream_status' = [stream_status EXCEPT ![from] = @ \cup {"SEND"}]
    BY DEF SendStops, SendIsClosed, SendThrows, socketVars
  <2>2. to # from /\ to \in Sockets /\ stream_status \in [Sockets -> SUBSET BothClosed]
    BY OtherEnd, EndsAre DEF TrafficInv, TrafficTypes
  <2> QED BY <2>1, <2>2
<1>4. /\ Connected' = Connected /\ Intact' = Intact /\ Prefixed' = Prefixed
  BY <1>1, <1>3 DEF Connected, Built, Intact, Prefixed, Expected, Messages, Received, receiveVars, to
<1>5. Marked'
  <2>1. UNCHANGED stream_status \/ shut # {}
    BY DEF SendStops, SendIsClosed, SendThrows, socketVars
  <2>2. shut # {} /\ from \notin shut => to \in shut
    BY OtherEnd DEF TrafficInv, TrafficTypes
  <2>3. to' = to
    BY <1>1 DEF to
  <2> QED BY <1>1, <1>2, <1>3, <2>1, <2>2, <2>3 DEF Marked
<1>6. Intact' => Stream'
  BY <1>2, <1>4, StreamSendStops DEF OrderInv
<1> QED BY <1>2, <1>4, <1>5, <1>6 DEF OrderInv

LEMMA OrderEnterRecv ==
  ASSUME TrafficInv, OrderInv, EnterRecv
  PROVE  OrderInv'
<1>1. UNCHANGED <<sendVars, socketVars, delivered>> /\ Connected
  BY DEF EnterRecv, ReceiveEnds
<1>2. to' = to /\ Connected' = Connected /\ Marked' = Marked /\ Prefixed' = Prefixed
  BY <1>1 DEF Connected, Built, Marked, Prefixed, Expected, Messages, Received, sendVars, socketVars, to
<1>3. Intact' => Stream'
  <2>1. CASE closed[to]
    BY <2>1 DEF EnterRecv, ReceiveEnds, Intact
  <2>2. CASE ~closed[to]
    <3>1. UNCHANGED <<from, sent, delivered, receiver, want, buffer, code, channel>>
      BY <1>1, <2>2 DEF EnterRecv, sendVars, socketVars
    <3>2. Flowing' = Flowing /\ UNCHANGED <<sender, left, body>> /\ Intact' = Intact
      BY <1>1, <1>2, <3>1 DEF Flowing, Intact, sendVars, socketVars
    <3> QED BY <3>1, <3>2, StreamKept DEF OrderInv
  <2> QED BY <2>1, <2>2
<1> QED BY <1>1, <1>2, <1>3 DEF OrderInv

LEMMA OrderRecvSome ==
  ASSUME ClientUnderstands, ServerUnderstands, TrafficInv, OrderInv, RecvSome
  PROVE  OrderInv'
<1>1. inside /\ UNCHANGED <<sendVars, skt, closed, stream_status, shut>>
  BY DEF RecvSome, RecvGets
<1>2. Connected /\ receiver # "ended"
  BY <1>1 DEF OrderInv, Fresh, TrafficInv, Calls
<1>3. to' = to /\ Connected' = Connected /\ Marked' = Marked
  BY <1>1 DEF Connected, Built, Marked, sendVars, to
<1>4. CASE Intact
  BY <1>2, <1>3, <1>4, StreamRecvSome DEF OrderInv
<1>5. CASE ~Intact
  <2>1. "RECV" \in stream_status[to]
    BY <1>2, <1>5 DEF Intact
  <2>2. ~Intact'
    BY <1>1, <1>3, <2>1 DEF Intact
  <2>3. delivered' = delivered
    BY <2>1 DEF RecvSome, ReceiveUnknown
  <2>4. Prefixed' = Prefixed
    BY <1>1, <2>3 DEF Prefixed, Expected, Messages, Received, sendVars
  <2> QED BY <1>2, <1>3, <2>2, <2>4 DEF OrderInv
<1> QED BY <1>4, <1>5

LEMMA OrderRecvStops ==
  ASSUME TrafficInv, OrderInv, RecvStops
  PROVE  OrderInv'
<1>1. inside /\ UNCHANGED <<sendVars, skt, closed, shut, delivered>>
  BY DEF RecvStops, RecvIsClosed, RecvThrows, socketVars, ReceiveEnds, ReceiveUnknown
<1>2. Connected /\ Marked
  BY <1>1 DEF OrderInv, Fresh
<1>3. to' = to /\ Connected' = Connected /\ Prefixed' = Prefixed
  BY <1>1 DEF Connected, Built, Prefixed, Expected, Messages, Received, sendVars, to
<1>4. ~Intact' /\ stream_status'[from] = stream_status[from]
      /\ ("RECV" \in stream_status[to] => "RECV" \in stream_status'[to])
  <2>1. CASE RecvIsClosed(to)
    BY <1>3, <2>1, OtherEnd, EndsAre DEF RecvIsClosed, Intact, TrafficInv, TrafficTypes
  <2>2. CASE RecvThrows(to) /\ ReceiveEnds
    BY <2>2 DEF RecvThrows, ReceiveEnds, Intact, socketVars
  <2> QED BY <2>1, <2>2 DEF RecvStops
<1>5. Marked'
  BY <1>1, <1>2, <1>3, <1>4 DEF Marked, sendVars
<1> QED BY <1>2, <1>3, <1>4, <1>5 DEF OrderInv

LEMMA OrderKill ==
  ASSUME SocketInv, TrafficInv, OrderInv, NEW e \in Ends, KillShutdown(e) \/ KillClose(e)
  PROVE  OrderInv'
<1>1. /\ UNCHANGED <<sendVars, receiveVars, skt, channel>> /\ shut \subseteq shut'
      /\ stream_status' = [stream_status EXCEPT ![e] = BothClosed]
      /\ \/ closed' = closed /\ e \in shut'
         \/ closed' = [closed EXCEPT ![e] = TRUE] /\ shut' \subseteq shut \cup {e}
  BY DEF KillShutdown, KillClose, Shutdown, Close
<1>2. Connected /\ Marked
  <2>1. Connected
    <3>1. CASE KillShutdown(e)
      BY <3>1 DEF KillShutdown
    <3>2. CASE KillClose(e)
      <4>1. Built(e) /\ stream_status[e] # {}
        BY <3>2 DEF KillClose, Close, BothClosed
      <4> QED BY <4>1 DEF OrderInv, Fresh, Ends
    <3> QED BY <3>1, <3>2
  <2> QED BY <2>1 DEF OrderInv
<1>3. to' = to /\ Connected' = Connected /\ Prefixed' = Prefixed
  BY <1>1 DEF Connected, Built, Prefixed, Expected, Messages, Received, sendVars, receiveVars, to
<1>4. from' = from /\ (e = to \/ e = from) /\ to # from /\ to \in Sockets /\ from \in Sockets
      /\ stream_status \in [Sockets -> SUBSET BothClosed] /\ closed \in [Sockets -> BOOLEAN]
  BY <1>1, OtherEnd, EndsAre
     DEF sendVars, TrafficInv, TrafficTypes, SocketInv, SocketTypes
<1>5. CASE e = to
  <2>1. "RECV" \in stream_status'[to] /\ stream_status'[from] = stream_status[from]
    BY <1>1, <1>4, <1>5 DEF BothClosed
  <2>2. closed'[from] = closed[from]
    BY <1>1, <1>4, <1>5
  <2>3. Marked' /\ ~Intact'
    BY <1>1, <1>2, <1>3, <1>4, <2>1, <2>2 DEF Marked, Intact
  <2> QED BY <1>2, <1>3, <2>3 DEF OrderInv
<1>6. CASE e = from
  <2>1. stream_status'[to] = stream_status[to] /\ closed'[to] = closed[to] /\ (to \in shut' => to \in shut)
    BY <1>1, <1>4, <1>6 DEF KillShutdown, KillClose, Shutdown, Close
  <2>2. ~Flowing'
    BY <1>1, <1>4, <1>6 DEF Flowing
  <2>3. Marked'
    BY <1>2, <1>3, <1>4, <2>1, <2>2 DEF Marked, Flowing
  <2>4. Intact' = Intact
    BY <1>1, <1>3, <2>1 DEF Intact, receiveVars
  <2>5. Intact' => Stream'
    BY <1>1, <2>2, <2>4, StreamKept DEF OrderInv, sendVars, receiveVars
  <2> QED BY <1>2, <1>3, <2>3, <2>5 DEF OrderInv
<1> QED BY <1>4, <1>5, <1>6

LEMMA OrderNext ==
  ASSUME ClientUnderstands, ServerUnderstands, SocketInv, TrafficInv, OrderInv, [Next]_vars
  PROVE  OrderInv'
<1>1. CASE UNCHANGED vars
  <2>1. UNCHANGED <<sendVars, receiveVars, socketVars>>
    BY <1>1 DEF vars
  <2>2. /\ to' = to /\ Connected' = Connected /\ Prefixed' = Prefixed /\ Fresh' = Fresh
        /\ Marked' = Marked /\ Intact' = Intact /\ Flowing' = Flowing
    BY <2>1 DEF sendVars, receiveVars, socketVars, to, Connected, Built, Prefixed, Expected,
                Messages, Received, Fresh, Marked, Intact, Flowing
  <2>3. Stream => Stream'
    BY <2>1, <2>2, StreamKept DEF sendVars, receiveVars, socketVars
  <2> QED BY <2>2, <2>3 DEF OrderInv
<1>2. CASE Threads
  BY <1>2, OrderSendSome, OrderSendStops, OrderEnterRecv, OrderRecvSome, OrderRecvStops DEF Threads
<1>3. AllFramed
  BY UnderstoodFramed
<1> QED BY <1>1, <1>2, <1>3, OrderEstablish, OrderSend, OrderKill DEF Next

LEMMA PrefixedInOrder == TrafficInv /\ Prefixed => InOrder
<1> SUFFICES ASSUME TrafficInv, Prefixed PROVE InOrder
  OBVIOUS
<1>1. PICK n \in Nat : n = Len(sent) /\ DOMAIN sent = 1 .. n
  BY LenProperties DEF TrafficInv, TrafficTypes
<1>2. PICK d \in Nat : d = Len(delivered) /\ d <= n
  BY <1>1, LenProperties DEF Prefixed
<1>3. \A k \in 1 .. n : Received(sent[k]) \in Expected
  <2>1. \A k \in 1 .. n : sent[k] \in Messages
    BY <1>1, ElementOfSeq DEF TrafficInv, TrafficTypes
  <2> QED BY <2>1 DEF Expected
<1> DEFINE all == [k \in DOMAIN sent |-> Received(sent[k])]
<1>4. all \in Seq(Expected) /\ Len(all) = n /\ \A k \in 1 .. n : all[k] = Received(sent[k])
  <2>1. all = [k \in 1 .. n |-> Received(sent[k])]
    BY <1>1
  <2>2. all \in Seq(Expected)
    <3>1. all \in [1 .. n -> Expected]
      BY <1>3, <2>1
    <3> HIDE DEF all
    <3> QED BY <3>1
  <2> QED BY <1>3, <2>1, <2>2, LenProperties
<1> HIDE DEF all
<1>5. delivered \in Seq(Expected) /\ \A k \in 1 .. d : delivered[k] = all[k]
  <2>1. \A k \in 1 .. d : k \in 1 .. n
    BY <1>2
  <2> QED BY <1>2, <1>4, <2>1 DEF Prefixed
<1>6. /\ SubSeq(delivered, 1, d) \in Seq(Expected) /\ Len(SubSeq(delivered, 1, d)) = d
      /\ SubSeq(all, 1, d) \in Seq(Expected) /\ Len(SubSeq(all, 1, d)) = d
      /\ \A k \in 1 .. d : SubSeq(delivered, 1, d)[k] = SubSeq(all, 1, d)[k]
  <2>1. \A k \in 1 .. d : delivered[k] \in Expected /\ all[k] \in Expected
    <3>1. \A k \in 1 .. d : k \in 1 .. n
      BY <1>2
    <3> QED BY <1>2, <1>4, <1>5, <3>1, ElementOfSeq
  <2>2. /\ SubSeq(delivered, 1, d) \in Seq(Expected)
        /\ Len(SubSeq(delivered, 1, d)) = IF 1 <= d THEN d - 1 + 1 ELSE 0
        /\ \A k \in 1 .. d - 1 + 1 : SubSeq(delivered, 1, d)[k] = delivered[1 + k - 1]
    BY <2>1, 1 \in Int, d \in Int, SubSeqProperties
  <2>3. /\ SubSeq(all, 1, d) \in Seq(Expected)
        /\ Len(SubSeq(all, 1, d)) = IF 1 <= d THEN d - 1 + 1 ELSE 0
        /\ \A k \in 1 .. d - 1 + 1 : SubSeq(all, 1, d)[k] = all[1 + k - 1]
    BY <2>1, 1 \in Int, d \in Int, SubSeqProperties
  <2>4. \A k \in 1 .. d : k \in 1 .. d - 1 + 1 /\ 1 + k - 1 = k
    OBVIOUS
  <2>5. \A k \in 1 .. d : SubSeq(delivered, 1, d)[k] = SubSeq(all, 1, d)[k]
    BY <1>5, <2>2, <2>3, <2>4
  <2> QED BY <2>2, <2>3, <2>5
<1>7. SubSeq(delivered, 1, d) = SubSeq(all, 1, d)
  BY <1>6, SeqEqual
<1> QED BY <1>2, <1>4, <1>7 DEF InOrder, IsPrefix, all

\* What has been received is what was sent, in order, each field as it was, wherever
\* the bytes are split and whenever either end is killed, for any messages that the two
\* ends agree on one at a time: what recv() leaves of one never becomes part of another.
THEOREM InOrderHolds ==
  ASSUME ClientUnderstands, ServerUnderstands
  PROVE  Spec => []InOrder
<1>1. Init => SocketInv /\ TrafficInv /\ OrderInv
  BY InitStep, TrafficInit, OrderInit
<1>2. SocketInv /\ TrafficInv /\ OrderInv /\ [Next]_vars => (SocketInv /\ TrafficInv /\ OrderInv)'
  BY NextStep, UnderstoodFramed, TrafficNext, OrderNext
<1>3. TrafficInv /\ OrderInv => InOrder
  BY PrefixedInOrder DEF OrderInv
<1> QED BY <1>1, <1>2, <1>3, PTL DEF Spec

-----------------------------------------------------------------------------
(* The two ends of the codec *)

U16s == {n \in Nat : n < Uint16}
Floats == {s \in Seq(Bytes) : Len(s) = 4}

\* The code, then the rest.
LEMMA Coded ==
  ASSUME NEW c \in Bytes, NEW t \in Seq(Bytes)
  PROVE  /\ <<c>> \o t \in Seq(Bytes) /\ Len(<<c>> \o t) = 1 + Len(t)
         /\ (<<c>> \o t)[1] = c
         /\ \A i \in 1 .. Len(t) : (<<c>> \o t)[1 + i] = t[i]
<1>1. <<c>> \in Seq(Bytes) /\ Len(<<c>>) = 1 /\ <<c>>[1] = c
  OBVIOUS
<1>2. Len(t) \in Nat
  BY Lengths
<1>3. \A i \in 1 .. Len(t) : /\ 1 + i \in 1 .. 1 + Len(t) /\ ~(1 + i <= 1) /\ 1 + i - 1 = i
  BY <1>2
<1>4. 1 \in 1 .. 1 + Len(t)
  BY <1>2
<1> QED BY <1>1, <1>3, <1>4, Both

\* A number of 16 bits takes two bytes, and the two bytes give the number back.
LEMMA Encoded ==
  ASSUME NEW n \in U16s
  PROVE  /\ Encode(n, 2) \in Seq(Bytes) /\ Len(Encode(n, 2)) = 2
         /\ \A s, i : /\ i \in Nat /\ Len(s) \in Nat /\ i + 2 <= Len(s)
                      /\ s[i + 1] = Encode(n, 2)[1] /\ s[i + 2] = Encode(n, 2)[2]
                      => U16At(s, i) = n
<1>1. PICK h, l \in Bytes : n = 256 * h + l /\ h = (n \div 256) % 256 /\ l = n % 256
  BY Halves DEF U16s
<1>2. Encode(n, 2) = <<h, l>>
  BY <1>1 DEF Encode, uint_16_to_hex_big_endian
<1>3. <<h, l>> \in Seq(Bytes) /\ Len(<<h, l>>) = 2 /\ <<h, l>>[1] = h /\ <<h, l>>[2] = l
  OBVIOUS
<1>4. ASSUME NEW s, NEW i \in Nat, Len(s) \in Nat, i + 2 <= Len(s), s[i + 1] = h, s[i + 2] = l
      PROVE  U16At(s, i) = n
  <2>1. \A k \in 1 .. i + 2 - i : k = 1 \/ k = 2
    OBVIOUS
  <2>2. 1 \in 1 .. i + 2 - i /\ 2 \in 1 .. i + 2 - i /\ i + 1 <= Len(s) /\ i + 2 <= Len(s)
    BY <1>4
  <2>3. Slice(s, i, i + 2, 0)[1] = h /\ Slice(s, i, i + 2, 0)[2] = l
    BY <1>4, <2>2 DEF Slice
  <2> QED BY <1>1, <2>3 DEF U16At, hex_big_endian_to_uint_16
<1> QED BY <1>2, <1>3, <1>4

-----------------------------------------------------------------------------
(* The codes: which serializer and which deserializer a message meets *)

LEMMA SimpleCodesAre == {ActionType[t] : t \in Simple} = {102, 64, 61, 112, 113, 254, 253, 252, 251}
BY DEF ActionType, Simple

LEMMA ReadBy ==
  ASSUME NEW data, NEW x
  PROVE  /\ data[1] = 66 => server_deserialize(data, x) = deserialize_create(data)
         /\ data[1] = 67 => server_deserialize(data, x) = deserialize_join(data)
         /\ data[1] = 109 => server_deserialize(data, x) = [type |-> "MOVE", direction |-> data[2], id |-> x]
         /\ data[1] = 115 => server_deserialize(data, x) = deserialize_shoot(data, x)
         /\ data[1] = 86 => server_deserialize(data, x) = [type |-> "WEAPON", weapon |-> data[2], id |-> x]
         /\ data[1] = 85 => server_deserialize(data, x) = deserialize_ammo("AMMOPRIMARY", data, x)
         /\ data[1] = 84 => server_deserialize(data, x) = deserialize_ammo("AMMOSECONDARY", data, x)
         /\ data[1] = 45 => server_deserialize(data, x) = deserialize_rotate(data, x)
         /\ data[1] \in {102, 64, 61, 112, 113, 254, 253, 252, 251}
              => server_deserialize(data, x) = deserialize_simple(data[1], x)
<1>1. /\ ActionType.CREATE = 66 /\ ActionType.JOIN = 67 /\ ActionType.MOVE = 109
      /\ ActionType.SHOOT = 115 /\ ActionType.WEAPON = 86 /\ ActionType.AMMOPRIMARY = 85
      /\ ActionType.AMMOSECONDARY = 84 /\ ActionType.ROTATE = 45
  BY DEF ActionType
<1> QED BY <1>1, SimpleCodesAre, SMTT(30) DEF server_deserialize

LEMMA WrittenBy ==
  ASSUME NEW m
  PROVE  /\ m.type = "CREATE" => client_serialize(m) = <<66>> \o serialize_create(m)
         /\ m.type = "JOIN" => client_serialize(m) = <<67>> \o serialize_join(m)
         /\ m.type = "MOVE" => client_serialize(m) = <<109>> \o <<m.direction>>
         /\ m.type = "SHOOT" => client_serialize(m) =
              <<115>> \o (Encode(m.desired_position[1], 2) \o Encode(m.desired_position[2], 2))
         /\ m.type = "WEAPON" => client_serialize(m) = <<86>> \o <<m.weapon>>
         /\ m.type = "AMMOPRIMARY" => client_serialize(m) = <<85>> \o Encode(m.ammo, 2)
         /\ m.type = "AMMOSECONDARY" => client_serialize(m) = <<84>> \o Encode(m.ammo, 2)
         /\ m.type = "ROTATE" => client_serialize(m) = <<45>> \o Encode(m.angle, 4)
         /\ m.type \in Simple => client_serialize(m) = <<ActionType[m.type]>> \o <<>>
<1>1. /\ ActionType.CREATE = 66 /\ ActionType.JOIN = 67 /\ ActionType.MOVE = 109
      /\ ActionType.SHOOT = 115 /\ ActionType.WEAPON = 86 /\ ActionType.AMMOPRIMARY = 85
      /\ ActionType.AMMOSECONDARY = 84 /\ ActionType.ROTATE = 45
  BY DEF ActionType
<1>2. m.type = "CREATE" => client_serialize(m) = <<66>> \o serialize_create(m)
  BY <1>1, ZenonT(60) DEF client_serialize, Simple
<1>3. m.type = "JOIN" => client_serialize(m) = <<67>> \o serialize_join(m)
  BY <1>1, ZenonT(60) DEF client_serialize, Simple
<1>4. m.type = "MOVE" => client_serialize(m) = <<109>> \o <<m.direction>>
  BY <1>1, ZenonT(60) DEF client_serialize, Simple
<1>5. m.type = "SHOOT" => client_serialize(m) = 
         <<115>> \o (Encode(m.desired_position[1], 2) \o Encode(m.desired_position[2], 2))
  BY <1>1, ZenonT(60) DEF client_serialize, Simple
<1>6. m.type = "WEAPON" => client_serialize(m) = <<86>> \o <<m.weapon>>
  BY <1>1, ZenonT(60) DEF client_serialize, Simple
<1>7. m.type = "AMMOPRIMARY" => client_serialize(m) = <<85>> \o Encode(m.ammo, 2)
  BY <1>1, ZenonT(60) DEF client_serialize, Simple
<1>8. m.type = "AMMOSECONDARY" => client_serialize(m) = <<84>> \o Encode(m.ammo, 2)
  BY <1>1, ZenonT(60) DEF client_serialize, Simple
<1>9. m.type = "ROTATE" => client_serialize(m) = <<45>> \o Encode(m.angle, 4)
  BY <1>1, ZenonT(60) DEF client_serialize, Simple
<1>10. m.type \in Simple => client_serialize(m) = <<ActionType[m.type]>> \o <<>>
  BY DEF client_serialize, Simple
<1> QED BY <1>2, <1>3, <1>4, <1>5, <1>6, <1>7, <1>8, <1>9, <1>10

LEMMA ClientCodes ==
  /\ 66 \in Bytes /\ 67 \in Bytes /\ 109 \in Bytes /\ 115 \in Bytes /\ 86 \in Bytes
  /\ 85 \in Bytes /\ 84 \in Bytes /\ 45 \in Bytes
  /\ \A t \in Simple : ActionType[t] \in Bytes /\ t # "UNKNOWN"
BY DEF Bytes, Simple, ActionType

LEMMA Few == 1 < Uint16 /\ 2 < Uint16 /\ 3 < Uint16 /\ 5 < Uint16
BY DEF Uint16

-----------------------------------------------------------------------------
(* Where a field lies in a message *)

LEMMA OneByte ==
  ASSUME NEW x \in Bytes
  PROVE  <<x>> \in Seq(Bytes) /\ Len(<<x>>) = 1 /\ <<x>>[1] = x
OBVIOUS

\* t stands in s behind the first i bytes.
Lies(s, i, t) == i + Len(t) <= Len(s) /\ \A k \in 1 .. Len(t) : s[i + k] = t[k]

LEMMA LiesLeft ==
  ASSUME NEW s \in Seq(Bytes), NEW u \in Seq(Bytes), NEW t \in Seq(Bytes), NEW i \in Nat, Lies(s, i, t)
  PROVE  Lies(s \o u, i, t)
<1>1. Len(s) \in Nat /\ Len(t) \in Nat /\ Len(u) \in Nat /\ Len(s \o u) = Len(s) + Len(u)
  BY Lengths, Both
<1>2. i + Len(t) <= Len(s)
  BY DEF Lies
<1>3. ASSUME NEW k \in 1 .. Len(t) PROVE (s \o u)[i + k] = t[k]
  <2>1. i + k \in 1 .. Len(s) + Len(u) /\ i + k <= Len(s)
    BY <1>1, <1>2
  <2>2. (s \o u)[i + k] = s[i + k]
    BY <2>1, Both
  <2> QED BY <2>2 DEF Lies
<1> QED BY <1>1, <1>2, <1>3 DEF Lies

LEMMA LiesRight ==
  ASSUME NEW s \in Seq(Bytes), NEW t \in Seq(Bytes)
  PROVE  Lies(s \o t, Len(s), t)
<1>1. Len(s) \in Nat /\ Len(t) \in Nat /\ Len(s \o t) = Len(s) + Len(t)
  BY Lengths, Both
<1>2. ASSUME NEW k \in 1 .. Len(t) PROVE (s \o t)[Len(s) + k] = t[k]
  <2>1. Len(s) + k \in 1 .. Len(s) + Len(t) /\ ~(Len(s) + k <= Len(s)) /\ Len(s) + k - Len(s) = k
    BY <1>1
  <2> QED BY <2>1, Both
<1> QED BY <1>1, <1>2 DEF Lies

LEMMA LiesCoded ==
  ASSUME NEW c \in Bytes, NEW u \in Seq(Bytes), NEW t \in Seq(Bytes), NEW i \in Nat, Lies(u, i, t)
  PROVE  Lies(<<c>> \o u, 1 + i, t)
<1>1. Len(t) \in Nat /\ Len(u) \in Nat /\ Len(<<c>> \o u) = 1 + Len(u)
  BY Lengths, Coded
<1>2. i + Len(t) <= Len(u)
  BY DEF Lies
<1>3. ASSUME NEW k \in 1 .. Len(t) PROVE (<<c>> \o u)[1 + i + k] = t[k]
  <2>1. i + k \in 1 .. Len(u) /\ 1 + i + k = 1 + (i + k)
    BY <1>1, <1>2
  <2>2. (<<c>> \o u)[1 + (i + k)] = u[i + k]
    BY <2>1, Coded
  <2> QED BY <2>1, <2>2 DEF Lies
<1> QED BY <1>1, <1>2, <1>3 DEF Lies

LEMMA LiesCut ==
  ASSUME NEW s \in Seq(Bytes), NEW t \in Seq(Bytes), NEW i \in Nat, Lies(s, i, t)
  PROVE  SubSeq(s, i + 1, i + Len(t)) = t
<1>1. PICK n \in Nat : n = Len(t)
  BY Lengths
<1>2. i + 1 \in Nat \ {0} /\ i + n \in Nat /\ i + n <= Len(s)
  BY <1>1 DEF Lies
<1>3. /\ SubSeq(s, i + 1, i + n) \in Seq(Bytes)
      /\ Len(SubSeq(s, i + 1, i + n)) = IF i + 1 <= i + n THEN i + n - (i + 1) + 1 ELSE 0
      /\ \A k \in 1 .. i + n - (i + 1) + 1 : SubSeq(s, i + 1, i + n)[k] = s[i + 1 + k - 1]
  BY <1>2, Part
<1>4. Len(SubSeq(s, i + 1, i + n)) = n
  BY <1>3
<1>5. \A k \in 1 .. n : k \in 1 .. i + n - (i + 1) + 1 /\ i + 1 + k - 1 = i + k
  OBVIOUS
<1>6. \A k \in 1 .. n : SubSeq(s, i + 1, i + n)[k] = t[k]
  BY <1>1, <1>3, <1>5 DEF Lies
<1> QED BY <1>1, <1>3, <1>4, <1>6, SeqEqual

LEMMA LiesU16 ==
  ASSUME NEW s \in Seq(Bytes), NEW n \in U16s, NEW i \in Nat, Lies(s, i, Encode(n, 2))
  PROVE  U16At(s, i) = n
<1>1. PICK e \in Seq(Bytes) : e = Encode(n, 2) /\ Len(e) = 2
  BY Encoded
<1>2. i + 2 <= Len(s) /\ s[i + 1] = e[1] /\ s[i + 2] = e[2]
  BY <1>1 DEF Lies
<1>3. Len(s) \in Nat
  BY Lengths
<1> QED BY <1>1, <1>2, <1>3, Encoded

LEMMA LiesBytes ==
  ASSUME NEW s \in Seq(Bytes), NEW i \in Nat, NEW a \in Bytes, NEW b \in Bytes, Lies(s, i, <<a, b>>)
  PROVE  s[i + 1] = a /\ s[i + 2] = b
<1>1. Len(<<a, b>>) = 2 /\ <<a, b>>[1] = a /\ <<a, b>>[2] = b
  OBVIOUS
<1> QED BY <1>1 DEF Lies

LEMMA TwoBytes ==
  ASSUME NEW a \in Bytes, NEW b \in Bytes
  PROVE  <<a, b>> \in Seq(Bytes) /\ Len(<<a, b>>) = 2
OBVIOUS

LEMMA Alone ==
  ASSUME NEW t \in Seq(Bytes)
  PROVE  Lies(t, 0, t)
<1>1. PICK n \in Nat : n = Len(t)
  BY Lengths
<1> QED BY <1>1 DEF Lies

-----------------------------------------------------------------------------
(* What the client writes the server reads, kind by kind *)

\* It is enough that the deserializer gives the message back.
LEMMA ServerReadsBack ==
  ASSUME NEW m, NEW bytes \in Seq(Bytes), bytes = client_serialize(m),
         0 < Len(bytes), Len(bytes) < Uint16,
         Named(m).type = m.type, m.type # "UNKNOWN", server_deserialize(bytes, id) = Named(m)
  PROVE  ServerReads(m)
<1>1. Named(m) # Unknown
  BY DEF Unknown
<1> QED BY <1>1 DEF ServerReads, Framed, Bytes

LEMMA OneMore ==
  ASSUME NEW c \in Bytes, NEW x \in Bytes, NEW bytes, bytes = <<c>> \o <<x>>
  PROVE  bytes \in Seq(Bytes) /\ Len(bytes) = 2 /\ bytes[1] = c /\ bytes[2] = x
<1>1. PICK t \in Seq(Bytes) : t = <<x>> /\ Len(t) = 1 /\ t[1] = x
  BY OneByte
<1>2. /\ <<c>> \o t \in Seq(Bytes) /\ Len(<<c>> \o t) = 1 + Len(t)
      /\ (<<c>> \o t)[1] = c
      /\ \A i \in 1 .. Len(t) : (<<c>> \o t)[1 + i] = t[i]
  BY Coded
<1> QED BY <1>1, <1>2

\* A message of one field of a byte.
LEMMA ReadsByte ==
  ASSUME NEW m \in [type : {"MOVE"}, direction : Bytes] \cup [type : {"WEAPON"}, weapon : Bytes]
  PROVE  ServerReads(m)
<1>1. CASE m \in [type : {"MOVE"}, direction : Bytes]
  <2>1. m.type = "MOVE" /\ m.direction \in Bytes /\ DOMAIN m = {"type", "direction"}
    BY <1>1
  <2>2. PICK bytes : bytes = <<109>> \o <<m.direction>>
    OBVIOUS
  <2>3. bytes \in Seq(Bytes) /\ Len(bytes) = 2 /\ bytes[1] = 109 /\ bytes[2] = m.direction
    BY <2>1, <2>2, ClientCodes, OneMore
  <2>4. server_deserialize(bytes, id) = [type |-> "MOVE", direction |-> m.direction, id |-> id]
    BY <2>3, ReadBy
  <2>5. Named(m) = [type |-> "MOVE", direction |-> m.direction, id |-> id]
    BY <2>1 DEF Named, With
  <2>6. bytes = client_serialize(m)
    BY <2>1, <2>2, WrittenBy
  <2>7. 0 < Len(bytes) /\ Len(bytes) < Uint16
    BY <2>3, Few
  <2>8. Named(m).type = m.type /\ m.type # "UNKNOWN"
    BY <2>1, <2>5
  <2> QED BY <2>3, <2>4, <2>5, <2>6, <2>7, <2>8, ServerReadsBack
<1>2. CASE m \in [type : {"WEAPON"}, weapon : Bytes]
  <2>1. m.type = "WEAPON" /\ m.weapon \in Bytes /\ DOMAIN m = {"type", "weapon"}
    BY <1>2
  <2>2. PICK bytes : bytes = <<86>> \o <<m.weapon>>
    OBVIOUS
  <2>3. bytes \in Seq(Bytes) /\ Len(bytes) = 2 /\ bytes[1] = 86 /\ bytes[2] = m.weapon
    BY <2>1, <2>2, ClientCodes, OneMore
  <2>4. server_deserialize(bytes, id) = [type |-> "WEAPON", weapon |-> m.weapon, id |-> id]
    BY <2>3, ReadBy
  <2>5. Named(m) = [type |-> "WEAPON", weapon |-> m.weapon, id |-> id]
    BY <2>1 DEF Named, With
  <2>6. bytes = client_serialize(m)
    BY <2>1, <2>2, WrittenBy
  <2>7. 0 < Len(bytes) /\ Len(bytes) < Uint16
    BY <2>3, Few
  <2>8. Named(m).type = m.type /\ m.type # "UNKNOWN"
    BY <2>1, <2>5
  <2> QED BY <2>3, <2>4, <2>5, <2>6, <2>7, <2>8, ServerReadsBack
<1> QED BY <1>1, <1>2

\* A message without fields: its code is enough.
LEMMA ReadsSimple ==
  ASSUME NEW m \in [type : Simple]
  PROVE  ServerReads(m)
<1>1. m.type \in Simple /\ DOMAIN m = {"type"}
  OBVIOUS
<1>2. PICK c \in Bytes : c = ActionType[m.type]
  BY <1>1, ClientCodes
<1>3. PICK bytes \in Seq(Bytes) : bytes = <<c>> /\ Len(bytes) = 1 /\ bytes[1] = c
  BY OneByte
<1>4. bytes = client_serialize(m)
  <2>1. <<c>> \o <<>> = bytes
    BY <1>3, ConcatEmptySeq
  <2> QED BY <1>1, <1>2, <2>1, WrittenBy
<1>5. server_deserialize(bytes, id) = [type |-> m.type, id |-> id]
  <2>1. c \in {ActionType[t] : t \in Simple}
    BY <1>1, <1>2
  <2>2. server_deserialize(bytes, id) = deserialize_simple(c, id)
    BY <1>3, <2>1, SimpleCodesAre, ReadBy
  <2>3. \A t \in Simple : ActionType[t] = c => t = m.type
    BY <1>1, <1>2, SMTT(30) DEF Simple, ActionType
  <2>4. (CHOOSE t \in Simple : ActionType[t] = c) = m.type
    BY <1>1, <1>2, <2>3
  <2> QED BY <2>2, <2>4 DEF deserialize_simple
<1>6. Named(m) = [type |-> m.type, id |-> id]
  BY <1>1 DEF Named, With, Simple
<1>7. 0 < Len(bytes) /\ Len(bytes) < Uint16
  BY <1>3, Few
<1>8. Named(m).type = m.type /\ m.type # "UNKNOWN"
  BY <1>1, <1>6 DEF Simple
<1> QED BY <1>4, <1>5, <1>6, <1>7, <1>8, ServerReadsBack

\* Ammunition: a number, and the server adds the kind of weapon.
LEMMA ReadsAmmo ==
  ASSUME NEW m \in [type : {"AMMOPRIMARY", "AMMOSECONDARY"}, ammo : U16s]
  PROVE  ServerReads(m)
<1>1. m.type \in {"AMMOPRIMARY", "AMMOSECONDARY"} /\ m.ammo \in U16s /\ DOMAIN m = {"type", "ammo"}
  OBVIOUS
<1>2. PICK c \in Bytes : c = IF m.type = "AMMOPRIMARY" THEN 85 ELSE 84
  BY ClientCodes
<1>3. PICK e \in Seq(Bytes) : e = Encode(m.ammo, 2) /\ Len(e) = 2
  BY <1>1, Encoded
<1>4. PICK bytes \in Seq(Bytes) : bytes = <<c>> \o e /\ Len(bytes) = 3 /\ bytes[1] = c /\ Lies(bytes, 1, e)
  <2>1. Len(<<c>> \o e) = 1 + Len(e) /\ <<c>> \o e \in Seq(Bytes) /\ (<<c>> \o e)[1] = c
    BY Coded
  <2>2. Len(<<c>> \o e) = 1 + 2
    BY <1>3, <2>1, Zenon
  <2>3. Lies(<<c>> \o e, 1 + 0, e)
    BY Alone, 0 \in Nat, LiesCoded
  <2>4. 1 + 0 = 1 /\ 1 + 2 = 3
    OBVIOUS
  <2> QED BY <2>1, <2>2, <2>3, <2>4
<1>5. bytes = client_serialize(m)
  BY <1>1, <1>2, <1>3, <1>4, WrittenBy
<1>6. U16At(bytes, 1) = m.ammo
  BY <1>1, <1>3, <1>4, 1 \in Nat, LiesU16
<1> DEFINE kind == IF m.type = "AMMOPRIMARY" THEN "PRIMARY" ELSE "SECONDARY"
<1>7. server_deserialize(bytes, id) = [type |-> m.type, ammo |-> m.ammo, id |-> id, weapon_type |-> kind]
  <2>1. CASE m.type = "AMMOPRIMARY"
    <3>1. bytes[1] = 85
      BY <1>2, <1>4, <2>1
    <3>2. server_deserialize(bytes, id) = deserialize_ammo("AMMOPRIMARY", bytes, id)
      BY <3>1, ReadBy
    <3> QED BY <1>6, <2>1, <3>2 DEF deserialize_ammo
  <2>2. CASE m.type = "AMMOSECONDARY"
    <3>1. bytes[1] = 84
      BY <1>2, <1>4, <2>2
    <3>2. server_deserialize(bytes, id) = deserialize_ammo("AMMOSECONDARY", bytes, id)
      BY <3>1, ReadBy
    <3> QED BY <1>6, <2>2, <3>2 DEF deserialize_ammo
  <2> QED BY <1>1, <2>1, <2>2
<1>8. Named(m) = [type |-> m.type, ammo |-> m.ammo, id |-> id, weapon_type |-> kind]
  <2>1. Named(m) = With(m, [id |-> id, weapon_type |-> kind])
    BY <1>1 DEF Named
  <2> QED BY <1>1, <2>1 DEF With
<1>9. 0 < Len(bytes) /\ Len(bytes) < Uint16
  BY <1>4, Few
<1>10. Named(m).type = m.type /\ m.type # "UNKNOWN"
  BY <1>1, <1>8
<1> QED BY <1>5, <1>7, <1>8, <1>9, <1>10, ServerReadsBack

\* A shot: two numbers.
LEMMA ReadsShoot ==
  ASSUME NEW m \in [type : {"SHOOT"}, desired_position : U16s \X U16s]
  PROVE  ServerReads(m)
<1>1. m.type = "SHOOT" /\ DOMAIN m = {"type", "desired_position"}
  OBVIOUS
<1>2. PICK x \in U16s, y \in U16s :
        m.desired_position = <<x, y>> /\ m.desired_position[1] = x /\ m.desired_position[2] = y
  OBVIOUS
<1>3. PICK e \in Seq(Bytes), f \in Seq(Bytes) :
        e = Encode(x, 2) /\ Len(e) = 2 /\ f = Encode(y, 2) /\ Len(f) = 2
  BY Encoded
<1>4. e \o f \in Seq(Bytes) /\ Len(e \o f) = 4 /\ Lies(e \o f, 0, e) /\ Lies(e \o f, 2, f)
  <2>1. Lies(e, 0, e) /\ 0 \in Nat
    BY <1>3 DEF Lies
  <2>2. Lies(e \o f, 0, e)
    BY <2>1, LiesLeft
  <2>3. Lies(e \o f, 2, f)
    BY <1>3, LiesRight
  <2>4. e \o f \in Seq(Bytes) /\ Len(e \o f) = Len(e) + Len(f)
    BY Both
  <2>5. Len(e \o f) = 2 + 2
    BY <1>3, <2>4, Zenon
  <2>6. 2 + 2 = 4
    OBVIOUS
  <2> QED BY <2>2, <2>3, <2>4, <2>5, <2>6
<1>5. PICK bytes \in Seq(Bytes) : /\ bytes = <<115>> \o (e \o f) /\ Len(bytes) = 5 /\ bytes[1] = 115
                                  /\ Lies(bytes, 1, e) /\ Lies(bytes, 3, f)
  <2>1. PICK t \in Seq(Bytes) : t = e \o f /\ Len(t) = 4 /\ Lies(t, 0, e) /\ Lies(t, 2, f)
    BY <1>4
  <2>2. PICK c \in Bytes : c = 115
    BY ClientCodes
  <2>3. Len(<<c>> \o t) = 1 + Len(t) /\ <<c>> \o t \in Seq(Bytes) /\ (<<c>> \o t)[1] = c
    BY Coded
  <2>4. Len(<<c>> \o t) = 1 + 4
    BY <2>1, <2>3, Zenon
  <2>5. Lies(<<c>> \o t, 1 + 0, e)
    BY <2>1, 0 \in Nat, LiesCoded
  <2>6. Lies(<<c>> \o t, 1 + 2, f)
    BY <2>1, 2 \in Nat, LiesCoded
  <2>7. 1 + 0 = 1 /\ 1 + 2 = 3 /\ 1 + 4 = 5
    OBVIOUS
  <2>8. /\ <<c>> \o t \in Seq(Bytes) /\ Len(<<c>> \o t) = 5 /\ (<<c>> \o t)[1] = 115
        /\ Lies(<<c>> \o t, 1, e) /\ Lies(<<c>> \o t, 3, f)
    BY <2>2, <2>3, <2>4, <2>5, <2>6, <2>7, Zenon
  <2>9. <<c>> \o t = <<115>> \o (e \o f)
    BY <2>1, <2>2, Zenon
  <2> QED BY <2>8, <2>9, Zenon
<1>6. bytes = client_serialize(m)
  BY <1>1, <1>2, <1>3, <1>5, WrittenBy
<1>7. U16At(bytes, 1) = x /\ U16At(bytes, 3) = y
  <2>1. Lies(bytes, 1, Encode(x, 2)) /\ Lies(bytes, 3, Encode(y, 2))
    BY <1>3, <1>5
  <2>2. U16At(bytes, 1) = x
    BY <2>1, 1 \in Nat, LiesU16
  <2>3. U16At(bytes, 3) = y
    BY <2>1, 3 \in Nat, LiesU16
  <2> QED BY <2>2, <2>3
<1>8. server_deserialize(bytes, id) = [type |-> "SHOOT", desired_position |-> <<x, y>>, id |-> id]
  <2>1. bytes[1] = 115
    BY <1>5
  <2>2. server_deserialize(bytes, id) = deserialize_shoot(bytes, id)
    BY <2>1, ReadBy
  <2> QED BY <1>7, <2>2 DEF deserialize_shoot
<1>9. Named(m) = [type |-> "SHOOT", desired_position |-> <<x, y>>, id |-> id]
  BY <1>1, <1>2 DEF Named, With
<1>10. 0 < Len(bytes) /\ Len(bytes) < Uint16
  BY <1>5, Few
<1>11. Named(m).type = m.type /\ m.type # "UNKNOWN"
  BY <1>1, <1>9
<1> QED BY <1>6, <1>8, <1>9, <1>10, <1>11, ServerReadsBack

LEMMA FourBytes ==
  ASSUME NEW r \in [1 .. 4 -> Bytes]
  PROVE  r \in Seq(Bytes) /\ Len(r) = 4
<1>1. r \in Seq(Bytes)
  BY SeqDef
<1>2. PICK n \in Nat : n = Len(r) /\ DOMAIN r = 1 .. n
  BY <1>1, LenProperties
<1>3. 1 .. n = 1 .. 4
  BY <1>2
<1>4. n = 4
  <2>1. 4 \in 1 .. n
    BY <1>3
  <2>2. n = 0 \/ n \in 1 .. 4
    BY <1>3
  <2> QED BY <2>1, <2>2
<1> QED BY <1>1, <1>2, <1>4

\* The bytes of a float are turned round on either way.
LEMMA Turned ==
  ASSUME NEW a \in Floats
  PROVE  /\ Encode(a, 4) \in Seq(Bytes) /\ Len(Encode(a, 4)) = 4
         /\ \A s : s \in Seq(Bytes) /\ Lies(s, 1, Encode(a, 4)) => Decode(Slice(s, 1, 5, 0)) = a
<1>1. a \in Seq(Bytes) /\ Len(a) = 4
  BY DEF Floats
<1>2. PICK e : e = [k \in 1 .. 4 |-> a[4 - k + 1]]
  OBVIOUS
<1>3. \A k \in 1 .. 4 : 4 - k + 1 \in 1 .. 4
  OBVIOUS
<1>4. e \in Seq(Bytes) /\ Len(e) = 4
  <2>1. \A k \in 1 .. 4 : e[k] \in Bytes
    BY <1>1, <1>2, <1>3, Lengths
  <2>2. e \in [1 .. 4 -> Bytes]
    BY <1>2, <2>1
  <2> QED BY <2>2, FourBytes
<1>5. Encode(a, 4) = e
  <2>1. Reverse(a) = e
    BY <1>1, <1>2 DEF Reverse
  <2> QED BY <2>1 DEF Encode, float_to_hex_big_endian
<1>6. ASSUME NEW s \in Seq(Bytes), Lies(s, 1, e) PROVE Decode(Slice(s, 1, 5, 0)) = a
  <2>1. Len(s) \in Nat /\ 1 + 4 <= Len(s)
    BY <1>4, <1>6, Lengths DEF Lies
  <2>2. \A k \in 1 .. 4 : s[1 + k] = e[k]
    BY <1>4, <1>6 DEF Lies
  <2>3. \A k \in 1 .. 4 : 1 + k <= Len(s)
    BY <2>1
  <2>4. PICK h : h = Slice(s, 1, 5, 0)
    OBVIOUS
  <2>5. h = [k \in 1 .. 4 |-> e[k]]
    <3>1. 5 - 1 = 4
      OBVIOUS
    <3> QED BY <2>2, <2>3, <2>4, <3>1 DEF Slice
  <2>6. h = e
    BY <1>2, <2>5
  <2>7. Reverse(e) = a
    <3>1. Reverse(e) = [k \in 1 .. 4 |-> e[4 - k + 1]]
      BY <1>4 DEF Reverse
    <3>2. \A k \in 1 .. 4 : 4 - (4 - k + 1) + 1 = k
      OBVIOUS
    <3>3. \A k \in 1 .. 4 : e[4 - k + 1] = a[k]
      BY <1>2, <1>3, <3>2
    <3>4. PICK r : r = Reverse(e)
      OBVIOUS
    <3>5. r \in [1 .. 4 -> Bytes] /\ \A k \in 1 .. 4 : r[k] = a[k]
      BY <1>1, <3>1, <3>3, <3>4, Lengths
    <3>6. r \in Seq(Bytes) /\ Len(r) = 4
      BY <3>5, FourBytes
    <3> QED BY <1>1, <3>4, <3>5, <3>6, SeqEqual
  <2> QED BY <1>4, <2>4, <2>6, <2>7 DEF Decode, hex_big_endian_to_float
<1> QED BY <1>4, <1>5, <1>6

LEMMA ReadsRotate ==
  ASSUME NEW m \in [type : {"ROTATE"}, angle : Floats]
  PROVE  ServerReads(m)
<1>1. m.type = "ROTATE" /\ m.angle \in Floats /\ DOMAIN m = {"type", "angle"}
  OBVIOUS
<1>2. PICK e \in Seq(Bytes) : e = Encode(m.angle, 4) /\ Len(e) = 4
  BY <1>1, Turned
<1>3. PICK bytes \in Seq(Bytes) : bytes = <<45>> \o e /\ Len(bytes) = 5 /\ bytes[1] = 45 /\ Lies(bytes, 1, e)
  <2>1. Len(<<45>> \o e) = 1 + Len(e) /\ <<45>> \o e \in Seq(Bytes) /\ (<<45>> \o e)[1] = 45
    BY ClientCodes, Coded
  <2>2. Len(<<45>> \o e) = 1 + 4
    BY <1>2, <2>1, Zenon
  <2>3. Lies(e, 0, e) /\ 0 \in Nat
    BY <1>2 DEF Lies
  <2>4. Lies(<<45>> \o e, 1 + 0, e)
    BY <2>3, ClientCodes, LiesCoded
  <2>5. 1 + 0 = 1 /\ 1 + 4 = 5
    OBVIOUS
  <2> QED BY <2>1, <2>2, <2>4, <2>5
<1>4. bytes = client_serialize(m)
  BY <1>1, <1>2, <1>3, WrittenBy
<1>5. Decode(Slice(bytes, 1, 5, 0)) = m.angle
  BY <1>1, <1>2, <1>3, Turned
<1>6. server_deserialize(bytes, id) = [type |-> "ROTATE", angle |-> m.angle, id |-> id]
  <2>1. server_deserialize(bytes, id) = deserialize_rotate(bytes, id)
    BY <1>3, ReadBy
  <2> QED BY <1>5, <2>1 DEF deserialize_rotate
<1>7. Named(m) = [type |-> "ROTATE", angle |-> m.angle, id |-> id]
  BY <1>1 DEF Named, With
<1>8. 0 < Len(bytes) /\ Len(bytes) < Uint16
  BY <1>3, Few
<1>9. Named(m).type = m.type /\ m.type # "UNKNOWN"
  BY <1>1, <1>7
<1> QED BY <1>4, <1>6, <1>7, <1>8, <1>9, ServerReadsBack

\* The name of the match has no length: it is all but the last two bytes.
LEMMA ReadsJoin ==
  ASSUME NEW m \in [type : {"JOIN"}, match : Seq(Bytes), player_type : Bytes, player_skin : Bytes],
         Len(client_serialize(m)) < Uint16
  PROVE  ServerReads(m)
<1>1. /\ m.type = "JOIN" /\ m.match \in Seq(Bytes) /\ m.player_type \in Bytes /\ m.player_skin \in Bytes
      /\ m = [type |-> "JOIN", match |-> m.match,
              player_type |-> m.player_type, player_skin |-> m.player_skin]
  OBVIOUS
<1>2. PICK a \in Bytes, b \in Bytes : a = m.player_type /\ b = m.player_skin
  BY <1>1
<1>3. PICK name \in Seq(Bytes), n \in Nat : name = m.match /\ n = Len(name)
  BY <1>1, Lengths
<1>4. PICK side \in Seq(Bytes) : side = <<a, b>> /\ Len(side) = 2
  BY TwoBytes
<1>5. PICK t \in Seq(Bytes) : /\ t = name \o side /\ Len(t) = n + 2
                              /\ Lies(t, 0, name) /\ Lies(t, n, side)
  <2>1. Lies(name \o side, 0, name)
    BY Alone, LiesLeft, 0 \in Nat
  <2>2. Lies(name \o side, n, side)
    BY <1>3, LiesRight
  <2>3. name \o side \in Seq(Bytes) /\ Len(name \o side) = Len(name) + Len(side)
    BY Both
  <2>4. Len(name \o side) = n + 2
    BY <1>3, <1>4, <2>3, Zenon
  <2> QED BY <2>1, <2>2, <2>3, <2>4
<1>6. PICK bytes \in Seq(Bytes) : /\ bytes = <<67>> \o t /\ Len(bytes) = 1 + (n + 2) /\ bytes[1] = 67
                                  /\ Lies(bytes, 1 + 0, name) /\ Lies(bytes, 1 + n, side)
  <2>1. Len(<<67>> \o t) = 1 + Len(t) /\ <<67>> \o t \in Seq(Bytes) /\ (<<67>> \o t)[1] = 67
    BY ClientCodes, Coded
  <2>2. Len(<<67>> \o t) = 1 + (n + 2)
    BY <1>5, <2>1, Zenon
  <2>3. Lies(<<67>> \o t, 1 + 0, name)
    BY <1>5, ClientCodes, 0 \in Nat, LiesCoded
  <2>4. Lies(<<67>> \o t, 1 + n, side)
    BY <1>5, ClientCodes, LiesCoded
  <2> QED BY <2>1, <2>2, <2>3, <2>4
<1>7. bytes = client_serialize(m)
  <2>1. client_serialize(m) = <<67>> \o serialize_join(m)
    BY <1>1, WrittenBy
  <2>2. serialize_join(m) = t
    BY <1>2, <1>3, <1>4, <1>5 DEF serialize_join
  <2> QED BY <1>6, <2>1, <2>2
<1>8. PICK size \in Nat : /\ size = Len(bytes) /\ size - 2 = 1 + n /\ size - 1 = 1 + n + 1 /\ size = 1 + n + 2
                         /\ 1 + 0 = 1 /\ 1 + 1 = 2 /\ 0 < size
  <2>1. PICK size : size = 1 + (n + 2)
    OBVIOUS
  <2>2. /\ size \in Nat /\ size - 2 = 1 + n /\ size - 1 = 1 + n + 1 /\ size = 1 + n + 2
        /\ 1 + 0 = 1 /\ 1 + 1 = 2 /\ 0 < size
    BY <2>1
  <2> QED BY <1>6, <2>1, <2>2
<1>9. SubSeq(bytes, 2, size - 2) = name
  <2>1. Lies(bytes, 1, name)
    BY <1>6, <1>8
  <2>2. SubSeq(bytes, 1 + 1, 1 + Len(name)) = name
    BY <2>1, 1 \in Nat, LiesCut
  <2> QED BY <1>3, <1>8, <2>2
<1>10. bytes[size - 1] = a /\ bytes[size] = b
  <2>1. 1 + n \in Nat
    OBVIOUS
  <2>2. Lies(bytes, 1 + n, <<a, b>>)
    BY <1>4, <1>6
  <2>3. bytes[1 + n + 1] = a /\ bytes[1 + n + 2] = b
    BY <2>1, <2>2, LiesBytes
  <2> QED BY <1>8, <2>3
<1>11. server_deserialize(bytes, id) = m
  <2>1. server_deserialize(bytes, id) = deserialize_join(bytes)
    BY <1>6, ReadBy
  <2>2. deserialize_join(bytes) = [type |-> "JOIN", match |-> name, player_type |-> a, player_skin |-> b]
    BY <1>8, <1>9, <1>10 DEF deserialize_join
  <2> QED BY <1>1, <1>2, <1>3, <2>1, <2>2
<1>12. Named(m) = m
  BY <1>1 DEF Named
<1>13. 0 < Len(bytes) /\ Len(bytes) < Uint16
  BY <1>7, <1>8
<1>14. m.type # "UNKNOWN"
  BY <1>1
<1> QED BY <1>7, <1>11, <1>12, <1>13, <1>14, ServerReadsBack

\* What already lies in s lies at the same place behind more; the rest lies after it.
LEMMA Behind ==
  ASSUME NEW s \in Seq(Bytes), NEW u \in Seq(Bytes), NEW n \in Nat, n = Len(s), NEW k \in Nat, k = Len(u)
  PROVE  \E t \in Seq(Bytes) :
           /\ t = s \o u /\ Len(t) = n + k /\ Lies(t, n, u)
           /\ \A v \in Seq(Bytes), i \in Nat : Lies(s, i, v) => Lies(t, i, v)
<1>1. s \o u \in Seq(Bytes) /\ Len(s \o u) = Len(s) + Len(u)
  BY Both
<1>2. Len(s \o u) = n + k
  BY <1>1, Zenon
<1>3. Lies(s \o u, n, u)
  BY LiesRight
<1>4. \A v \in Seq(Bytes), i \in Nat : Lies(s, i, v) => Lies(s \o u, i, v)
  BY LiesLeft
<1> QED BY <1>1, <1>2, <1>3, <1>4

CreateRecords ==
  [type : {"CREATE"}, match : Seq(Bytes), map : Seq(Bytes), number_terrorist : U16s,
   number_counterterrorist : U16s, player_type : Bytes, player_skin : Bytes]

\* Where the fields of a creation lie.
LEMMA CreateWritten ==
  ASSUME NEW m \in CreateRecords, Len(m.match) \in U16s
  PROVE  \E t \in Seq(Bytes), n \in Nat, p \in Nat :
           /\ t = serialize_create(m) /\ n = Len(m.match) /\ p = Len(m.map)
           /\ Len(t) = 2 + n + p + 2 + 2 + 2
           /\ Lies(t, 0, Encode(n, 2)) /\ Lies(t, 2, m.match) /\ Lies(t, 2 + n, m.map)
           /\ Lies(t, 2 + n + p, Encode(m.number_terrorist, 2))
           /\ Lies(t, 2 + n + p + 2, Encode(m.number_counterterrorist, 2))
           /\ Lies(t, 2 + n + p + 2 + 2, <<m.player_type, m.player_skin>>)
<1>1. /\ m.match \in Seq(Bytes) /\ m.map \in Seq(Bytes) /\ m.player_type \in Bytes /\ m.player_skin \in Bytes
      /\ m.number_terrorist \in U16s /\ m.number_counterterrorist \in U16s
  BY DEF CreateRecords
<1>2. PICK name \in Seq(Bytes), n \in U16s : name = m.match /\ n = Len(name) /\ n \in Nat
  BY <1>1, Lengths
<1>3. PICK map \in Seq(Bytes), p \in Nat : map = m.map /\ p = Len(map)
  BY <1>1, Lengths
<1>4. PICK e \in Seq(Bytes) : e = Encode(n, 2) /\ 2 = Len(e)
  BY Encoded
<1>5. PICK f \in Seq(Bytes) : f = Encode(m.number_terrorist, 2) /\ 2 = Len(f)
  BY <1>1, Encoded
<1>6. PICK g \in Seq(Bytes) : g = Encode(m.number_counterterrorist, 2) /\ 2 = Len(g)
  BY <1>1, Encoded
<1>7. PICK side \in Seq(Bytes) : side = <<m.player_type, m.player_skin>> /\ 2 = Len(side)
  BY <1>1, TwoBytes
<1>8. /\ 2 \in Nat /\ 0 \in Nat /\ 2 + n \in Nat /\ 2 + n + p \in Nat /\ 2 + n + p + 2 \in Nat
      /\ 2 + n + p + 2 + 2 \in Nat
  BY <1>2
<1>9. Lies(e, 0, e)
  BY Alone
<1>10. PICK t1 \in Seq(Bytes) :
         /\ t1 = e \o name /\ Len(t1) = 2 + n /\ Lies(t1, 2, name)
         /\ \A v \in Seq(Bytes), i \in Nat : Lies(e, i, v) => Lies(t1, i, v)
  <2>1. n \in Nat /\ n = Len(name) /\ 2 \in Nat /\ 2 = Len(e)
    BY <1>2, <1>4
  <2> QED BY <2>1, Behind
<1>11. Lies(t1, 0, e)
  BY <1>8, <1>9, <1>10
<1>12. PICK t2 \in Seq(Bytes) :
         /\ t2 = t1 \o map /\ Len(t2) = 2 + n + p /\ Lies(t2, 2 + n, map)
         /\ \A v \in Seq(Bytes), i \in Nat : Lies(t1, i, v) => Lies(t2, i, v)
  BY <1>3, <1>10, <1>8, Behind
<1>13. Lies(t2, 0, e) /\ Lies(t2, 2, name)
  BY <1>8, <1>10, <1>11, <1>12
<1>14. PICK t3 \in Seq(Bytes) :
         /\ t3 = t2 \o f /\ Len(t3) = 2 + n + p + 2 /\ Lies(t3, 2 + n + p, f)
         /\ \A v \in Seq(Bytes), i \in Nat : Lies(t2, i, v) => Lies(t3, i, v)
  BY <1>5, <1>12, <1>8, Behind
<1>15. Lies(t3, 0, e) /\ Lies(t3, 2, name) /\ Lies(t3, 2 + n, map)
  BY <1>8, <1>12, <1>13, <1>14
<1>16. PICK t4 \in Seq(Bytes) :
         /\ t4 = t3 \o g /\ Len(t4) = 2 + n + p + 2 + 2 /\ Lies(t4, 2 + n + p + 2, g)
         /\ \A v \in Seq(Bytes), i \in Nat : Lies(t3, i, v) => Lies(t4, i, v)
  BY <1>6, <1>14, <1>8, Behind
<1>17. Lies(t4, 0, e) /\ Lies(t4, 2, name) /\ Lies(t4, 2 + n, map) /\ Lies(t4, 2 + n + p, f)
  BY <1>8, <1>14, <1>15, <1>16
<1>18. PICK t5 \in Seq(Bytes) :
         /\ t5 = t4 \o side /\ Len(t5) = 2 + n + p + 2 + 2 + 2 /\ Lies(t5, 2 + n + p + 2 + 2, side)
         /\ \A v \in Seq(Bytes), i \in Nat : Lies(t4, i, v) => Lies(t5, i, v)
  <2>1. 2 + n + p + 2 + 2 \in Nat /\ 2 + n + p + 2 + 2 = Len(t4) /\ 2 \in Nat /\ 2 = Len(side)
    BY <1>7, <1>8, <1>16
  <2>2. PICK q \in Nat, two \in Nat : q = 2 + n + p + 2 + 2 /\ two = 2 /\ q = Len(t4) /\ two = Len(side)
    BY <2>1
  <2>3. \E t \in Seq(Bytes) :
           /\ t = t4 \o side /\ Len(t) = q + two /\ Lies(t, q, side)
           /\ \A v \in Seq(Bytes), i \in Nat : Lies(t4, i, v) => Lies(t, i, v)
    BY <2>2, Behind
  <2> QED BY <2>2, <2>3
<1>19. /\ Lies(t5, 0, e) /\ Lies(t5, 2, name) /\ Lies(t5, 2 + n, map) /\ Lies(t5, 2 + n + p, f)
       /\ Lies(t5, 2 + n + p + 2, g)
  BY <1>8, <1>16, <1>17, <1>18
<1>20. t5 = serialize_create(m)
  BY <1>2, <1>3, <1>4, <1>5, <1>6, <1>7, <1>10, <1>12, <1>14, <1>16, <1>18, Zenon DEF serialize_create
<1> QED BY <1>2, <1>3, <1>4, <1>5, <1>6, <1>7, <1>18, <1>19, <1>20

\* The name of the map has no length: it is what the other fields leave.
LEMMA ReadsCreate ==
  ASSUME NEW m \in CreateRecords, Len(client_serialize(m)) < Uint16, Len(m.match) \in U16s
  PROVE  ServerReads(m)
<1>1. /\ m.type = "CREATE" /\ m.match \in Seq(Bytes) /\ m.map \in Seq(Bytes)
      /\ m.player_type \in Bytes /\ m.player_skin \in Bytes
      /\ m.number_terrorist \in U16s /\ m.number_counterterrorist \in U16s
      /\ m = [type |-> "CREATE", match |-> m.match, map |-> m.map, number_terrorist |-> m.number_terrorist,
              number_counterterrorist |-> m.number_counterterrorist,
              player_type |-> m.player_type, player_skin |-> m.player_skin]
  BY DEF CreateRecords
<1>2. PICK t \in Seq(Bytes), n \in Nat, p \in Nat :
           /\ t = serialize_create(m) /\ n = Len(m.match) /\ p = Len(m.map)
           /\ Len(t) = 2 + n + p + 2 + 2 + 2
           /\ Lies(t, 0, Encode(n, 2)) /\ Lies(t, 2, m.match) /\ Lies(t, 2 + n, m.map)
           /\ Lies(t, 2 + n + p, Encode(m.number_terrorist, 2))
           /\ Lies(t, 2 + n + p + 2, Encode(m.number_counterterrorist, 2))
           /\ Lies(t, 2 + n + p + 2 + 2, <<m.player_type, m.player_skin>>)
  BY CreateWritten
<1>3. n \in U16s
  BY <1>2
<1>4. PICK e \in Seq(Bytes), f \in Seq(Bytes), g \in Seq(Bytes), side \in Seq(Bytes) :
        /\ e = Encode(n, 2) /\ f = Encode(m.number_terrorist, 2)
        /\ g = Encode(m.number_counterterrorist, 2) /\ side = <<m.player_type, m.player_skin>>
  BY <1>1, <1>3, Encoded, TwoBytes
<1>5. PICK bytes \in Seq(Bytes) :
           /\ bytes = <<66>> \o t /\ bytes[1] = 66 /\ Len(bytes) = 1 + Len(t)
           /\ \A v \in Seq(Bytes), i \in Nat : Lies(t, i, v) => Lies(bytes, 1 + i, v)
  <2>1. PICK c \in Bytes : c = 66
    BY ClientCodes
  <2>2. \A v \in Seq(Bytes), i \in Nat : Lies(t, i, v) => Lies(<<c>> \o t, 1 + i, v)
    BY LiesCoded
  <2>3. Len(<<c>> \o t) = 1 + Len(t) /\ <<c>> \o t \in Seq(Bytes) /\ (<<c>> \o t)[1] = c
    BY Coded
  <2> QED BY <2>1, <2>2, <2>3
<1>6. bytes = client_serialize(m)
  BY <1>1, <1>2, <1>5, WrittenBy
<1>7. /\ 0 \in Nat /\ 2 \in Nat /\ 2 + n \in Nat /\ 2 + n + p \in Nat /\ 2 + n + p + 2 \in Nat
      /\ 2 + n + p + 2 + 2 \in Nat
  OBVIOUS
<1>8. /\ 1 + 0 = 1 /\ 1 + 2 = 3 /\ 1 + (2 + n) = 3 + n /\ 1 + (2 + n + p) = 3 + n + p
      /\ 1 + (2 + n + p + 2) = 5 + n + p /\ 1 + (2 + n + p + 2 + 2) = 7 + n + p
  OBVIOUS
<1>9. /\ Lies(bytes, 1, e) /\ Lies(bytes, 3, m.match) /\ Lies(bytes, 3 + n, m.map)
      /\ Lies(bytes, 3 + n + p, f) /\ Lies(bytes, 5 + n + p, g) /\ Lies(bytes, 7 + n + p, side)
  <2>1. Lies(bytes, 1 + 0, e)
    BY <1>2, <1>4, <1>5, <1>7
  <2>2. Lies(bytes, 1 + 2, m.match)
    BY <1>1, <1>2, <1>5, <1>7
  <2>3. Lies(bytes, 1 + (2 + n), m.map)
    BY <1>1, <1>2, <1>5, <1>7
  <2>4. Lies(bytes, 1 + (2 + n + p), f)
    BY <1>2, <1>4, <1>5, <1>7
  <2>5. Lies(bytes, 1 + (2 + n + p + 2), g)
    BY <1>2, <1>4, <1>5, <1>7
  <2>6. Lies(bytes, 1 + (2 + n + p + 2 + 2), side)
    BY <1>2, <1>4, <1>5, <1>7
  <2> QED BY <1>8, <2>1, <2>2, <2>3, <2>4, <2>5, <2>6
<1>10. PICK size \in Nat : /\ size = Len(bytes) /\ size - 6 = 3 + n + p /\ size - 4 = 5 + n + p
                          /\ size - 1 = 7 + n + p + 1 /\ size = 7 + n + p + 2 /\ 0 < size
  <2>1. PICK size : size = 1 + (2 + n + p + 2 + 2 + 2)
    OBVIOUS
  <2>2. /\ size \in Nat /\ size - 6 = 3 + n + p /\ size - 4 = 5 + n + p
        /\ size - 1 = 7 + n + p + 1 /\ size = 7 + n + p + 2 /\ 0 < size
    BY <2>1
  <2>3. size = Len(bytes)
    BY <1>2, <1>5, <2>1, Zenon
  <2> QED BY <2>2, <2>3
<1>11. U16At(bytes, 1) = n
  BY <1>3, <1>4, <1>9, 1 \in Nat, LiesU16
<1>12. SubSeq(bytes, 4, 3 + n) = m.match
  <2>1. SubSeq(bytes, 3 + 1, 3 + Len(m.match)) = m.match
    BY <1>1, <1>9, 3 \in Nat, LiesCut
  <2> QED BY <1>2, <2>1, 3 + 1 = 4
<1>13. SubSeq(bytes, 4 + n, 3 + n + p) = m.map
  <2>1. 3 + n \in Nat /\ (3 + n) + 1 = 4 + n
    OBVIOUS
  <2>2. SubSeq(bytes, (3 + n) + 1, (3 + n) + Len(m.map)) = m.map
    BY <1>1, <1>9, <2>1, LiesCut
  <2> QED BY <1>2, <2>1, <2>2
<1>14. U16At(bytes, 3 + n + p) = m.number_terrorist
  <2>1. PICK i \in Nat : i = 3 + n + p
    OBVIOUS
  <2>2. Lies(bytes, i, Encode(m.number_terrorist, 2))
    BY <1>4, <1>9, <2>1
  <2> QED BY <1>1, <2>1, <2>2, LiesU16
<1>15. U16At(bytes, 5 + n + p) = m.number_counterterrorist
  <2>1. PICK i \in Nat : i = 5 + n + p
    OBVIOUS
  <2>2. Lies(bytes, i, Encode(m.number_counterterrorist, 2))
    BY <1>4, <1>9, <2>1
  <2> QED BY <1>1, <2>1, <2>2, LiesU16
<1>16. bytes[size - 1] = m.player_type /\ bytes[size] = m.player_skin
  <2>1. PICK i \in Nat : i = 7 + n + p
    OBVIOUS
  <2>2. Lies(bytes, i, <<m.player_type, m.player_skin>>)
    BY <1>4, <1>9, <2>1
  <2>3. bytes[i + 1] = m.player_type /\ bytes[i + 2] = m.player_skin
    BY <1>1, <2>2, LiesBytes
  <2> QED BY <1>10, <2>1, <2>3
<1>17. server_deserialize(bytes, id) = m
  <2>1. server_deserialize(bytes, id) = deserialize_create(bytes)
    BY <1>5, ReadBy
  <2>2. deserialize_create(bytes)
        = [type |-> "CREATE", match |-> m.match, map |-> m.map, number_terrorist |-> m.number_terrorist,
           number_counterterrorist |-> m.number_counterterrorist,
           player_type |-> m.player_type, player_skin |-> m.player_skin]
    BY <1>10, <1>11, <1>12, <1>13, <1>14, <1>15, <1>16, Zenon DEF deserialize_create
  <2> QED BY <1>1, <2>1, <2>2, Zenon
<1>18. Named(m) = m
  BY <1>1 DEF Named
<1>19. 0 < Len(bytes) /\ Len(bytes) < Uint16
  BY <1>6, <1>10
<1>20. m.type # "UNKNOWN"
  BY <1>1
<1> QED BY <1>6, <1>17, <1>18, <1>19, <1>20, ServerReadsBack

-----------------------------------------------------------------------------
(* What the server writes the client reads, for the kinds without repetition *)

LEMMA WrittenByServer ==
  ASSUME NEW m
  PROVE  /\ m.type = "CONFIGURATION" =>
              server_serialize(m) = <<105>> \o (<<m.terrain_type>> \o Encode(m.id, 2))
         /\ m.type = "SHOP" => server_serialize(m) = <<87>> \o m.weapons
         /\ m.type = "MESSAGE" => server_serialize(m) = <<238>> \o <<m.winner_team_type>>
         /\ m.type = "END" => server_serialize(m) = <<89>> \o <<>>
<1>1. /\ ActionType.CONFIGURATION = 105 /\ ActionType.SHOP = 87
      /\ ActionType.MESSAGE = 238 /\ ActionType.END = 89
  BY DEF ActionType
<1>2. m.type = "CONFIGURATION" => server_serialize(m) = <<105>> \o (<<m.terrain_type>> \o Encode(m.id, 2))
  BY <1>1, ZenonT(60) DEF server_serialize
<1>3. m.type = "SHOP" => server_serialize(m) = <<87>> \o m.weapons
  BY <1>1, ZenonT(60) DEF server_serialize
<1>4. m.type = "MESSAGE" => server_serialize(m) = <<238>> \o <<m.winner_team_type>>
  BY <1>1, ZenonT(60) DEF server_serialize
<1>5. m.type = "END" => server_serialize(m) = <<89>> \o <<>>
  BY <1>1, ZenonT(60) DEF server_serialize
<1> QED BY <1>2, <1>3, <1>4, <1>5

LEMMA ReadByClient ==
  ASSUME NEW data, NEW past
  PROVE  /\ client_deserialize(105, data, past) = deserialize_configuration(data)
         /\ client_deserialize(87, data, past) = [type |-> "SHOP", weapons |-> data]
         /\ client_deserialize(238, data, past) = [type |-> "MESSAGE", winner_team_type |-> data[Len(data)]]
         /\ client_deserialize(89, data, past) = [type |-> "END"]
<1>1. /\ ActionType.CONFIGURATION = 105 /\ ActionType.SHOP = 87
      /\ ActionType.MESSAGE = 238 /\ ActionType.END = 89
      /\ ActionType.UPDATE = 117 /\ ActionType.INFORMATION = 112 /\ ActionType.STATS = 157
  BY DEF ActionType
<1> QED BY <1>1 DEF client_deserialize

LEMMA ServerCodes == 105 \in Bytes /\ 87 \in Bytes /\ 238 \in Bytes /\ 89 \in Bytes
BY DEF Bytes

\* It is enough that the deserializer gives the message back from what follows the code.
LEMMA ClientReadsBack ==
  ASSUME NEW m, NEW c \in Bytes, NEW t \in Seq(Bytes), server_serialize(m) = <<c>> \o t,
         1 + Len(t) < Uint16, m # Unknown,
         \A past : client_deserialize(c, t, past) = m
  PROVE  ClientReads(m)
<1>1. PICK bytes \in Seq(Bytes), n \in Nat :
        bytes = <<c>> \o t /\ n = Len(t) /\ Len(bytes) = 1 + n /\ bytes[1] = c /\ Lies(bytes, 1 + 0, t)
  <2>1. <<c>> \o t \in Seq(Bytes) /\ Len(<<c>> \o t) = 1 + Len(t) /\ (<<c>> \o t)[1] = c
    BY Coded
  <2>2. Lies(<<c>> \o t, 1 + 0, t)
    BY Alone, 0 \in Nat, LiesCoded
  <2>3. Len(t) \in Nat
    BY Lengths
  <2> QED BY <2>1, <2>2, <2>3
<1>2. Framed(bytes)
  BY <1>1 DEF Framed, Bytes
<1>3. SubSeq(bytes, 2, Len(bytes)) = t
  <2>1. 1 + 0 = 1 /\ 1 + 1 = 2
    OBVIOUS
  <2>2. SubSeq(bytes, 1 + 1, 1 + Len(t)) = t
    BY <1>1, <2>1, 1 \in Nat, LiesCut
  <2> QED BY <1>1, <2>1, <2>2
<1>4. Len(bytes) = 1 => t = <<>>
  BY <1>1, Lengths
<1>5. IF Len(bytes) = 1 THEN client_deserialize(bytes[1], <<>>, 0) = m
      ELSE \A past \in {0, 255} : client_deserialize(bytes[1], SubSeq(bytes, 2, Len(bytes)), past) = m
  <2>1. \A past : client_deserialize(bytes[1], t, past) = m
    BY <1>1, Zenon
  <2>2. CASE Len(bytes) = 1
    BY <1>4, <2>1, <2>2, Zenon
  <2>3. CASE Len(bytes) # 1
    BY <1>3, <2>1, <2>3, Zenon
  <2> QED BY <2>2, <2>3, Zenon
<1>6. server_serialize(m) = bytes
  BY <1>1
<1> QED BY <1>2, <1>5, <1>6, Zenon DEF ClientReads

Verdicts == [type : {"END"}] \cup [type : {"MESSAGE"}, winner_team_type : Bytes]
Settings == [type : {"CONFIGURATION"}, terrain_type : Bytes, id : U16s]
Shops == {m \in [type : {"SHOP"}, weapons : Seq(Bytes)] : 1 + Len(m.weapons) < Uint16}

LEMMA ReadsVerdict ==
  ASSUME NEW m \in Verdicts
  PROVE  ClientReads(m)
<1>1. CASE m \in [type : {"END"}]
  <2>1. m.type = "END" /\ m = [type |-> "END"]
    BY <1>1
  <2>2. PICK t \in Seq(Bytes) : t = <<>> /\ Len(t) = 0
    BY EmptySeq
  <2>3. PICK c \in Bytes : c = 89
    BY ServerCodes
  <2>4. server_serialize(m) = <<c>> \o t
    <3>1. server_serialize(m) = <<89>> \o <<>>
      BY <2>1, WrittenByServer, Zenon
    <3> QED BY <2>2, <2>3, <3>1, Zenon
  <2>5. \A past : client_deserialize(c, t, past) = m
    <3>1. \A past : client_deserialize(89, t, past) = [type |-> "END"]
      BY ReadByClient
    <3> QED BY <2>1, <2>3, <3>1, Zenon
  <2>6. 1 + Len(t) < Uint16 /\ m # Unknown
    BY <2>1, <2>2, Few DEF Unknown
  <2> QED BY <2>4, <2>5, <2>6, ClientReadsBack
<1>2. CASE m \in [type : {"MESSAGE"}, winner_team_type : Bytes]
  <2>1. /\ m.type = "MESSAGE" /\ m.winner_team_type \in Bytes
        /\ m = [type |-> "MESSAGE", winner_team_type |-> m.winner_team_type]
    BY <1>2
  <2>2. PICK t \in Seq(Bytes) : t = <<m.winner_team_type>> /\ Len(t) = 1 /\ t[1] = m.winner_team_type
    BY <2>1, OneByte
  <2>3. PICK c \in Bytes : c = 238
    BY ServerCodes
  <2>4. server_serialize(m) = <<c>> \o t
    <3>1. server_serialize(m) = <<238>> \o <<m.winner_team_type>>
      BY <2>1, WrittenByServer, Zenon
    <3> QED BY <2>2, <2>3, <3>1, Zenon
  <2>5. \A past : client_deserialize(c, t, past) = m
    <3>1. \A past : client_deserialize(238, t, past) = [type |-> "MESSAGE", winner_team_type |-> t[Len(t)]]
      BY ReadByClient
    <3>2. t[Len(t)] = m.winner_team_type
      BY <2>2
    <3> QED BY <2>1, <2>3, <3>1, <3>2, Zenon
  <2>6. 1 + Len(t) < Uint16 /\ m # Unknown
    BY <2>1, <2>2, Few DEF Unknown
  <2> QED BY <2>4, <2>5, <2>6, ClientReadsBack
<1> QED BY <1>1, <1>2 DEF Verdicts

LEMMA ReadsSettings ==
  ASSUME NEW m \in Settings
  PROVE  ClientReads(m)
<1>1. /\ m.type = "CONFIGURATION" /\ m.terrain_type \in Bytes /\ m.id \in U16s
      /\ m = [type |-> "CONFIGURATION", terrain_type |-> m.terrain_type, id |-> m.id]
  BY DEF Settings
<1>2. PICK e \in Seq(Bytes) : e = Encode(m.id, 2) /\ Len(e) = 2
  BY <1>1, Encoded
<1>3. PICK t \in Seq(Bytes) :
        t = <<m.terrain_type>> \o e /\ Len(t) = 1 + 2 /\ t[1] = m.terrain_type /\ Lies(t, 1 + 0, e)
  <2>1. PICK b \in Bytes : b = m.terrain_type
    BY <1>1
  <2>2. <<b>> \o e \in Seq(Bytes) /\ Len(<<b>> \o e) = 1 + Len(e) /\ (<<b>> \o e)[1] = b
    BY Coded
  <2>3. Lies(<<b>> \o e, 1 + 0, e)
    BY Alone, 0 \in Nat, LiesCoded
  <2>4. Len(<<b>> \o e) = 1 + 2
    BY <1>2, <2>2, Zenon
  <2> QED BY <2>1, <2>2, <2>3, <2>4
<1>4. PICK c \in Bytes : c = 105
  BY ServerCodes
<1>5. server_serialize(m) = <<c>> \o t
  BY <1>1, <1>2, <1>3, <1>4, WrittenByServer
<1>6. U16At(t, 1) = m.id
  BY <1>1, <1>2, <1>3, 1 \in Nat, 1 + 0 = 1, LiesU16
<1>7. \A past : client_deserialize(c, t, past) = m
  <2>1. deserialize_configuration(t) = m
    BY <1>1, <1>3, <1>6, Zenon DEF deserialize_configuration
  <2> QED BY <1>4, <2>1, ReadByClient
<1>8. 1 + Len(t) < Uint16 /\ m # Unknown
  BY <1>1, <1>3 DEF Unknown, Uint16
<1> QED BY <1>5, <1>7, <1>8, ClientReadsBack

LEMMA ReadsShop ==
  ASSUME NEW m \in Shops
  PROVE  ClientReads(m)
<1>1. /\ m.type = "SHOP" /\ m.weapons \in Seq(Bytes) /\ 1 + Len(m.weapons) < Uint16
      /\ m = [type |-> "SHOP", weapons |-> m.weapons]
  BY DEF Shops
<1>2. PICK c \in Bytes : c = 87
  BY ServerCodes
<1>3. server_serialize(m) = <<c>> \o m.weapons
  BY <1>1, <1>2, WrittenByServer
<1>4. \A past : client_deserialize(c, m.weapons, past) = m
  BY <1>1, <1>2, ReadByClient
<1>5. m # Unknown
  BY <1>1 DEF Unknown
<1> QED BY <1>1, <1>3, <1>4, <1>5, ClientReadsBack

-----------------------------------------------------------------------------
(* Every message of the client *)

ShortNames == {s \in Seq(Bytes) : Len(s) < Uint16}
ClientRecords ==
    [type : Simple]
    \cup [type : {"MOVE"}, direction : Bytes] \cup [type : {"WEAPON"}, weapon : Bytes]
    \cup [type : {"AMMOPRIMARY", "AMMOSECONDARY"}, ammo : U16s]
    \cup [type : {"SHOOT"}, desired_position : U16s \X U16s]
    \cup [type : {"ROTATE"}, angle : Floats]
    \cup [type : {"JOIN"}, match : Seq(Bytes), player_type : Bytes, player_skin : Bytes]
    \cup [type : {"CREATE"}, match : ShortNames, map : Seq(Bytes), number_terrorist : U16s,
          number_counterterrorist : U16s, player_type : Bytes, player_skin : Bytes]

\* server_deserialize() gives back every message that the client's serializers can write,
\* each field as it was, if the size of the frame fits in its two bytes: no two kinds
\* are confused, and the fields without a length of their own end where they should.
THEOREM RoundTrip ==
  ASSUME ClientMessages \subseteq ClientRecords,
         \A m \in ClientMessages : Len(client_serialize(m)) < Uint16
  PROVE  ServerUnderstands
<1> SUFFICES ASSUME NEW m \in ClientMessages PROVE ServerReads(m)
  BY DEF ServerUnderstands
<1>1. m \in ClientRecords /\ Len(client_serialize(m)) < Uint16
  OBVIOUS
<1>2. CASE m \in [type : Simple]
  BY <1>2, ReadsSimple
<1>3. CASE m \in [type : {"MOVE"}, direction : Bytes] \cup [type : {"WEAPON"}, weapon : Bytes]
  BY <1>3, ReadsByte
<1>4. CASE m \in [type : {"AMMOPRIMARY", "AMMOSECONDARY"}, ammo : U16s]
  BY <1>4, ReadsAmmo
<1>5. CASE m \in [type : {"SHOOT"}, desired_position : U16s \X U16s]
  BY <1>5, ReadsShoot
<1>6. CASE m \in [type : {"ROTATE"}, angle : Floats]
  BY <1>6, ReadsRotate
<1>7. CASE m \in [type : {"JOIN"}, match : Seq(Bytes), player_type : Bytes, player_skin : Bytes]
  BY <1>1, <1>7, ReadsJoin
<1>8. CASE m \in [type : {"CREATE"}, match : ShortNames, map : Seq(Bytes), number_terrorist : U16s,
                  number_counterterrorist : U16s, player_type : Bytes, player_skin : Bytes]
  <2>1. m \in CreateRecords
    BY <1>8 DEF CreateRecords, ShortNames
  <2>2. m.match \in ShortNames
    BY <1>8
  <2>3. Len(m.match) \in U16s
    BY <2>2, Lengths DEF ShortNames, U16s
  <2> QED BY <1>1, <2>1, <2>3, ReadsCreate
<1> QED BY <1>1, <1>2, <1>3, <1>4, <1>5, <1>6, <1>7, <1>8 DEF ClientRecords

Plain == Verdicts \cup Settings \cup Shops

\* InOrder without a hypothesis on the client's messages nor on the server's plain
\* ones: what the client types, whatever its fields, reaches the server as it was and
\* in order, and so do the end, the winner, the configuration and the shop on the way
\* back.  That the client understands the three repeated kinds is left to assume: true
\* of the lists and the objects that run `link` sends, false of the scores.
THEOREM RecordsInOrder ==
  ASSUME ClientMessages \subseteq ClientRecords,
         \A m \in ClientMessages : Len(client_serialize(m)) < Uint16,
         \A m \in ServerMessages : m \in Plain \/ ClientReads(m)
  PROVE  Spec => []InOrder
<1>1. ServerUnderstands
  BY RoundTrip
<1>2. ClientUnderstands
  BY ReadsVerdict, ReadsSettings, ReadsShop DEF ClientUnderstands, Plain
<1> QED BY <1>1, <1>2, InOrderHolds
=============================================================================
