---------------------------- MODULE ServerProofs ----------------------------
(***************************************************************************)
(* Theorems about the server's threads, for any numbers of clients and     *)
(* matches and any names.                                                  *)
(***************************************************************************)
EXTENDS Server, WellFoundedInduction, TLAPS

-----------------------------------------------------------------------------
(* The state *)

Stages == {"none", "information", "first_action", "enter", "queue",
           "configuration", "receiver", "sender", "ended"}
States == {"unstarted", "started", "running", "ended", "joined"}
Messages == [type : {"CREATE", "JOIN"}, match : Names]

PassTypes ==
    /\ server \in {"serving", "stopping", "exited"} /\ terminated \in BOOLEAN
    /\ acceptor \in {"accept", "pass", "kill", "join_threads", "join_handler", "ended"}
    /\ mode \in {"reap", "clear"}
    /\ pending \subseteq client_handlers_list /\ client_handlers_list \subseteq Clients
    /\ deleted \subseteq Clients

SessionTypes ==
    /\ handler \in [Clients -> Stages]
    /\ thread \in [Clients -> [Threads -> States]]
    /\ keep_running \in [Clients -> SUBSET Threads]
    /\ stop_flag \in [Clients -> BOOLEAN] /\ killed \in [Clients -> BOOLEAN]
    /\ session \in [Clients -> 0 .. MaxMatches]

QueueTypes ==
    /\ send_queue \in [Clients -> Seq(Kinds)]
    /\ closed \in [Clients -> BOOLEAN]

MatchTypes ==
    /\ monitor \in Clients \cup {Nobody}
    /\ matches \in [Names -> 0 .. MaxMatches]
    /\ match \in [Matches -> {"none", "lobby", "playing", "ended", "joined"}]
    /\ match_keeps \in [Matches -> BOOLEAN]
    /\ client_send_queues \in [Matches -> SUBSET Clients]
    /\ late \subseteq Clients

ClientTypes ==
    /\ client \in [Clients -> {"away", "open", "gone"}]
    /\ wire \in [Clients -> Seq(Messages)]
    /\ got \in [Clients -> Seq(Kinds)]
    /\ listed \in [Clients -> SUBSET Names]

\* Where the handler is tells which of its threads there are.
Progress(c) ==
    /\ handler[c] \notin {"sender", "ended"} => \A t \in Threads : thread[c][t] = "unstarted"
    /\ handler[c] = "sender" => /\ thread[c]["receiver"] # "unstarted"
                                /\ thread[c]["sender"] = "unstarted"
    /\ handler[c] = "ended" => (thread[c]["receiver"] = "unstarted"
                                  <=> thread[c]["sender"] = "unstarted")
    /\ stop_flag[c] => thread[c]["receiver"] # "unstarted"
    /\ handler[c] = "enter" => wire[c] # <<>>

\* A pass of reap() kills only a session that is over, and only those that have been
\* deleted have threads that were joined.
Pass ==
    /\ acceptor \in {"kill", "join_threads", "join_handler"} => pending # {}
    /\ (acceptor \in {"kill", "join_threads"} /\ mode = "reap")
         => handler[Victim] = "ended" /\ stop_flag[Victim]
    /\ \A c \in Clients, t \in Threads :
         (mode = "reap" /\ thread[c][t] = "joined")
           => c \in deleted \/ (acceptor = "join_handler" /\ c = Victim)
    /\ client_handlers_list \cap deleted = {}
    /\ \A c \in Clients : client[c] = "away" =>
         c \notin client_handlers_list /\ c \notin deleted /\ handler[c] = "none"

\* From add_queue_to() to the end of the sender the queue is among the match's.
Fills(c) ==
    /\ (handler[c] \in {"queue", "configuration", "receiver", "sender"}
          \/ thread[c]["receiver"] # "unstarted") => session[c] \in Matches
    /\ ((handler[c] \in {"configuration", "receiver", "sender"} \/ Running(c, "sender"))
          /\ ~closed[c]) => c \in client_send_queues[session[c]]

Types == PassTypes /\ SessionTypes /\ QueueTypes /\ MatchTypes /\ ClientTypes

Sessions == \A c \in Clients : Progress(c) /\ Fills(c)

ServerInv == Types /\ Sessions /\ Pass

-----------------------------------------------------------------------------
(* Sets and sequences *)

LEMMA HasLeast ==
  ASSUME NEW S \in SUBSET Nat, S # {}
  PROVE  \E m \in S : \A k \in S : m <= k
<1> DEFINE Less == {p \in Nat \X Nat : p[1] < p[2]}
<1>1. IsWellFoundedOn(Less, Nat)
  <2>1. Less = OpToRel(<, Nat)
    BY Zenon DEF OpToRel
  <2> QED BY <2>1, NatLessThanWellFounded, Zenon
<1> HIDE DEF Less
<1>2. PICK m \in S : \A k \in S : ~(<<k, m>> \in Less)
  BY <1>1, WFMin
<1>3. \A k \in S : ~(k < m)
  BY <1>2 DEF Less
<1> QED BY <1>3

\* The handler a pass looks at is one of those it has still to look at.
LEMMA VictimPending ==
  ASSUME PassTypes, pending # {}
  PROVE  Victim \in pending /\ Victim \in client_handlers_list /\ Victim \in Clients
<1>1. pending \subseteq Nat
  BY ServerAssumption DEF ServerAssumption, PassTypes, Clients
<1>2. PICK m \in pending : \A k \in pending : m <= k
  BY <1>1, HasLeast
<1>3. Victim \in pending
  BY <1>2 DEF Victim, Min
<1> QED BY <1>3 DEF PassTypes

LEMMA RangeWithin ==
  ASSUME NEW S, NEW s \in Seq(S)
  PROVE  Range(s) \subseteq S
BY DEF Range

LEMMA InvGivesTypeOK == ServerInv => TypeOK
<1> SUFFICES ASSUME ServerInv PROVE TypeOK
  OBVIOUS
<1>1. \A c \in Clients : Range(send_queue[c]) \subseteq Kinds /\ Range(got[c]) \subseteq Kinds
  BY RangeWithin DEF ServerInv, Types, QueueTypes, ClientTypes
<1> QED BY <1>1 DEF ServerInv, Types, PassTypes, SessionTypes, QueueTypes, MatchTypes,
                    ClientTypes, TypeOK, Stages, States

LEMMA InvGivesReapFindsThreads == ServerInv => ReapFindsThreads
<1> SUFFICES ASSUME ServerInv, mode = "reap", acceptor = "join_threads",
                    NEW t \in Threads
             PROVE  Joinable(Victim, t)
  BY DEF ReapFindsThreads
<1>1. Victim \in Clients /\ Victim \notin deleted
  BY VictimPending DEF ServerInv, Types, Pass
<1>2. handler[Victim] = "ended" /\ stop_flag[Victim]
  BY DEF ServerInv, Pass
<1>3. thread[Victim][t] # "unstarted"
  BY <1>1, <1>2 DEF ServerInv, Sessions, Progress, Threads
<1>4. thread[Victim][t] # "joined"
  BY <1>1 DEF ServerInv, Pass
<1>5. thread[Victim][t] \in States
  BY <1>1 DEF ServerInv, Types, SessionTypes
<1> QED BY <1>3, <1>4, <1>5 DEF Joinable, Running, States

LEMMA InvGivesStillRegistered == ServerInv => StillRegistered
BY DEF ServerInv, Sessions, Fills, StillRegistered

LEMMA InitStep == Init => ServerInv
<1> SUFFICES ASSUME Init PROVE ServerInv
  OBVIOUS
<1>1. PassTypes
  BY DEF Init, PassTypes
<1>2. SessionTypes
  BY ServerAssumption DEF ServerAssumption, Init, SessionTypes, Stages, States
<1>3. QueueTypes
  BY DEF Init, QueueTypes
<1>4. MatchTypes
  BY ServerAssumption DEF ServerAssumption, Init, MatchTypes
<1>5. ClientTypes
  BY DEF Init, ClientTypes
<1>6. Sessions
  BY DEF Init, Sessions, Progress, Fills, Running, Threads
<1>7. Pass
  BY DEF Init, Pass
<1> QED BY <1>1, <1>2, <1>3, <1>4, <1>5, <1>6, <1>7 DEF ServerInv, Types

\* What is kept by a step that changes none of the variables it is about.
LEMMA Untouched ==
  /\ (PassTypes /\ UNCHANGED <<server, terminated, acceptorVars, deleted>>) => PassTypes'
  /\ (SessionTypes /\ UNCHANGED <<handler, thread, keep_running, stop_flag, killed, session>>)
       => SessionTypes'
  /\ (QueueTypes /\ UNCHANGED queueVars) => QueueTypes'
  /\ (MatchTypes /\ UNCHANGED matchVars) => MatchTypes'
  /\ (ClientTypes /\ UNCHANGED clientVars) => ClientTypes'
  /\ (Sessions /\ UNCHANGED <<handler, thread, stop_flag, wire, session, closed,
                              client_send_queues>>) => Sessions'
  /\ (Pass /\ UNCHANGED <<acceptorVars, deleted, handler, stop_flag, thread, client>>) => Pass'
<1>1. (PassTypes /\ UNCHANGED <<server, terminated, acceptorVars, deleted>>) => PassTypes'
  BY DEF PassTypes, acceptorVars
<1>2. (SessionTypes /\ UNCHANGED <<handler, thread, keep_running, stop_flag, killed, session>>)
       => SessionTypes'
  BY DEF SessionTypes
<1>3. (QueueTypes /\ UNCHANGED queueVars) => QueueTypes'
  BY DEF QueueTypes, queueVars
<1>4. (MatchTypes /\ UNCHANGED matchVars) => MatchTypes'
  BY DEF MatchTypes, matchVars
<1>5. (ClientTypes /\ UNCHANGED clientVars) => ClientTypes'
  BY DEF ClientTypes, clientVars
<1>6. (Sessions /\ UNCHANGED <<handler, thread, stop_flag, wire, session, closed,
                               client_send_queues>>) => Sessions'
  BY DEF Sessions, Progress, Fills, Running
<1>7. (Pass /\ UNCHANGED <<acceptorVars, deleted, handler, stop_flag, thread, client>>) => Pass'
  BY DEF Pass, acceptorVars, Victim
<1> QED BY <1>1, <1>2, <1>3, <1>4, <1>5, <1>6, <1>7

-----------------------------------------------------------------------------
(* The clients *)

LEMMA ClientsStep ==
  ASSUME ServerInv, NEW c \in Clients, ClientSteps(c)
  PROVE  ServerInv'
<1>1. /\ UNCHANGED <<server, terminated, acceptorVars, sessionVars, queueVars, matchVars>>
      /\ client' = client \/ (client[c] = "open" /\ client' = [client EXCEPT ![c] = "gone"])
  BY DEF ClientSteps, ClientStep, Choose, Leave
<1>2. /\ wire' \in [Clients -> Seq(Messages)]
      /\ \A d \in Clients : handler[d] = "enter" => wire'[d] = wire[d]
  <2>1. CASE wire' = wire
    BY <2>1 DEF ServerInv, Types, ClientTypes
  <2>2. CASE Choose(c)
    <3>1. PICK a \in [type : {"CREATE"}, match : Names] \cup [type : {"JOIN"}, match : listed[c]] :
            wire' = [wire EXCEPT ![c] = <<a>>]
      BY <2>2 DEF Choose
    <3>2. listed[c] \subseteq Names
      BY DEF ServerInv, Types, ClientTypes
    <3>3. a \in Messages
      BY <3>2 DEF Messages
    <3>4. <<a>> \in Seq(Messages)
      BY <3>3
    <3> QED BY <2>2, <3>1, <3>4 DEF ServerInv, Types, ClientTypes, Choose
  <2> QED BY <2>1, <2>2 DEF ClientSteps, Leave
<1>3. got' \in [Clients -> Seq(Kinds)] /\ listed' \in [Clients -> SUBSET Names]
  <2>1. <<>> \in Seq(Kinds) /\ {} \in SUBSET Names
    OBVIOUS
  <2>2. /\ got' = got \/ got' = [got EXCEPT ![c] = <<>>]
        /\ listed' = listed \/ listed' = [listed EXCEPT ![c] = {}]
    BY DEF ClientSteps, Choose, Leave
  <2> QED BY <2>1, <2>2 DEF ServerInv, Types, ClientTypes
<1>4. ClientTypes'
  BY <1>1, <1>2, <1>3 DEF ServerInv, Types, ClientTypes
<1>5. Sessions'
  BY <1>1, <1>2 DEF ServerInv, Sessions, Progress, Fills, Running, sessionVars, queueVars,
                    matchVars
<1>6. Pass'
  <2>1. \A d \in Clients : client'[d] = "away" => client[d] = "away"
    BY <1>1 DEF ServerInv, Types, ClientTypes
  <2> QED BY <1>1, <2>1 DEF ServerInv, Pass, acceptorVars, sessionVars, Victim
<1> QED BY <1>1, <1>4, <1>5, <1>6, Untouched DEF ServerInv, Types, sessionVars

LEMMA SentType ==
  ASSUME ClientTypes, NEW c \in Clients, NEW kind \in Kinds, Sent(c, kind)
  PROVE  got' \in [Clients -> Seq(Kinds)]
<1>1. Append(got[c], kind) \in Seq(Kinds)
  BY DEF ClientTypes
<1> QED BY <1>1 DEF ClientTypes, Sent

-----------------------------------------------------------------------------
(* The handlers *)

\* A step of the handler that is no start of a thread and no entry into a match.
LEMMA LobbyStep ==
  ASSUME ServerInv, NEW c \in Clients, NEW at \in Stages,
         handler[c] \in {"information", "first_action", "configuration"},
         HandlerGoto(c, at),
         at \in {"first_action", "enter", "ended"}
           \/ (at = "receiver" /\ handler[c] = "configuration"),
         at = "enter" => wire[c] # <<>>,
         at # "ended" => UNCHANGED wire,
         \A d \in Clients \ {c} : wire'[d] = wire[d],
         UNCHANGED <<server, terminated, acceptorVars, thread, keep_running, stop_flag, killed,
                     deleted, session, queueVars, matchVars, client>>,
         ClientTypes'
  PROVE  ServerInv'
<1>1. handler' = [handler EXCEPT ![c] = at] /\ handler \in [Clients -> Stages]
  BY DEF HandlerGoto, ServerInv, Types, SessionTypes
<1>2. SessionTypes'
  BY <1>1 DEF ServerInv, Types, SessionTypes
<1>3. \A t \in Threads : thread[c][t] = "unstarted"
  BY DEF ServerInv, Sessions, Progress
<1>4. Sessions'
  <2>1. ASSUME NEW d \in Clients, d # c
        PROVE  Progress(d)' /\ Fills(d)'
    BY <1>1, <2>1 DEF ServerInv, Sessions, Progress, Fills, Running, queueVars, matchVars
  <2>2. Progress(c)'
    BY <1>1, <1>3 DEF ServerInv, Sessions, Progress, Threads
  <2>3. Fills(c)'
    BY <1>1, <1>3 DEF ServerInv, Sessions, Fills, Running, Threads, queueVars, matchVars
  <2> QED BY <2>1, <2>2, <2>3 DEF Sessions
<1>5. Pass'
  <2>1. /\ client[c] # "away"
        /\ (acceptor \in {"kill", "join_threads"} /\ mode = "reap") => Victim # c
    BY DEF ServerInv, Pass
  <2>2. \A d \in Clients : d # c => handler'[d] = handler[d]
    BY <1>1
  <2>3. acceptor \in {"kill", "join_threads", "join_handler"} => Victim \in Clients
    BY VictimPending DEF ServerInv, Types, Pass
  <2> QED BY <2>1, <2>2, <2>3 DEF ServerInv, Pass, acceptorVars, Victim
<1> QED BY <1>2, <1>4, <1>5, Untouched DEF ServerInv, Types

LEMMA SendInformationStep ==
  ASSUME ServerInv, NEW c \in Clients, SendInformation(c), UNCHANGED terminated
  PROVE  ServerInv'
<1>1. ClientTypes'
  <2>1. got' \in [Clients -> Seq(Kinds)]
    BY SentType DEF SendInformation, ServerInv, Types, ClientTypes, Kinds
  <2>2. listed' \in [Clients -> SUBSET Names]
    BY DEF SendInformation, ServerInv, Types, ClientTypes, Listable
  <2> QED BY <2>1, <2>2 DEF SendInformation, ServerInv, Types, ClientTypes
<1>2. PICK at \in {"first_action", "ended"} : HandlerGoto(c, at)
  BY DEF SendInformation
<1>3. at \in Stages
  BY DEF Stages
<1> QED BY <1>1, <1>2, <1>3, LobbyStep DEF SendInformation

LEMMA ReceiveFirstActionStep ==
  ASSUME ServerInv, NEW c \in Clients, ReceiveFirstAction(c), UNCHANGED terminated
  PROVE  ServerInv'
<1>1. ClientTypes'
  <2>1. <<>> \in Seq(Messages)
    OBVIOUS
  <2> QED BY <2>1 DEF ReceiveFirstAction, ServerInv, Types, ClientTypes
<1>2. CASE CanReceive(c) /\ HandlerGoto(c, "enter") /\ UNCHANGED wire
  BY <1>1, <1>2, LobbyStep DEF ReceiveFirstAction, Stages, CanReceive
<1>3. CASE HandlerGoto(c, "ended") /\ wire' = [wire EXCEPT ![c] = <<>>]
  <2>1. \A d \in Clients \ {c} : wire'[d] = wire[d]
    BY <1>3 DEF ServerInv, Types, ClientTypes
  <2> QED BY <1>1, <1>3, <2>1, LobbyStep DEF ReceiveFirstAction, Stages
<1> QED BY <1>2, <1>3 DEF ReceiveFirstAction

LEMMA SendConfigurationStep ==
  ASSUME ServerInv, NEW c \in Clients, SendConfiguration(c), UNCHANGED terminated
  PROVE  ServerInv'
<1>1. ClientTypes'
  <2>1. got' \in [Clients -> Seq(Kinds)]
    BY SentType DEF SendConfiguration, ServerInv, Types, ClientTypes, Kinds
  <2> QED BY <2>1 DEF SendConfiguration, ServerInv, Types, ClientTypes
<1>2. PICK at \in {"receiver", "ended"} : HandlerGoto(c, at)
  BY DEF SendConfiguration
<1>3. at \in Stages
  BY DEF Stages
<1> QED BY <1>1, <1>2, <1>3, LobbyStep DEF SendConfiguration

\* A message of the lobby that joins names a match.
LEMMA TakeMessage ==
  ASSUME ClientTypes, NEW c \in Clients, wire[c] # <<>>
  PROVE  /\ Head(wire[c]) \in Messages /\ Tail(wire[c]) \in Seq(Messages)
         /\ Head(wire[c]).type \in {"CREATE", "JOIN"} => Head(wire[c]).match \in Names
<1>1. wire[c] \in Seq(Messages)
  BY DEF ClientTypes
<1>2. Head(wire[c]) \in Messages /\ Tail(wire[c]) \in Seq(Messages)
  BY <1>1
<1> QED BY <1>2 DEF Messages

LEMMA EnterMatchStep ==
  ASSUME ServerInv, NEW c \in Clients, EnterMatch(c)
  PROVE  ServerInv'
<1> DEFINE a == Head(wire[c])
<1>1. /\ handler[c] = "enter" /\ handler \in [Clients -> Stages]
      /\ session \in [Clients -> 0 .. MaxMatches]
      /\ wire' = [wire EXCEPT ![c] = Tail(@)] /\ wire[c] # <<>>
      /\ UNCHANGED <<server, acceptorVars, thread, keep_running, stop_flag, killed, deleted,
                     queueVars, match_keeps, client_send_queues, late, client, got, listed>>
  BY DEF EnterMatch, ServerInv, Types, SessionTypes, Sessions, Progress
<1>2. /\ a.type \in {"CREATE", "JOIN"} => a.match \in Names
      /\ wire' \in [Clients -> Seq(Messages)]
      /\ \A d \in Clients \ {c} : wire'[d] = wire[d]
  BY <1>1, TakeMessage DEF ServerInv, Types, ClientTypes
<1>3. PICK at \in {"queue", "ended"}, m \in 0 .. MaxMatches :
        /\ handler' = [handler EXCEPT ![c] = at]
        /\ session' = [session EXCEPT ![c] = m]
        /\ at = "queue" => m \in Matches
        /\ terminated' \in BOOLEAN
        /\ monitor' \in Clients \cup {Nobody}
        /\ matches' \in [Names -> 0 .. MaxMatches]
        /\ match' \in [Matches -> {"none", "lobby", "playing", "ended", "joined"}]
  <2>1. CASE /\ a.type = "CREATE"
             /\ \E m \in Matches : CreateMatch(c, a.match, m)
             /\ monitor' = c /\ HandlerGoto(c, "queue")
    <3>1. PICK m \in Matches : CreateMatch(c, a.match, m)
      BY <2>1
    <3>2. m \in 0 .. MaxMatches
      BY ServerAssumption DEF ServerAssumption, Matches
    <3>3. /\ terminated' \in BOOLEAN
          /\ matches' \in [Names -> 0 .. MaxMatches]
          /\ match' \in [Matches -> {"none", "lobby", "playing", "ended", "joined"}]
        BY <3>1, <3>2 DEF CreateMatch, ServerInv, Types, MatchTypes
    <3> QED BY <2>1, <3>1, <3>2, <3>3 DEF CreateMatch, HandlerGoto
  <2>2. CASE /\ a.type = "JOIN" /\ JoinMatch(c, matches[a.match])
             /\ monitor' = c /\ HandlerGoto(c, "queue")
    <3>1. matches[a.match] \in Matches
      <4>1. matches[a.match] \in 0 .. MaxMatches /\ matches[a.match] # 0
        BY <1>2, <2>2 DEF JoinMatch, ServerInv, Types, MatchTypes
      <4> QED BY <4>1, ServerAssumption DEF ServerAssumption, Matches
    <3>2. matches[a.match] \in 0 .. MaxMatches
      BY <1>2, <2>2 DEF ServerInv, Types, MatchTypes
    <3>4. /\ session' = [session EXCEPT ![c] = matches[a.match]]
          /\ UNCHANGED <<terminated, matches, match>>
      BY <2>2 DEF JoinMatch
    <3>5. handler' = [handler EXCEPT ![c] = "queue"] /\ monitor' = c
      BY <2>2 DEF HandlerGoto
    <3>6. terminated' \in BOOLEAN
      BY <3>4 DEF ServerInv, Types, PassTypes
    <3>7. /\ matches' \in [Names -> 0 .. MaxMatches]
          /\ match' \in [Matches -> {"none", "lobby", "playing", "ended", "joined"}]
      BY <3>4 DEF ServerInv, Types, MatchTypes
    <3> QED BY <3>1, <3>2, <3>4, <3>5, <3>6, <3>7
  <2>3. CASE /\ HandlerGoto(c, "ended")
             /\ UNCHANGED <<terminated, matches, match, session, monitor>>
    <3>1. session[c] \in 0 .. MaxMatches /\ session' = [session EXCEPT ![c] = session[c]]
      BY <1>1, <2>3
    <3>2. handler' = [handler EXCEPT ![c] = "ended"]
      BY <2>3 DEF HandlerGoto
    <3>3. terminated' \in BOOLEAN
      BY <2>3 DEF ServerInv, Types, PassTypes
    <3>4. /\ monitor' \in Clients \cup {Nobody}
          /\ matches' \in [Names -> 0 .. MaxMatches]
          /\ match' \in [Matches -> {"none", "lobby", "playing", "ended", "joined"}]
        BY <2>3 DEF ServerInv, Types, MatchTypes
    <3> QED BY <3>1, <3>2, <3>3, <3>4
  <2> QED BY <2>1, <2>2, <2>3 DEF EnterMatch
<1>4. PassTypes'
  BY <1>1, <1>3 DEF ServerInv, Types, PassTypes, acceptorVars
<1>5. SessionTypes'
  BY <1>1, <1>3 DEF ServerInv, Types, SessionTypes, Stages
<1>6. MatchTypes'
  BY <1>1, <1>3 DEF ServerInv, Types, MatchTypes
<1>7. ClientTypes'
  BY <1>1, <1>2 DEF ServerInv, Types, ClientTypes
<1>8. \A t \in Threads : thread[c][t] = "unstarted"
  BY <1>1 DEF ServerInv, Sessions, Progress
<1>9. Sessions'
  <2>1. ASSUME NEW d \in Clients, d # c
        PROVE  Progress(d)' /\ Fills(d)'
    BY <1>1, <1>2, <1>3, <2>1 DEF ServerInv, Sessions, Progress, Fills, Running, queueVars
  <2>2. Progress(c)'
    BY <1>1, <1>3, <1>8 DEF ServerInv, Sessions, Progress, Threads
  <2>3. Fills(c)'
    BY <1>1, <1>3, <1>8 DEF ServerInv, Sessions, Fills, Running, Threads
  <2> QED BY <2>1, <2>2, <2>3 DEF Sessions
<1>10. Pass'
  <2>1. /\ client[c] # "away"
        /\ (acceptor \in {"kill", "join_threads"} /\ mode = "reap") => Victim # c
    BY <1>1 DEF ServerInv, Pass
  <2>2. \A d \in Clients : d # c => handler'[d] = handler[d]
    BY <1>1, <1>3
  <2>3. acceptor \in {"kill", "join_threads", "join_handler"} => Victim \in Clients
    BY VictimPending DEF ServerInv, Types, Pass
  <2> QED BY <1>1, <2>1, <2>2, <2>3 DEF ServerInv, Pass, acceptorVars, Victim
<1> QED BY <1>1, <1>4, <1>5, <1>6, <1>7, <1>9, <1>10, Untouched DEF ServerInv, Types

LEMMA AddQueueToStep ==
  ASSUME ServerInv, NEW c \in Clients, AddQueueTo(c), UNCHANGED terminated
  PROVE  ServerInv'
<1>1. /\ handler[c] = "queue" /\ handler \in [Clients -> Stages]
      /\ handler' = [handler EXCEPT ![c] = "configuration"]
      /\ client_send_queues' = [client_send_queues EXCEPT ![session[c]] = @ \cup {c}]
      /\ client_send_queues \in [Matches -> SUBSET Clients]
      /\ session[c] \in Matches
      /\ UNCHANGED <<server, acceptorVars, thread, keep_running, stop_flag, killed, deleted,
                     session, queueVars, matches, match, match_keeps, clientVars>>
  BY DEF AddQueueTo, HandlerGoto, ServerInv, Types, SessionTypes, MatchTypes, Sessions, Fills
<1>2. SessionTypes'
  BY <1>1 DEF ServerInv, Types, SessionTypes, Stages
<1>3. MatchTypes'
  <2>1. monitor' = Nobody
    BY DEF AddQueueTo
  <2>2. late' \subseteq Clients
    BY DEF AddQueueTo, ServerInv, Types, MatchTypes
  <2> QED BY <1>1, <2>1, <2>2 DEF ServerInv, Types, MatchTypes
<1>4. Sessions'
  <2>1. ASSUME NEW d \in Clients
        PROVE  Progress(d)'
    BY <1>1 DEF ServerInv, Sessions, Progress, clientVars
  <2>2. ASSUME NEW d \in Clients, d # c
        PROVE  Fills(d)'
    BY <1>1, <2>2 DEF ServerInv, Sessions, Fills, Running, queueVars
  <2>3. Fills(c)'
    BY <1>1 DEF ServerInv, Sessions, Fills, Running, queueVars
  <2> QED BY <2>1, <2>2, <2>3 DEF Sessions
<1>5. Pass'
  <2>1. /\ client[c] # "away"
        /\ (acceptor \in {"kill", "join_threads"} /\ mode = "reap") => Victim # c
    BY <1>1 DEF ServerInv, Pass
  <2>2. \A d \in Clients : d # c => handler'[d] = handler[d]
    BY <1>1
  <2>3. acceptor \in {"kill", "join_threads", "join_handler"} => Victim \in Clients
    BY VictimPending DEF ServerInv, Types, Pass
  <2> QED BY <1>1, <2>1, <2>2, <2>3 DEF ServerInv, Pass, acceptorVars, clientVars, Victim
<1> QED BY <1>1, <1>2, <1>3, <1>4, <1>5, Untouched DEF ServerInv, Types

LEMMA StartStep ==
  ASSUME ServerInv, NEW c \in Clients, NEW t \in Threads, Start(c, t), UNCHANGED terminated
  PROVE  ServerInv'
<1> DEFINE next == IF t = "receiver" THEN "sender" ELSE "ended"
<1>1. /\ handler[c] = t /\ handler \in [Clients -> Stages]
      /\ handler' = [handler EXCEPT ![c] = next]
      /\ thread' = [thread EXCEPT ![c][t] = IF t = "sender" THEN "started" ELSE "running"]
      /\ thread \in [Clients -> [Threads -> States]]
      /\ keep_running' = [keep_running EXCEPT ![c] = @ \cup {t}]
      /\ UNCHANGED <<server, acceptorVars, stop_flag, killed, deleted, session, queueVars,
                     matchVars, clientVars>>
  BY DEF Start, HandlerGoto, ServerInv, Types, SessionTypes
<1>2. SessionTypes'
  BY <1>1 DEF ServerInv, Types, SessionTypes, Stages, States
<1>3. /\ thread'[c][t] \in {"started", "running"}
      /\ \A u \in Threads \ {t} : thread'[c][u] = thread[c][u]
      /\ \A d \in Clients \ {c} : thread'[d] = thread[d] /\ handler'[d] = handler[d]
      /\ handler'[c] = next
  BY <1>1
<1>4. Sessions'
  <2>1. ASSUME NEW d \in Clients, d # c
        PROVE  Progress(d)' /\ Fills(d)'
    BY <1>1, <1>3, <2>1 DEF ServerInv, Sessions, Progress, Fills, Running, queueVars,
                            matchVars, clientVars
  <2>2. Progress(c)'
    BY <1>1, <1>3 DEF ServerInv, Sessions, Progress, Threads, clientVars
  <2>3. Fills(c)'
    BY <1>1, <1>3 DEF ServerInv, Sessions, Fills, Running, Threads, queueVars, matchVars
  <2> QED BY <2>1, <2>2, <2>3 DEF Sessions
<1>5. Pass'
  <2>1. /\ client[c] # "away"
        /\ (acceptor \in {"kill", "join_threads"} /\ mode = "reap") => Victim # c
    BY <1>1 DEF ServerInv, Pass, Threads
  <2>2. acceptor \in {"kill", "join_threads", "join_handler"} => Victim \in Clients
    BY VictimPending DEF ServerInv, Types, Pass
  <2>3. \A d \in Clients, u \in Threads : thread'[d][u] = "joined" => thread[d][u] = "joined"
    BY <1>3
  <2> QED BY <1>1, <1>3, <2>1, <2>2, <2>3 DEF ServerInv, Pass, acceptorVars, clientVars, Victim
<1> QED BY <1>1, <1>2, <1>4, <1>5, Untouched DEF ServerInv, Types

LEMMA HandlersStep ==
  ASSUME ServerInv, NEW c \in Clients, HandlerSteps(c)
  PROVE  ServerInv'
BY SendInformationStep, ReceiveFirstActionStep, EnterMatchStep, AddQueueToStep,
   SendConfigurationStep, StartStep DEF HandlerSteps

-----------------------------------------------------------------------------
(* Receivers, senders and matches *)

\* A step of a receiver or a sender may end it and close the queue.
LEMMA ThreadStep ==
  ASSUME ServerInv, NEW c \in Clients, NEW t \in Threads, Running(c, t),
         LoopOn(c, t) \/ EndThread(c, t),
         send_queue' \in [Clients -> Seq(Kinds)], got' \in [Clients -> Seq(Kinds)],
         Session(c), UNCHANGED terminated
  PROVE  ServerInv'
<1>1. /\ thread \in [Clients -> [Threads -> States]] /\ stop_flag \in [Clients -> BOOLEAN]
      /\ keep_running \in [Clients -> SUBSET Threads] /\ closed \in [Clients -> BOOLEAN]
      /\ thread[c][t] \in {"started", "running"}
  BY DEF ServerInv, Types, SessionTypes, QueueTypes, Running
<1>2. /\ thread' \in [Clients -> [Threads -> States]] /\ stop_flag' \in [Clients -> BOOLEAN]
      /\ keep_running' \in [Clients -> SUBSET Threads] /\ closed' \in [Clients -> BOOLEAN]
      /\ \A d \in Clients : closed[d] => closed'[d]
      /\ \A d \in Clients, u \in Threads :
           /\ thread'[d][u] = "unstarted" <=> thread[d][u] = "unstarted"
           /\ thread'[d][u] \in {"started", "running"} => thread[d][u] \in {"started", "running"}
           /\ thread'[d][u] = "joined" => thread[d][u] = "joined"
      /\ \A d \in Clients : /\ stop_flag[d] => stop_flag'[d]
                            /\ stop_flag'[d] => stop_flag[d] \/ d = c
  <2>1. CASE /\ thread' = [thread EXCEPT ![c][t] = "running"]
             /\ UNCHANGED <<stop_flag, keep_running, closed>>
    BY <1>1, <2>1 DEF States
  <2>2. CASE EndThread(c, t)
    BY <1>1, <2>2 DEF EndThread, States
  <2> QED BY <2>1, <2>2 DEF LoopOn
<1>3. SessionTypes'
  BY <1>2 DEF Session, ServerInv, Types, SessionTypes
<1>4. QueueTypes' /\ ClientTypes'
  BY <1>2 DEF Session, ServerInv, Types, QueueTypes, ClientTypes
<1>5. thread[c]["receiver"] # "unstarted" /\ handler[c] \in {"sender", "ended"}
  BY <1>1 DEF ServerInv, Sessions, Progress, Threads
<1>6. Sessions'
  <2>1. ASSUME NEW d \in Clients
        PROVE  Progress(d)' /\ Fills(d)'
    <3>1. Progress(d)'
      BY <1>2, <1>5 DEF Session, ServerInv, Sessions, Progress, Threads
    <3>2. Fills(d)'
      BY <1>2 DEF Session, ServerInv, Sessions, Fills, Running, Threads, matchVars
    <3> QED BY <3>1, <3>2
  <2> QED BY <2>1 DEF Sessions
<1>7. Pass'
  <2>1. acceptor \in {"kill", "join_threads", "join_handler"} => Victim \in Clients
    BY VictimPending DEF ServerInv, Types, Pass
  <2> QED BY <1>2, <2>1 DEF Session, ServerInv, Pass, acceptorVars, Victim
<1> QED BY <1>3, <1>4, <1>6, <1>7, Untouched DEF Session, ServerInv, Types

LEMMA ReceiveStep ==
  ASSUME ServerInv, NEW c \in Clients, Receive(c) \/ ReceiveNoMore(c), UNCHANGED terminated
  PROVE  ServerInv'
<1>1. "receiver" \in Threads /\ Running(c, "receiver") /\ EndThread(c, "receiver")
  BY DEF Receive, ReceiveNoMore, Threads
<1>2. send_queue' \in [Clients -> Seq(Kinds)] /\ got' \in [Clients -> Seq(Kinds)]
  BY DEF Receive, ReceiveNoMore, ServerInv, Types, QueueTypes, ClientTypes
<1>3. Session(c)
  BY DEF Receive, ReceiveNoMore
<1> QED BY <1>1, <1>2, <1>3, ThreadStep

LEMMA SendStep ==
  ASSUME ServerInv, NEW c \in Clients, Send(c) \/ Begin(c), UNCHANGED terminated
  PROVE  ServerInv'
<1>1. "sender" \in Threads /\ Running(c, "sender") /\ Session(c)
  BY DEF Send, Begin, Threads, Running
<1>2. LoopOn(c, "sender") \/ EndThread(c, "sender")
  BY DEF Send, Begin
<1>3. send_queue[c] # <<>> =>
        Tail(send_queue[c]) \in Seq(Kinds) /\ Head(send_queue[c]) \in Kinds
  <2>1. send_queue[c] \in Seq(Kinds)
    BY DEF ServerInv, Types, QueueTypes
  <2> QED BY <2>1
<1>4. send_queue' \in [Clients -> Seq(Kinds)]
  <2>1. send_queue' = send_queue
          \/ (send_queue[c] # <<>> /\ send_queue' = [send_queue EXCEPT ![c] = Tail(@)])
    BY DEF Send, Begin
  <2> QED BY <1>3, <2>1 DEF ServerInv, Types, QueueTypes
<1>5. got' \in [Clients -> Seq(Kinds)]
  <2>1. got' = got \/ (send_queue[c] # <<>> /\ Sent(c, Head(send_queue[c])))
    BY DEF Send, Begin
  <2> QED BY <1>3, <2>1, SentType DEF ServerInv, Types, ClientTypes
<1> QED BY <1>1, <1>2, <1>4, <1>5, ThreadStep

LEMMA MatchesStep ==
  ASSUME ServerInv, NEW m \in Matches, MatchStep(m)
  PROVE  ServerInv'
<1>1. PICK kind \in Kinds : SendUpdate(m, kind)
  BY DEF MatchStep, MatchStarts, MatchEnds, Kinds
<1> DEFINE to == {c \in client_send_queues[m] : ~closed[c]}
<1>2. /\ client_send_queues' = [client_send_queues EXCEPT ![m] = to]
      /\ client_send_queues \in [Matches -> SUBSET Clients]
      /\ UNCHANGED closed
  BY <1>1 DEF SendUpdate, ServerInv, Types, MatchTypes
<1>3. QueueTypes'
  <2>1. send_queue' = [c \in Clients |-> IF c \in to THEN Append(send_queue[c], kind)
                                         ELSE send_queue[c]]
    BY <1>1 DEF SendUpdate
  <2>2. \A c \in Clients : /\ send_queue[c] \in Seq(Kinds)
                           /\ Append(send_queue[c], kind) \in Seq(Kinds)
    BY DEF ServerInv, Types, QueueTypes
  <2> QED BY <1>2, <2>1, <2>2 DEF ServerInv, Types, QueueTypes
<1>4. MatchTypes'
  <2>1. match' \in [Matches -> {"none", "lobby", "playing", "ended", "joined"}]
    BY DEF MatchStep, MatchStarts, MatchEnds, ServerInv, Types, MatchTypes
  <2> QED BY <1>2, <2>1 DEF MatchStep, MatchOnly, ServerInv, Types, MatchTypes
<1>5. Sessions'
  <2>1. \A c \in Clients : Progress(c)'
    BY DEF MatchStep, MatchOnly, sessionVars, clientVars, ServerInv, Sessions, Progress
  <2>2. \A c \in Clients : Fills(c)'
    BY <1>2 DEF MatchStep, MatchOnly, sessionVars, ServerInv, Sessions, Fills, Running
  <2> QED BY <2>1, <2>2 DEF Sessions
<1> QED BY <1>3, <1>4, <1>5, Untouched
        DEF MatchStep, MatchOnly, sessionVars, clientVars, ServerInv, Types

-----------------------------------------------------------------------------
(* The acceptor and the main thread *)

LEMMA AcceptStep ==
  ASSUME ServerInv, Connection
  PROVE  ServerInv'
<1>1. PICK c \in Clients : Accept(c)
  BY DEF Connection
<1>2. /\ client[c] = "away" /\ handler[c] = "none"
      /\ c \notin client_handlers_list /\ c \notin deleted
      /\ handler' = [handler EXCEPT ![c] = "information"]
      /\ handler \in [Clients -> Stages]
      /\ client' = [client EXCEPT ![c] = "open"]
      /\ client \in [Clients -> {"away", "open", "gone"}]
      /\ client_handlers_list' = client_handlers_list \cup {c} /\ pending' = client_handlers_list'
      /\ acceptor' = "pass"
      /\ UNCHANGED <<server, mode, terminated, thread, keep_running, stop_flag, killed, deleted,
                     session, queueVars, matchVars, wire, got, listed>>
  BY <1>1 DEF Connection, Accept, HandlerGoto, Goto, queueVars, ServerInv, Types, SessionTypes,
              ClientTypes, Pass
<1>3. PassTypes' /\ SessionTypes' /\ ClientTypes'
  BY <1>2 DEF ServerInv, Types, PassTypes, SessionTypes, ClientTypes, Stages
<1>4. Sessions'
  <2>1. ASSUME NEW d \in Clients
        PROVE  Progress(d)' /\ Fills(d)'
    <3>1. Progress(d)'
      BY <1>2 DEF ServerInv, Sessions, Progress
    <3>2. Fills(d)'
      BY <1>2 DEF ServerInv, Sessions, Fills, Running, queueVars, matchVars
    <3> QED BY <3>1, <3>2
  <2> QED BY <2>1 DEF Sessions
<1>5. Pass'
  <2>1. acceptor = "accept"
    BY <1>1 DEF Accept
  <2> QED BY <1>2, <2>1 DEF ServerInv, Pass
<1> QED BY <1>2, <1>3, <1>4, <1>5, Untouched DEF ServerInv, Types

\* A step of the acceptor that touches no session: it looks for the next victim.
LEMMA PassGoesOn ==
  ASSUME ServerInv,
         mode' = mode \/ (mode' = "clear" /\ acceptor = "accept"),
         acceptor \in {"accept", "pass"}, acceptor' \in {"accept", "pass", "kill", "ended"},
         pending' \subseteq client_handlers_list,
         acceptor' = "kill" => /\ pending' # {}
                               /\ mode = "reap" => handler[Victim'] = "ended" /\ stop_flag[Victim'],
         acceptor' = "kill" => mode' = mode,
         terminated' \in BOOLEAN, MatchTypes', UNCHANGED client_send_queues,
         UNCHANGED <<client_handlers_list, server, sessionVars, queueVars, clientVars>>
  PROVE  ServerInv'
<1>1. PassTypes'
  BY DEF ServerInv, Types, PassTypes, sessionVars
<1>2. Pass'
  BY DEF ServerInv, Pass, sessionVars, clientVars
<1> QED BY <1>1, <1>2, Untouched DEF ServerInv, Types, sessionVars, queueVars, clientVars

LEMMA LookStep ==
  ASSUME ServerInv, StopAccepting \/ LookAt \/ ReapMatches \/ AllCleared
                      \/ (\E n \in Names : ClearMatches(n)),
         UNCHANGED <<server, send_queue, clientVars>>
  PROVE  ServerInv'
<1>1. UNCHANGED <<client_handlers_list, terminated, sessionVars, queueVars, client_send_queues>>
  BY DEF StopAccepting, LookAt, ReapMatches, AllCleared, ClearMatches, queueVars, matchVars,
         acceptorVars
<1>2. terminated' \in BOOLEAN
  BY <1>1 DEF ServerInv, Types, PassTypes
<1>3. CASE StopAccepting
  <2>1. MatchTypes'
    BY <1>3, Untouched DEF StopAccepting, ServerInv, Types
  <2> QED BY <1>1, <1>2, <1>3, <2>1, PassGoesOn DEF StopAccepting, Goto
<1>4. CASE LookAt
  <2>1. MatchTypes'
    BY <1>4, Untouched DEF LookAt, ServerInv, Types
  <2>2. pending' \subseteq client_handlers_list
    BY <1>4 DEF LookAt, ServerInv, Types, PassTypes
  <2>3. CASE mode = "reap" /\ IsAlive(Victim)
    BY <1>1, <1>2, <1>4, <2>1, <2>2, <2>3, PassGoesOn DEF LookAt
  <2>4. CASE ~(mode = "reap" /\ IsAlive(Victim))
    <3>1. acceptor = "pass" /\ acceptor' = "kill" /\ pending # {} /\ UNCHANGED <<pending, mode>>
      BY <1>4, <2>4 DEF LookAt, Goto
    <3>2. Victim' = Victim
      BY <3>1 DEF Victim
    <3>3. mode = "reap" => handler[Victim] = "ended" /\ stop_flag[Victim]
      BY <2>4 DEF IsAlive
    <3> QED BY <1>1, <1>2, <2>1, <2>2, <3>1, <3>2, <3>3, PassGoesOn
  <2> QED BY <2>3, <2>4
<1>5. CASE ReapMatches
  <2>1. match' \in [Matches -> {"none", "lobby", "playing", "ended", "joined"}]
    BY <1>5 DEF ReapMatches, ServerInv, Types, MatchTypes
  <2>2. matches' \in [Names -> 0 .. MaxMatches]
    BY <1>5, ServerAssumption DEF ServerAssumption, ReapMatches, ServerInv, Types, MatchTypes
  <2>3. MatchTypes'
    BY <1>5, <2>1, <2>2 DEF ReapMatches, ServerInv, Types, MatchTypes
  <2>4. pending' = pending /\ mode' = mode /\ acceptor = "pass" /\ acceptor' = "accept"
    BY <1>5 DEF ReapMatches, PassIsOver, Goto
  <2> QED BY <1>1, <1>2, <2>3, <2>4, PassGoesOn DEF ServerInv, Types, PassTypes
<1>6. CASE AllCleared
  <2>1. MatchTypes'
    BY <1>6, Untouched DEF AllCleared, ServerInv, Types
  <2>2. pending' = pending /\ mode' = mode /\ acceptor = "pass" /\ acceptor' = "ended"
    BY <1>6 DEF AllCleared, PassIsOver, Goto
  <2> QED BY <1>1, <1>2, <2>1, <2>2, PassGoesOn DEF ServerInv, Types, PassTypes
<1>7. ASSUME NEW n \in Names, ClearMatches(n)
      PROVE  ServerInv'
  <2>1. /\ match' \in [Matches -> {"none", "lobby", "playing", "ended", "joined"}]
        /\ matches' \in [Names -> 0 .. MaxMatches]
        /\ match_keeps' \in [Matches -> BOOLEAN]
    <3>1. 0 \in 0 .. MaxMatches
      BY ServerAssumption DEF ServerAssumption
    <3> QED BY <1>7, <3>1 DEF ClearMatches, ServerInv, Types, MatchTypes
  <2>2. MatchTypes'
    BY <1>7, <2>1 DEF ClearMatches, ServerInv, Types, MatchTypes
  <2>3. pending' = pending /\ mode' = mode /\ acceptor = "pass" /\ acceptor' = "pass"
    BY <1>7 DEF ClearMatches, PassIsOver, acceptorVars
  <2> QED BY <1>1, <1>2, <2>2, <2>3, PassGoesOn DEF ServerInv, Types, PassTypes
<1> QED BY <1>3, <1>4, <1>5, <1>6, <1>7

LEMMA KillStep ==
  ASSUME ServerInv, Kill, UNCHANGED <<server, send_queue, clientVars>>
  PROVE  ServerInv'
<1>1. /\ acceptor = "kill" /\ acceptor' \in {"join_threads", "join_handler"} /\ Victim' = Victim
      /\ Victim \in Clients
      /\ UNCHANGED <<pending, mode, client_handlers_list, terminated, handler, thread, stop_flag,
                     deleted, session, matchVars>>
  BY VictimPending DEF Kill, HardKill, Goto, Victim, ServerInv, Types, Pass
<1>2. /\ killed' = [killed EXCEPT ![Victim] = TRUE]
      /\ keep_running' = keep_running \/ keep_running' = [keep_running EXCEPT ![Victim] = {}]
      /\ closed' = closed \/ closed' = [closed EXCEPT ![Victim] = TRUE]
  BY DEF Kill, HardKill
<1>3. PassTypes' /\ SessionTypes' /\ QueueTypes' /\ MatchTypes' /\ ClientTypes'
  <2>1. PassTypes' /\ MatchTypes' /\ ClientTypes'
    BY <1>1, Untouched DEF ServerInv, Types, PassTypes
  <2>2. SessionTypes' /\ QueueTypes'
    BY <1>1, <1>2 DEF ServerInv, Types, SessionTypes, QueueTypes
  <2> QED BY <2>1, <2>2
<1>4. Sessions'
  <2>1. \A c \in Clients : closed[c] => closed'[c]
    BY <1>2 DEF ServerInv, Types, QueueTypes
  <2> QED BY <1>1, <2>1 DEF ServerInv, Sessions, Progress, Fills, Running, matchVars, clientVars
<1>5. Pass'
  BY <1>1 DEF ServerInv, Pass, clientVars
<1> QED BY <1>3, <1>4, <1>5 DEF ServerInv, Types

LEMMA JoinThreadsStep ==
  ASSUME ServerInv, JoinThreads, UNCHANGED <<server, send_queue, clientVars>>
  PROVE  ServerInv'
<1> DEFINE found == {t \in Threads : Joinable(Victim, t)}
<1>1. /\ acceptor = "join_threads" /\ Victim \in Clients
      /\ thread' = [thread EXCEPT ![Victim] =
                      [t \in Threads |-> IF t \in found THEN "joined" ELSE @[t]]]
      /\ thread \in [Clients -> [Threads -> States]]
      /\ UNCHANGED <<mode, client_handlers_list, terminated, handler, keep_running, stop_flag,
                     killed, deleted, session, closed, matchVars>>
  BY VictimPending DEF JoinThreads, ServerInv, Types, Pass, SessionTypes
<1>2. /\ \A t \in Threads : thread'[Victim][t] = IF t \in found THEN "joined"
                                                 ELSE thread[Victim][t]
      /\ \A d \in Clients \ {Victim} : thread'[d] = thread[d]
      /\ \A t \in found : thread[Victim][t] \in {"started", "running", "ended"}
  BY <1>1 DEF Joinable, Running
<1>3. PassTypes' /\ SessionTypes' /\ QueueTypes' /\ MatchTypes' /\ ClientTypes'
  <2>1. MatchTypes' /\ ClientTypes' /\ QueueTypes'
    BY <1>1, Untouched DEF ServerInv, Types, queueVars
  <2>2. SessionTypes'
    BY <1>1 DEF ServerInv, Types, SessionTypes, States
  <2>3. PassTypes'
    BY <1>1 DEF JoinThreads, Goto, ServerInv, Types, PassTypes
  <2> QED BY <2>1, <2>2, <2>3
<1>4. \A d \in Clients, t \in Threads :
        /\ thread'[d][t] = "unstarted" <=> thread[d][t] = "unstarted"
        /\ thread'[d][t] = "running" => thread[d][t] = "running"
  BY <1>2
<1>5. Sessions'
  <2>1. ASSUME NEW d \in Clients
        PROVE  Progress(d)' /\ Fills(d)'
    <3>1. Progress(d)'
      BY <1>1, <1>4 DEF ServerInv, Sessions, Progress, Threads, clientVars
    <3>2. Fills(d)'
      BY <1>1, <1>4 DEF ServerInv, Sessions, Fills, Running, Threads, matchVars
    <3> QED BY <3>1, <3>2
  <2> QED BY <2>1 DEF Sessions
<1>6. Pass'
  <2>1. mode = "reap" => found = Threads
    BY <1>1, InvGivesReapFindsThreads DEF ReapFindsThreads
  <2>2. CASE found = Threads
    <3>1. acceptor' = "join_handler" /\ pending' = pending /\ Victim' = Victim
      BY <2>2 DEF JoinThreads, Goto, Victim
    <3> QED BY <1>1, <1>2, <3>1 DEF ServerInv, Pass, clientVars
  <2>3. CASE found # Threads
    <3>1. mode = "clear" /\ acceptor' = "ended"
      BY <2>1, <2>3 DEF JoinThreads, Goto, ServerInv, Types, PassTypes
    <3> QED BY <1>1, <3>1 DEF ServerInv, Pass, clientVars
  <2> QED BY <2>2, <2>3
<1> QED BY <1>3, <1>5, <1>6 DEF ServerInv, Types

LEMMA JoinAndDeleteStep ==
  ASSUME ServerInv, JoinAndDelete, UNCHANGED <<server, send_queue, clientVars>>
  PROVE  ServerInv'
<1>1. /\ acceptor = "join_handler" /\ acceptor' = "pass"
      /\ Victim \in Clients /\ Victim \in client_handlers_list
      /\ deleted' = deleted \cup {Victim}
      /\ client_handlers_list' = client_handlers_list \ {Victim}
      /\ pending' = pending \ {Victim}
      /\ UNCHANGED <<server, mode, handler, thread, keep_running, stop_flag, killed, session,
                     closed, matchVars, send_queue, clientVars>>
  BY VictimPending DEF JoinAndDelete, Goto, ServerInv, Types, Pass
<1>2. terminated' \in BOOLEAN
  BY DEF JoinAndDelete
<1>3. PassTypes'
  BY <1>1, <1>2 DEF ServerInv, Types, PassTypes
<1>4. Pass'
  BY <1>1 DEF ServerInv, Pass, clientVars
<1> QED BY <1>1, <1>3, <1>4, Untouched DEF ServerInv, Types, queueVars, matchVars, clientVars

LEMMA AcceptorsStep ==
  ASSUME ServerInv, AcceptorStep
  PROVE  ServerInv'
BY LookStep, KillStep, JoinThreadsStep, JoinAndDeleteStep DEF AcceptorStep

LEMMA MainsStep ==
  ASSUME ServerInv, MainStep
  PROVE  ServerInv'
<1>1. server' \in {"serving", "stopping", "exited"} /\ terminated' \in BOOLEAN
  BY DEF MainStep, Quit, Exit, ServerInv, Types, PassTypes
<1>2. PassTypes'
  BY <1>1 DEF MainStep, ServerInv, Types, PassTypes, acceptorVars, sessionVars
<1> QED BY <1>2, Untouched DEF MainStep, ServerInv, Types, acceptorVars, sessionVars, queueVars,
                               matchVars, clientVars

LEMMA NextStep ==
  ASSUME ServerInv, [Next]_vars
  PROVE  ServerInv'
<1>1. CASE UNCHANGED vars
  BY <1>1, Untouched DEF vars, ServerInv, Types, acceptorVars, sessionVars, queueVars, matchVars,
                         clientVars
<1>2. CASE Next
  <2>1. ASSUME NEW c \in Clients, SessionSteps(c) \/ LastAction(c)
        PROVE  ServerInv'
    BY <2>1, ReceiveStep, SendStep DEF SessionSteps, LastAction
  <2> QED BY <1>2, <2>1, MainsStep, AcceptStep, AcceptorsStep, MatchesStep, ClientsStep,
             HandlersStep DEF Next
<1> QED BY <1>1, <1>2

-----------------------------------------------------------------------------
(* What std::terminate() takes *)

\* A name stands for one match, whose thread is there to be joined.
Named ==
    \A n \in Names : matches[n] # 0 =>
      /\ match[matches[n]] \notin {"none", "joined"}
      /\ \A k \in Names : matches[k] = matches[n] => k = n

\* When reap() comes to delete a handler, both its threads have been joined.
Joined ==
    (mode = "reap" /\ acceptor = "join_handler") =>
      \A t \in Threads : thread[Victim][t] = "joined"

Clearing == mode = "clear" => server # "serving"

SurvivalInv == ServerInv /\ Named /\ Joined /\ Clearing /\ SurvivesServing

LEMMA NamedStep ==
  ASSUME ServerInv, Named, Next
  PROVE  Named'
<1>1. /\ match \in [Matches -> {"none", "lobby", "playing", "ended", "joined"}]
      /\ matches \in [Names -> 0 .. MaxMatches]
      /\ \A n \in Names : matches[n] # 0 => matches[n] \in Matches
  BY ServerAssumption DEF ServerAssumption, ServerInv, Types, MatchTypes, Matches
<1>2. CASE UNCHANGED <<match, matches>>
  BY <1>2 DEF Named
<1>3. ASSUME NEW c \in Clients, EnterMatch(c), ~UNCHANGED <<match, matches>>
      PROVE  Named'
  <2>1. PICK m \in Matches : CreateMatch(c, Head(wire[c]).match, m)
    BY <1>3 DEF EnterMatch, JoinMatch
  <2>2. /\ match[m] = "none" /\ match' = [match EXCEPT ![m] = "lobby"]
        /\ matches' = [matches EXCEPT ![Head(wire[c]).match] = m]
    BY <2>1 DEF CreateMatch
  <2>3. \A n \in Names : matches[n] # m
    BY <1>1, <2>2, ServerAssumption DEF Named, Matches, ServerAssumption
  <2> QED BY <1>1, <2>2, <2>3, ServerAssumption DEF Named, Matches, ServerAssumption
<1>4. ASSUME NEW m \in Matches, MatchStep(m)
      PROVE  Named'
  <2>1. PICK at \in {"playing", "ended"} : match' = [match EXCEPT ![m] = at]
    BY <1>4 DEF MatchStep, MatchStarts, MatchEnds
  <2>2. matches' = matches
    BY <1>4 DEF MatchStep, MatchOnly
  <2> QED BY <1>1, <2>1, <2>2 DEF Named
<1>5. CASE ReapMatches
  <2> DEFINE over == {n \in Names : matches[n] # 0 /\ match[matches[n]] = "ended"}
  <2>1. /\ match' = [m \in Matches |-> IF \E n \in over : matches[n] = m THEN "joined" ELSE match[m]]
        /\ matches' = [n \in Names |-> IF n \in over THEN 0 ELSE matches[n]]
    BY <1>5 DEF ReapMatches
  <2>2. SUFFICES ASSUME NEW n \in Names, matches'[n] # 0
                 PROVE  /\ match'[matches'[n]] \notin {"none", "joined"}
                        /\ \A k \in Names : matches'[k] = matches'[n] => k = n
    BY DEF Named
  <2>3. matches'[n] = matches[n] /\ matches[n] # 0 /\ n \notin over
    BY <2>1, <2>2
  <2>4. ~\E k \in over : matches[k] = matches[n]
    BY <2>3 DEF Named
  <2>5. match'[matches[n]] = match[matches[n]]
    BY <1>1, <2>1, <2>3, <2>4
  <2> QED BY <2>1, <2>3, <2>5 DEF Named
<1>6. ASSUME NEW n \in Names, ClearMatches(n)
      PROVE  Named'
  <2>1. CASE UNCHANGED <<match, matches>>
    BY <1>2, <2>1
  <2>2. CASE /\ match' = [match EXCEPT ![matches[n]] = "joined"]
             /\ matches' = [matches EXCEPT ![n] = 0] /\ matches[n] # 0
    BY <1>1, <2>2 DEF Named
  <2> QED BY <1>6, <2>1, <2>2 DEF ClearMatches
<1>7. (MainStep \/ Connection \/ (AcceptorStep /\ ~ReapMatches /\ ~\E n \in Names : ClearMatches(n)))
        => UNCHANGED <<match, matches>>
  BY DEF MainStep, Connection, Accept, AcceptorStep, StopAccepting, LookAt, Kill, HardKill,
         JoinThreads, JoinAndDelete, AllCleared, matchVars
<1>8. ASSUME NEW c \in Clients, ClientSteps(c) \/ SessionSteps(c) \/ LastAction(c)
                                  \/ (HandlerSteps(c) /\ ~EnterMatch(c))
      PROVE  UNCHANGED <<match, matches>>
  BY <1>8 DEF ClientSteps, Choose, Leave, ClientStep, SessionSteps, LastAction, Begin, Receive, ReceiveNoMore, Session, Send,
              HandlerSteps, SendInformation, ReceiveFirstAction, AddQueueTo, SendConfiguration,
              Start, matchVars
<1> QED BY <1>2, <1>3, <1>4, <1>5, <1>6, <1>7, <1>8 DEF Next, AcceptorStep

LEMMA JoinedStep ==
  ASSUME ServerInv, Joined, Next
  PROVE  Joined'
<1> SUFFICES ASSUME mode' = "reap", acceptor' = "join_handler"
             PROVE  \A t \in Threads : thread'[Victim'][t] = "joined"
  BY DEF Joined
<1>1. ServerInv'
  BY NextStep
<1>2. CASE AcceptorStep
  <2>1. CASE Kill
    <3>1. mode = "reap" /\ acceptor = "kill"
      BY <2>1 DEF Kill, HardKill
    <3>2. stop_flag[Victim]
      BY <3>1 DEF ServerInv, Pass
    <3> QED BY <2>1, <3>2 DEF Kill, HardKill, SeemsStarted, Goto
  <2>2. CASE JoinThreads
    <3>1. mode = "reap" /\ acceptor = "join_threads" /\ pending' = pending
      BY <2>2 DEF JoinThreads, Goto
    <3>2. \A t \in Threads : Joinable(Victim, t)
      BY <3>1, InvGivesReapFindsThreads DEF ReapFindsThreads
    <3>3. Victim' = Victim /\ Victim \in Clients
      BY <3>1, VictimPending DEF Victim, ServerInv, Types, Pass
    <3> QED BY <2>2, <3>2, <3>3 DEF JoinThreads, ServerInv, Types, SessionTypes
  <2>3. ~(StopAccepting \/ LookAt \/ JoinAndDelete \/ ReapMatches
            \/ (\E n \in Names : ClearMatches(n)) \/ AllCleared)
    BY DEF StopAccepting, LookAt, JoinAndDelete, ReapMatches, ClearMatches, AllCleared, Goto,
           PassIsOver, acceptorVars
  <2> QED BY <1>2, <2>1, <2>2, <2>3 DEF AcceptorStep
<1>3. CASE UNCHANGED <<acceptor, mode, pending>>
  <2>1. /\ Victim' = Victim /\ Victim \in Clients
        /\ \A t \in Threads : thread[Victim][t] = "joined"
    BY <1>3, VictimPending DEF Joined, Victim, ServerInv, Types, Pass
  <2>2. CASE UNCHANGED thread
    BY <2>1, <2>2
  <2>3. ASSUME NEW c \in Clients, NEW t \in Threads, Start(c, t)
        PROVE  c # Victim /\ \E s \in {"started", "running"} : thread' = [thread EXCEPT ![c][t] = s]
    BY <2>1, <2>3 DEF Start, ServerInv, Sessions, Progress, Threads
  <2>4. ASSUME NEW c \in Clients, NEW t \in Threads, Running(c, t),
               LoopOn(c, t) \/ EndThread(c, t)
        PROVE  c # Victim /\ \E s \in {"running", "ended"} : thread' = [thread EXCEPT ![c][t] = s]
    BY <2>1, <2>4 DEF Running, LoopOn, EndThread
  <2>5. ASSUME NEW c \in Clients, SessionSteps(c) \/ LastAction(c)
        PROVE  \E t \in Threads : Running(c, t) /\ (LoopOn(c, t) \/ EndThread(c, t))
    BY <2>5 DEF SessionSteps, LastAction, Begin, Receive, ReceiveNoMore, Send, Running, Threads
  <2>6. ASSUME NEW c \in Clients, HandlerSteps(c)
        PROVE  UNCHANGED thread \/ \E t \in Threads : Start(c, t)
    BY <2>6 DEF HandlerSteps, SendInformation, ReceiveFirstAction, EnterMatch, AddQueueTo,
                SendConfiguration
  <2>7. ASSUME NEW c \in Clients, ClientSteps(c)
        PROVE  UNCHANGED thread
    BY <2>7 DEF ClientSteps, Choose, Leave, ClientStep, sessionVars
  <2>8. (MainStep \/ Connection \/ \E m \in Matches : MatchStep(m)) => UNCHANGED thread
    BY DEF MainStep, Connection, Accept, MatchStep, MatchOnly, sessionVars
  <2>9. thread \in [Clients -> [Threads -> States]]
    BY DEF ServerInv, Types, SessionTypes
  <2>10. CASE \E c \in Clients, t \in Threads :
                c # Victim /\ \E s \in States : thread' = [thread EXCEPT ![c][t] = s]
    BY <2>1, <2>9, <2>10
  <2>11. UNCHANGED thread \/ AcceptorStep \/ \E c \in Clients, t \in Threads :
           c # Victim /\ \E s \in States : thread' = [thread EXCEPT ![c][t] = s]
    <3>1. {"started", "running", "ended"} \subseteq States
      BY DEF States
    <3> QED BY <2>3, <2>4, <2>5, <2>6, <2>7, <2>8, <3>1 DEF Next
  <2> QED BY <1>2, <2>1, <2>2, <2>10, <2>11
<1>4. Connection \/ AcceptorStep \/ UNCHANGED <<acceptor, mode, pending>>
  BY DEF Next, MainStep, MatchStep, MatchOnly, ClientSteps, Choose, Leave, ClientStep,
         HandlerSteps, SendInformation, ReceiveFirstAction, EnterMatch, AddQueueTo,
         SendConfiguration, Start, SessionSteps, LastAction, Begin, Receive, ReceiveNoMore, Session, Send, acceptorVars
<1>5. ~Connection
  BY DEF Connection, Accept, Goto
<1> QED BY <1>2, <1>3, <1>4, <1>5

LEMMA ClearingStep ==
  ASSUME Clearing, Next
  PROVE  Clearing'
<1>1. server' = server \/ server' \in {"stopping", "exited"}
  BY DEF Next, MainStep, Quit, Exit, Connection, AcceptorStep, MatchStep, MatchOnly, ClientSteps,
         Choose, Leave, ClientStep, HandlerSteps, SendInformation, ReceiveFirstAction,
         EnterMatch, AddQueueTo, SendConfiguration, Start, SessionSteps, LastAction, Begin, Receive, ReceiveNoMore, Session, Send
<1>2. mode' = mode \/ server # "serving"
  BY DEF Next, MainStep, Quit, Exit, Connection, Accept, AcceptorStep, StopAccepting, LookAt,
         Kill, HardKill, JoinThreads, JoinAndDelete, ReapMatches, ClearMatches, AllCleared,
         MatchStep, MatchOnly, ClientSteps, Choose, Leave, ClientStep, HandlerSteps,
         SendInformation, ReceiveFirstAction, EnterMatch, AddQueueTo, SendConfiguration, Start,
         SessionSteps, LastAction, Begin, Receive, ReceiveNoMore, Session, Send, acceptorVars
<1> QED BY <1>1, <1>2 DEF Clearing

LEMMA SurvivesStep ==
  ASSUME ServerInv, Named, Joined, Clearing, Next, terminated'
  PROVE  server' # "serving" \/ \E m \in Matches : Orphan(m)'
<1>1. ~terminated
  BY DEF Next, Live
<1>2. UNCHANGED terminated \/ Exit \/ JoinAndDelete
        \/ \E c \in Clients, m \in Matches :
             CreateMatch(c, Head(wire[c]).match, m) /\ EnterMatch(c)
  BY DEF Next, MainStep, Quit, Connection, Accept, AcceptorStep, StopAccepting, LookAt,
         Kill, HardKill, JoinThreads, ReapMatches, ClearMatches, AllCleared,
         MatchStep, MatchOnly, ClientSteps, HandlerSteps, EnterMatch, JoinMatch, SessionSteps, LastAction
<1>3. CASE Exit
  BY <1>3 DEF Exit
<1>4. CASE JoinAndDelete
  <2>1. \E t \in Threads : Joinable(Victim, t)
    BY <1>4 DEF JoinAndDelete
  <2>2. mode # "reap"
    BY <1>4, <2>1 DEF JoinAndDelete, Joined, Joinable, Running
  <2>3. mode = "clear" /\ mode' = "clear"
    BY <1>4, <2>2 DEF JoinAndDelete, ServerInv, Types, PassTypes
  <2>4. Clearing'
    BY ClearingStep
  <2> QED BY <2>3, <2>4 DEF Clearing
<1>5. ASSUME NEW c \in Clients, NEW m \in Matches,
             CreateMatch(c, Head(wire[c]).match, m), EnterMatch(c)
      PROVE  \E k \in Matches : Orphan(k)'
  <2> DEFINE n == Head(wire[c]).match
  <2>1. /\ match[m] = "none" /\ matches[n] # 0
        /\ matches' = [matches EXCEPT ![n] = m] /\ match' = [match EXCEPT ![m] = "lobby"]
    BY <1>5 DEF CreateMatch
  <2>2. n \in Names
    <3>1. handler[c] = "enter" /\ wire[c] # <<>>
      BY <1>5 DEF EnterMatch, ServerInv, Sessions, Progress
    <3>2. Head(wire[c]).type \in {"CREATE", "JOIN"}
      BY <1>5, <2>1 DEF EnterMatch
    <3> QED BY <3>1, <3>2, TakeMessage DEF ServerInv, Types
  <2>3. matches[n] \in Matches /\ matches \in [Names -> 0 .. MaxMatches]
    BY <2>1, <2>2, ServerAssumption DEF ServerAssumption, ServerInv, Types, MatchTypes, Matches
  <2>4. match[matches[n]] \notin {"none", "joined"}
        /\ \A k \in Names : matches[k] = matches[n] => k = n
    BY <2>1, <2>2 DEF Named
  <2>5. PICK old \in Matches : old = matches[n]
    BY <2>3
  <2>6. old # m
    BY <2>1, <2>4, <2>5
  <2>7. match'[old] = match[old]
    BY <2>1, <2>6 DEF ServerInv, Types, MatchTypes
  <2>8. \A k \in Names : matches'[k] # old
    <3>1. \A k \in Names \ {n} : matches'[k] = matches[k] /\ matches[k] # old
      BY <2>1, <2>3, <2>4, <2>5
    <3>2. matches'[n] = m
      BY <2>1, <2>2, <2>3
    <3> HIDE DEF n
    <3> QED BY <2>6, <3>1, <3>2
  <2>9. Orphan(old)'
    BY <2>4, <2>5, <2>7, <2>8 DEF Orphan
  <2> QED BY <2>9
<1> QED BY <1>1, <1>2, <1>3, <1>4, <1>5

LEMMA SurvivalStep ==
  ASSUME SurvivalInv, [Next]_vars
  PROVE  SurvivalInv'
<1>1. ServerInv'
  BY NextStep DEF SurvivalInv
<1>2. CASE Next
  BY <1>1, <1>2, NamedStep, JoinedStep, ClearingStep, SurvivesStep DEF SurvivalInv, SurvivesServing
<1>3. CASE UNCHANGED vars
  BY <1>1, <1>3 DEF SurvivalInv, Named, Joined, Clearing, SurvivesServing, Orphan, Victim, vars,
                    acceptorVars, sessionVars, matchVars
<1> QED BY <1>2, <1>3

-----------------------------------------------------------------------------
(* Theorems *)

\* The types, for any numbers of clients and matches.
THEOREM TypeCorrect == Spec => []TypeOK
<1>1. Init => ServerInv
  BY InitStep
<1>2. ServerInv /\ [Next]_vars => ServerInv'
  BY NextStep
<1> QED BY <1>1, <1>2, InvGivesTypeOK, PTL DEF Spec

\* However sessions come, fail and go, reap() joins only threads that have been
\* started and not joined before, so that none of its joins throws.
THEOREM ReapFindsThreadsHolds == Spec => []ReapFindsThreads
<1>1. Init => ServerInv
  BY InitStep
<1>2. ServerInv /\ [Next]_vars => ServerInv'
  BY NextStep
<1> QED BY <1>1, <1>2, InvGivesReapFindsThreads, PTL DEF Spec

\* As long as a sender may send, its queue is one of those its match fills, whatever
\* the matches, the acceptor and the other sessions do meanwhile.
THEOREM StillRegisteredHolds == Spec => []StillRegistered
<1>1. Init => ServerInv
  BY InitStep
<1>2. ServerInv /\ [Next]_vars => ServerInv'
  BY NextStep
<1> QED BY <1>1, <1>2, InvGivesStillRegistered, PTL DEF Spec

\* While the server serves nothing destroys a thread that was not joined, unless a
\* match has taken the name of another.
THEOREM SurvivesServingHolds == Spec => []SurvivesServing
<1>1. Init => SurvivalInv
  BY InitStep DEF Init, SurvivalInv, Named, Joined, Clearing, SurvivesServing
<1>2. SurvivalInv /\ [Next]_vars => SurvivalInv'
  BY SurvivalStep
<1>3. SurvivalInv => SurvivesServing
  BY DEF SurvivalInv
<1> QED BY <1>1, <1>2, <1>3, PTL DEF Spec
=============================================================================
