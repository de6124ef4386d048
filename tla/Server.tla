-------------------------------- MODULE Server --------------------------------
(***************************************************************************)
(* The server's threads: the main thread, the acceptor, and for every      *)
(* client its handler, receiver and sender; the monitor of the matches;    *)
(* and of each match its thread's life (src/server/acceptor.cpp,           *)
(* client_handler.cpp, server_receiver.cpp, server_sender.cpp,             *)
(* matches_monitor.cpp, monitor_client_send_queues.cpp).  What a match     *)
(* does is in Match; here it starts when it may, sends, and ends.          *)
(*                                                                         *)
(* A client is known by the id its handler is given, next_id.              *)
(***************************************************************************)
EXTENDS Naturals, Sequences, SequencesExt, FiniteSets

CONSTANTS
    Names,          \* names of matches
    MaxClients,     \* bound: clients that connect
    MaxMatches,     \* bound: matches created
    Places          \* the players each is for: its creator types any number

ASSUME ServerAssumption ==
    MaxClients \in Nat /\ MaxMatches \in Nat /\ Places \in [1 .. MaxMatches -> Nat]

VARIABLES
    \* the main thread and the acceptor
    server,         \* "serving", "stopping" or "exited"
    terminated,     \* std::terminate() was called
    acceptor,       \* what the acceptor's thread is at
    pending,        \* handlers the current pass has still to look at
    mode,           \* "reap" or "clear"
    client_handlers_list,   \* as a set: handlers are appended in the order of their ids
    \* of each client's handler, receiver and sender
    handler,        \* what the handler's thread is at
    thread,         \* the receiver's and the sender's std::thread
    keep_running, stop_flag, killed, deleted,
    session,        \* the match the handler has entered, 0 for none
    send_queue, closed,
    \* the monitor and the matches
    monitor,        \* who holds the mutex of the monitor
    matches,        \* the match of each name, 0 for none
    match,          \* the thread of each match
    match_keeps,
    client_send_queues,
    \* the clients
    client,         \* "away", "open" or "gone"
    wire,           \* sent to the server and not received
    got,            \* kinds of message received, in the order they first came
    listed,         \* the matches INFORMATION named
    \* history: clients whose queue was registered after the END of their match
    late

acceptorVars == <<acceptor, pending, mode, client_handlers_list>>
sessionVars == <<handler, thread, keep_running, stop_flag, killed, deleted, session>>
queueVars == <<send_queue, closed>>
matchVars == <<monitor, matches, match, match_keeps, client_send_queues, late>>
clientVars == <<client, wire, got, listed>>
vars == <<server, terminated, acceptorVars, sessionVars, queueVars, matchVars, clientVars>>

Clients == 1 .. MaxClients
Threads == {"receiver", "sender"}
Matches == 1 .. MaxMatches
Nobody == 0
Kinds == {"INFORMATION", "CONFIGURATION", "INITIAL", "END"}

TypeOK ==
    /\ server \in {"serving", "stopping", "exited"} /\ terminated \in BOOLEAN
    /\ acceptor \in {"accept", "pass", "kill", "join_threads", "join_handler", "ended"}
    /\ mode \in {"reap", "clear"}
    /\ pending \subseteq client_handlers_list
    /\ client_handlers_list \subseteq Clients
    /\ handler \in [Clients -> {"none", "information", "first_action", "enter", "queue",
                                "configuration", "receiver", "sender", "ended"}]
    /\ thread \in [Clients -> [Threads -> {"unstarted", "started", "running", "ended",
                                             "joined"}]]
    /\ keep_running \in [Clients -> SUBSET Threads]
    /\ stop_flag \in [Clients -> BOOLEAN] /\ killed \in [Clients -> BOOLEAN]
    /\ deleted \subseteq Clients
    /\ session \in [Clients -> 0 .. MaxMatches]
    /\ \A c \in Clients : Range(send_queue[c]) \subseteq Kinds /\ Range(got[c]) \subseteq Kinds
    /\ closed \in [Clients -> BOOLEAN]
    /\ monitor \in Clients \cup {Nobody}
    /\ matches \in [Names -> 0 .. MaxMatches]
    /\ match \in [Matches -> {"none", "lobby", "playing", "ended", "joined"}]
    /\ match_keeps \in [Matches -> BOOLEAN]
    /\ client_send_queues \in [Matches -> SUBSET Clients]
    /\ client \in [Clients -> {"away", "open", "gone"}]
    /\ listed \in [Clients -> SUBSET Names]
    /\ late \subseteq Clients

Init ==
    /\ server = "serving" /\ terminated = FALSE
    /\ acceptor = "accept" /\ pending = {} /\ mode = "reap" /\ client_handlers_list = {}
    /\ handler = [c \in Clients |-> "none"]
    /\ thread = [c \in Clients |-> [t \in Threads |-> "unstarted"]]
    /\ keep_running = [c \in Clients |-> Threads]
    /\ stop_flag = [c \in Clients |-> FALSE]
    /\ killed = [c \in Clients |-> FALSE]
    /\ deleted = {}
    /\ session = [c \in Clients |-> 0]
    /\ send_queue = [c \in Clients |-> <<>>] /\ closed = [c \in Clients |-> FALSE]
    /\ monitor = Nobody
    /\ matches = [n \in Names |-> 0]
    /\ match = [m \in Matches |-> "none"]
    /\ match_keeps = [m \in Matches |-> TRUE]
    /\ client_send_queues = [m \in Matches |-> {}]
    /\ client = [c \in Clients |-> "away"]
    /\ wire = [c \in Clients |-> <<>>]
    /\ got = [c \in Clients |-> <<>>]
    /\ listed = [c \in Clients |-> {}]
    /\ late = {}

(***************************************************************************)
(* The clients, the server's environment.                                  *)
(***************************************************************************)
\* The client's process sees only the sockets.
ClientStep(c) ==
    UNCHANGED <<server, acceptorVars, sessionVars, queueVars, matchVars>>

Heard(c, kind) == kind \in Range(got[c])

\* The lobby: the name of a new match, or one of those listed.  A client whose
\* user closes the window leaves without a word.
Choose(c) ==
    /\ client[c] = "open" /\ Heard(c, "INFORMATION") /\ handler[c] = "first_action"
    /\ wire[c] = <<>>
    /\ \E a \in [type : {"CREATE"}, match : Names] \cup [type : {"JOIN"}, match : listed[c]] :
         wire' = [wire EXCEPT ![c] = <<a>>]
    /\ listed' = [listed EXCEPT ![c] = {}]
    /\ UNCHANGED <<client, got>> /\ ClientStep(c)

\* protocol.kill() at the end of the client, or the process dies.
Leave(c) ==
    /\ client[c] = "open"
    /\ client' = [client EXCEPT ![c] = "gone"]
    /\ got' = [got EXCEPT ![c] = <<>>] /\ listed' = [listed EXCEPT ![c] = {}]
    /\ UNCHANGED wire /\ ClientStep(c)

(***************************************************************************)
(* What the server's protocol gives a thread of c.                         *)
(***************************************************************************)
\* The socket still takes bytes; a client that has gone may not be noticed yet.
CanSend(c) == ~killed[c]

CanFailToSend(c) == killed[c] \/ client[c] = "gone"

Sent(c, kind) ==
    got' = IF client[c] = "open" /\ ~Heard(c, kind)
           THEN [got EXCEPT ![c] = Append(@, kind)] ELSE got

\* recv() may already hold the bytes when the socket is killed.
CanReceive(c) == wire[c] # <<>>

CanFailToReceive(c) == killed[c] \/ (client[c] = "gone" /\ wire[c] = <<>>)

(***************************************************************************)
(* The handler's thread.                                                   *)
(***************************************************************************)
HandlerGoto(c, at) == handler' = [handler EXCEPT ![c] = at]

\* list_matches(): those that have not started.
Listable ==
    {n \in Names : matches[n] # 0 /\ match[matches[n]] = "lobby"}

SendInformation(c) ==
    /\ handler[c] = "information" /\ monitor = Nobody
    /\ \/ CanSend(c) /\ HandlerGoto(c, "first_action")
          /\ Sent(c, "INFORMATION") /\ listed' = [listed EXCEPT ![c] = Listable]
       \/ CanFailToSend(c) /\ HandlerGoto(c, "ended") /\ UNCHANGED <<got, listed>>
    /\ UNCHANGED <<server, acceptorVars, thread, keep_running, stop_flag, killed, deleted, session,
                   queueVars, matchVars, client, wire>>

\* The lobby's answer, or UNKNOWN.
ReceiveFirstAction(c) ==
    /\ handler[c] = "first_action"
    /\ \/ CanReceive(c) /\ HandlerGoto(c, "enter") /\ UNCHANGED wire
       \/ CanFailToReceive(c) /\ HandlerGoto(c, "ended")
          /\ wire' = [wire EXCEPT ![c] = <<>>]
    /\ UNCHANGED <<server, acceptorVars, thread, keep_running, stop_flag, killed, deleted, session,
                   queueVars, matchVars, client, got, listed>>

\* create_match(): the tables are overwritten, the thread is started, the player
\* added.  A match the name had loses its last shared_ptr with its thread joinable.
CreateMatch(c, n, m) ==
    /\ match[m] = "none" /\ \A k \in 1 .. m - 1 : match[k] # "none"
    /\ terminated' = (matches[n] # 0)
    /\ matches' = [matches EXCEPT ![n] = m]
    /\ match' = [match EXCEPT ![m] = "lobby"]
    /\ session' = [session EXCEPT ![c] = m]

\* join_match(): a session enters also if add_player() finds the side full.
JoinMatch(c, m) ==
    /\ m # 0
    /\ session' = [session EXCEPT ![c] = m]
    /\ UNCHANGED <<terminated, matches, match>>

\* The map may not be there: the constructor of Match throws, and so does run().
EnterMatch(c) ==
    LET a == Head(wire[c])
    IN  /\ handler[c] = "enter" /\ monitor = Nobody
        /\ wire' = [wire EXCEPT ![c] = Tail(@)]
        /\ \/ /\ a.type = "CREATE"
              /\ \E m \in Matches : CreateMatch(c, a.match, m)
              /\ monitor' = c /\ HandlerGoto(c, "queue")
           \/ /\ a.type = "JOIN"
              /\ JoinMatch(c, matches[a.match])
              /\ monitor' = c /\ HandlerGoto(c, "queue")
           \/ /\ a.type = "CREATE" \/ (a.type = "JOIN" /\ matches[a.match] = 0)
              /\ HandlerGoto(c, "ended")
              /\ UNCHANGED <<terminated, matches, match, session, monitor>>
    /\ UNCHANGED <<server, acceptorVars, thread, keep_running, stop_flag, killed, deleted,
                   queueVars, match_keeps, client_send_queues, late, client, got, listed>>

\* monitor_client_send_queue->add_queue_to(id), the last thing under the mutex.
AddQueueTo(c) ==
    /\ handler[c] = "queue"
    /\ client_send_queues' = [client_send_queues EXCEPT ![session[c]] = @ \cup {c}]
    /\ monitor' = Nobody
    /\ HandlerGoto(c, "configuration")
    /\ late' = IF match[session[c]] = "ended" THEN late \cup {c} ELSE late
    /\ UNCHANGED <<server, acceptorVars, thread, keep_running, stop_flag, killed, deleted, session,
                   queueVars, matches, match, match_keeps, clientVars>>

SendConfiguration(c) ==
    /\ handler[c] = "configuration"
    /\ \/ CanSend(c) /\ HandlerGoto(c, "receiver") /\ Sent(c, "CONFIGURATION")
       \/ CanFailToSend(c) /\ HandlerGoto(c, "ended") /\ UNCHANGED got
    /\ UNCHANGED <<server, acceptorVars, thread, keep_running, stop_flag, killed, deleted, session,
                   queueVars, matchVars, client, wire, listed>>

\* set_queue() of both, then Thread::start() of one and of the other.
Start(c, t) ==
    /\ handler[c] = t
    /\ thread' = [thread EXCEPT ![c][t] = IF t = "sender" THEN "started" ELSE "running"]
    /\ keep_running' = [keep_running EXCEPT ![c] = @ \cup {t}]
    /\ HandlerGoto(c, IF t = "receiver" THEN "sender" ELSE "ended")
    /\ UNCHANGED <<server, acceptorVars, stop_flag, killed, deleted, session, queueVars, matchVars,
                   clientVars>>

HandlerSteps(c) ==
    \/ (SendInformation(c) \/ ReceiveFirstAction(c) \/ AddQueueTo(c)
        \/ SendConfiguration(c) \/ \E t \in Threads : Start(c, t)) /\ UNCHANGED terminated
    \/ EnterMatch(c)

(***************************************************************************)
(* The receiver's and the sender's threads.                                *)
(***************************************************************************)
\* is_alive() of the thread.
Running(c, t) == thread[c][t] \in {"started", "running"}

\* Mutant: the flag the other way round.
GoesOnOnceStopped(c, t) == t \in keep_running[c] /\ stop_flag[c]

GoesOn(c, t) == t \in keep_running[c] /\ ~stop_flag[c]

\* The end of run(), stop() with it, and main()'s _is_alive = false.
EndThread(c, t) ==
    /\ thread' = [thread EXCEPT ![c][t] = "ended"]
    /\ stop_flag' = [stop_flag EXCEPT ![c] = TRUE]
    /\ keep_running' = [keep_running EXCEPT ![c] = @ \ {t}]
    /\ closed' = IF t = "sender" THEN [closed EXCEPT ![c] = TRUE] ELSE closed

\* The loop's condition, before the first action and after each.
LoopOn(c, t) ==
    IF GoesOn(c, t)
    THEN /\ thread' = [thread EXCEPT ![c][t] = "running"]
         /\ UNCHANGED <<stop_flag, keep_running, closed>>
    ELSE EndThread(c, t)

Session(c) ==
    UNCHANGED <<server, acceptorVars, handler, killed, deleted, session, matchVars,
                client, wire, listed>>

\* The start of run(): a sender whose session is over by now sends nothing.
Begin(c) ==
    /\ thread[c]["sender"] = "started"
    /\ LoopOn(c, "sender")
    /\ UNCHANGED <<send_queue, got>> /\ Session(c)

\* The actions a client may send at any time go to the match's queue, which is
\* never full and never closed; what they do is in Match.
Receive(c) ==
    /\ Running(c, "receiver")
    /\ CanFailToReceive(c)
    /\ EndThread(c, "receiver")
    /\ UNCHANGED <<send_queue, got>> /\ Session(c)

\* The loop's condition does not hold any more, at the start of run() or after an
\* action: nobody need send one.
ReceiveNoMore(c) ==
    /\ Running(c, "receiver")
    /\ ~GoesOn(c, "receiver")
    /\ EndThread(c, "receiver")
    /\ UNCHANGED <<send_queue, got>> /\ Session(c)

\* pop() gives the first item also of a closed queue, and throws when there is none.
Send(c) ==
    /\ thread[c]["sender"] = "running"
    /\ \/ /\ send_queue[c] # <<>> /\ CanSend(c)
          /\ Sent(c, Head(send_queue[c]))
          /\ send_queue' = [send_queue EXCEPT ![c] = Tail(@)]
          /\ LoopOn(c, "sender")
       \/ /\ send_queue[c] # <<>> /\ CanFailToSend(c)
          /\ send_queue' = [send_queue EXCEPT ![c] = Tail(@)]
          /\ EndThread(c, "sender") /\ UNCHANGED got
       \/ /\ send_queue[c] = <<>> /\ closed[c]
          /\ EndThread(c, "sender") /\ UNCHANGED <<got, send_queue>>
    /\ Session(c)

(***************************************************************************)
(* A match's thread.                                                       *)
(***************************************************************************)
\* Mutant: a queue that has not been emptied counts as full and is forgotten.
SendUpdateToEmpty(m, kind) ==
    LET to == {c \in client_send_queues[m] : ~closed[c] /\ send_queue[c] = <<>>}
    IN  /\ client_send_queues' = [client_send_queues EXCEPT ![m] = to]
        /\ send_queue' = [c \in Clients |-> IF c \in to THEN Append(send_queue[c], kind)
                                           ELSE send_queue[c]]
        /\ UNCHANGED closed

\* send_update(): a queue that is closed is forgotten.  Of all that a match sends,
\* the initial snapshot and the END stand here for what lies between.
SendUpdate(m, kind) ==
    LET to == {c \in client_send_queues[m] : ~closed[c]}
    IN  /\ client_send_queues' = [client_send_queues EXCEPT ![m] = to]
        /\ send_queue' = [c \in Clients |-> IF c \in to THEN Append(send_queue[c], kind)
                                           ELSE send_queue[c]]
        /\ UNCHANGED closed

\* All places are taken, or START came when there was somebody on each side.  Of
\* those who entered some found no place or have quit; sides are not told apart: of
\* two players there may be one on each.
is_ready_to_start(m) ==
    \E there \in SUBSET {c \in Clients : session[c] = m} :
      Cardinality(there) = Places[m] \/ Cardinality(there) >= 2

MatchStarts(m) ==
    /\ match[m] = "lobby"
    /\ is_ready_to_start(m) \/ ~match_keeps[m]
    /\ SendUpdate(m, "INITIAL")
    /\ match' = [match EXCEPT ![m] = "playing"]

MatchEnds(m) ==
    /\ match[m] = "playing"
    /\ SendUpdate(m, "END")
    /\ match' = [match EXCEPT ![m] = "ended"]

MatchOnly ==
    UNCHANGED <<server, terminated, acceptorVars, sessionVars, monitor, matches, match_keeps,
                late, clientVars>>

MatchStep(m) ==
    /\ MatchStarts(m) \/ MatchEnds(m)
    /\ MatchOnly

\* Once stopped, every loop of the match ends (StopEnds in Match).
MatchStopping(m) == ~match_keeps[m] /\ (MatchStarts(m) \/ MatchEnds(m)) /\ MatchOnly

(***************************************************************************)
(* The acceptor's thread.                                                  *)
(***************************************************************************)
Goto(at) == acceptor' = at

Victim == Min(pending)

\* Mutant: a handler that has finished with the lobby counts as dead.
IsAliveByFlag(c) == ~stop_flag[c]

IsAlive(c) == handler[c] # "ended" \/ ~stop_flag[c]

Joinable(c, t) == Running(c, t) \/ thread[c][t] = "ended"

\* The ids are given in order.
Accept(c) ==
    /\ acceptor = "accept" /\ server = "serving"
    /\ client[c] = "away" /\ \A b \in 1 .. c - 1 : client[b] # "away"
    /\ client' = [client EXCEPT ![c] = "open"]
    /\ HandlerGoto(c, "information")
    /\ client_handlers_list' = client_handlers_list \cup {c}
    /\ pending' = client_handlers_list'
    /\ Goto("pass")
    /\ UNCHANGED <<mode, terminated, thread, keep_running, stop_flag, killed, deleted, session, closed,
                   matchVars>>

\* accept() throws once the listener is closed, and the loop ends.
StopAccepting ==
    /\ acceptor = "accept" /\ server # "serving"
    /\ mode' = "clear" /\ pending' = client_handlers_list
    /\ Goto("pass")
    /\ UNCHANGED <<client_handlers_list, terminated, sessionVars, closed, matchVars>>

\* The next handler of reap() or clear().
LookAt ==
    /\ acceptor = "pass" /\ pending # {}
    /\ IF mode = "reap" /\ IsAlive(Victim)
       THEN pending' = pending \ {Victim} /\ UNCHANGED acceptor
       ELSE Goto("kill") /\ UNCHANGED pending
    /\ UNCHANGED <<mode, client_handlers_list, terminated, sessionVars, closed, matchVars>>

PassIsOver(m) == acceptor = "pass" /\ pending = {} /\ mode = m

\* hard_kill() up to the joins.
HardKill(c, kills, closes, found) ==
    /\ acceptor = "kill"
    /\ killed' = [killed EXCEPT ![c] = kills]
    /\ IF found
       THEN /\ keep_running' = [keep_running EXCEPT ![c] = {}]
            /\ closed' = [closed EXCEPT ![c] = closes]
            /\ Goto("join_threads")
       ELSE Goto("join_handler") /\ UNCHANGED <<keep_running, closed>>
    /\ UNCHANGED <<pending, mode, client_handlers_list, terminated, handler, thread, stop_flag,
                   deleted, session, matchVars>>

SeemsStarted(c) == stop_flag[c] \/ \E t \in Threads : Running(c, t)

\* Mutant: the socket is left open.
KillThreadsOnly == HardKill(Victim, FALSE, TRUE, SeemsStarted(Victim))

\* Mutant: the queue is left open.
KillQueueOpen == HardKill(Victim, TRUE, FALSE, SeemsStarted(Victim))

\* Mutant: stop_flag is not looked at.
KillRunning == HardKill(Victim, TRUE, TRUE, \E t \in Threads : Running(Victim, t))

\* protocol.kill(); then, if the threads seem to be there, receiver.stop() and
\* sender.stop(), which closes the queue.
Kill == HardKill(Victim, TRUE, TRUE, SeemsStarted(Victim))

\* receiver.join(), then sender.join().  join() of a std::thread that was never made
\* throws: out of reap() into the loop of run(), out of clear() to the thread's end.
JoinThreads ==
    LET found == {t \in Threads : Joinable(Victim, t)}
    IN  /\ acceptor = "join_threads"
        /\ \A t \in found : thread[Victim][t] = "ended"
        /\ thread' = [thread EXCEPT ![Victim] =
              [t \in Threads |-> IF t \in found THEN "joined" ELSE @[t]]]
        /\ IF found = Threads
           THEN Goto("join_handler") /\ UNCHANGED pending
           ELSE Goto(IF mode = "reap" THEN "accept" ELSE "ended") /\ pending' = {}
        /\ UNCHANGED <<mode, client_handlers_list, terminated, handler, keep_running, stop_flag,
                       killed, deleted, session, closed, matchVars>>

\* Mutant: the pass goes on with the handler that has just been deleted.
JoinAndDeleteAgain ==
    /\ acceptor = "join_handler"
    /\ handler[Victim] = "ended"
    /\ terminated' = \E t \in Threads : Joinable(Victim, t)
    /\ deleted' = deleted \cup {Victim}
    /\ client_handlers_list' = client_handlers_list \ {Victim}
    /\ Goto("pass")
    /\ UNCHANGED <<pending, mode, handler, thread, keep_running, stop_flag, killed, session, closed,
                   matchVars>>

\* The handler's thread is joined and the handler deleted, its threads with it.
JoinAndDelete ==
    /\ acceptor = "join_handler"
    /\ handler[Victim] = "ended"
    /\ terminated' = \E t \in Threads : Joinable(Victim, t)
    /\ deleted' = deleted \cup {Victim}
    /\ client_handlers_list' = client_handlers_list \ {Victim}
    /\ pending' = pending \ {Victim}
    /\ Goto("pass")
    /\ UNCHANGED <<mode, handler, thread, keep_running, stop_flag, killed, session, closed,
                   matchVars>>

\* MatchesMonitor::reap().
ReapMatches ==
    LET over == {n \in Names : matches[n] # 0 /\ match[matches[n]] = "ended"}
    IN  /\ PassIsOver("reap") /\ monitor = Nobody
        /\ match' = [m \in Matches |-> IF \E n \in over : matches[n] = m THEN "joined" ELSE match[m]]
        /\ matches' = [n \in Names |-> IF n \in over THEN 0 ELSE matches[n]]
        /\ Goto("accept")
        /\ UNCHANGED <<pending, mode, client_handlers_list, terminated, sessionVars, closed,
                       monitor, match_keeps, client_send_queues, late>>

\* MatchesMonitor::clear(): each match is stopped and its thread joined.
ClearMatches(n) ==
    /\ PassIsOver("clear") /\ monitor = Nobody
    /\ matches[n] # 0
    /\ IF match_keeps[matches[n]]
       THEN match_keeps' = [match_keeps EXCEPT ![matches[n]] = FALSE] /\ UNCHANGED <<match, matches>>
       ELSE /\ match[matches[n]] = "ended"
            /\ match' = [match EXCEPT ![matches[n]] = "joined"]
            /\ matches' = [matches EXCEPT ![n] = 0]
            /\ UNCHANGED match_keeps
    /\ UNCHANGED <<acceptorVars, terminated, sessionVars, closed, monitor,
                   client_send_queues, late>>

AllCleared ==
    /\ PassIsOver("clear") /\ \A n \in Names : matches[n] = 0
    /\ Goto("ended")
    /\ UNCHANGED <<pending, mode, client_handlers_list, terminated, sessionVars, closed, matchVars>>

AcceptorStep ==
    /\ \/ StopAccepting
       \/ LookAt
       \/ Kill
       \/ JoinThreads
       \/ JoinAndDelete
       \/ ReapMatches
       \/ \E n \in Names : ClearMatches(n)
       \/ AllCleared
    /\ UNCHANGED <<server, send_queue, clientVars>>

Connection ==
    /\ \E c \in Clients : Accept(c)
    /\ UNCHANGED <<server, send_queue, wire, got, listed>>

(***************************************************************************)
(* The main thread: a 'q' stops the acceptor; at the end the matches that  *)
(* are still in the monitor are destroyed with it.                         *)
(***************************************************************************)
Quit ==
    /\ server = "serving"
    /\ server' = "stopping"
    /\ UNCHANGED terminated

Exit ==
    /\ server = "stopping" /\ acceptor = "ended"
    /\ server' = "exited"
    /\ terminated' = \E n \in Names : matches[n] # 0

MainStep ==
    /\ Quit \/ Exit
    /\ UNCHANGED <<acceptorVars, sessionVars, queueVars, matchVars, clientVars>>

SessionSteps(c) ==
    /\ Begin(c) \/ Receive(c) \/ Send(c)
    /\ UNCHANGED terminated

LastAction(c) == ReceiveNoMore(c) /\ UNCHANGED terminated

ClientSteps(c) ==
    /\ Choose(c) \/ Leave(c)
    /\ UNCHANGED terminated

Live == ~terminated /\ server # "exited"

Next ==
    /\ Live
    /\ \/ MainStep
       \/ Connection
       \/ AcceptorStep
       \/ \E m \in Matches : MatchStep(m)
       \/ \E c \in Clients : ClientSteps(c) \/ HandlerSteps(c) \/ SessionSteps(c)
                            \/ LastAction(c)

\* What the threads of the server do when they can; a match only once it is stopped.
ServerStep ==
    \/ AcceptorStep
    \/ Exit /\ MainStep
    \/ \E c \in Clients : HandlerSteps(c) \/ SessionSteps(c)
    \/ \E m \in Matches : MatchStopping(m)

\* The scheduler never leaves all the threads that can run waiting for ever.  Nothing
\* is assumed of the clients, of the 'q', or of a match that has not been stopped.
Spec == Init /\ [][Next]_vars /\ WF_vars(Live /\ ServerStep)

(***************************************************************************)
(* Properties.                                                             *)
(***************************************************************************)
\* reap() joins only threads that have been started and not joined before: the
\* handler of a session whose receiver is already over may still be about to start
\* the sender.
ReapFindsThreads ==
    (mode = "reap" /\ acceptor = "join_threads") => \A t \in Threads : Joinable(Victim, t)

\* A match whose thread nobody can join any more.
Orphan(m) == match[m] \notin {"none", "joined"} /\ \A n \in Names : matches[n] # m

\* While it serves, no interleaving of sessions that come, fail and go destroys a
\* thread that has not been joined, unless a match takes the name of another.
SurvivesServing == terminated => server # "serving" \/ \E m \in Matches : Orphan(m)

\* As long as a sender may send, its queue is one of those its match fills.
StillRegistered ==
    \A c \in Clients :
      (Running(c, "sender") /\ ~closed[c]) => c \in client_send_queues[session[c]]

\* A session that is over when a pass of reap() begins is deleted in that pass,
\* with its threads: none of the joins blocks the acceptor.
Reaped ==
    \A c \in Clients :
      (acceptor = "pass" /\ mode = "reap" /\ c \in pending /\ ~IsAlive(c))
        ~> (c \in deleted \/ terminated)

\* After the 'q' every thread is brought to its end, whatever each was blocked in.
ShutdownEnds == (server = "stopping") ~> (server = "exited" \/ terminated)

\* "Al finalizar la partida, se envía [...] un mensaje de finalización, dando cierre a
\* la sesión" (doc/documentacion_tecnica.md:121): when a match is over, END comes to
\* everybody who entered it, whatever point his session has reached, unless he leaves
\* or the server is stopped.  It comes to all but those whose queue is registered
\* after it was sent, which join_match() does not see: they never get one, and their
\* session stays open.
EndReachesClients ==
    /\ \A c \in Clients :
         (session[c] # 0 /\ match[session[c]] = "ended")
           ~> (Heard(c, "END") \/ c \in late
                 \/ client[c] = "gone" \/ server # "serving" \/ terminated)
    /\ [](\A c \in late : ~Heard(c, "END"))

\* "Si todavía no se iniciaron los hilos" (src/server/client_handler.cpp): when
\* hard_kill() finds the flags down, there is no thread to stop and to join.
NotYetStarted ==
    acceptor = "join_handler" => \A t \in Threads : thread[Victim][t] \in {"unstarted", "joined"}

=============================================================================
