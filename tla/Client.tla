-------------------------------- MODULE Client --------------------------------
(***************************************************************************)
(* A client from its first window to its last join (src/client/client.cpp, *)
(* client_sender.cpp, client_receiver.cpp, graphics/input_handler.cpp):    *)
(* the main thread, which shows the forms and then the match, and the two  *)
(* threads at its socket with their queues.                                *)
(*                                                                         *)
(* The server is the environment: the order of its messages is that of     *)
(* Match (opening snapshot, then shop, snapshots and statistics of each    *)
(* round, the message and END), and the connection may be closed or reset  *)
(* at any moment.  What a snapshot holds is settled when match_loop()      *)
(* takes it, as nobody looks at it before: any of the other players and    *)
(* any bombs; the local player until he is killed, leaves or is not let    *)
(* in, and again from the next shop.  Nor does anybody look at an action   *)
(* again, but for QUIT.  The bytes on the way are in Link.                 *)
(***************************************************************************)
EXTENDS Forms, GameView, Sequences, SequencesExt

CONSTANTS
    MaxInFlight,    \* bound: messages sent to the client and not yet looked at
    MaxActions      \* bound: actions on their way to the server

ASSUME ClientAssumption == MaxInFlight \in Nat /\ MaxActions \in Nat

VARIABLES
    pc,             \* what the main thread is at
    stop_flag, actions,
    last,           \* history: the last message match_loop() took
    held,           \* history: if it is a snapshot of this frame, what it held
    local_player,   \* history: the local player in the snapshots since a shop
    missed,         \* history: the first of them, the last time, came without him
    send_queue, send_closed, recv_queue,
    sender, receiver, keep_running, sending,
    killed,         \* protocol.kill() was called
    connection,     \* "none", "up", "closed" or "reset" by the server
    wire,           \* messages on their way to the client
    phase           \* what the server sends next

historyVars == <<last, held, local_player, missed>>
mainVars == <<pc, stop_flag, actions, historyVars>>
threadVars == <<sender, receiver, keep_running, sending>>
queueVars == <<send_queue, send_closed, recv_queue>>
netVars == <<killed, connection, wire>>
vars == <<formVars, viewVars, mainVars, threadVars, queueVars, phase, netVars>>

Before == {"prelobby", "connect", "information", "lobby", "send", "configuration",
           "start_sender", "start_receiver"}
Frame == {"poll", "drain", "render"}
After == {"kill", "stop_sender", "close_queue", "stop_receiver", "join_sender",
          "join_receiver", "done"}
Process == Before \cup Frame \cup After \cup {"crashed"}

UnknownAction == [type |-> UNKNOWN]
\* Mutant: every snapshot holds the obstacles.
SnapshotOfAll(static) == [type |-> "UPDATE", static |-> TRUE]

Snapshot(static) == [type |-> "UPDATE", static |-> static]

\* What a snapshot may hold.
Contents(static) ==
    {update \in [players : SUBSET Ids, bombs : Bombs, static : {static}] :
        local_id \in update.players => local_player # "gone"}

TypeOK ==
    /\ FormsTypeOK /\ ViewTypeOK
    /\ pc \in Process
    /\ stop_flag \in BOOLEAN
    /\ Range(actions \o send_queue \o sending) \subseteq {"ACTION", "QUIT"}
    /\ Len(sending) <= 1 /\ send_closed \in BOOLEAN /\ killed \in BOOLEAN
    /\ sender \in {"none", "pop", "send", "ended"}
    /\ receiver \in {"none", "receive", "ended"}
    /\ keep_running \subseteq {"sender", "receiver"}
    /\ connection \in {"none", "up", "closed", "reset"}
    /\ phase \in {"handshake", "answer", "initial", "shop", "opening", "game", "stats",
                  "message", "end", "over"}
    /\ local_player \in {"expected", "held", "gone"} /\ missed \in BOOLEAN

Init ==
    /\ FormsInit /\ ViewInit
    /\ pc = "prelobby" /\ stop_flag = FALSE /\ actions = <<>>
    /\ last = UnknownAction /\ held = {} /\ local_player = "expected" /\ missed = FALSE
    /\ send_queue = <<>> /\ send_closed = FALSE /\ recv_queue = <<>>
    /\ sender = "none" /\ receiver = "none" /\ sending = <<>>
    /\ keep_running = {"sender", "receiver"}
    /\ killed = FALSE /\ connection = "none" /\ wire = <<>>
    /\ phase = "handshake"

(***************************************************************************)
(* The server.                                                             *)
(***************************************************************************)
\* What the server does after kill() changes nothing here, and what it does while
\* the form is filled in is seen when it is sent.
ServerStep ==
    /\ connection = "up" /\ ~killed /\ pc \notin {"lobby", "done", "crashed"}
    /\ UNCHANGED <<formVars, viewVars, mainVars, threadVars, queueVars, killed>>

SendToClient(message) ==
    /\ Len(wire) + Len(recv_queue) < MaxInFlight
    /\ wire' = Append(wire, message) /\ UNCHANGED connection

SendInformation ==
    /\ phase = "handshake" /\ ServerStep
    /\ SendToClient([type |-> "INFORMATION"])
    /\ phase' = "answer"

\* The client's request was accepted: it created the match or joined it before it
\* started, or it joined a match that is at any later point.
SendConfiguration ==
    /\ phase = "answer" /\ pc = "configuration" /\ ServerStep
    /\ SendToClient([type |-> "CONFIGURATION"])
    /\ phase' \in {"initial", "shop", "opening", "stats", "message"}

SendInitialSnapshot ==
    /\ phase = "initial" /\ ServerStep
    /\ SendToClient(Snapshot(TRUE))
    /\ phase' \in {"shop", "message"}

SendShop ==
    /\ phase = "shop" /\ ServerStep
    /\ SendToClient([type |-> "SHOP"])
    /\ phase' = "opening"

SendSnapshot ==
    /\ phase \in {"opening", "game"} /\ ServerStep
    /\ SendToClient(Snapshot(FALSE))
    /\ phase' \in {"game", "stats"} /\ (phase = "opening" => phase' = "game")

SendStats ==
    /\ phase = "stats" /\ ServerStep
    /\ SendToClient([type |-> "STATS"])
    /\ phase' \in {"shop", "message"}

SendMessage ==
    /\ phase = "message" /\ ServerStep
    /\ SendToClient([type |-> "MESSAGE"])
    /\ phase' = "end"

SendEnd ==
    /\ phase = "end" /\ ServerStep
    /\ SendToClient([type |-> "END"])
    /\ phase' = "over"

\* The server closes the connection; what it sent before still arrives.
Disconnect ==
    /\ ServerStep
    /\ connection' = "closed" /\ UNCHANGED wire /\ phase' = "over"

\* It closes with actions it has not read, or the network fails: what was on its
\* way is lost and recv() throws.
Reset ==
    /\ ServerStep
    /\ connection' = "reset" /\ wire' = <<>> /\ phase' = "over"

Environment ==
    \/ SendInformation \/ SendConfiguration \/ SendInitialSnapshot \/ SendShop \/ SendSnapshot
    \/ SendStats \/ SendMessage \/ SendEnd \/ Disconnect \/ Reset

(***************************************************************************)
(* The main thread up to the match.                                        *)
(***************************************************************************)
UserStep == UNCHANGED <<viewVars, mainVars, threadVars, queueVars, phase, netVars>>
Steps(from, to) ==
    /\ pc = from /\ pc' = to
    /\ UNCHANGED <<viewVars, stop_flag, actions, historyVars, queueVars, phase>>

UseWindow == pc \in {"prelobby", "lobby"} /\ FormsNext /\ UserStep

\* prelobby() returns; run() returns too if the window was closed.
PrelobbyEnds ==
    /\ window = "none"
    /\ Steps("prelobby", IF info.type = "INIT" THEN "connect" ELSE "done")
    /\ UNCHANGED <<formVars, threadVars, netVars>>

\* The Socket's constructor connects or throws.
Connect ==
    /\ \/ Steps("connect", "information") /\ connection' = "up"
       \/ Steps("connect", "done") /\ UNCHANGED connection
    /\ UNCHANGED <<formVars, threadVars, killed, wire>>

\* receive_and_deserialize_action() gives UNKNOWN, or throws.
ReceivedNothing == wire = <<>> /\ connection \in {"closed", "reset"}

\* Lobby's constructor with the lists received.
OpenLobby ==
    /\ \/ /\ wire # <<>> /\ Head(wire).type = "INFORMATION"
          /\ Steps("information", "lobby")
          /\ wire' = Tail(wire) /\ ShowLobby
       \/ ReceivedNothing /\ Steps("information", "done") /\ UNCHANGED <<formVars, wire>>
    /\ UNCHANGED <<threadVars, killed, connection>>

\* Of the form only what getInfo() returns is looked at again.
LobbyEnds ==
    /\ window = "none" /\ Steps("lobby", "send")
    /\ ui' = EmptyUi /\ info_aux' = EmptyAux /\ UNCHANGED <<window, fields, info>>
    /\ UNCHANGED <<threadVars, netVars>>

\* Without a request there is nothing to send and lobby() gives up; on a closed
\* connection sending fails, now or only when the answer is read.
SendRequest ==
    /\ \/ info.type # UNKNOWN /\ connection # "reset" /\ Steps("send", "configuration")
       \/ (info.type = UNKNOWN \/ connection # "up") /\ Steps("send", "done")
    /\ UNCHANGED <<formVars, threadVars, netVars>>

\* lobby() returns; the GameView is built while nothing is received yet.
ReadConfiguration ==
    /\ \/ /\ wire # <<>> /\ Head(wire).type = "CONFIGURATION"
          /\ Steps("configuration", "start_sender") /\ wire' = Tail(wire)
       \/ ReceivedNothing /\ Steps("configuration", "done") /\ UNCHANGED wire
    /\ info' = NoInfo /\ UNCHANGED <<window, fields, ui, info_aux>>
    /\ UNCHANGED <<threadVars, killed, connection>>

StartSender ==
    /\ Steps("start_sender", "start_receiver") /\ sender' = "pop"
    /\ UNCHANGED <<formVars, receiver, keep_running, sending, netVars>>

StartReceiver ==
    /\ Steps("start_receiver", "poll") /\ receiver' = "receive"
    /\ UNCHANGED <<formVars, sender, keep_running, sending, netVars>>

(***************************************************************************)
(* match_loop(), frame by frame.                                           *)
(***************************************************************************)
LoopStep == UNCHANGED <<formVars, threadVars, send_closed, phase, netVars>>

\* A method of a null view is called: the process is gone, with its threads and
\* what it kept.
Crash ==
    /\ pc' = "crashed" /\ sender' = "ended" /\ receiver' = "ended"
    /\ ViewForgotten /\ last' = UnknownAction /\ held' = {}
    /\ actions' = <<>> /\ send_queue' = <<>> /\ sending' = <<>> /\ recv_queue' = <<>>
    /\ wire' = <<>> /\ phase' = "over"
    /\ UNCHANGED <<formVars, stop_flag, local_player, missed, send_closed, keep_running,
                   killed, connection>>

\* poll_actions(): an event at a time.  A key is an action whatever the match is
\* at; a click only where the player may attack, which the clock and the
\* ammunition decide; the mouse turns a player that is there.
Bounded == Len(actions) + Len(send_queue) + Len(sending) < MaxActions

Poll ==
    /\ pc = "poll" /\ "QUIT" \notin Range(actions)
    /\ \E event \in {"key", "click", "motion", "quit"} :
         /\ event = "click" => round_active /\ HasPlayer
         /\ event = "motion" => player_position
         /\ event # "quit" => Bounded
         /\ actions' = Append(actions, IF event = "quit" THEN "QUIT" ELSE "ACTION")
    /\ UNCHANGED <<viewVars, pc, stop_flag, historyVars, send_queue, recv_queue>> /\ LoopStep

\* can_player_attack() of a player without a view.
ClickCrashes == pc = "poll" /\ "QUIT" \notin Range(actions) /\ AttackCrashes /\ Crash

\* No more events, or QUIT was one: the actions are pushed.
Push ==
    /\ pc = "poll" /\ pc' = "drain"
    /\ send_queue' = send_queue \o actions /\ actions' = <<>>
    /\ stop_flag' = (stop_flag \/ "QUIT" \in Range(actions))
    /\ UNCHANGED <<viewVars, historyVars, recv_queue>> /\ LoopStep

\* What match_loop() does with a message.
Take(message) ==
    /\ show_waiting_lobby' = FALSE
    /\ CASE message.type \in {"END", UNKNOWN} ->
              /\ stop_flag' = TRUE /\ pc' = "render"
              /\ UNCHANGED <<players, obstacles, bomb_view, overlayVars, game_ended, is_alive>>
         [] message.type = "MESSAGE" -> ShowEndBanner /\ UNCHANGED <<stop_flag, pc>>
         [] message.type = "SHOP" -> HandleShopAction /\ UNCHANGED <<stop_flag, pc>>
         [] message.type = "STATS" -> HandleStatsAction /\ UNCHANGED <<stop_flag, pc>>

TakeSnapshot(update) ==
    /\ show_waiting_lobby' = FALSE
    /\ UpdateObjects(update) /\ UNCHANGED <<stop_flag, pc>>
    /\ held' = {update}
    /\ local_player' = IF local_id \in update.players THEN "held" ELSE "gone"
    /\ missed' = IF local_player = "expected" THEN local_id \notin update.players ELSE missed

Taking ==
    /\ pc = "drain" /\ recv_queue # <<>>
    /\ recv_queue' = Tail(recv_queue) /\ last' = Head(recv_queue)
    /\ UNCHANGED <<actions, send_queue>> /\ LoopStep

DrainMessage ==
    /\ Taking /\ Head(recv_queue).type # "UPDATE"
    /\ Take(Head(recv_queue))
    /\ local_player' = IF Head(recv_queue).type = "SHOP" THEN "expected" ELSE local_player
    /\ held' = {} /\ UNCHANGED missed

DrainSnapshot ==
    /\ Taking /\ Head(recv_queue).type = "UPDATE"
    /\ \E update \in Contents(Head(recv_queue).static) :
         ~UpdateCrashes(update.players) /\ TakeSnapshot(update)

DrainNull ==
    /\ pc = "drain" /\ recv_queue # <<>> /\ Head(recv_queue).type = "UPDATE"
    /\ \E update \in Contents(Head(recv_queue).static) : UpdateCrashes(update.players)
    /\ Crash

\* A frame is drawn once the queue is found empty, or after END.
FrameReady == (pc = "drain" /\ recv_queue = <<>>) \/ pc = "render"

RenderFrame ==
    /\ FrameReady /\ ~RenderCrashes /\ Render
    /\ pc' = IF stop_flag THEN "kill" ELSE "poll"
    /\ held' = {} /\ UNCHANGED <<last, local_player, missed>>
    /\ UNCHANGED <<stop_flag, actions, send_queue, recv_queue>> /\ LoopStep

RenderNull == FrameReady /\ RenderCrashes /\ Crash

(***************************************************************************)
(* run() after the loop.                                                   *)
(***************************************************************************)
Remain ==
    UNCHANGED <<formVars, stop_flag, actions, sender, receiver, sending, send_queue, recv_queue,
                phase, connection, wire>>
EndStep(from, to) == pc = from /\ pc' = to /\ UNCHANGED <<viewVars, historyVars>> /\ Remain

\* No frame is drawn after this, and what the view holds is forgotten.
Kill ==
    /\ pc = "kill" /\ pc' = "stop_sender"
    /\ killed' = TRUE
    /\ ViewForgotten /\ Remain
    /\ last' = UnknownAction /\ held' = {} /\ local_player' = "expected" /\ missed' = FALSE
    /\ UNCHANGED <<keep_running, send_closed>>

StopSender ==
    /\ EndStep("stop_sender", "close_queue")
    /\ keep_running' = keep_running \ {"sender"} /\ UNCHANGED <<killed, send_closed>>

\* Mutant: a sender that looks at its flag only.
NeverCloseQueue ==
    EndStep("close_queue", "stop_receiver") /\ UNCHANGED <<send_closed, killed, keep_running>>

CloseQueue ==
    EndStep("close_queue", "stop_receiver") /\ send_closed' = TRUE
    /\ UNCHANGED <<killed, keep_running>>

StopReceiver ==
    /\ EndStep("stop_receiver", "join_sender")
    /\ keep_running' = keep_running \ {"receiver"} /\ UNCHANGED <<killed, send_closed>>
JoinSender ==
    /\ sender = "ended" /\ EndStep("join_sender", "join_receiver")
    /\ UNCHANGED <<killed, keep_running, send_closed>>
JoinReceiver ==
    /\ receiver = "ended" /\ EndStep("join_receiver", "done")
    /\ UNCHANGED <<killed, keep_running, send_closed>>

(***************************************************************************)
(* The sender and the receiver.                                            *)
(***************************************************************************)
ThreadStep == UNCHANGED <<formVars, viewVars, mainVars, send_closed, phase, killed, connection>>

\* while (should_keep_running())
Again(thread, at) == IF thread \in keep_running THEN at ELSE "ended"

\* Queue::pop(): blocks while the queue is empty and open, throws when it is
\* empty and closed.
SenderPops ==
    /\ sender = "pop" /\ (send_queue # <<>> \/ send_closed)
    /\ IF send_queue # <<>>
         THEN sending' = <<Head(send_queue)>> /\ send_queue' = Tail(send_queue) /\ sender' = "send"
         ELSE sender' = "ended" /\ UNCHANGED <<sending, send_queue>>
    /\ UNCHANGED <<receiver, keep_running, recv_queue, wire>> /\ ThreadStep

\* On a dead connection sending returns false, which nobody reads, or throws.
SenderSends ==
    /\ sender = "send" /\ sending' = <<>>
    /\ IF ~killed /\ connection = "up"
         THEN sender' = Again("sender", "pop")
         ELSE sender' \in {Again("sender", "pop"), "ended"}
    /\ UNCHANGED <<receiver, keep_running, send_queue, recv_queue, wire>> /\ ThreadStep

\* Pushes what it receives.
Receive ==
    /\ receiver = "receive" /\ ~killed /\ wire # <<>>
    /\ recv_queue' = Append(recv_queue, Head(wire)) /\ wire' = Tail(wire)
    /\ receiver' = Again("receiver", "receive")
    /\ UNCHANGED <<sender, keep_running, sending, send_queue>> /\ ThreadStep

\* At the end of the stream, and when kill() wakes it, it pushes UNKNOWN, and
\* again each time it is asked: a second one changes nothing and is not kept.
ReceiveUnknown ==
    /\ receiver = "receive" /\ (killed \/ (connection = "closed" /\ wire = <<>>))
    /\ recv_queue' = IF recv_queue # <<>> /\ Last(recv_queue) = UnknownAction
                       THEN recv_queue ELSE Append(recv_queue, UnknownAction)
    /\ receiver' = Again("receiver", "receive")
    /\ UNCHANGED <<sender, keep_running, sending, send_queue, wire>> /\ ThreadStep

\* An exception ends the thread and tells nobody.
ReceiveThrows ==
    /\ receiver = "receive" /\ (killed \/ connection = "reset")
    /\ receiver' = "ended"
    /\ UNCHANGED <<sender, keep_running, sending, send_queue, recv_queue, wire>>
    /\ ThreadStep

Main ==
    \/ PrelobbyEnds \/ Connect \/ OpenLobby \/ LobbyEnds \/ SendRequest \/ ReadConfiguration
    \/ StartSender \/ StartReceiver
    \/ Push \/ DrainMessage \/ DrainSnapshot \/ DrainNull
    \/ RenderFrame \/ RenderNull
    \/ Kill \/ StopSender \/ CloseQueue \/ StopReceiver \/ JoinSender \/ JoinReceiver
Sender == SenderPops \/ SenderSends
Receiver == Receive \/ ReceiveUnknown \/ ReceiveThrows

Next == UseWindow \/ Poll \/ ClickCrashes \/ Main \/ Sender \/ Receiver \/ Environment

\* The three threads run while they can; the user and the server need not do
\* anything.  Snapshots are SNAPSHOT_TIME apart, so match_loop() comes to find its
\* queue empty: a server that filled it as fast as it is drained would keep the
\* loop from its next frame.
Fairness == WF_vars(Main) /\ WF_vars(Sender) /\ WF_vars(Receiver) /\ SF_vars(RenderFrame \/ RenderNull)
Spec == Init /\ [][Next]_vars /\ Fairness

(***************************************************************************)
(* Properties.                                                             *)
(***************************************************************************)
\* players[local_id] is read with operator[] and used without a test in three
\* places, and render() adds the null pointer itself.  The client dies of it, or
\* may with the next frame or click, only if the first snapshot after it joined,
\* or after the last shop it saw, came without the local player: he was killed
\* before it, or not let in.  Deaths seen in a later snapshot, statistics, shops
\* and other players' ids, in whatever order, never bring it about.
NoNullPlayer == pc = "crashed" \/ RenderCrashes \/ (pc = "poll" /\ AttackCrashes) => missed

\* is_alive, the field of view, the bomb's three flags and the two overlays are
\* set and cleared in different messages.  They agree with each message as it is
\* taken, and with the last one at each frame, through deaths, explosions and new
\* rounds.  Two of the code's limits show here: a player goes on being drawn while
\* one with the same low byte is there, and once a bomb was seen ticking one counts
\* as active while any is there.
ShowsLastMessage ==
    pc \in Frame =>
      /\ \A update \in held :
           /\ update.players \subseteq DOMAIN players
           /\ \A i \in DOMAIN players : players[i] = "view" =>
                \E j \in update.players : uint8(i) = uint8(j)
           /\ bomb_view.exploding \/ bomb_view.active \/ bomb_view.dropped => update.bombs.said # {}
           /\ "zero" \in update.bombs.said => bomb_view.exploding
           /\ "ticking" \in update.bombs.said => bomb_view.active
           /\ update.bombs.last # "none" =>
                bomb_view.dropped = (update.bombs.last = "dropped")
      /\ CASE last.type = "UPDATE" ->
                /\ ~missed => is_alive = (local_id \in DOMAIN players)
                /\ fov_view = is_alive
                /\ ~shop_view /\ ~stats_view /\ ~game_ended
           [] last.type = "SHOP" -> shop_view /\ ~stats_view /\ is_alive /\ ~bomb_view.active
           [] last.type = "STATS" -> stats_view /\ ~shop_view
           [] last.type = "MESSAGE" -> game_ended /\ ~stats_view /\ ~shop_view
           [] OTHER -> TRUE

InMatch == pc \in Frame \cup (After \ {"done"})

\* A client in a match ends, with both its threads joined, once its user quits,
\* END arrives or the server closes the connection: neither the sender asleep on
\* its queue nor the receiver asleep in recv() keeps it.  (A connection that is
\* reset is not in the list: the receiver ends and match_loop() goes on.)  One that
\* dies of a null view before that had missed the local player, see NoNullPlayer.
ClientEnds ==
    InMatch /\ (stop_flag \/ [type |-> "END"] \in Range(recv_queue) \/ connection = "closed")
        ~> (pc = "done" \/ (pc = "crashed" /\ missed)) /\ sender = "ended" /\ receiver = "ended"

=============================================================================
