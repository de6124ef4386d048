-------------------------------- MODULE Match --------------------------------
(***************************************************************************)
(* The thread of one match (src/server/match.cpp): waiting lobby, then for *)
(* each round a shopping phase, a game phase made of ticks and a stats     *)
(* phase, then the winner's message.  Beside it run the threads of the     *)
(* client handlers, which add players through MatchesMonitor, and the      *)
(* server's shutdown, which stops the match.                               *)
(*                                                                         *)
(* The thread pops the clients' actions from one queue.  Any client that   *)
(* joined may have any action in it, at any time: also a client the game   *)
(* rejected, one that is dead, and one that has quit.  Actions the popping *)
(* phase ignores, or that change nothing kept here, are not steps.         *)
(***************************************************************************)
EXTENDS Game

VARIABLES
    pc,             \* where the match thread is
    updating,       \* get_objects() has fired the bursts, bullets are moving
    skipped,        \* the last tick sent no snapshot
    round,          \* the loop variable of match_loop()
    keep_running,   \* _keep_running of the thread
    clients,        \* ids that have called join or create
    team,           \* history: the team of each client, by its first side
    late,           \* history: who joined after initialize_stats()
    stand_ins       \* history: who joined a side with dead or too many players

threadVars == <<pc, updating, skipped, round>>
history == <<team, late, stand_ins>>
environment == <<keep_running, clients, history>>
vars == <<gameVars, threadVars, environment>>

\* The calls of get_objects(), each with the place the thread goes to next.
AfterSnapshot ==
    [initial_snapshot |-> "initialize_stats", start_snapshot |-> "start_round",
     tick_snapshot |-> "tick", end_snapshot |-> "end_round"]

Snapshots == DOMAIN AfterSnapshot

Locations == Snapshots \cup
    {"lobby", "lobby_pop", "initialize_stats", "next_round", "shopping",
     "start_round", "tick", "drain", "end_round", "send_stats", "stats",
     "message", "ended"}

TypeOK ==
    /\ GameTypeOK
    /\ pc \in Locations
    /\ updating \in BOOLEAN
    /\ skipped \in BOOLEAN
    /\ round \in Nat
    /\ keep_running \in BOOLEAN
    /\ clients \subseteq Ids
    /\ team \in [Ids -> PlayerType]
    /\ late \subseteq Ids
    /\ stand_ins \subseteq Ids

Init ==
    /\ GameInit
    /\ pc = "lobby"
    /\ updating = FALSE
    /\ skipped = FALSE
    /\ round = 0
    /\ keep_running = TRUE
    /\ clients = {}
    /\ team = [id \in Ids |-> UNKNOWN]
    /\ late = {}
    /\ stand_ins = {}

\* The program has not stopped on an invalid pointer.
Running == fault = "none"

Goto(place) ==
    /\ pc' = place
    /\ UNCHANGED <<updating, skipped, round>>

-----------------------------------------------------------------------------
(* The other threads *)

\* The half at which reset_players() changes sides has gone by.
SidesSwitched ==
    LET half == RoundsTotal \div 2 IN
    /\ half > 0
    /\ \/ round_number > half
       \/ /\ round_number = half
          /\ pc \notin {"tick", "drain", "tick_snapshot", "end_snapshot", "end_round"}

\* Team A starts as terrorists: who joins after the half joins the other team.
TeamOf(side) == IF SidesSwitched THEN OtherSide(side) ELSE side

StatsInitialized ==
    pc \notin {"lobby", "lobby_pop", "initial_snapshot", "initialize_stats"}

\* MatchesMonitor::create_match() and join_match(): nobody asks is_started().
\* add_player() counts the living only.
Join(id, side) ==
    /\ Running
    /\ id \notin clients
    /\ AddPlayer(id, side)
    /\ clients' = clients \cup {id}
    /\ team' = [team EXCEPT ![id] = TeamOf(side)]
    /\ late' = IF StatsInitialized THEN late \cup {id} ELSE late
    /\ stand_ins' = IF \/ \E other \in dead_players : player_type[other] = side
                       \/ Cardinality(Alive(side)) > Capacity(side)
                    THEN stand_ins \cup {id} ELSE stand_ins
    /\ UNCHANGED <<threadVars, keep_running>>

\* MatchesMonitor::clear() on shutdown.
Stop ==
    /\ Running
    /\ keep_running
    /\ keep_running' = FALSE
    /\ UNCHANGED <<gameVars, threadVars, clients, history>>

-----------------------------------------------------------------------------
(* Waiting lobby *)

LobbyCheck ==
    /\ Running
    /\ pc = "lobby"
    /\ Goto(IF ~IsReadyToStart /\ keep_running THEN "lobby_pop"
            ELSE "initial_snapshot")
    /\ UNCHANGED <<gameVars, environment>>

\* do_start_action(); START is not checked against the map of players.
LobbyPop ==
    /\ Running
    /\ pc = "lobby_pop"
    /\ \/ UNCHANGED gameVars
       \/ clients # {} /\ SetReadyToStart
       \/ \E id \in clients : Quit(id)
    /\ Goto("lobby")
    /\ UNCHANGED environment

StartMatch ==
    /\ Running
    /\ pc = "initialize_stats"
    /\ InitializeStats
    /\ round' = 1
    /\ pc' = "next_round"
    /\ UNCHANGED <<updating, skipped, environment>>

-----------------------------------------------------------------------------
(* Snapshots: Game::get_objects() and the sending of its result *)

SnapshotBegin ==
    /\ Running
    /\ pc \in Snapshots
    /\ ~updating
    /\ UpdateBursts
    /\ updating' = TRUE
    /\ UNCHANGED <<pc, skipped, round, environment>>

SnapshotKill(shooter, victim) ==
    /\ Running
    /\ pc \in Snapshots
    /\ updating
    /\ BulletKills(shooter, victim)
    /\ UNCHANGED <<threadVars, environment>>

SnapshotEnd ==
    /\ Running
    /\ pc \in Snapshots
    /\ updating
    /\ FinishObjects
    /\ updating' = FALSE
    /\ pc' = AfterSnapshot[pc]
    /\ UNCHANGED <<skipped, round, environment>>

-----------------------------------------------------------------------------
(* The conditions of the loops: should_keep_running() && !game.is_over().  *)
(* is_over() records the winner, and is not called once the match stops.   *)

\* Mutant: the loops look at the game only.
GoesOnUntilOver == ~IsOver

GoesOn == keep_running /\ ~IsOver

CheckIsOver ==
    /\ last_winner' = IF keep_running /\ IsOver THEN Winner ELSE last_winner
    /\ UNCHANGED <<roster, bombs, shots, winner_cheat, ready_to_start,
                   round_number, entries, team_a_wins, team_b_wins, fault>>

\* Mutant: an off-by-one in the loop over the rounds.
NextRoundOneMore ==
    /\ Running
    /\ pc = "next_round"
    /\ IF round <= RoundsTotal + 1
       THEN /\ CheckIsOver
            /\ Goto(IF GoesOn THEN "shopping" ELSE "message")
       ELSE /\ UNCHANGED gameVars
            /\ Goto("message")
    /\ UNCHANGED environment

NextRound ==
    /\ Running
    /\ pc = "next_round"
    /\ IF round <= RoundsTotal
       THEN /\ CheckIsOver
            /\ Goto(IF GoesOn THEN "shopping" ELSE "message")
       ELSE /\ UNCHANGED gameVars
            /\ Goto("message")
    /\ UNCHANGED environment

\* What a player buys is not kept here; a client may quit.
ShoppingPop ==
    /\ Running
    /\ pc = "shopping"
    /\ GoesOn
    /\ \E id \in clients : Quit(id)
    /\ UNCHANGED <<threadVars, environment>>

ShoppingEnd ==
    /\ Running
    /\ pc = "shopping"
    /\ CheckIsOver
    /\ Goto("start_snapshot")
    /\ UNCHANGED environment

-----------------------------------------------------------------------------
(* Game phase *)

GameStart ==
    /\ Running
    /\ pc = "start_round"
    /\ StartRound
    /\ pc' = "tick"
    /\ skipped' = FALSE
    /\ UNCHANGED <<updating, round, environment>>

Tick ==
    /\ Running
    /\ pc = "tick"
    /\ CheckIsOver
    /\ Goto(IF GoesOn THEN "drain" ELSE "end_snapshot")
    /\ UNCHANGED environment

DoAction(id) ==
    \/ Move(id)
    \/ Shoot(id)
    \/ InteractWithBomb(id)
    \/ PickUpBomb(id)
    \/ Quit(id)
    \/ DoWinCheat(id)

DrainPop ==
    /\ Running
    /\ pc = "drain"
    /\ GoesOn
    /\ \E id \in clients : DoAction(id)
    /\ UNCHANGED <<threadVars, environment>>

\* The queue is empty, the round is over or the tick's time is.  Every tick
\* takes at least the snapshot interval, so no two in a row skip the snapshot.
DrainEnd ==
    /\ Running
    /\ pc = "drain"
    /\ CheckIsOver
    /\ \/ pc' = "tick_snapshot" /\ skipped' = FALSE
       \/ ~skipped /\ pc' = "tick" /\ skipped' = TRUE
    /\ UNCHANGED <<updating, round, environment>>

GameEnd ==
    /\ Running
    /\ pc = "end_round"
    /\ EndRound
    /\ Goto("send_stats")
    /\ UNCHANGED environment

-----------------------------------------------------------------------------
(* Stats phase and the end of the match *)

\* The senders' serialize_and_send_stats() looks up in stats.deaths and in
\* stats.money every id of stats.kills.
SendStats ==
    /\ Running
    /\ pc = "send_stats"
    /\ fault' \in IF kills \subseteq deaths \cap money THEN {fault}
                  ELSE {fault, "deaths_not_found"}
    /\ Goto("stats")
    /\ UNCHANGED <<roster, bombs, shots, winner_cheat, ready_to_start,
                   round_number, entries, score, environment>>

StatsPop ==
    /\ Running
    /\ pc = "stats"
    /\ keep_running
    /\ \E id \in clients : Quit(id)
    /\ UNCHANGED <<threadVars, environment>>

StatsEnd ==
    /\ Running
    /\ pc = "stats"
    /\ round' = round + 1
    /\ pc' = "next_round"
    /\ UNCHANGED <<gameVars, updating, skipped, environment>>

Message ==
    /\ Running
    /\ pc = "message"
    /\ Goto("ended")
    /\ UNCHANGED <<gameVars, environment>>

-----------------------------------------------------------------------------

\* Steps the thread takes without anything to pop.
Advance ==
    \/ LobbyCheck
    \/ LobbyPop
    \/ StartMatch
    \/ SnapshotBegin
    \/ SnapshotEnd
    \/ NextRound
    \/ ShoppingEnd
    \/ GameStart
    \/ Tick
    \/ DrainEnd
    \/ GameEnd
    \/ SendStats
    \/ StatsEnd
    \/ Message

Next ==
    \/ Advance
    \/ \E shooter, victim \in Ids : SnapshotKill(shooter, victim)
    \/ ShoppingPop
    \/ DrainPop
    \/ StatsPop
    \/ \E id \in Ids, side \in Sides : Join(id, side)
    \/ Stop

Spec == Init /\ [][Next]_vars

\* The operating system schedules the thread, and every loop that pops is
\* bounded by a timer or by the length of a tick.
FairSpec == Spec /\ WF_vars(Advance)

-----------------------------------------------------------------------------
(* Safety *)

\* A player is alive or dead but not both, and only a living one carries the
\* bomb: damage_player(), quit() and reset_players() keep the two maps and
\* has_bomb in step through deaths, quits and revivals.
LifeLedger ==
    /\ players \cap dead_players = {}
    /\ has_bomb \subseteq players

\* What end_round_game_phase() leaves behind, until the next game phase: no
\* dead, no bullets, no bomb on the floor, no explosion and no cheat.  Its
\* comment promises deactivated=false too; reset_bomb() leaves it set when
\* another bomb is on the floor.  That needs the second bomb of a later round,
\* and then is_over() lets no other round begin.
BetweenRounds == pc \in {"send_stats", "stats", "next_round", "shopping"}

RoundStartsClean ==
    BetweenRounds =>
        /\ dead_players = {}
        /\ bullets = {}
        /\ ~bomb
        /\ ~exploded
        /\ winner_cheat = UNKNOWN
        /\ deactivated => round_number > 1 /\ pc # "shopping"

\* reset_bomb() clears exploded only when there is a bomb to delete: nobody
\* takes or deactivates one between the snapshot that explodes it and the end
\* of the round.
ExplodedHasBomb == exploded => bomb

\* The manual: there is only one bomb per match (manual_de_usuario.md:47).  A
\* player has it or it is on the floor.  start_round_game_phase() gives one out
\* each round, and nobody takes back the one a player kept.
OneBomb ==
    /\ \A p, q \in has_bomb : p = q
    /\ bomb => has_bomb = {}
    /\ ~stray_bomb

\* While the first round lasts, a planted bomb that stays on the floor counts
\* down one snapshot at a time: no other bomb replaces it.
FirstRoundCountdown ==
    [][round_number <= 1 /\ BombPlanted /\ bomb'
         => bomb_countdown' \in {bomb_countdown, bomb_countdown - 1}]_vars

\* Everyone, dead players and those who joined late included, plays for the
\* side of his team: its first one, and the other one after the half.
SidesInStep ==
    \A id \in players \cup dead_players :
        /\ team[id] \in Sides
        /\ player_type[id] = TeamOf(team[id])

\* update_stats() gives the round to team A, those who started as terrorists or
\* joined them later, exactly when they are on the winning side.  It takes two rounds at
\* least: of a single one the half is 0, and the code takes it for a second half.
RightTeamCredited ==
    [][\A id \in players \cup dead_players :
          /\ team_a_wins' # team_a_wins
                => (team[id] = TERRORIST <=> player_type[id] = last_winner)
          /\ team_b_wins' # team_b_wins
                => (team[id] = COUNTERTERRORIST <=> player_type[id] = last_winner)]_vars

\* The places of a team: those its creator asked for, and after the change of
\* sides, if there are more of them, those of the side it then plays for.
Places(side) ==
    IF SidesSwitched /\ Capacity(OtherSide(side)) > Capacity(side)
    THEN Capacity(OtherSide(side)) ELSE Capacity(side)

\* A team gets more players, living and dead, than its places in one way only:
\* add_player() counts the living, so that a client takes a dead player's place,
\* and once a side is past its places the == refuses nobody any more.
TeamWithinPlaces ==
    \A side \in Sides :
        Cardinality({id \in players \cup dead_players : team[id] = side} \ stand_ins)
            <= Places(side)

\* serialize_and_send_stats() looks up in stats.deaths and stats.money everyone
\* who has an entry in stats.kills.  The only ones it may not find are those who
\* joined after initialize_stats() and killed before they died.
StatsServable == kills \ (deaths \cap money) \subseteq late

\* handle_bullet_player_collision(): "se le da dinero al jugador que disparo":
\* the one to be paid is always found.
KillerIsFound == fault # "killer_not_found"

-----------------------------------------------------------------------------
(* Liveness *)

Stuck == fault # "none"

\* MatchesMonitor::clear() joins the thread after stopping it: it must end.
StopEnds == ~keep_running ~> pc = "ended" \/ Stuck

\* A planted bomb explodes, is deactivated or is taken, whatever the players do.
BombResolves ==
    BombPlanted ~> ~BombPlanted \/ Stuck

\* A match its players have all left ends, once it has started.
AbandonedEnds ==
    pc \notin {"lobby", "lobby_pop"} /\ players \cup dead_players = {}
        ~> pc = "ended" \/ Stuck \/ players # {}

-----------------------------------------------------------------------------
(* What the match promises to its scoreboard *)

FightPlaces == {"tick", "drain", "tick_snapshot", "end_snapshot", "end_round"}

Phase ==
    CASE pc \in {"lobby", "lobby_pop", "initial_snapshot", "initialize_stats"} -> "waiting"
      [] pc \in {"next_round", "send_stats", "stats"} -> "between"
      [] pc \in {"shopping", "start_snapshot", "start_round"} -> "shopping"
      [] pc \in FightPlaces -> "fighting"
      [] OTHER -> "over"

Played == IF pc \in FightPlaces THEN round_number - 1 ELSE round_number

RoundCycle == INSTANCE RoundCycle
    WITH phase <- Phase, played <- Played, a <- team_a_wins, b <- team_b_wins

\* The match implements the round cycle: rounds are shop, fight, result, at
\* most rounds_total of them, each with at most one point for one team.
ImplementsRoundCycle == RoundCycle!Spec
=============================================================================
