-------------------------------- MODULE Game --------------------------------
(***************************************************************************)
(* The rules of one match, as kept by the class Game (src/common/game.cpp).*)
(*                                                                         *)
(* The module has the state of a Game object and one operator per method   *)
(* that changes it; Match.tla gives the order in which the match thread    *)
(* calls them.  Positions, health, weapons and money amounts are           *)
(* abstracted: whether a player stands near a bomb, in a bomb zone or in   *)
(* the way of a bullet, and whether a hit kills, is chosen freely.  What   *)
(* is kept is who is alive, on which side, who carries the bomb, the bomb  *)
(* and its countdown, whose bullets are in flight, and the score.          *)
(***************************************************************************)
EXTENDS Integers, FiniteSets

CONSTANTS
    Ids,                       \* the ids the acceptor gives to clients
    number_terrorist,          \* places on each side, chosen by the creator
    number_counterterrorist,
    RoundsTotal,               \* rounds_total of config.yaml
    BombCountdown              \* BOMB_COUNTDOWN, in snapshots

TERRORIST == "TERRORIST"
COUNTERTERRORIST == "COUNTERTERRORIST"
UNKNOWN == "UNKNOWN"

Sides == {TERRORIST, COUNTERTERRORIST}
PlayerType == Sides \cup {UNKNOWN}

\* What the C++ program does with an invalid iterator or pointer is undefined;
\* each place where the code can use one has a name here.
Faults == {"none", "killer_not_found", "null_bomb", "deaths_not_found"}

ASSUME GameAssumption ==
    /\ IsFiniteSet(Ids)
    /\ number_terrorist \in Nat
    /\ number_counterterrorist \in Nat
    /\ RoundsTotal \in Nat
    /\ BombCountdown \in Nat \ {0}

VARIABLES
    players,            \* ids in the map of living players
    dead_players,       \* ids in the map of dead players
    player_type,        \* side of each Player object, UNKNOWN without one
    has_bomb,           \* ids whose Player has has_bomb set
    bomb,               \* the shared pointer to the bomb on the floor is set
    bomb_countdown,     \* its countdown, -1 when it is not planted
    stray_bomb,         \* the matrix holds a Bomb the pointer lost track of
    exploded,
    deactivated,
    bullets,            \* shooters of the bullets in flight
    ak47_bursts,        \* shooters of the bursts not yet finished
    winner_cheat,
    ready_to_start,     \* _is_ready_to_start
    round_number,
    kills, deaths,      \* ids that have an entry in stats.kills, stats.deaths
    money,              \* and in stats.money
    last_winner,
    team_a_wins, team_b_wins,
    fault               \* the undefined behaviour met, "none" so far

roster == <<players, dead_players, player_type, has_bomb>>
bombs == <<bomb, bomb_countdown, stray_bomb, exploded, deactivated>>
shots == <<bullets, ak47_bursts>>
entries == <<kills, deaths, money>>
score == <<last_winner, team_a_wins, team_b_wins>>

gameVars == <<roster, bombs, shots, winner_cheat, ready_to_start, round_number,
              entries, score, fault>>

GameTypeOK ==
    /\ players \subseteq Ids
    /\ dead_players \subseteq Ids
    /\ player_type \in [Ids -> PlayerType]
    /\ has_bomb \subseteq Ids
    /\ bomb \in BOOLEAN
    /\ bomb_countdown \in -1 .. BombCountdown
    /\ stray_bomb \in BOOLEAN
    /\ exploded \in BOOLEAN
    /\ deactivated \in BOOLEAN
    /\ bullets \subseteq Ids
    /\ ak47_bursts \subseteq Ids
    /\ winner_cheat \in PlayerType
    /\ ready_to_start \in BOOLEAN
    /\ round_number \in Nat
    /\ kills \subseteq Ids
    /\ deaths \subseteq Ids
    /\ money \subseteq Ids
    /\ last_winner \in PlayerType
    /\ team_a_wins \in Nat
    /\ team_b_wins \in Nat
    /\ fault \in Faults

GameInit ==
    /\ players = {}
    /\ dead_players = {}
    /\ player_type = [id \in Ids |-> UNKNOWN]
    /\ has_bomb = {}
    /\ bomb = FALSE
    /\ bomb_countdown = -1
    /\ stray_bomb = FALSE
    /\ exploded = FALSE
    /\ deactivated = FALSE
    /\ bullets = {}
    /\ ak47_bursts = {}
    /\ winner_cheat = UNKNOWN
    /\ ready_to_start = FALSE
    /\ round_number = 0
    /\ kills = {}
    /\ deaths = {}
    /\ money = {}
    /\ last_winner = UNKNOWN
    /\ team_a_wins = 0
    /\ team_b_wins = 0
    /\ fault = "none"

-----------------------------------------------------------------------------
(* Who is alive, and when a round is over *)

Alive(side) == {id \in players : player_type[id] = side}

Capacity(side) ==
    IF side = TERRORIST THEN number_terrorist ELSE number_counterterrorist

IsReadyToStart ==
    \/ ready_to_start
    \/ \A side \in Sides : Cardinality(Alive(side)) = Capacity(side)

IsActive == bomb_countdown > 0

BombPlanted == bomb /\ IsActive

TerroristsOut == Alive(TERRORIST) = {} /\ ~BombPlanted

\* Mutant: the explosion of the bomb does not end the round.
IsOverButExploded ==
    \/ deactivated
    \/ winner_cheat # UNKNOWN
    \/ Alive(COUNTERTERRORIST) = {}
    \/ TerroristsOut

\* Mutant: one side has to be there for the other one to be beaten.
IsOverIfWon ==
    \/ exploded
    \/ deactivated
    \/ winner_cheat # UNKNOWN
    \/ Alive(COUNTERTERRORIST) = {} /\ Alive(TERRORIST) # {}
    \/ TerroristsOut /\ Alive(COUNTERTERRORIST) # {}

IsOver ==
    \/ exploded
    \/ deactivated
    \/ winner_cheat # UNKNOWN
    \/ Alive(COUNTERTERRORIST) = {}
    \/ TerroristsOut

\* The winner is_over() records; it looks at the terrorists' ways to win first.
Winner ==
    IF \/ Alive(COUNTERTERRORIST) = {} /\ Alive(TERRORIST) # {}
       \/ exploded
       \/ winner_cheat = TERRORIST
    THEN TERRORIST
    ELSE IF \/ deactivated
            \/ TerroristsOut
            \/ winner_cheat = COUNTERTERRORIST
         THEN COUNTERTERRORIST
         ELSE UNKNOWN

-----------------------------------------------------------------------------
(* Joining, starting, leaving *)

\* max_player_amount and actual_player_amount are cut to eight bits.
Uint8 == 256

IsFull(side) == Cardinality(Alive(side)) % Uint8 = Capacity(side) % Uint8

\* Mutant: an off-by-one in the comparison with the capacity.
AddPlayerOneMore(id, side) ==
    /\ IF Cardinality(Alive(side)) > Capacity(side)
       THEN UNCHANGED <<players, player_type>>
       ELSE /\ players' = players \cup {id}
            /\ player_type' = [player_type EXCEPT ![id] = side]
    /\ UNCHANGED <<dead_players, has_bomb, bombs, shots, winner_cheat,
                   ready_to_start, round_number, entries, score, fault>>

\* The rejection is silent: the caller is not told.
AddPlayer(id, side) ==
    /\ IF IsFull(side)
       THEN UNCHANGED <<players, player_type>>
       ELSE /\ players' = players \cup {id}
            /\ player_type' = [player_type EXCEPT ![id] = side]
    /\ UNCHANGED <<dead_players, has_bomb, bombs, shots, winner_cheat,
                   ready_to_start, round_number, entries, score, fault>>

SetReadyToStart ==
    /\ ready_to_start' = \A side \in Sides : Alive(side) # {}
    /\ UNCHANGED <<roster, bombs, shots, winner_cheat, round_number, entries,
                   score, fault>>

\* Mutant: stats.deaths gets its entries with the first deaths.
InitializeStatsKillsOnly ==
    /\ kills' = kills \cup players
    /\ money' = money \cup players
    /\ UNCHANGED <<roster, bombs, shots, winner_cheat, ready_to_start,
                   round_number, deaths, score, fault>>

InitializeStats ==
    /\ kills' = kills \cup players
    /\ deaths' = deaths \cup players
    /\ money' = money \cup players
    /\ UNCHANGED <<roster, bombs, shots, winner_cheat, ready_to_start,
                   round_number, score, fault>>

\* The Player object goes, and with it the bomb it may carry.
Quit(id) ==
    /\ players' = players \ {id}
    /\ dead_players' = dead_players \ {id}
    /\ has_bomb' = has_bomb \ {id}
    /\ UNCHANGED <<player_type, bombs, shots, winner_cheat, ready_to_start,
                   round_number, entries, score, fault>>

-----------------------------------------------------------------------------
(* The bomb *)

\* A bomb already on the floor stays in the matrix, without a pointer to it.
CreateBomb(countdown) ==
    /\ stray_bomb' = IF bomb THEN TRUE ELSE stray_bomb
    /\ bomb' = TRUE
    /\ bomb_countdown' = countdown

\* Every Bomb has id 0, so a stray one in the same cell goes too.
DeleteBomb ==
    /\ bomb' = FALSE
    /\ bomb_countdown' = -1
    /\ stray_bomb' = FALSE \/ UNCHANGED stray_bomb

SetBombPlayer ==
    \/ /\ Alive(TERRORIST) = {}
       /\ UNCHANGED has_bomb
    \/ \E id \in Alive(TERRORIST) : has_bomb' = has_bomb \cup {id}

PlantBomb(id) ==
    /\ id \in Alive(TERRORIST) \cap has_bomb
    /\ has_bomb' = has_bomb \ {id}
    /\ CreateBomb(BombCountdown)
    /\ UNCHANGED <<players, dead_players, player_type, exploded, deactivated,
                   shots, winner_cheat, ready_to_start, round_number, entries,
                   score, fault>>

\* Neither the code nor the model asks whether the bomb was planted.
DeactivateBomb(id) ==
    /\ id \in Alive(COUNTERTERRORIST)
    /\ bomb
    /\ DeleteBomb
    /\ deactivated' = TRUE
    /\ UNCHANGED <<roster, exploded, shots, winner_cheat, ready_to_start,
                   round_number, entries, score, fault>>

InteractWithBomb(id) == PlantBomb(id) \/ DeactivateBomb(id)

\* A terrorist next to a Bomb takes it and deletes whatever the pointer has,
\* also when the Bomb is a stray one; a counter-terrorist only loses his own.
PickUpBomb(id) ==
    /\ id \in players
    /\ bomb \/ stray_bomb
    /\ IF player_type[id] = TERRORIST
       THEN /\ has_bomb' = has_bomb \cup {id}
            /\ IF bomb
               THEN DeleteBomb /\ UNCHANGED fault
               ELSE /\ fault' = "null_bomb"
                    /\ UNCHANGED <<bomb, bomb_countdown, stray_bomb>>
       ELSE /\ has_bomb' = has_bomb \ {id}
            /\ UNCHANGED <<bomb, bomb_countdown, stray_bomb, fault>>
    /\ UNCHANGED <<players, dead_players, player_type, exploded, deactivated,
                   shots, winner_cheat, ready_to_start, round_number, entries,
                   score>>

\* Mutant: the countdown stops one short.
CountdownStopsShort ==
    IF bomb
    THEN /\ bomb_countdown' = IF bomb_countdown > 1 THEN bomb_countdown - 1
                              ELSE bomb_countdown
         /\ exploded' = (bomb_countdown = 0)
    ELSE UNCHANGED <<bomb_countdown, exploded>>

\* update_countdown(): the snapshot that takes the countdown to 0 explodes,
\* the next one takes it to -1 and exploded is FALSE again.
UpdateBombCountdown ==
    IF bomb
    THEN /\ bomb_countdown' = IF bomb_countdown >= 0 THEN bomb_countdown - 1
                              ELSE bomb_countdown
         /\ exploded' = (bomb_countdown = 1)
    ELSE UNCHANGED <<bomb_countdown, exploded>>

-----------------------------------------------------------------------------
(* Shooting and dying *)

\* Mutant: the dead player's has_bomb stays set.
DropWeaponsAndKeepBomb(id) ==
    /\ UNCHANGED has_bomb
    /\ IF id \in has_bomb
       THEN CreateBomb(-1)
       ELSE UNCHANGED <<bomb, bomb_countdown, stray_bomb>>

\* Mutant: every death leaves a bomb.
DropWeaponsAlwaysBomb(id) ==
    /\ has_bomb' = has_bomb \ {id}
    /\ CreateBomb(-1)

\* The bomb goes to the first cell around the player without an obstacle.
DropWeapons(id) ==
    /\ has_bomb' = has_bomb \ {id}
    /\ IF id \in has_bomb
       THEN CreateBomb(-1)
       ELSE UNCHANGED <<bomb, bomb_countdown, stray_bomb>>

\* damage_player() when the hit kills: the player drops the bomb he carries
\* and moves to the map of the dead.
Die(victim) ==
    /\ DropWeapons(victim)
    /\ players' = players \ {victim}
    /\ dead_players' = dead_players \cup {victim}
    /\ UNCHANGED <<player_type, exploded, deactivated>>

\* A bullet kills.  The reward is paid through players.find(shooter), which is
\* the end iterator when the shooter is no longer a living player: the program
\* may stop there or go on.
BulletKills(shooter, victim) ==
    /\ shooter \in bullets
    /\ victim \in players
    /\ Die(victim)
    /\ bullets' \in {bullets, bullets \ {shooter}}
    /\ kills' = kills \cup {shooter}
    /\ deaths' = deaths \cup {victim}
    /\ money' = money \cup {shooter}
    /\ fault' \in IF shooter \in players \ {victim} THEN {fault}
                  ELSE {fault, "killer_not_found"}
    /\ UNCHANGED <<ak47_bursts, winner_cheat, ready_to_start, round_number,
                   score>>

\* A bullet hits without killing: only the bullet goes.
BulletHits(shooter) ==
    /\ shooter \in bullets
    /\ bullets' = bullets \ {shooter}
    /\ UNCHANGED <<roster, bombs, ak47_bursts, winner_cheat, ready_to_start,
                   round_number, entries, score, fault>>

\* A player who moves may run into a bullet.
Move(id) ==
    \E shooter \in bullets :
        \/ BulletKills(shooter, id)
        \/ id \in players /\ BulletHits(shooter)

\* GLOCK, AWP and M3 create bullets at once, AK47 queues a burst.
Fire(id) ==
    /\ id \in players
    /\ \/ bullets' = bullets \cup {id} /\ UNCHANGED ak47_bursts
       \/ ak47_bursts' = ak47_bursts \cup {id} /\ UNCHANGED bullets
    /\ UNCHANGED <<roster, bombs, winner_cheat, ready_to_start, round_number,
                   entries, score, fault>>

\* The knife reads the victim's id from a slot of the cell that the death has
\* just erased: the entry in stats.deaths is the victim's or another object's.
Knife(id, victim) ==
    /\ id \in players
    /\ victim \in players \ {id}
    /\ Die(victim)
    /\ kills' = kills \cup {id}
    /\ deaths' \in {deaths} \cup {deaths \cup {other} : other \in Ids}
    /\ money' = money \cup {id}
    /\ UNCHANGED <<shots, winner_cheat, ready_to_start, round_number, score,
                   fault>>

Shoot(id) == Fire(id) \/ \E victim \in Ids : Knife(id, victim)

\* update_ak47_bursts(): some bursts fire, some of these were at their last shot.
UpdateBursts ==
    /\ \E firing \in SUBSET ak47_bursts :
          /\ bullets' = bullets \cup firing
          /\ \E finished \in SUBSET firing : ak47_bursts' = ak47_bursts \ finished
    /\ UNCHANGED <<roster, bombs, winner_cheat, ready_to_start, round_number,
                   entries, score, fault>>

\* The end of get_objects(): bullets out of range or against an obstacle are
\* deleted, then the bomb's countdown advances.
FinishObjects ==
    /\ bullets' \in SUBSET bullets
    /\ UpdateBombCountdown
    /\ UNCHANGED <<roster, bomb, stray_bomb, deactivated, ak47_bursts,
                   winner_cheat, ready_to_start, round_number, entries, score,
                   fault>>

DoWinCheat(id) ==
    /\ id \in players
    /\ winner_cheat' = player_type[id]
    /\ UNCHANGED <<roster, bombs, shots, ready_to_start, round_number, entries,
                   score, fault>>

-----------------------------------------------------------------------------
(* Rounds *)

StartRound ==
    /\ SetBombPlayer
    /\ round_number' = round_number + 1
    /\ UNCHANGED <<players, dead_players, player_type, bombs, shots,
                   winner_cheat, ready_to_start, entries, score, fault>>

\* Mutant: the half comes one round early.
TeamAIsTerroristBefore == round_number < RoundsTotal \div 2

TeamAIsTerrorist == round_number <= RoundsTotal \div 2

TeamAWon ==
    \/ last_winner = TERRORIST /\ TeamAIsTerrorist
    \/ last_winner = COUNTERTERRORIST /\ ~TeamAIsTerrorist

UpdateStats ==
    /\ team_a_wins' = IF TeamAWon THEN team_a_wins + 1 ELSE team_a_wins
    /\ team_b_wins' = IF last_winner # UNKNOWN /\ ~TeamAWon
                      THEN team_b_wins + 1 ELSE team_b_wins
    /\ money' = money \cup Alive(last_winner)

\* Mutant: the explosion outlives the bomb.
ResetBombOnly ==
    IF bomb
    THEN /\ DeleteBomb
         /\ UNCHANGED <<exploded, deactivated>>
    ELSE /\ deactivated' = FALSE
         /\ UNCHANGED <<bomb, bomb_countdown, stray_bomb, exploded>>

ResetBomb ==
    IF bomb
    THEN /\ DeleteBomb
         /\ exploded' = FALSE
         /\ UNCHANGED deactivated
    ELSE /\ deactivated' = FALSE
         /\ UNCHANGED <<bomb, bomb_countdown, stray_bomb, exploded>>

OtherSide(side) ==
    CASE side = TERRORIST -> COUNTERTERRORIST
      [] side = COUNTERTERRORIST -> TERRORIST
      [] OTHER -> UNKNOWN

\* Mutant: who is dead at the half keeps his side.
ResetPlayersLivingSwitch ==
    /\ players' = players \cup dead_players
    /\ dead_players' = {}
    /\ player_type' = IF round_number = RoundsTotal \div 2
                      THEN [id \in Ids |-> IF id \in players
                                           THEN OtherSide(player_type[id])
                                           ELSE player_type[id]]
                      ELSE player_type
    /\ UNCHANGED has_bomb

\* The dead come back, and after the first half everyone changes side.
ResetPlayers ==
    /\ players' = players \cup dead_players
    /\ dead_players' = {}
    /\ player_type' = IF round_number = RoundsTotal \div 2
                      THEN [id \in Ids |-> IF id \in players \cup dead_players
                                           THEN OtherSide(player_type[id])
                                           ELSE player_type[id]]
                      ELSE player_type
    /\ UNCHANGED has_bomb

\* The bursts are not part of what the end of a round clears.
ResetBullets ==
    /\ bullets' = {}
    /\ UNCHANGED ak47_bursts

EndRound ==
    /\ UpdateStats
    /\ ResetBomb
    /\ ResetPlayers
    /\ ResetBullets
    /\ winner_cheat' = UNKNOWN
    /\ UNCHANGED <<ready_to_start, round_number, kills, deaths, last_winner,
                   fault>>
=============================================================================
