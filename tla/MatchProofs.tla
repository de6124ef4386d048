----------------------------- MODULE MatchProofs -----------------------------
(***************************************************************************)
(* Theorems about one match, for every set of clients, number of places,   *)
(* number of rounds and bomb countdown.  The lemmas on the operators of    *)
(* Game come first; each invariant then follows from the previous ones.    *)
(***************************************************************************)
EXTENDS Match, TLAPS, FiniteSetTheorems

USE GameAssumption DEF GameAssumption

-----------------------------------------------------------------------------
(* Types *)

\* Who changes sides twice is where he was.
LEMMA Turned ==
    ASSUME NEW side \in Sides
    PROVE  OtherSide(side) \in Sides /\ OtherSide(OtherSide(side)) = side
<1>1. TERRORIST # COUNTERTERRORIST BY DEF TERRORIST, COUNTERTERRORIST
<1>2. CASE side = TERRORIST BY <1>1, <1>2 DEF OtherSide, Sides
<1>3. CASE side = COUNTERTERRORIST BY <1>1, <1>3 DEF OtherSide, Sides
<1> QED BY <1>2, <1>3 DEF Sides

\* Every method of Game leaves its fields well typed.
LEMMA JoinTypes ==
    ASSUME GameTypeOK, NEW id \in Ids, NEW side \in Sides, AddPlayer(id, side)
    PROVE  GameTypeOK'
BY DEF GameTypeOK, AddPlayer, bombs, shots, entries, score, PlayerType

\* A client that leaves keeps the types.
LEMMA QuitTypes ==
    ASSUME GameTypeOK, NEW id \in Ids, Quit(id)
    PROVE  GameTypeOK'
BY DEF GameTypeOK, Quit, bombs, shots, entries, score

\* So do the start of the match and the start of a round.
LEMMA StartTypes ==
    ASSUME GameTypeOK, SetReadyToStart \/ InitializeStats \/ StartRound
    PROVE  GameTypeOK'
<1>1. CASE SetReadyToStart
  BY <1>1 DEF GameTypeOK, SetReadyToStart, roster, bombs, shots, entries, score
<1>2. CASE InitializeStats
  BY <1>2 DEF GameTypeOK, InitializeStats, roster, bombs, shots, score
<1>3. CASE StartRound
  BY <1>3 DEF GameTypeOK, StartRound, SetBombPlayer, Alive, bombs, shots,
              entries, score
<1> QED BY <1>1, <1>2, <1>3

\* A bomb is created with -1 or with the configured countdown.
LEMMA CreateBombTypes ==
    ASSUME GameTypeOK, NEW countdown \in -1 .. BombCountdown,
           CreateBomb(countdown)
    PROVE  /\ bomb' \in BOOLEAN
           /\ bomb_countdown' \in -1 .. BombCountdown
           /\ stray_bomb' \in BOOLEAN
BY DEF GameTypeOK, CreateBomb

\* A deleted bomb leaves no countdown.
LEMMA DeleteBombTypes ==
    ASSUME GameTypeOK, DeleteBomb
    PROVE  /\ bomb' \in BOOLEAN
           /\ bomb_countdown' \in -1 .. BombCountdown
           /\ stray_bomb' \in BOOLEAN
<1>1. bomb_countdown' \in -1 .. BombCountdown
  BY DEF DeleteBomb
<1> QED BY <1>1 DEF GameTypeOK, DeleteBomb

\* Planting, deactivating and picking up keep the types.
LEMMA BombTypes ==
    ASSUME GameTypeOK, NEW id \in Ids, InteractWithBomb(id) \/ PickUpBomb(id)
    PROVE  GameTypeOK'
<1>1. CASE PlantBomb(id)
  <2>1. CreateBomb(BombCountdown) BY <1>1 DEF PlantBomb
  <2>2. BombCountdown \in -1 .. BombCountdown OBVIOUS
  <2> QED BY <1>1, <2>1, <2>2, CreateBombTypes
          DEF GameTypeOK, PlantBomb, shots, entries, score
<1>2. CASE DeactivateBomb(id)
  <2>1. DeleteBomb BY <1>2 DEF DeactivateBomb
  <2> QED BY <1>2, <2>1, DeleteBombTypes
          DEF GameTypeOK, DeactivateBomb, roster, shots, entries, score
<1>3. CASE PickUpBomb(id)
  <2>1. /\ bomb' \in BOOLEAN
        /\ bomb_countdown' \in -1 .. BombCountdown
        /\ stray_bomb' \in BOOLEAN
    BY <1>3, DeleteBombTypes DEF GameTypeOK, PickUpBomb
  <2> QED BY <1>3, <2>1
          DEF GameTypeOK, PickUpBomb, shots, entries, score, Faults
<1> QED BY <1>1, <1>2, <1>3 DEF InteractWithBomb

\* So does a death, with or without a bomb to drop.
LEMMA DieTypes ==
    ASSUME GameTypeOK, NEW victim \in Ids, Die(victim)
    PROVE  /\ players' \subseteq Ids
           /\ dead_players' \subseteq Ids
           /\ player_type' \in [Ids -> PlayerType]
           /\ has_bomb' \subseteq Ids
           /\ bomb' \in BOOLEAN
           /\ bomb_countdown' \in -1 .. BombCountdown
           /\ stray_bomb' \in BOOLEAN
           /\ exploded' \in BOOLEAN
           /\ deactivated' \in BOOLEAN
<1>1. -1 \in -1 .. BombCountdown OBVIOUS
<1>2. /\ bomb' \in BOOLEAN
      /\ bomb_countdown' \in -1 .. BombCountdown
      /\ stray_bomb' \in BOOLEAN
  BY <1>1, CreateBombTypes DEF GameTypeOK, Die, DropWeapons
<1> QED BY <1>2 DEF GameTypeOK, Die, DropWeapons

\* So does a bullet that kills, whoever fired it.
LEMMA KillTypes ==
    ASSUME GameTypeOK, NEW shooter \in Ids, NEW victim \in Ids,
           BulletKills(shooter, victim)
    PROVE  GameTypeOK'
<1>1. Die(victim) BY DEF BulletKills
<1> QED BY <1>1, DieTypes DEF GameTypeOK, BulletKills, score, Faults

\* So do firing a gun and using the knife.
LEMMA ShootTypes ==
    ASSUME GameTypeOK, NEW id \in Ids, Shoot(id)
    PROVE  GameTypeOK'
<1>1. CASE Fire(id)
  BY <1>1 DEF GameTypeOK, Fire, roster, bombs, entries, score
<1>2. ASSUME NEW victim \in Ids, Knife(id, victim)
      PROVE  GameTypeOK'
  <2>1. Die(victim) BY <1>2 DEF Knife
  <2> QED BY <1>2, <2>1, DieTypes DEF GameTypeOK, Knife, shots, score
<1> QED BY <1>1, <1>2 DEF Shoot

\* So does walking into a bullet.
LEMMA MoveTypes ==
    ASSUME GameTypeOK, NEW id \in Ids, Move(id)
    PROVE  GameTypeOK'
<1>1. PICK shooter \in bullets : BulletKills(shooter, id)
                                 \/ (id \in players /\ BulletHits(shooter))
  BY DEF Move
<1>2. shooter \in Ids BY DEF GameTypeOK
<1>3. CASE BulletKills(shooter, id) BY <1>2, <1>3, KillTypes
<1>4. CASE BulletHits(shooter)
  BY <1>4 DEF GameTypeOK, BulletHits, roster, bombs, entries, score
<1> QED BY <1>1, <1>3, <1>4

\* The winning side of the cheat is the side of a player.
LEMMA CheatTypes ==
    ASSUME GameTypeOK, NEW id \in Ids, DoWinCheat(id)
    PROVE  GameTypeOK'
BY DEF GameTypeOK, DoWinCheat, roster, bombs, shots, entries, score

\* Both halves of get_objects() keep the types: the countdown stays above -2.
LEMMA SnapshotTypes ==
    ASSUME GameTypeOK, UpdateBursts \/ FinishObjects
    PROVE  GameTypeOK'
<1>1. CASE UpdateBursts
  BY <1>1 DEF GameTypeOK, UpdateBursts, roster, bombs, entries, score
<1>2. CASE FinishObjects
  <2>1. bomb_countdown' \in -1 .. BombCountdown
    BY <1>2 DEF GameTypeOK, FinishObjects, UpdateBombCountdown
  <2>2. exploded' \in BOOLEAN
    BY <1>2 DEF GameTypeOK, FinishObjects, UpdateBombCountdown
  <2> QED BY <1>2, <2>1, <2>2
          DEF GameTypeOK, FinishObjects, roster, entries, score
<1> QED BY <1>1, <1>2

\* So does the end of a round.
LEMMA EndRoundTypes ==
    ASSUME GameTypeOK, EndRound
    PROVE  GameTypeOK'
<1>1. player_type' \in [Ids -> PlayerType]
  BY DEF GameTypeOK, EndRound, ResetPlayers, OtherSide, PlayerType, Sides,
         TERRORIST, COUNTERTERRORIST, UNKNOWN
<1>2. /\ players' \subseteq Ids
      /\ dead_players' \subseteq Ids
      /\ has_bomb' \subseteq Ids
      /\ money' \subseteq Ids
      /\ bullets' \subseteq Ids
      /\ ak47_bursts' \subseteq Ids
  BY DEF GameTypeOK, EndRound, ResetPlayers, UpdateStats, Alive, ResetBullets
<1>3. /\ bomb' \in BOOLEAN
      /\ bomb_countdown' \in -1 .. BombCountdown
      /\ stray_bomb' \in BOOLEAN
      /\ exploded' \in BOOLEAN
      /\ deactivated' \in BOOLEAN
  BY DeleteBombTypes DEF GameTypeOK, EndRound, ResetBomb
<1>4. /\ team_a_wins' \in Nat
      /\ team_b_wins' \in Nat
      /\ winner_cheat' \in PlayerType
  BY DEF GameTypeOK, EndRound, UpdateStats, PlayerType
<1> QED BY <1>1, <1>2, <1>3, <1>4 DEF GameTypeOK, EndRound

\* A step outside Game keeps the types of its fields.
LEMMA SameGameTypes ==
    ASSUME GameTypeOK, UNCHANGED gameVars
    PROVE  GameTypeOK'
BY DEF GameTypeOK, gameVars, roster, bombs, shots, entries, score

\* The winner is_over() records is a side or UNKNOWN.
LEMMA CheckTypes ==
    ASSUME GameTypeOK, CheckIsOver
    PROVE  GameTypeOK'
BY DEF GameTypeOK, CheckIsOver, Winner, roster, bombs, shots, entries,
       PlayerType, Sides

\* Every action of the game phase keeps the types.
LEMMA ActionTypes ==
    ASSUME GameTypeOK, NEW id \in Ids, DoAction(id)
    PROVE  GameTypeOK'
BY MoveTypes, ShootTypes, BombTypes, QuitTypes, CheatTypes DEF DoAction

\* The fields of Game and the place of the match thread keep their types.
THEOREM TypeCorrect == Spec => []TypeOK
<1>1. Init => TypeOK
  <2> SUFFICES ASSUME Init PROVE TypeOK OBVIOUS
  <2>1. bomb_countdown \in -1 .. BombCountdown BY DEF Init, GameInit
  <2>2. GameTypeOK
    BY <2>1 DEF Init, GameInit, GameTypeOK, PlayerType, Faults
  <2> QED BY <2>2 DEF Init, TypeOK, PlayerType, Locations
<1>2. TypeOK /\ [Next]_vars => TypeOK'
  <2> SUFFICES ASSUME TypeOK, [Next]_vars
               PROVE  TypeOK'
    OBVIOUS
  <2> USE DEF TypeOK, Goto, threadVars, environment, history
  <2>1. ASSUME NEW id \in Ids, NEW side \in Sides, Join(id, side)
        PROVE  TypeOK'
    <3>1. GameTypeOK' BY <2>1, JoinTypes DEF Join
    <3>2. TeamOf(side) \in PlayerType
      BY Turned DEF TeamOf, PlayerType
    <3>3. late' \subseteq Ids /\ stand_ins' \subseteq Ids
      BY <2>1 DEF Join
    <3>4. team' \in [Ids -> PlayerType]
      BY <2>1, <3>2 DEF Join
    <3> QED BY <2>1, <3>1, <3>3, <3>4 DEF Join
  <2>2. CASE Stop
    <3>1. GameTypeOK' BY <2>2, SameGameTypes DEF Stop
    <3> QED BY <2>2, <3>1 DEF Stop
  <2>3. CASE LobbyCheck
    <3>1. GameTypeOK' BY <2>3, SameGameTypes DEF LobbyCheck
    <3> QED BY <2>3, <3>1 DEF LobbyCheck, Locations, Snapshots, AfterSnapshot
  <2>4. CASE LobbyPop
    <3>1. GameTypeOK'
      BY <2>4, SameGameTypes, StartTypes, QuitTypes DEF LobbyPop
    <3> QED BY <2>4, <3>1 DEF LobbyPop, Locations
  <2>5. CASE StartMatch
    <3>1. GameTypeOK' BY <2>5, StartTypes DEF StartMatch
    <3> QED BY <2>5, <3>1 DEF StartMatch, Locations
  <2>6. CASE SnapshotBegin
    <3>1. GameTypeOK' BY <2>6, SnapshotTypes DEF SnapshotBegin
    <3> QED BY <2>6, <3>1 DEF SnapshotBegin
  <2>7. ASSUME NEW shooter \in Ids, NEW victim \in Ids,
               SnapshotKill(shooter, victim)
        PROVE  TypeOK'
    <3>1. GameTypeOK' BY <2>7, KillTypes DEF SnapshotKill
    <3> QED BY <2>7, <3>1 DEF SnapshotKill
  <2>8. CASE SnapshotEnd
    <3>1. GameTypeOK' BY <2>8, SnapshotTypes DEF SnapshotEnd
    <3>2. pc' \in Locations
      BY <2>8 DEF SnapshotEnd, Snapshots, AfterSnapshot, Locations
    <3> QED BY <2>8, <3>1, <3>2 DEF SnapshotEnd
  <2>9. CASE NextRound
    <3>1. GameTypeOK' BY <2>9, CheckTypes, SameGameTypes DEF NextRound
    <3> QED BY <2>9, <3>1 DEF NextRound, Locations
  <2>10. CASE ShoppingPop
    <3>1. GameTypeOK' BY <2>10, QuitTypes DEF ShoppingPop
    <3> QED BY <2>10, <3>1 DEF ShoppingPop
  <2>11. CASE ShoppingEnd
    <3>1. GameTypeOK' BY <2>11, CheckTypes DEF ShoppingEnd
    <3> QED BY <2>11, <3>1 DEF ShoppingEnd, Locations, Snapshots, AfterSnapshot
  <2>12. CASE GameStart
    <3>1. GameTypeOK' BY <2>12, StartTypes DEF GameStart
    <3> QED BY <2>12, <3>1 DEF GameStart, Locations
  <2>13. CASE Tick
    <3>1. GameTypeOK' BY <2>13, CheckTypes DEF Tick
    <3> QED BY <2>13, <3>1 DEF Tick, Locations, Snapshots, AfterSnapshot
  <2>14. CASE DrainPop
    <3>1. GameTypeOK' BY <2>14, ActionTypes DEF DrainPop
    <3> QED BY <2>14, <3>1 DEF DrainPop
  <2>15. CASE DrainEnd
    <3>1. GameTypeOK' BY <2>15, CheckTypes DEF DrainEnd
    <3> QED BY <2>15, <3>1 DEF DrainEnd, Locations, Snapshots, AfterSnapshot
  <2>16. CASE GameEnd
    <3>1. GameTypeOK' BY <2>16, EndRoundTypes DEF GameEnd
    <3> QED BY <2>16, <3>1 DEF GameEnd, Locations
  <2>17. CASE SendStats
    <3>1. GameTypeOK'
      BY <2>17 DEF SendStats, GameTypeOK, roster, bombs, shots, entries, score,
                   Faults
    <3> QED BY <2>17, <3>1 DEF SendStats, Locations
  <2>18. CASE StatsPop
    <3>1. GameTypeOK' BY <2>18, QuitTypes DEF StatsPop
    <3> QED BY <2>18, <3>1 DEF StatsPop
  <2>19. CASE StatsEnd
    <3>1. GameTypeOK' BY <2>19, SameGameTypes DEF StatsEnd
    <3> QED BY <2>19, <3>1 DEF StatsEnd, Locations
  <2>20. CASE Message
    <3>1. GameTypeOK' BY <2>20, SameGameTypes DEF Message
    <3> QED BY <2>20, <3>1 DEF Message, Locations
  <2>21. CASE UNCHANGED vars
    <3>1. GameTypeOK' BY <2>21, SameGameTypes DEF vars
    <3> QED BY <2>21, <3>1 DEF vars
  <2> QED
    BY <2>1, <2>2, <2>3, <2>4, <2>5, <2>6, <2>7, <2>8, <2>9, <2>10, <2>11,
       <2>12, <2>13, <2>14, <2>15, <2>16, <2>17, <2>18, <2>19, <2>20, <2>21
    DEF Next, Advance
<1> QED BY <1>1, <1>2, PTL DEF Spec

-----------------------------------------------------------------------------
(* Life and death *)

\* LifeLedger is inductive once it is known that the ids in the two maps are
\* ids of clients that joined: a new client's id is then in neither.
LifeInv ==
    /\ LifeLedger
    /\ players \cup dead_players \subseteq clients

\* An action of a client moves an id between the two maps or out of them.
LEMMA ActionLife ==
    ASSUME LifeInv, NEW id \in Ids, DoAction(id), UNCHANGED clients
    PROVE  LifeInv'
<1> USE DEF LifeInv, LifeLedger
<1>1. ASSUME NEW shooter, NEW victim, BulletKills(shooter, victim)
      PROVE  LifeInv'
  BY <1>1 DEF BulletKills, Die, DropWeapons
<1>2. CASE Move(id)
  BY <1>1, <1>2 DEF Move, BulletHits, roster
<1>3. CASE Shoot(id)
  BY <1>3 DEF Shoot, Fire, Knife, Die, DropWeapons, roster
<1>4. CASE InteractWithBomb(id)
  BY <1>4 DEF InteractWithBomb, PlantBomb, DeactivateBomb, roster
<1>5. CASE PickUpBomb(id)
  BY <1>5 DEF PickUpBomb
<1>6. CASE Quit(id)
  BY <1>6 DEF Quit
<1>7. CASE DoWinCheat(id)
  BY <1>7 DEF DoWinCheat, roster
<1> QED BY <1>2, <1>3, <1>4, <1>5, <1>6, <1>7 DEF DoAction

\* A new match has nobody in either map.
LEMMA LifeInvInit == Init => LifeInv
BY DEF Init, GameInit, LifeInv, LifeLedger

\* Every step of the match keeps the two maps apart.
LEMMA LifeInvNext == TypeOK /\ LifeInv /\ [Next]_vars => LifeInv'
<1> SUFFICES ASSUME TypeOK, LifeInv, [Next]_vars
             PROVE  LifeInv'
  OBVIOUS
<1> USE DEF LifeInv, LifeLedger
<1>1. ASSUME NEW id \in Ids, NEW side \in Sides, Join(id, side)
      PROVE  LifeInv'
  BY <1>1 DEF Join, AddPlayer
<1>2. CASE LobbyPop \/ ShoppingPop \/ StatsPop
  BY <1>2 DEF LobbyPop, ShoppingPop, StatsPop, SetReadyToStart, Quit, gameVars,
              roster, environment
<1>3. CASE GameStart
  BY <1>3 DEF GameStart, StartRound, SetBombPlayer, Alive, environment
<1>4. CASE GameEnd
  BY <1>4 DEF GameEnd, EndRound, ResetPlayers, environment
<1>5. CASE DrainPop
  BY <1>5, ActionLife DEF DrainPop, TypeOK, environment
<1>6. ASSUME NEW shooter \in Ids, NEW victim \in Ids,
             SnapshotKill(shooter, victim)
      PROVE  LifeInv'
  BY <1>6 DEF SnapshotKill, BulletKills, Die, DropWeapons, environment
<1>7. CASE UNCHANGED <<roster, clients>>
  BY <1>7 DEF roster
<1>8. CASE SnapshotBegin \/ SnapshotEnd
  BY <1>7, <1>8 DEF SnapshotBegin, SnapshotEnd, UpdateBursts, FinishObjects,
                    environment
<1>9. CASE NextRound \/ ShoppingEnd \/ Tick \/ DrainEnd
  BY <1>7, <1>9 DEF NextRound, ShoppingEnd, Tick, DrainEnd, CheckIsOver,
                    gameVars, environment
<1>10. CASE StartMatch \/ SendStats
  BY <1>7, <1>10 DEF StartMatch, InitializeStats, SendStats, environment
<1>11. CASE LobbyCheck \/ StatsEnd \/ Message \/ Stop \/ UNCHANGED vars
  BY <1>7, <1>11 DEF LobbyCheck, StatsEnd, Message, Stop, vars, gameVars,
                     environment
<1> QED
  BY <1>1, <1>2, <1>3, <1>4, <1>5, <1>6, <1>8, <1>9, <1>10, <1>11
  DEF Next, Advance

\* A player is in one of the two maps, and the dead carry no bomb.
THEOREM LifeLedgerHolds == Spec => []LifeLedger
<1>1. LifeInv => LifeLedger BY DEF LifeInv
<1> QED BY <1>1, LifeInvInit, LifeInvNext, TypeCorrect, PTL DEF Spec

-----------------------------------------------------------------------------
(* The bomb in the first round *)

FirstRoundOneBomb == round_number <= 1 => OneBomb

\* Before the first round there is no bomb at all, so that set_bomb_player()
\* gives out the only one.
BombInv ==
    /\ round_number = 0 => has_bomb = {} /\ ~bomb /\ ~stray_bomb
    /\ FirstRoundOneBomb

bombPlace == <<has_bomb, bomb, stray_bomb, round_number>>

\* A death makes a carried bomb a bomb on the floor, never a second one.
LEMMA DieBomb ==
    ASSUME BombInv, NEW victim, Die(victim), UNCHANGED round_number
    PROVE  BombInv'
BY DEF BombInv, FirstRoundOneBomb, OneBomb, Die, DropWeapons, CreateBomb

\* Deleting the bomb never makes a second one.
LEMMA DeleteBombBomb ==
    ASSUME BombInv, DeleteBomb, UNCHANGED round_number, has_bomb' \subseteq has_bomb
    PROVE  BombInv'
BY DEF BombInv, FirstRoundOneBomb, OneBomb, DeleteBomb

\* Nor does any action of a client.
LEMMA ActionBomb ==
    ASSUME BombInv, NEW id \in Ids, DoAction(id)
    PROVE  BombInv'
<1>1. ASSUME UNCHANGED bombPlace
      PROVE  BombInv'
  BY <1>1 DEF BombInv, FirstRoundOneBomb, OneBomb, bombPlace
<1>2. CASE Move(id)
  BY <1>1, <1>2, DieBomb DEF Move, BulletKills, BulletHits, roster, bombs,
                             bombPlace
<1>3. CASE Shoot(id)
  BY <1>1, <1>3, DieBomb DEF Shoot, Fire, Knife, roster, bombs, bombPlace
<1>4. CASE PlantBomb(id)
  BY <1>4 DEF PlantBomb, CreateBomb, BombInv, FirstRoundOneBomb, OneBomb
<1>5. CASE DeactivateBomb(id)
  BY <1>5, DeleteBombBomb DEF DeactivateBomb, roster
<1>6. CASE PickUpBomb(id)
  BY <1>6 DEF PickUpBomb, DeleteBomb, BombInv, FirstRoundOneBomb, OneBomb
<1>7. CASE Quit(id)
  BY <1>7 DEF Quit, bombs, BombInv, FirstRoundOneBomb, OneBomb
<1>8. CASE DoWinCheat(id)
  BY <1>1, <1>8 DEF DoWinCheat, roster, bombs, bombPlace
<1> QED
  BY <1>2, <1>3, <1>4, <1>5, <1>6, <1>7, <1>8 DEF DoAction, InteractWithBomb

\* A new match has no bomb.
LEMMA BombInvInit == Init => BombInv
BY DEF Init, GameInit, BombInv, FirstRoundOneBomb, OneBomb

\* While the first round lasts no step of the match makes a second bomb.
LEMMA BombInvNext == TypeOK /\ BombInv /\ [Next]_vars => BombInv'
<1> SUFFICES ASSUME TypeOK, BombInv, [Next]_vars
             PROVE  BombInv'
  OBVIOUS
<1> USE DEF BombInv, FirstRoundOneBomb, OneBomb
<1>1. CASE UNCHANGED bombPlace
  BY <1>1 DEF bombPlace
<1>2. ASSUME NEW id \in Ids, NEW side \in Sides, Join(id, side)
      PROVE  BombInv'
  BY <1>2 DEF Join, AddPlayer, bombs
<1>3. CASE LobbyPop \/ ShoppingPop \/ StatsPop
  <2>1. ASSUME NEW id, Quit(id) PROVE BombInv'
    BY <2>1 DEF Quit, bombs
  <2>2. CASE SetReadyToStart \/ UNCHANGED gameVars
    BY <1>1, <2>2 DEF SetReadyToStart, gameVars, roster, bombs, bombPlace
  <2> QED BY <1>3, <2>1, <2>2 DEF LobbyPop, ShoppingPop, StatsPop
<1>4. CASE GameStart
  <2>1. round_number \in Nat BY DEF TypeOK, GameTypeOK
  <2> QED BY <1>4, <2>1 DEF GameStart, StartRound, SetBombPlayer, bombs
<1>5. CASE GameEnd
  <2>1. UNCHANGED <<has_bomb, round_number>>
    BY <1>5 DEF GameEnd, EndRound, ResetPlayers
  <2>2. CASE DeleteBomb BY <2>1, <2>2, DeleteBombBomb
  <2>3. CASE UNCHANGED <<bomb, stray_bomb>> BY <2>1, <2>3
  <2> QED BY <1>5, <2>2, <2>3 DEF GameEnd, EndRound, ResetBomb
<1>6. CASE DrainPop
  BY <1>6, ActionBomb DEF DrainPop, TypeOK
<1>7. ASSUME NEW shooter \in Ids, NEW victim \in Ids,
             SnapshotKill(shooter, victim)
      PROVE  BombInv'
  BY <1>7, DieBomb DEF SnapshotKill, BulletKills
<1>8. CASE SnapshotBegin \/ SnapshotEnd
  BY <1>1, <1>8 DEF SnapshotBegin, SnapshotEnd, UpdateBursts, FinishObjects,
                    roster, bombs, bombPlace
<1>9. CASE NextRound \/ ShoppingEnd \/ Tick \/ DrainEnd
  BY <1>1, <1>9 DEF NextRound, ShoppingEnd, Tick, DrainEnd, CheckIsOver,
                    gameVars, roster, bombs, bombPlace
<1>10. CASE StartMatch \/ SendStats
  BY <1>1, <1>10 DEF StartMatch, InitializeStats, SendStats, roster, bombs,
                     bombPlace
<1>11. CASE LobbyCheck \/ StatsEnd \/ Message \/ Stop \/ UNCHANGED vars
  BY <1>1, <1>11 DEF LobbyCheck, StatsEnd, Message, Stop, vars, gameVars,
                     roster, bombs, bombPlace
<1> QED
  BY <1>2, <1>3, <1>4, <1>5, <1>6, <1>7, <1>8, <1>9, <1>10, <1>11
  DEF Next, Advance

\* Until the second round starts there is at most one bomb, in the hands of a
\* player or on the floor: no death, plant, pick-up or quit makes another.  From
\* then on OneBomb fails.
THEOREM FirstRoundOneBombHolds == Spec => []FirstRoundOneBomb
<1>1. BombInv => FirstRoundOneBomb BY DEF BombInv
<1> QED BY <1>1, BombInvInit, BombInvNext, TypeCorrect, PTL DEF Spec

\* In the first round, a planted bomb that stays on the floor only counts down.
THEOREM FirstRoundCountdownHolds == Spec => FirstRoundCountdown
<1>1. TypeOK /\ BombInv /\ [Next]_vars
        => [round_number <= 1 /\ BombPlanted /\ bomb'
              => bomb_countdown' \in {bomb_countdown, bomb_countdown - 1}]_vars
  <2> SUFFICES ASSUME BombInv, Next, round_number <= 1, BombPlanted, bomb'
               PROVE  bomb_countdown' \in {bomb_countdown, bomb_countdown - 1}
    OBVIOUS
  <2>1. bomb /\ has_bomb = {}
    BY DEF BombInv, FirstRoundOneBomb, OneBomb, BombPlanted
  <2>2. ASSUME NEW victim, Die(victim) PROVE UNCHANGED bomb_countdown
    BY <2>1, <2>2 DEF Die, DropWeapons
  <2>3. ASSUME ResetBomb \/ DeleteBomb PROVE FALSE
    BY <2>1, <2>3 DEF ResetBomb, DeleteBomb
  <2>4. CASE DrainPop
    <3>1. PICK id \in clients : DoAction(id) BY <2>4 DEF DrainPop
    <3>2. CASE Move(id) \/ Shoot(id)
      BY <2>2, <3>2 DEF Move, BulletKills, BulletHits, Shoot, Fire, Knife, bombs
    <3>3. CASE InteractWithBomb(id)
      BY <2>1, <2>3, <3>3 DEF InteractWithBomb, PlantBomb, DeactivateBomb
    <3>4. CASE PickUpBomb(id)
      BY <2>3, <3>4 DEF PickUpBomb
    <3>5. CASE Quit(id) \/ DoWinCheat(id)
      BY <3>5 DEF Quit, DoWinCheat, bombs
    <3> QED BY <3>1, <3>2, <3>3, <3>4, <3>5 DEF DoAction
  <2>5. CASE SnapshotEnd
    BY <2>1, <2>5 DEF SnapshotEnd, FinishObjects, UpdateBombCountdown
  <2>6. CASE GameEnd
    BY <2>3, <2>6 DEF GameEnd, EndRound
  <2>7. ASSUME NEW shooter \in Ids, NEW victim \in Ids,
               SnapshotKill(shooter, victim)
        PROVE  UNCHANGED bomb_countdown
    BY <2>2, <2>7 DEF SnapshotKill, BulletKills
  <2>8. ASSUME NEW id \in Ids, NEW side \in Sides, Join(id, side)
        PROVE  UNCHANGED bomb_countdown
    BY <2>8 DEF Join, AddPlayer, bombs
  <2>9. CASE LobbyPop \/ ShoppingPop \/ StatsPop \/ GameStart \/ SnapshotBegin
             \/ StartMatch \/ SendStats
    BY <2>9 DEF LobbyPop, ShoppingPop, StatsPop, GameStart, SnapshotBegin,
                StartMatch, SendStats, SetReadyToStart, Quit, StartRound,
                UpdateBursts, InitializeStats, gameVars, bombs
  <2>10. CASE NextRound \/ ShoppingEnd \/ Tick \/ DrainEnd \/ LobbyCheck
              \/ StatsEnd \/ Message \/ Stop
    BY <2>10 DEF NextRound, ShoppingEnd, Tick, DrainEnd, CheckIsOver,
                 LobbyCheck, StatsEnd, Message, Stop, gameVars, bombs
  <2> QED
    BY <2>4, <2>5, <2>6, <2>7, <2>8, <2>9, <2>10 DEF Next, Advance
<1> QED BY <1>1, BombInvInit, BombInvNext, TypeCorrect, PTL
        DEF Spec, FirstRoundCountdown

-----------------------------------------------------------------------------
(* What a round leaves behind *)

Lobby == {"lobby", "lobby_pop", "initial_snapshot", "initialize_stats"}

Nothing ==
    /\ dead_players = {}
    /\ bullets = {}
    /\ ~bomb
    /\ ~exploded
    /\ winner_cheat = UNKNOWN

\* The lobby, too, has nothing in flight, not even a burst to fire in the
\* initial snapshot; and bullets move only inside a snapshot.
CleanInv ==
    /\ ExplodedHasBomb
    /\ updating => pc \in Snapshots
    /\ pc \in Lobby => Nothing /\ ak47_bursts = {} /\ has_bomb = {}
    /\ BetweenRounds => Nothing

\* A death never takes an exploded bomb from the floor.
LEMMA DieClean ==
    ASSUME ExplodedHasBomb, NEW victim, Die(victim)
    PROVE  ExplodedHasBomb'
BY DEF ExplodedHasBomb, Die, DropWeapons, CreateBomb

\* Before the explosion, an action may take the bomb from the floor.
LEMMA ActionClean ==
    ASSUME ExplodedHasBomb, ~exploded, NEW id \in Ids, DoAction(id)
    PROVE  ExplodedHasBomb'
<1> USE DEF ExplodedHasBomb
<1>1. CASE Move(id) \/ Shoot(id)
  BY <1>1, DieClean DEF Move, BulletKills, BulletHits, Shoot, Fire, Knife, bombs
<1>2. CASE InteractWithBomb(id) \/ PickUpBomb(id)
  BY <1>2 DEF InteractWithBomb, PlantBomb, DeactivateBomb, PickUpBomb
<1>3. CASE Quit(id) \/ DoWinCheat(id)
  BY <1>3 DEF Quit, DoWinCheat, bombs
<1> QED BY <1>1, <1>2, <1>3 DEF DoAction

\* A client that leaves disturbs nothing of what a round leaves behind.
LEMMA QuitClean ==
    ASSUME CleanInv, NEW id, Quit(id), UNCHANGED updating,
           pc' = pc \/ (pc = "lobby_pop" /\ pc' = "lobby")
    PROVE  CleanInv'
BY DEF CleanInv, ExplodedHasBomb, Nothing, Lobby,
       BetweenRounds, Quit, bombs, shots, Snapshots, AfterSnapshot

\* A new match is clean.
LEMMA CleanInvInit == Init => CleanInv
BY DEF Init, GameInit, CleanInv, ExplodedHasBomb, Nothing, BetweenRounds

\* The phases keep what the end of a round cleared.
LEMMA CleanInvNext == TypeOK /\ CleanInv /\ [Next]_vars => CleanInv'
<1> SUFFICES ASSUME TypeOK, CleanInv, [Next]_vars
             PROVE  CleanInv'
  OBVIOUS
<1> USE DEF CleanInv, ExplodedHasBomb, Nothing, Lobby,
            BetweenRounds, Goto, threadVars, environment
<1>1. ASSUME NEW id \in Ids, NEW side \in Sides, Join(id, side)
      PROVE  CleanInv'
  BY <1>1 DEF Join, AddPlayer, bombs, shots
<1>3. CASE LobbyPop
  <2>1. UNCHANGED updating /\ pc = "lobby_pop" /\ pc' = "lobby"
    BY <1>3 DEF LobbyPop
  <2>2. CASE SetReadyToStart
    BY <2>1, <2>2 DEF SetReadyToStart, roster, bombs, shots, Snapshots,
                      AfterSnapshot
  <2>3. CASE UNCHANGED gameVars
    BY <2>1, <2>3 DEF gameVars, roster, bombs, shots, Snapshots, AfterSnapshot
  <2>4. ASSUME NEW id, Quit(id) PROVE CleanInv'
    BY <2>1, <2>4, QuitClean
  <2> QED BY <1>3, <2>2, <2>3, <2>4 DEF LobbyPop
<1>4. CASE ShoppingPop \/ StatsPop
  <2>1. PICK id \in clients : Quit(id) BY <1>4 DEF ShoppingPop, StatsPop
  <2>2. pc' = pc /\ UNCHANGED updating BY <1>4 DEF ShoppingPop, StatsPop
  <2> HIDE DEF CleanInv
  <2> QED BY <2>1, <2>2, QuitClean
<1>5. CASE GameStart
  BY <1>5 DEF GameStart, StartRound, bombs, shots, Snapshots, AfterSnapshot
<1>6. CASE GameEnd
  BY <1>6 DEF GameEnd, EndRound, ResetPlayers, ResetBullets, ResetBomb,
              DeleteBomb, Snapshots, AfterSnapshot
<1>7. CASE DrainPop
  <2>1. ~exploded BY <1>7 DEF DrainPop, GoesOn, IsOver
  <2>2. ExplodedHasBomb' BY <1>7, <2>1, ActionClean DEF DrainPop, TypeOK
  <2> QED BY <1>7, <2>2 DEF DrainPop
<1>8. ASSUME NEW shooter \in Ids, NEW victim \in Ids,
             SnapshotKill(shooter, victim)
      PROVE  CleanInv'
  <2>1. ExplodedHasBomb' BY <1>8, DieClean DEF SnapshotKill, BulletKills
  <2> QED BY <1>8, <2>1 DEF SnapshotKill, BulletKills, Snapshots, AfterSnapshot
<1>9. CASE SnapshotBegin
  BY <1>9 DEF SnapshotBegin, UpdateBursts, roster, bombs, Snapshots,
              AfterSnapshot
<1>10. CASE SnapshotEnd
  BY <1>10 DEF SnapshotEnd, FinishObjects, UpdateBombCountdown, roster,
               Snapshots, AfterSnapshot
<1>11. CASE NextRound \/ ShoppingEnd \/ Tick \/ DrainEnd
  BY <1>11 DEF NextRound, ShoppingEnd, Tick, DrainEnd, CheckIsOver, gameVars,
               roster, bombs, shots, Snapshots, AfterSnapshot
<1>12. CASE StartMatch \/ SendStats
  BY <1>12 DEF StartMatch, InitializeStats, SendStats, roster, bombs, shots,
               Snapshots, AfterSnapshot
<1>13. CASE LobbyCheck \/ StatsEnd \/ Message \/ Stop \/ UNCHANGED vars
  BY <1>13 DEF LobbyCheck, StatsEnd, Message, Stop, vars, gameVars, roster,
               bombs, shots, Snapshots, AfterSnapshot
<1> QED
  BY <1>1, <1>3, <1>4, <1>5, <1>6, <1>7, <1>8, <1>9, <1>10, <1>11, <1>12, <1>13
  DEF Next, Advance

\* A deactivation outlives its round only when another bomb is on the floor,
\* which takes the second bomb of a later round; no round is begun with one.
DeactivatedInv ==
    /\ pc \in Lobby \cup {"shopping", "start_snapshot", "start_round"} => ~deactivated
    /\ deactivated /\ round_number <= 1 => ~bomb /\ has_bomb = {}
    /\ deactivated /\ BetweenRounds => round_number > 1

\* A step that sets no deactivation and makes no bomb, and does not leave the
\* fight, keeps it so.
LEMMA DeactivatedSame ==
    ASSUME DeactivatedInv, UNCHANGED <<deactivated, round_number>>,
           bomb' => bomb, has_bomb' \subseteq has_bomb,
           \/ UNCHANGED pc
           \/ ~deactivated
           \/ /\ pc' \notin Lobby \cup {"shopping", "start_snapshot", "start_round"}
              /\ BetweenRounds' => BetweenRounds
    PROVE  DeactivatedInv'
BY DEF DeactivatedInv, BetweenRounds

\* While nobody deactivates anything there is nothing to outlive the round.
LEMMA NotDeactivated == ~deactivated' => DeactivatedInv'
BY DEF DeactivatedInv

\* Deactivating is the one action that sets the flag, and it takes the bomb.
LEMMA ActionDeactivated ==
    ASSUME BombInv, ~deactivated, NEW id \in Ids, DoAction(id)
    PROVE  deactivated' /\ round_number' <= 1 => ~bomb' /\ has_bomb' = {}
<1>1. CASE Move(id) \/ Shoot(id)
  BY <1>1 DEF Move, BulletKills, BulletHits, Shoot, Fire, Knife, Die, bombs
<1>2. CASE DeactivateBomb(id)
  BY <1>2 DEF DeactivateBomb, DeleteBomb, roster, BombInv, FirstRoundOneBomb, OneBomb
<1>3. CASE PlantBomb(id) \/ PickUpBomb(id) \/ Quit(id) \/ DoWinCheat(id)
  BY <1>3 DEF PlantBomb, PickUpBomb, Quit, DoWinCheat, bombs
<1> QED BY <1>1, <1>2, <1>3 DEF DoAction, InteractWithBomb

\* The steps of the match keep a deactivation where it belongs.
LEMMA DeactivatedNext ==
    TypeOK /\ BombInv /\ DeactivatedInv /\ [Next]_vars => DeactivatedInv'
<1> SUFFICES ASSUME TypeOK, BombInv, DeactivatedInv, [Next]_vars
             PROVE  DeactivatedInv'
  OBVIOUS
<1> USE DEF Goto, threadVars
<1>1. CASE UNCHANGED vars
  BY <1>1, DeactivatedSame DEF vars, gameVars, bombs, roster, threadVars
<1>2. ASSUME NEW id \in Ids, NEW side \in Sides, Join(id, side)
      PROVE  DeactivatedInv'
  BY <1>2, DeactivatedSame DEF Join, AddPlayer, bombs
<1>3. CASE LobbyPop
  <2>1. ~deactivated BY <1>3 DEF LobbyPop, DeactivatedInv, Lobby
  <2>2. ASSUME NEW id, Quit(id) PROVE UNCHANGED deactivated
    BY <2>2 DEF Quit, bombs
  <2>3. ASSUME SetReadyToStart PROVE UNCHANGED deactivated
    BY <2>3 DEF SetReadyToStart, bombs
  <2>4. ASSUME UNCHANGED gameVars PROVE UNCHANGED deactivated
    BY <2>4 DEF gameVars, bombs
  <2> QED BY <1>3, <2>1, <2>2, <2>3, <2>4, NotDeactivated DEF LobbyPop
<1>4. CASE ShoppingPop \/ StatsPop
  BY <1>4, DeactivatedSame DEF ShoppingPop, StatsPop, Quit, bombs
<1>5. CASE DrainPop
  <2>1. ~deactivated BY <1>5 DEF DrainPop, GoesOn, IsOver
  <2>2. deactivated' /\ round_number' <= 1 => ~bomb' /\ has_bomb' = {}
    BY <1>5, <2>1, ActionDeactivated DEF DrainPop, TypeOK
  <2>3. pc' = "drain" BY <1>5 DEF DrainPop
  <2> QED BY <2>2, <2>3 DEF DeactivatedInv, Lobby, BetweenRounds
<1>6. ASSUME NEW shooter \in Ids, NEW victim \in Ids, SnapshotKill(shooter, victim)
      PROVE  DeactivatedInv'
  <2>1. CASE ~deactivated
    BY <1>6, <2>1, NotDeactivated DEF SnapshotKill, BulletKills, Die
  <2>2. CASE deactivated /\ round_number <= 1
    BY <1>6, <2>2 DEF SnapshotKill, BulletKills, Die, DropWeapons, DeactivatedInv,
                      BetweenRounds
  <2>3. CASE deactivated /\ ~(round_number <= 1)
    BY <1>6, <2>3 DEF SnapshotKill, BulletKills, Die, DeactivatedInv, BetweenRounds
  <2> QED BY <2>1, <2>2, <2>3
<1>7. CASE GameEnd
  <2>1. deactivated' => deactivated /\ bomb
    BY <1>7 DEF GameEnd, EndRound, ResetBomb
  <2>2. UNCHANGED round_number /\ round_number \in Nat
    BY <1>7 DEF GameEnd, EndRound, TypeOK, GameTypeOK
  <2>3. deactivated' => round_number' > 1
    BY <2>1, <2>2 DEF DeactivatedInv
  <2>4. pc' = "send_stats" BY <1>7 DEF GameEnd
  <2> QED BY <2>2, <2>3, <2>4 DEF DeactivatedInv, Lobby
<1>8. CASE StartMatch \/ LobbyCheck \/ ShoppingEnd \/ GameStart
  <2>1. ~deactivated
    BY <1>8 DEF StartMatch, LobbyCheck, ShoppingEnd, GameStart, DeactivatedInv, Lobby
  <2>2. UNCHANGED deactivated
    BY <1>8 DEF StartMatch, LobbyCheck, ShoppingEnd, GameStart, InitializeStats,
                CheckIsOver, StartRound, gameVars, bombs
  <2> QED BY <2>1, <2>2, NotDeactivated
<1>9. CASE NextRound
  <2>1. UNCHANGED <<deactivated, round_number, bomb, has_bomb>>
    BY <1>9 DEF NextRound, CheckIsOver, gameVars, bombs, roster
  <2>2. ~deactivated \/ pc' = "message"
    BY <1>9 DEF NextRound, GoesOn, IsOver
  <2> QED BY <2>1, <2>2, DeactivatedSame DEF Lobby, BetweenRounds
<1>10. CASE SnapshotBegin
  BY <1>10, DeactivatedSame DEF SnapshotBegin, UpdateBursts, roster, bombs
<1>11. CASE SnapshotEnd
  <2>1. UNCHANGED <<deactivated, round_number, bomb, has_bomb>>
    BY <1>11 DEF SnapshotEnd, FinishObjects, roster
  <2>2. \/ ~deactivated
        \/ pc' \in {"tick", "end_round"}
    BY <1>11 DEF SnapshotEnd, Snapshots, AfterSnapshot, DeactivatedInv, Lobby
  <2> QED BY <2>1, <2>2, DeactivatedSame DEF Lobby, BetweenRounds
<1>12. CASE Tick \/ DrainEnd
  BY <1>12, DeactivatedSame DEF Tick, DrainEnd, CheckIsOver, roster, bombs, Lobby,
                               BetweenRounds
<1>13. CASE SendStats \/ StatsEnd \/ Message \/ Stop
  BY <1>13, DeactivatedSame DEF SendStats, StatsEnd, Message, Stop, gameVars, roster,
                               bombs, Lobby, BetweenRounds
<1> QED
  BY <1>1, <1>2, <1>3, <1>4, <1>5, <1>6, <1>7, <1>8, <1>9, <1>10, <1>11, <1>12, <1>13
  DEF Next, Advance

\* From the end of a round to the end of the next shopping phase nobody is
\* dead, no bullet flies, no bomb lies or has exploded, and no cheat counts.  A
\* deactivation may still stand from the second round on, and then nobody shops.
THEOREM RoundStartsCleanHolds == Spec => []RoundStartsClean
<1>1. Init => DeactivatedInv BY DEF Init, GameInit, DeactivatedInv
<1>2. CleanInv /\ DeactivatedInv => RoundStartsClean
  BY DEF CleanInv, DeactivatedInv, RoundStartsClean, BetweenRounds, Nothing
<1> QED
  BY <1>1, <1>2, CleanInvInit, CleanInvNext, BombInvInit, BombInvNext, DeactivatedNext,
     TypeCorrect, PTL DEF Spec

\* An explosion that reset_bomb() would not clear never happens.
THEOREM ExplodedHasBombHolds == Spec => []ExplodedHasBomb
<1>1. CleanInv => ExplodedHasBomb BY DEF CleanInv
<1> QED BY <1>1, CleanInvInit, CleanInvNext, TypeCorrect, PTL DEF Spec

-----------------------------------------------------------------------------
(* Rounds: the match implements RoundCycle *)

Shops == {"shopping", "start_snapshot", "start_round"}

\* The loop variable of match_loop() and Game's round_number count the same
\* rounds, although they are incremented in different places.
RoundInv ==
    /\ pc \in Lobby => round_number = 0
    /\ pc \in Shops \cup {"next_round"} => round_number = round - 1
    /\ pc \in FightPlaces \cup {"send_stats", "stats"} => round_number = round
    /\ pc \in Shops \cup FightPlaces => round <= RoundsTotal
    /\ pc \notin Lobby => round >= 1

\* No action of a client counts a round or scores.
LEMMA ActionRound ==
    ASSUME NEW id, DoAction(id)
    PROVE  UNCHANGED <<round_number, team_a_wins, team_b_wins>>
<1>1. CASE Move(id) \/ Shoot(id)
  BY <1>1 DEF Move, BulletKills, BulletHits, Shoot, Fire, Knife, score
<1>2. CASE InteractWithBomb(id) \/ PickUpBomb(id)
  BY <1>2 DEF InteractWithBomb, PlantBomb, DeactivateBomb, PickUpBomb, score
<1>3. CASE Quit(id) \/ DoWinCheat(id)
  BY <1>3 DEF Quit, DoWinCheat, score
<1> QED BY <1>1, <1>2, <1>3 DEF DoAction

\* Only the start of a game phase counts a round, and only its end scores.
LEMMA ScoreChanges ==
    ASSUME Next
    PROVE  /\ GameStart \/ UNCHANGED round_number
           /\ GameEnd \/ UNCHANGED <<team_a_wins, team_b_wins>>
<1> DEFINE Same == UNCHANGED <<round_number, team_a_wins, team_b_wins>>
<1>1. ASSUME NEW id, NEW side, Join(id, side) PROVE Same
  BY <1>1 DEF Join, AddPlayer, score
<1>2. ASSUME NEW id, Quit(id) PROVE Same
  BY <1>2 DEF Quit, score
<1>3. CASE LobbyPop
  <2>1. CASE SetReadyToStart \/ UNCHANGED gameVars
    BY <2>1 DEF SetReadyToStart, gameVars, score
  <2> QED BY <1>2, <1>3, <2>1 DEF LobbyPop
<1>4. CASE ShoppingPop \/ StatsPop
  BY <1>2, <1>4 DEF ShoppingPop, StatsPop
<1>5. CASE DrainPop
  BY <1>5, ActionRound DEF DrainPop
<1>6. ASSUME NEW shooter, NEW victim, SnapshotKill(shooter, victim) PROVE Same
  BY <1>6 DEF SnapshotKill, BulletKills, score
<1>7. CASE SnapshotBegin \/ SnapshotEnd
  BY <1>7 DEF SnapshotBegin, SnapshotEnd, UpdateBursts, FinishObjects, score
<1>8. CASE NextRound \/ ShoppingEnd \/ Tick \/ DrainEnd
  BY <1>8 DEF NextRound, ShoppingEnd, Tick, DrainEnd, CheckIsOver, gameVars, score
<1>9. CASE StartMatch \/ SendStats
  BY <1>9 DEF StartMatch, InitializeStats, SendStats, score
<1>10. CASE LobbyCheck \/ StatsEnd \/ Message \/ Stop
  BY <1>10 DEF LobbyCheck, StatsEnd, Message, Stop, gameVars, score
<1>11. CASE GameStart
  BY <1>11 DEF GameStart, StartRound, score
<1>12. CASE GameEnd
  BY <1>12 DEF GameEnd, EndRound
<1> QED
  BY <1>1, <1>3, <1>4, <1>5, <1>6, <1>7, <1>8, <1>9, <1>10, <1>11, <1>12
  DEF Next, Advance

\* The steps that leave pc and round alone, and those that move them.
LEMMA PlaceChanges ==
    ASSUME Next
    PROVE  \/ UNCHANGED <<pc, round>>
           \/ LobbyCheck \/ LobbyPop \/ StartMatch \/ SnapshotEnd \/ NextRound
           \/ ShoppingEnd \/ GameStart \/ Tick \/ DrainEnd \/ GameEnd \/ SendStats
           \/ StatsEnd \/ Message
BY DEF Next, Advance, Join, Stop, SnapshotBegin, SnapshotKill, ShoppingPop,
       DrainPop, StatsPop, threadVars

\* A new match has no rounds.
LEMMA RoundInvInit == Init => RoundInv
BY DEF Init, GameInit, RoundInv, Lobby, Shops, FightPlaces

\* The two counters stay in step through the phases.
LEMMA RoundInvNext == TypeOK /\ RoundInv /\ [Next]_vars => RoundInv'
<1> SUFFICES ASSUME TypeOK, RoundInv, [Next]_vars
             PROVE  RoundInv'
  OBVIOUS
<1> USE DEF RoundInv, Lobby, Shops, FightPlaces, Goto
<1>1. round \in Nat /\ round_number \in Nat BY DEF TypeOK, GameTypeOK
<1>2. CASE UNCHANGED <<pc, round, round_number>>
  BY <1>2
<1>3. CASE UNCHANGED vars
  BY <1>2, <1>3 DEF vars, gameVars, threadVars
<1>4. CASE GameStart
  BY <1>1, <1>4 DEF GameStart, StartRound
<1>5. ASSUME Next, ~GameStart
      PROVE  RoundInv'
  <2>1. UNCHANGED round_number BY <1>5, ScoreChanges
  <2>2. CASE LobbyCheck \/ LobbyPop BY <2>1, <2>2 DEF LobbyCheck, LobbyPop
  <2>3. CASE StartMatch BY <2>1, <2>3 DEF StartMatch
  <2>4. CASE SnapshotEnd BY <2>1, <2>4 DEF SnapshotEnd, Snapshots, AfterSnapshot
  <2>5. CASE NextRound BY <1>1, <2>1, <2>5 DEF NextRound
  <2>6. CASE ShoppingEnd BY <2>1, <2>6 DEF ShoppingEnd
  <2>7. CASE Tick \/ DrainEnd BY <2>1, <2>7 DEF Tick, DrainEnd
  <2>8. CASE GameEnd BY <2>1, <2>8 DEF GameEnd
  <2>9. CASE SendStats \/ Message BY <2>1, <2>9 DEF SendStats, Message
  <2>10. CASE StatsEnd BY <1>1, <2>1, <2>10 DEF StatsEnd
  <2> QED
    BY <1>2, <1>5, <2>1, <2>2, <2>3, <2>4, <2>5, <2>6, <2>7, <2>8, <2>9, <2>10,
       PlaceChanges
<1> QED BY <1>3, <1>4, <1>5

\* Every step of a match is a step of the round cycle or none at all.
LEMMA RoundCycleStep ==
    TypeOK /\ RoundInv /\ [Next]_vars => [RoundCycle!Next]_(RoundCycle!cycleVars)
<1> SUFFICES ASSUME TypeOK, RoundInv, [Next]_vars
             PROVE  [RoundCycle!Next]_(RoundCycle!cycleVars)
  OBVIOUS
<1> USE DEF Goto, RoundCycle!cycleVars, Phase, Played, FightPlaces
<1>1. round \in Nat /\ round_number \in Nat /\ team_a_wins \in Nat /\ team_b_wins \in Nat
  BY DEF TypeOK, GameTypeOK
<1>2. CASE UNCHANGED <<pc, round_number, team_a_wins, team_b_wins>>
  BY <1>2
<1>3. CASE UNCHANGED vars
  BY <1>2, <1>3 DEF vars, gameVars, threadVars, score
<1>4. CASE GameStart
  <2>1. UNCHANGED <<team_a_wins, team_b_wins>>
    BY <1>4 DEF GameStart, StartRound, score
  <2>2. Phase = "shopping" /\ Phase' = "fighting" /\ Played' = Played
    BY <1>1, <1>4 DEF GameStart, StartRound
  <2>3. RoundCycle!Fight
    BY <2>1, <2>2 DEF RoundCycle!Fight, RoundCycle!Turn
  <2> QED BY <2>3 DEF RoundCycle!Next
<1>5. CASE GameEnd
  <2>1. Phase = "fighting" /\ Phase' = "between" BY <1>5 DEF GameEnd
  <2>2. Played' = Played + 1
    BY <1>1, <1>5 DEF GameEnd, EndRound
  <2>3. \/ team_a_wins' = team_a_wins + 1 /\ UNCHANGED team_b_wins
        \/ team_b_wins' = team_b_wins + 1 /\ UNCHANGED team_a_wins
        \/ UNCHANGED <<team_a_wins, team_b_wins>>
    BY <1>5 DEF GameEnd, EndRound, UpdateStats
  <2>4. RoundCycle!Score
    BY <2>1, <2>2, <2>3 DEF RoundCycle!Score, RoundCycle!Turn
  <2> QED BY <2>4 DEF RoundCycle!Next
<1>6. ASSUME Next, ~GameStart, ~GameEnd
      PROVE  [RoundCycle!Next]_(RoundCycle!cycleVars)
  <2>1. UNCHANGED <<round_number, team_a_wins, team_b_wins>>
    BY <1>6, ScoreChanges
  <2>2. CASE LobbyCheck \/ LobbyPop
    BY <2>1, <2>2 DEF LobbyCheck, LobbyPop
  <2>3. CASE StartMatch
    <3>1. Phase = "waiting" /\ Phase' = "between" /\ Played' = Played
      BY <2>1, <2>3 DEF StartMatch
    <3>2. RoundCycle!Open
      BY <2>1, <3>1 DEF RoundCycle!Open, RoundCycle!Turn
    <3> QED BY <3>2 DEF RoundCycle!Next
  <2>4. CASE SnapshotEnd
    BY <2>1, <2>4 DEF SnapshotEnd, Snapshots, AfterSnapshot
  <2>5. CASE NextRound
    <3>1. CASE pc' = "shopping"
      <4>1. Phase = "between" /\ Phase' = "shopping" /\ Played' = Played
        BY <2>1, <2>5, <3>1 DEF NextRound
      <4>2. Played < RoundsTotal
        BY <1>1, <2>5, <3>1 DEF NextRound, RoundInv, Shops
      <4>3. RoundCycle!Shop
        BY <2>1, <4>1, <4>2 DEF RoundCycle!Shop, RoundCycle!Turn
      <4> QED BY <4>3 DEF RoundCycle!Next
    <3>2. CASE pc' = "message"
      <4>1. Phase = "between" /\ Phase' = "over" /\ Played' = Played
        BY <2>1, <2>5, <3>2 DEF NextRound
      <4>2. RoundCycle!Close
        BY <2>1, <4>1 DEF RoundCycle!Close, RoundCycle!Turn
      <4> QED BY <4>2 DEF RoundCycle!Next
    <3> QED BY <2>5, <3>1, <3>2 DEF NextRound
  <2>6. CASE ShoppingEnd \/ Tick \/ DrainEnd
    BY <2>1, <2>6 DEF ShoppingEnd, Tick, DrainEnd
  <2>7. CASE SendStats \/ StatsEnd \/ Message
    BY <2>1, <2>7 DEF SendStats, StatsEnd, Message
  <2> QED
    BY <1>2, <1>6, <2>1, <2>2, <2>3, <2>4, <2>5, <2>6, <2>7, PlaceChanges
<1> QED BY <1>3, <1>4, <1>5, <1>6

\* Rounds follow the cycle of shopping and fighting, at most RoundsTotal times,
\* and each scores at most one point, at the end of its fight.
THEOREM MatchImplementsRoundCycle == Spec => ImplementsRoundCycle
<1>1. Init => RoundCycle!Init
  BY DEF Init, GameInit, RoundCycle!Init, Phase, Played, FightPlaces
<1> QED
  BY <1>1, RoundInvInit, RoundInvNext, RoundCycleStep, TypeCorrect, PTL
  DEF Spec, ImplementsRoundCycle, RoundCycle!Spec

\* A step of the round cycle keeps its score within its rounds.
LEMMA CycleScore ==
    ASSUME RoundCycle!CycleTypeOK, RoundCycle!ScoreWithinRounds,
           [RoundCycle!Next]_(RoundCycle!cycleVars)
    PROVE  /\ RoundCycle!CycleTypeOK'
           /\ RoundCycle!ScoreWithinRounds'
<1> USE DEF RoundCycle!CycleTypeOK, RoundCycle!ScoreWithinRounds,
            RoundCycle!Turn
<1>1. CASE RoundCycle!Open BY <1>1 DEF RoundCycle!Open
<1>2. CASE RoundCycle!Shop BY <1>2 DEF RoundCycle!Shop
<1>3. CASE RoundCycle!Fight BY <1>3 DEF RoundCycle!Fight
<1>4. CASE RoundCycle!Score BY <1>4 DEF RoundCycle!Score
<1>5. CASE RoundCycle!Close BY <1>5 DEF RoundCycle!Close
<1>6. CASE UNCHANGED RoundCycle!cycleVars BY <1>6 DEF RoundCycle!cycleVars
<1> QED BY <1>1, <1>2, <1>3, <1>4, <1>5, <1>6 DEF RoundCycle!Next

\* What RoundCycle promises of its score holds of a match: the two teams never
\* win more rounds than were fought, nor more than config.yaml allows.
THEOREM ScoreHolds == Spec => [](team_a_wins + team_b_wins <= RoundsTotal)
<1>1. RoundCycle!Init
         => RoundCycle!CycleTypeOK /\ RoundCycle!ScoreWithinRounds
  BY DEF RoundCycle!Init, RoundCycle!CycleTypeOK, RoundCycle!ScoreWithinRounds
<1>2. RoundCycle!CycleTypeOK /\ RoundCycle!ScoreWithinRounds
         => team_a_wins + team_b_wins <= RoundsTotal
  BY DEF RoundCycle!CycleTypeOK, RoundCycle!ScoreWithinRounds
<1> QED
  BY <1>1, <1>2, CycleScore, MatchImplementsRoundCycle, PTL
  DEF ImplementsRoundCycle, RoundCycle!Spec

-----------------------------------------------------------------------------
(* Sides and teams *)

\* A death keeps the id in one of the two maps, and its side.
LEMMA DieRoster ==
    ASSUME NEW victim, victim \in players, Die(victim)
    PROVE  /\ players' \cup dead_players' = players \cup dead_players
           /\ UNCHANGED player_type
BY DEF Die, DropWeapons

Fewer ==
    /\ players' \cup dead_players' \subseteq players \cup dead_players
    /\ UNCHANGED <<player_type, team, stand_ins>>

\* An action of a client may remove its id and changes no side.
LEMMA ActionRoster ==
    ASSUME NEW id, DoAction(id), UNCHANGED <<team, stand_ins>>
    PROVE  Fewer
<1> USE DEF Fewer
<1>1. CASE Move(id)
  BY <1>1, DieRoster DEF Move, BulletKills, BulletHits, roster
<1>2. CASE Shoot(id)
  BY <1>2, DieRoster DEF Shoot, Fire, Knife, roster
<1>3. CASE InteractWithBomb(id) \/ PickUpBomb(id)
  BY <1>3 DEF InteractWithBomb, PlantBomb, DeactivateBomb, PickUpBomb, roster
<1>4. CASE Quit(id) \/ DoWinCheat(id)
  BY <1>4 DEF Quit, DoWinCheat, roster
<1> QED BY <1>1, <1>2, <1>3, <1>4 DEF DoAction

\* Players come in by joining only, and change side at the end of a round only.
LEMMA RosterChanges ==
    ASSUME Next
    PROVE  \/ Fewer
           \/ \E id \in Ids, side \in Sides : Join(id, side)
           \/ GameEnd
<1> USE DEF Fewer, environment, history
<1>1. CASE LobbyPop \/ ShoppingPop \/ StatsPop
  BY <1>1 DEF LobbyPop, ShoppingPop, StatsPop, SetReadyToStart, Quit, gameVars,
              roster
<1>2. CASE DrainPop
  BY <1>2, ActionRoster DEF DrainPop
<1>3. ASSUME NEW shooter \in Ids, NEW victim \in Ids,
             SnapshotKill(shooter, victim)
      PROVE  Fewer
  BY <1>3, DieRoster DEF SnapshotKill, BulletKills
<1>4. CASE SnapshotBegin \/ SnapshotEnd
  BY <1>4 DEF SnapshotBegin, SnapshotEnd, UpdateBursts, FinishObjects, roster
<1>5. CASE NextRound \/ ShoppingEnd \/ Tick \/ DrainEnd
  BY <1>5 DEF NextRound, ShoppingEnd, Tick, DrainEnd, CheckIsOver, gameVars,
              roster
<1>6. CASE StartMatch \/ SendStats
  BY <1>6 DEF StartMatch, InitializeStats, SendStats, roster
<1>7. CASE GameStart
  BY <1>7 DEF GameStart, StartRound
<1>8. CASE LobbyCheck \/ StatsEnd \/ Message \/ Stop
  BY <1>8 DEF LobbyCheck, StatsEnd, Message, Stop, gameVars, roster
<1> QED
  BY <1>1, <1>2, <1>3, <1>4, <1>5, <1>6, <1>7, <1>8 DEF Next, Advance

\* The half goes by at the end of a round only, not when the next one starts.
LEMMA SwitchChanges ==
    ASSUME TypeOK, RoundInv, Next, ~GameEnd
    PROVE  SidesSwitched' <=> SidesSwitched
<1> USE DEF SidesSwitched, Goto
<1>1. round_number \in Nat /\ RoundsTotal \div 2 \in Nat
  BY DEF TypeOK, GameTypeOK
<1>2. CASE GameStart
  BY <1>1, <1>2 DEF GameStart, StartRound
<1>3. CASE ~GameStart
  <2>1. UNCHANGED round_number BY <1>3, ScoreChanges
  <2>2. CASE LobbyCheck \/ LobbyPop \/ StartMatch \/ NextRound \/ ShoppingEnd
    BY <2>1, <2>2 DEF LobbyCheck, LobbyPop, StartMatch, NextRound, ShoppingEnd
  <2>3. CASE SnapshotEnd
    BY <2>1, <2>3 DEF SnapshotEnd, Snapshots, AfterSnapshot
  <2>4. CASE Tick \/ DrainEnd \/ SendStats \/ StatsEnd \/ Message
    BY <2>1, <2>4 DEF Tick, DrainEnd, SendStats, StatsEnd, Message
  <2>5. CASE UNCHANGED pc
    BY <2>1, <2>5
  <2> QED BY <1>3, <2>2, <2>3, <2>4, <2>5, PlaceChanges
<1> QED BY <1>2, <1>3

\* Sides and teams stay in step, also when the half goes by.
LEMMA SidesNext ==
    TypeOK /\ LifeInv /\ RoundInv /\ SidesInStep /\ [Next]_vars => SidesInStep'
<1> SUFFICES ASSUME TypeOK, LifeInv, RoundInv, SidesInStep, [Next]_vars
             PROVE  SidesInStep'
  OBVIOUS
<1> USE DEF SidesInStep, TeamOf
<1>1. CASE UNCHANGED vars
  BY <1>1 DEF vars, gameVars, roster, threadVars, environment, history, SidesSwitched
<1>2. ASSUME Next, Fewer, ~GameEnd
      PROVE  SidesInStep'
  BY <1>2, SwitchChanges DEF Fewer
<1>3. ASSUME NEW id \in Ids, NEW side \in Sides, Join(id, side)
      PROVE  SidesInStep'
  <2>1. SidesSwitched' <=> SidesSwitched
    BY <1>3 DEF Join, AddPlayer, SidesSwitched, threadVars
  <2>2. id \notin players \cup dead_players
    BY <1>3 DEF Join, LifeInv
  <2>3. team' = [team EXCEPT ![id] = TeamOf(side)] /\ UNCHANGED dead_players
    BY <1>3 DEF Join, AddPlayer
  <2>4. CASE UNCHANGED <<players, player_type>>
    BY <2>1, <2>2, <2>3, <2>4 DEF TypeOK, GameTypeOK, LifeInv, LifeLedger
  <2>5. CASE /\ players' = players \cup {id}
             /\ player_type' = [player_type EXCEPT ![id] = side]
    <3>1. TeamOf(side) \in Sides /\ side = TeamOf(TeamOf(side))
      BY Turned DEF TeamOf
    <3> HIDE DEF TeamOf
    <3>2. \A other : TeamOf(other)' = TeamOf(other) BY <2>1 DEF TeamOf
    <3> QED BY <2>2, <2>3, <2>5, <3>1, <3>2 DEF TypeOK, GameTypeOK
  <2> QED BY <1>3, <2>4, <2>5 DEF Join, AddPlayer
<1>4. CASE GameEnd
  <2> DEFINE half == RoundsTotal \div 2
  <2>1. round_number \in Nat /\ half \in Nat /\ round_number >= 1
    BY <1>4 DEF GameEnd, TypeOK, GameTypeOK, RoundInv, FightPlaces, Lobby
  <2>2. /\ pc = "end_round" /\ pc' = "send_stats"
        /\ UNCHANGED <<round_number, team>>
        /\ players' \cup dead_players' = players \cup dead_players
    BY <1>4 DEF GameEnd, Goto, EndRound, ResetPlayers, environment, history
  <2>3. SidesSwitched <=> half > 0 /\ round_number > half
    BY <2>1, <2>2 DEF SidesSwitched
  <2>4. SidesSwitched' <=> half > 0 /\ round_number >= half
    BY <2>1, <2>2 DEF SidesSwitched
  <2>5. \A id \in players \cup dead_players :
            player_type'[id] = IF round_number = half
                               THEN OtherSide(player_type[id])
                               ELSE player_type[id]
    BY <1>4 DEF GameEnd, EndRound, ResetPlayers, TypeOK, GameTypeOK
  <2>6. CASE round_number = half
    <3>1. ~SidesSwitched /\ SidesSwitched' BY <2>1, <2>3, <2>4, <2>6
    <3> QED BY <2>2, <2>5, <2>6, <3>1
  <2>7. CASE round_number # half
    <3>1. SidesSwitched' <=> SidesSwitched BY <2>1, <2>3, <2>4, <2>7
    <3> QED BY <2>2, <2>5, <2>7, <3>1
  <2> QED BY <2>6, <2>7
<1> QED BY <1>1, <1>2, <1>3, <1>4, RosterChanges

\* All players keep to the side of their team and change over together, the
\* dead included, once, at the half; who joins at any time joins a team too.
THEOREM SidesInStepHolds == Spec => []SidesInStep
<1>1. Init => SidesInStep BY DEF Init, GameInit, SidesInStep
<1> QED BY <1>1, SidesNext, LifeInvInit, LifeInvNext, RoundInvInit,
           RoundInvNext, TypeCorrect, PTL DEF Spec

\* With at least two rounds, a round's point goes to the team that was on the
\* winning side, whoever joined it and when.  With one round it does not: the
\* half is 0.
THEOREM RightTeamCreditedHolds ==
    ASSUME RoundsTotal >= 2
    PROVE  Spec => RightTeamCredited
<1>1. TypeOK /\ SidesInStep /\ [Next]_vars
        => [\A id \in players \cup dead_players :
              /\ team_a_wins' # team_a_wins
                    => (team[id] = TERRORIST <=> player_type[id] = last_winner)
              /\ team_b_wins' # team_b_wins
                    => (team[id] = COUNTERTERRORIST <=> player_type[id] = last_winner)]_vars
  <2> SUFFICES ASSUME TypeOK, SidesInStep, Next,
                      NEW id \in players \cup dead_players,
                      team_a_wins' # team_a_wins \/ team_b_wins' # team_b_wins
               PROVE  /\ team_a_wins' # team_a_wins
                            => (team[id] = TERRORIST <=> player_type[id] = last_winner)
                      /\ team_b_wins' # team_b_wins
                            => (team[id] = COUNTERTERRORIST
                                  <=> player_type[id] = last_winner)
    OBVIOUS
  <2>1. GameEnd BY ScoreChanges
  <2>2. /\ team[id] \in Sides
        /\ player_type[id] = IF SidesSwitched THEN OtherSide(team[id]) ELSE team[id]
    BY DEF SidesInStep, TeamOf
  <2>3. SidesSwitched <=> ~TeamAIsTerrorist
    BY <2>1 DEF GameEnd, SidesSwitched, TeamAIsTerrorist, TypeOK, GameTypeOK
  <2>4. /\ team_a_wins' # team_a_wins => TeamAWon
        /\ team_b_wins' # team_b_wins => last_winner # UNKNOWN /\ ~TeamAWon
    BY <2>1 DEF GameEnd, EndRound, UpdateStats
  <2>5. last_winner \in PlayerType BY DEF TypeOK, GameTypeOK
  <2> QED
    BY <2>2, <2>3, <2>4, <2>5 DEF TeamAWon, OtherSide, Sides, PlayerType,
       TERRORIST, COUNTERTERRORIST, UNKNOWN
<1> QED BY <1>1, SidesInStepHolds, TypeCorrect, PTL DEF Spec, RightTeamCredited

-----------------------------------------------------------------------------
(* The statistics and the places *)

\* Whoever may still get a kill, a player or the shooter of a bullet or burst,
\* already has his entries unless he joined late; in the lobby there is nobody
\* to shoot.
StatsInv ==
    /\ StatsServable
    /\ pc \in Lobby => bullets = {} /\ ak47_bursts = {} /\ dead_players = {}
    /\ pc \notin Lobby =>
          (players \cup dead_players \cup bullets \cup ak47_bursts)
              \subseteq (deaths \cap money) \cup late

\* An action gives kills only to ids that have entries or joined late.
LEMMA ActionStats ==
    ASSUME StatsInv, pc \notin Lobby, NEW id \in Ids, DoAction(id),
           UNCHANGED <<pc, late>>
    PROVE  StatsInv'
<1> USE DEF StatsInv, StatsServable
<1>1. CASE Move(id)
  BY <1>1 DEF Move, BulletKills, BulletHits, Die, DropWeapons, roster, entries
<1>2. CASE Shoot(id)
  <2>1. CASE Fire(id) BY <2>1 DEF Fire, roster, entries
  <2>2. ASSUME NEW victim, Knife(id, victim) PROVE StatsInv'
    BY <2>2 DEF Knife, Die, DropWeapons, shots
  <2> QED BY <1>2, <2>1, <2>2 DEF Shoot
<1>3. CASE InteractWithBomb(id) \/ PickUpBomb(id)
  BY <1>3 DEF InteractWithBomb, PlantBomb, DeactivateBomb, PickUpBomb, roster,
              shots, entries
<1>4. CASE Quit(id) \/ DoWinCheat(id)
  BY <1>4 DEF Quit, DoWinCheat, roster, shots, entries
<1> QED BY <1>1, <1>2, <1>3, <1>4 DEF DoAction

\* Every step of the match keeps the entries of whoever may get a kill.
LEMMA StatsNext == TypeOK /\ StatsInv /\ [Next]_vars => StatsInv'
<1> SUFFICES ASSUME TypeOK, StatsInv, [Next]_vars
             PROVE  StatsInv'
  OBVIOUS
<1> USE DEF StatsInv, StatsServable, Lobby, Goto, threadVars, environment, history
<1>1. ASSUME NEW id \in Ids, NEW side \in Sides, Join(id, side)
      PROVE  StatsInv'
  BY <1>1 DEF Join, AddPlayer, StatsInitialized, shots, entries
<1>2. CASE LobbyPop
  BY <1>2 DEF LobbyPop, SetReadyToStart, Quit, gameVars, roster, shots, entries
<1>3. CASE ShoppingPop \/ StatsPop
  BY <1>3 DEF ShoppingPop, StatsPop, Quit, shots, entries
<1>4. CASE DrainPop
  BY <1>4, ActionStats DEF DrainPop, TypeOK
<1>5. ASSUME NEW shooter \in Ids, NEW victim \in Ids,
             SnapshotKill(shooter, victim)
      PROVE  StatsInv'
  BY <1>5 DEF SnapshotKill, BulletKills, Die, DropWeapons
<1>6. CASE SnapshotBegin
  BY <1>6 DEF SnapshotBegin, UpdateBursts, roster, entries
<1>7. CASE SnapshotEnd
  BY <1>7 DEF SnapshotEnd, FinishObjects, roster, entries, Snapshots,
              AfterSnapshot
<1>8. CASE NextRound \/ ShoppingEnd \/ Tick \/ DrainEnd
  BY <1>8 DEF NextRound, ShoppingEnd, Tick, DrainEnd, CheckIsOver, gameVars,
              roster, shots, entries
<1>9. CASE StartMatch
  BY <1>9 DEF StartMatch, InitializeStats, roster, shots
<1>10. CASE SendStats \/ GameStart
  BY <1>10 DEF SendStats, GameStart, StartRound, roster, shots, entries
<1>11. CASE GameEnd
  BY <1>11 DEF GameEnd, EndRound, UpdateStats, ResetPlayers, ResetBullets
<1>12. CASE LobbyCheck \/ StatsEnd \/ Message \/ Stop \/ UNCHANGED vars
  BY <1>12 DEF LobbyCheck, StatsEnd, Message, Stop, vars, gameVars, roster,
               shots, entries
<1> QED
  BY <1>1, <1>2, <1>3, <1>4, <1>5, <1>6, <1>7, <1>8, <1>9, <1>10, <1>11, <1>12
  DEF Next, Advance

\* The senders find every entry they look up in the stats, but those of clients
\* who joined after the start: whoever was there when the match started has his
\* entries before he can kill, through deaths, quits and changes of side.
THEOREM StatsServableHolds == Spec => []StatsServable
<1>1. Init => StatsInv
  BY DEF Init, GameInit, StatsInv, StatsServable, Lobby
<1>2. StatsInv => StatsServable BY DEF StatsInv
<1> QED BY <1>1, <1>2, StatsNext, TypeCorrect, PTL DEF Spec

\* The players of one team, living and dead, that no == let in by mistake.
Team(side) == {id \in players \cup dead_players : team[id] = side} \ stand_ins

\* Cutting both to eight bits keeps equal numbers equal.
LEMMA NotFull ==
    ASSUME NEW side \in Sides, ~IsFull(side)
    PROVE  Cardinality(Alive(side)) # Capacity(side)
BY DEF IsFull

\* The places of a team only grow.
LEMMA PlacesGrow ==
    ASSUME TypeOK, RoundInv, Next, NEW side \in Sides
    PROVE  Places(side)' >= Places(side)
<1>1. Capacity(side) \in Nat /\ Capacity(OtherSide(side)) \in Nat
  BY DEF Capacity
<1>2. CASE GameEnd
  <2>1. SidesSwitched => SidesSwitched'
    BY <1>2 DEF GameEnd, Goto, EndRound, SidesSwitched, TypeOK, GameTypeOK
  <2> QED BY <1>1, <2>1 DEF Places
<1>3. CASE ~GameEnd
  BY <1>1, <1>3, SwitchChanges DEF Places
<1> QED BY <1>2, <1>3

\* No step of the match takes a team past its places.
LEMMA PlacesNext ==
    TypeOK /\ LifeInv /\ RoundInv /\ SidesInStep /\ TeamWithinPlaces /\ [Next]_vars
        => TeamWithinPlaces'
<1> SUFFICES ASSUME TypeOK, LifeInv, RoundInv, SidesInStep, TeamWithinPlaces,
                    [Next]_vars, NEW side \in Sides
             PROVE  Cardinality(Team(side)') <= Places(side)'
  BY DEF TeamWithinPlaces, Team
<1>1. IsFiniteSet(Team(side)) /\ Cardinality(Team(side)) \in Nat
  BY FS_Subset, FS_CardinalityType DEF Team, TypeOK, GameTypeOK
<1>2. Cardinality(Team(side)) <= Places(side) /\ Places(side) \in Nat
  BY DEF TeamWithinPlaces, Team, Places, Capacity
<1>3. Places(side)' \in Nat BY DEF Places, Capacity
<1>4. ASSUME Team(side)' \subseteq Team(side), Next
      PROVE  Cardinality(Team(side)') <= Places(side)'
  <2>1. Cardinality(Team(side)') <= Cardinality(Team(side))
    BY <1>1, <1>4, FS_Subset
  <2>2. Cardinality(Team(side)') \in Nat
    BY <1>1, <1>4, FS_Subset, FS_CardinalityType
  <2>3. Places(side)' >= Places(side) BY <1>4, PlacesGrow
  <2> QED BY <1>1, <1>2, <1>3, <2>1, <2>2, <2>3
<1>5. CASE UNCHANGED vars
  <2>1. Team(side)' = Team(side) /\ Places(side)' = Places(side)
    BY <1>5 DEF vars, gameVars, roster, threadVars, environment, history, Team, Places,
                SidesSwitched
  <2> QED BY <1>2, <2>1
<1>6. CASE Next /\ Fewer
  BY <1>4, <1>6 DEF Fewer, Team
<1>7. CASE Next /\ GameEnd
  BY <1>4, <1>7 DEF GameEnd, EndRound, ResetPlayers, environment, history, Team
<1>8. ASSUME Next, NEW id \in Ids, NEW its \in Sides, Join(id, its)
      PROVE  Cardinality(Team(side)') <= Places(side)'
  <2>1. id \notin players \cup dead_players
    BY <1>8 DEF Join, LifeInv
  <2>2. team' = [team EXCEPT ![id] = TeamOf(its)] /\ UNCHANGED dead_players
    BY <1>8 DEF Join, AddPlayer
  <2>3. stand_ins \subseteq stand_ins'
    BY <1>8 DEF Join
  <2>4. CASE players' = players \/ id \in stand_ins' \/ TeamOf(its) # side
    <3>1. players' \subseteq players \cup {id}
      BY <1>8 DEF Join, AddPlayer
    <3>2. Team(side)' \subseteq Team(side)
      BY <2>1, <2>2, <2>3, <2>4, <3>1 DEF Team, TypeOK
    <3> QED BY <1>4, <1>8, <3>2
  <2>5. CASE players' # players /\ id \notin stand_ins' /\ TeamOf(its) = side
    <3>1. ~IsFull(its) /\ players' = players \cup {id}
      BY <1>8, <2>5 DEF Join, AddPlayer
    <3>2. /\ \A other \in dead_players : player_type[other] # its
          /\ ~(Cardinality(Alive(its)) > Capacity(its))
      BY <1>8, <2>5 DEF Join
    <3>3. its = TeamOf(side)
      BY <2>5, Turned DEF TeamOf
    <3>4. Team(side) \subseteq Alive(its)
      BY <3>2, <3>3 DEF Team, Alive, SidesInStep
    <3>5. IsFiniteSet(Alive(its)) /\ Cardinality(Alive(its)) \in Nat
      BY FS_Subset, FS_CardinalityType DEF Alive, TypeOK, GameTypeOK
    <3>6. Cardinality(Team(side)) <= Cardinality(Alive(its))
      BY <3>4, <3>5, FS_Subset
    <3>7. Cardinality(Alive(its)) # Capacity(its) BY <3>1, NotFull
    <3>8. Capacity(its) \in Nat /\ Capacity(side) \in Nat BY DEF Capacity
    <3>9. Cardinality(Team(side)) + 1 <= Capacity(its)
      BY <1>1, <3>2, <3>5, <3>6, <3>7, <3>8
    <3>10. Capacity(its) <= Places(side)
      BY <3>3, <3>8 DEF Places, TeamOf
    <3>11. Team(side)' \subseteq Team(side) \cup {id}
      BY <2>1, <2>2, <2>3, <3>1 DEF Team, TypeOK
    <3>12. id \notin Team(side) BY <2>1 DEF Team
    <3>13. /\ IsFiniteSet(Team(side) \cup {id})
           /\ Cardinality(Team(side) \cup {id}) = Cardinality(Team(side)) + 1
      BY <1>1, <3>12, FS_AddElement
    <3>14. /\ Cardinality(Team(side)') <= Cardinality(Team(side)) + 1
           /\ Cardinality(Team(side)') \in Nat
      BY <3>11, <3>13, FS_Subset, FS_CardinalityType
    <3>15. Places(side)' >= Places(side) BY <1>8, PlacesGrow
    <3> QED BY <1>1, <1>2, <1>3, <3>8, <3>9, <3>10, <3>14, <3>15
  <2> QED BY <2>4, <2>5
<1> QED BY <1>5, <1>6, <1>7, <1>8, RosterChanges

\* A team outgrows the places its match was made with, or after the half those
\* of the side it then plays for, only through clients whom add_player() let in
\* while a teammate was dead or the side was past its places already.
THEOREM TeamWithinPlacesHolds == Spec => []TeamWithinPlaces
<1>1. Init => TeamWithinPlaces
  <2> SUFFICES ASSUME Init, NEW side \in Sides
               PROVE  Cardinality({id \in players \cup dead_players : team[id] = side}
                                      \ stand_ins) <= Places(side)
    BY DEF TeamWithinPlaces
  <2>1. {id \in players \cup dead_players : team[id] = side} \ stand_ins = {}
    BY DEF Init, GameInit
  <2> QED BY <2>1, FS_EmptySet DEF Places, Capacity
<1> QED
  BY <1>1, PlacesNext, SidesInStepHolds, LifeInvInit, LifeInvNext, RoundInvInit,
     RoundInvNext, TypeCorrect, PTL DEF Spec
=============================================================================
