------------------------------- MODULE GameView -------------------------------
(***************************************************************************)
(* What a client shows of the match: GameView with its BombView, ShopView, *)
(* StatsView, FOVView and the PlayerViews (src/client/graphics).  Updates  *)
(* come from the server in match_loop(), a render() follows each batch,    *)
(* and the input handler asks round_active() and can_player_attack().      *)
(*                                                                         *)
(* An UPDATE is the ids of its players, its bombs (one of an earlier round *)
(* may still lie there) and whether it holds the obstacles.  Bullets and   *)
(* dropped weapons are replaced by each update and kept nowhere else;      *)
(* sounds, positions, health, ammunition, textures and the camera decide   *)
(* nothing here, and of types, the side each player was first seen on,     *)
(* only the statistics' table is made.                                     *)
(***************************************************************************)
EXTENDS Naturals

CONSTANTS Ids, local_id

ASSUME GameViewAssumption == Ids \subseteq 0 .. 65535 /\ local_id \in Ids

VARIABLES
    players,        \* the PlayerView of each id with an entry; NULL is a null pointer
    obstacles,      \* times the obstacles were added
    bomb_view, shop_view, stats_view, fov_view,
    show_waiting_lobby, game_ended, is_alive

overlayVars == <<shop_view, stats_view, fov_view>>
flagVars == <<show_waiting_lobby, game_ended, is_alive>>
viewVars == <<players, obstacles, bomb_view, overlayVars, flagVars>>

Views == {"view", "NULL"}
\* What the bombs of a snapshot say with their countdowns, 65535, a number or 0,
\* and which of the first two the last one says that is not at 0.
OnFloor == {"dropped", "ticking"}
Bombs ==
    {bombs \in [said : SUBSET (OnFloor \cup {"zero"}), last : OnFloor \cup {"none"}] :
        IF bombs.said \cap OnFloor = {} THEN bombs.last = "none" ELSE bombs.last \in bombs.said}

\* players_in_game is an unordered_set<uint8_t>.
uint8(n) == n % 256

\* A function with one more point, or another value there.
With(f, x, y) == [z \in DOMAIN f \cup {x} |-> IF z = x THEN y ELSE f[z]]
Without(f, S) == [z \in DOMAIN f \ S |-> f[z]]

ViewTypeOK ==
    /\ DOMAIN players \subseteq Ids /\ \A i \in DOMAIN players : players[i] \in Views
    /\ obstacles \in 0 .. 1
    /\ bomb_view \in [exploding : BOOLEAN, active : BOOLEAN, dropped : BOOLEAN]
    /\ shop_view \in BOOLEAN /\ stats_view \in BOOLEAN /\ fov_view \in BOOLEAN
    /\ show_waiting_lobby \in BOOLEAN /\ game_ended \in BOOLEAN
    /\ is_alive \in BOOLEAN

\* The constructor, set_id(), set_terrain() and waiting_lobby(true).
ViewInit ==
    /\ players = <<>> /\ obstacles = 0
    /\ bomb_view = [exploding |-> FALSE, active |-> FALSE, dropped |-> FALSE]
    /\ shop_view = FALSE /\ stats_view = FALSE /\ fov_view = FALSE
    /\ show_waiting_lobby = TRUE /\ game_ended = FALSE
    /\ is_alive = TRUE

\* The view is not looked at any more: back to the state it began in.
ViewForgotten ==
    /\ players' = <<>> /\ obstacles' = 0
    /\ bomb_view' = [exploding |-> FALSE, active |-> FALSE, dropped |-> FALSE]
    /\ shop_view' = FALSE /\ stats_view' = FALSE /\ fov_view' = FALSE
    /\ show_waiting_lobby' = TRUE /\ game_ended' = FALSE /\ is_alive' = TRUE

(***************************************************************************)
(* The updates.                                                            *)
(***************************************************************************)
\* Mutant: the next round begins with the bomb of the last.
BombResetExplosion(b) == [b EXCEPT !.exploding = FALSE]

BombReset(b) == [b EXCEPT !.exploding = FALSE, !.active = FALSE]

\* handle_shop_action()
HandleShopAction ==
    /\ bomb_view' = BombReset(bomb_view)
    /\ shop_view' = TRUE /\ stats_view' = FALSE
    /\ is_alive' = TRUE
    /\ UNCHANGED <<players, obstacles, fov_view, game_ended>>

\* handle_stats_action()
HandleStatsAction ==
    /\ stats_view' = TRUE
    /\ UNCHANGED <<players, obstacles, bomb_view, shop_view, fov_view, game_ended,
                   is_alive>>

\* update_bomb() for one bomb after another: none of them clears exploding or
\* active, and dropped is what the last bomb not at zero says.  A snapshot without
\* a bomb resets the view.
UpdateBombs(bombs) ==
    IF bombs.said = {}
      THEN [BombReset(bomb_view) EXCEPT !.dropped = FALSE]
      ELSE [exploding |-> bomb_view.exploding \/ "zero" \in bombs.said,
            active |-> bomb_view.active \/ "ticking" \in bombs.said,
            dropped |-> IF bombs.last = "none" THEN bomb_view.dropped
                                                ELSE bombs.last = "dropped"]

\* update_player(): a new view for an id without an entry.
UpdatePlayers(ids) ==
    [i \in DOMAIN players \cup ids |-> IF i \in DOMAIN players THEN players[i] ELSE "view"]

\* The ids of the views whose players the snapshot does not hold, cut to a byte
\* when they are put into the set and when they are looked up.
Gone(ids) == {i \in DOMAIN players \cup ids : uint8(i) \notin {uint8(j) : j \in ids}}

\* Mutant: the field of view goes when the local player does, is_alive stays.
UpdateKeepingAlive(update) ==
    LET gone == Gone(update.players) IN
    /\ shop_view' = FALSE /\ stats_view' = FALSE
    /\ players' = Without(UpdatePlayers(update.players), gone)
    /\ obstacles' = IF update.static THEN obstacles + 1 ELSE obstacles
    /\ bomb_view' = UpdateBombs(update.bombs)
    /\ fov_view' = (local_id \notin gone /\ (fov_view \/ is_alive))
    /\ UNCHANGED <<game_ended, is_alive>>

\* The rest of update(), for an UPDATE.
UpdateObjects(update) ==
    LET gone == Gone(update.players) IN
    /\ shop_view' = FALSE /\ stats_view' = FALSE
    /\ players' = Without(UpdatePlayers(update.players), gone)
    /\ obstacles' = IF update.static THEN obstacles + 1 ELSE obstacles
    /\ bomb_view' = UpdateBombs(update.bombs)
    /\ IF local_id \in gone THEN fov_view' = FALSE /\ is_alive' = FALSE
                            ELSE fov_view' = (fov_view \/ is_alive) /\ UNCHANGED is_alive
    /\ UNCHANGED game_ended

ShowEndBanner ==
    /\ stats_view' = FALSE /\ game_ended' = TRUE
    /\ UNCHANGED <<players, obstacles, bomb_view, shop_view, fov_view, is_alive>>

(***************************************************************************)
(* render(): it looks the local player up with operator[], which adds a    *)
(* null pointer where there is no entry, and draws an explosion once.      *)
(***************************************************************************)
Render ==
    /\ players' = IF fov_view /\ local_id \notin DOMAIN players
                    THEN With(players, local_id, "NULL") ELSE players
    /\ bomb_view' = IF bomb_view.exploding THEN BombReset(bomb_view) ELSE bomb_view
    /\ UNCHANGED <<obstacles, overlayVars, flagVars>>

\* A view is asked to draw itself, or to take what the snapshot says of it.
RenderCrashes == \E i \in DOMAIN players : players[i] = "NULL"
UpdateCrashes(ids) == \E i \in DOMAIN players \cap ids : players[i] = "NULL"

(***************************************************************************)
(* What the input handler asks.                                            *)
(***************************************************************************)
round_active ==
    ~game_ended /\ ~show_waiting_lobby /\ ~stats_view /\ ~shop_view /\ is_alive

HasPlayer == local_id \in DOMAIN players /\ players[local_id] # "NULL"

\* can_player_attack() calls a method of players[local_id]; what it answers
\* depends on the clock and the ammunition.
AttackCrashes == round_active /\ ~HasPlayer

\* player_position() has two coordinates.
player_position == HasPlayer

=============================================================================
