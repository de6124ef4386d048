------------------------------- MODULE World -------------------------------
(***************************************************************************)
(* Where the players and the bullets of a match are (src/common/game.cpp,  *)
(* bullet.cpp, player.cpp): the vector of objects, the matrix that finds   *)
(* the objects near a position, moves pixel by pixel, and the places       *)
(* players are put in.                                                     *)
(*                                                                         *)
(* update_bullets() and the reset of a round are several steps here, one   *)
(* per turn of their loops; phase keeps the thread of the match from doing *)
(* anything else between them.  The handlers join players in any phase.    *)
(* Health, weapons, the bomb and the score are in Game.tla and Arsenal.tla:*)
(* whether a hit kills is chosen freely.                                   *)
(***************************************************************************)
EXTENDS Geometry, FiniteSetsExt

CONSTANTS
    Ids,               \* the ids the acceptor gives to clients
    Places,            \* how many players each side has
    Obstacles,         \* obstacles of the map: records of corner and size
    TeamZones,         \* zones of the map, for the sides that have one
    ZONE_SIZE,
    MOVE_STEP,
    BULLET_STEP,
    Headings,          \* where shots are aimed, as vectors of any length
    Ranges,            \* ranges of the weapons of config.yaml
    RoundsTotal,       \* rounds_total of config.yaml
    MaxBulletId,       \* 2^16 - 1
    MaxRounds,         \* bound: rounds played
    MaxActions         \* bound: moves and shots in all

Sides == {"TERRORIST", "COUNTERTERRORIST"}
Directions == {"UP", "DOWN", "LEFT", "RIGHT"}

Pixel == 0 .. MapSize
Position == Pixel \X Pixel
ObstacleRecord == [corner : Position, width : Nat, height : Nat]
Zone == [x : Nat, y : Nat, width : Nat, height : Nat]
BulletRecord == [position : Position, target : Position, range : Nat,
                 player_id : Ids]

ASSUME WorldAssumption ==
    /\ Ids \subseteq Nat /\ IsFiniteSet(Ids)
    /\ Places \in [Sides -> Nat]
    /\ Obstacles \subseteq ObstacleRecord
    /\ TeamZones \in [DOMAIN TeamZones -> Zone] /\ DOMAIN TeamZones \subseteq Sides
    /\ ZONE_SIZE \in Nat
    /\ PLAYER_RADIUS <= ZONE_SIZE
    /\ MOVE_STEP \in Nat \ {0}
    /\ BULLET_STEP \in Nat \ {0}
    /\ Headings \subseteq Int \X Int
    /\ Ranges \subseteq Nat
    /\ RoundsTotal \in Nat /\ MaxRounds \in Nat /\ MaxActions \in Nat
    /\ MaxBulletId \in Nat \ {0}
    /\ 2 * PLAYER_RADIUS <= MapSize

\* Most pixels a player and a bullet get in one step: their step, or what brings
\* them back inside the border.
LongestMove == Higher(MOVE_STEP, PLAYER_RADIUS)
LongestFlight == Higher(BULLET_STEP, BULLET_RADIUS)

\* The sizes for which a search two cells around is enough.  With walls of 32 the
\* program has 16 + 32 + 16 - 1 and 2 + 32 + 10 - 1 on the left and 2 * 32 on the
\* right.
ASSUME ScaleAssumption ==
    /\ \A o \in Obstacles :
          /\ BULLET_RADIUS + o.width + LongestFlight - 1 <= 2 * CELL_SIZE
          /\ BULLET_RADIUS + o.height + LongestFlight - 1 <= 2 * CELL_SIZE
          /\ PLAYER_RADIUS + o.width + LongestMove - 1 <= 2 * CELL_SIZE
          /\ PLAYER_RADIUS + o.height + LongestMove - 1 <= 2 * CELL_SIZE
    /\ BULLET_RADIUS + PLAYER_RADIUS + LongestFlight - 1 <= 2 * CELL_SIZE
    /\ 2 * PLAYER_RADIUS + LongestMove - 1 <= 2 * CELL_SIZE

VARIABLES
    phase,
    players,           \* id -> position, the map of living players
    dead_players,      \* id -> position
    player_type,
    bullets,           \* the map of bullets
    bullet_id,
    objects,           \* the vector of objects, as a set
    matrix,            \* pairs of a cell and an object in its vector
    bullets_to_update, \* inside update_bullets(): where they were, what they met
    bullets_to_delete,
    relocate,          \* inside reset_players(): players still to be put somewhere
    revived,           \* those of them that were dead
    newcomers,         \* history: who joined since the first loop of update_bullets()
    round_number,
    actions

vars == <<phase, players, dead_players, player_type, bullets, bullet_id, objects,
          matrix, bullets_to_update, bullets_to_delete, relocate, revived, newcomers,
          round_number, actions>>

registry == <<players, dead_players, bullets, objects, matrix>>
loops == <<bullets_to_update, bullets_to_delete, relocate, revived, newcomers>>

Player(id) == <<"PLAYER", id>>
Bullet(n) == <<"BULLET", n>>
Obstacle(o) == <<"OBSTACLE", o>>
NONE == <<"UNKNOWN", 0>>

Object == {Player(id) : id \in Ids} \cup {Bullet(n) : n \in 1 .. MaxBulletId}
          \cup {Obstacle(o) : o \in Obstacles}

Without(f, gone) == [k \in DOMAIN f \ gone |-> f[k]]
With(f, k, value) == [i \in DOMAIN f \cup {k} |-> IF i = k THEN value ELSE f[i]]

-----------------------------------------------------------------------------
(* What is near, and what overlaps *)

PositionOf(object) ==
    CASE object[1] = "PLAYER" -> players[object[2]]
      [] object[1] = "BULLET" -> bullets[object[2]].position
      [] object[1] = "OBSTACLE" -> object[2].corner

get_adyacent_objects(cell) ==
    {object \in objects :
        \E near \in get_cells_within_radius(cell, 2) : <<near, object>> \in matrix}

Radius(object) == IF object[1] = "BULLET" THEN BULLET_RADIUS ELSE PLAYER_RADIUS

Overlaps(mover, position, other) ==
    /\ mover # other
    /\ CASE other[1] = "BULLET" ->
              /\ mover[1] # "BULLET"
              /\ circle_circle_collision(position, Radius(mover),
                                         PositionOf(other), BULLET_RADIUS)
         [] other[1] = "PLAYER" ->
              circle_circle_collision(position, Radius(mover),
                                      PositionOf(other), PLAYER_RADIUS)
         [] other[1] = "OBSTACLE" ->
              circle_rectangle_collision(position, Radius(mover), other[2].corner,
                                         other[2].width, other[2].height)

\* The code returns the first of them in a set ordered by addresses: any.
collides(mover, position, near) == {o \in near : Overlaps(mover, position, o)}

-----------------------------------------------------------------------------
(* How far something gets *)

Toward(from, to, k) == IF from <= to THEN Lower(from + k, to) ELSE Higher(from - k, to)

\* The k-th pixel of the way.
Pixels(from, to, k) == <<Toward(from[1], to[1], k), Toward(from[2], to[2], k)>>

Gap(a, b) == Higher(a - b, b - a)

PathLength(from, to) == Higher(Gap(from[1], to[1]), Gap(from[2], to[2]))

StopsOn(mover, other) ==
    <<mover[1], other[1]>> \in {<<"PLAYER", "BULLET">>, <<"BULLET", "PLAYER">>,
                                <<"BULLET", "OBSTACLE">>}

\* Mutant: whatever is met, the mover stops on it.
get_max_position_onto(mover, from, to) ==
    LET near == get_adyacent_objects(get_cell_from_position(to))
        met(k) == collides(mover, Pixels(from, to, k), near)
        blocked == {k \in 1 .. PathLength(from, to) : met(k) # {}}
        last == Min(blocked)
    IN  IF blocked = {} THEN {[position |-> to, met |-> NONE]}
        ELSE {[position |-> Pixels(from, to, last), met |-> o] : o \in met(last)}

get_max_position(mover, from, to) ==
    LET near == get_adyacent_objects(get_cell_from_position(to))
        met(k) == collides(mover, Pixels(from, to, k), near)
        blocked == {k \in 1 .. PathLength(from, to) : met(k) # {}}
        last == Min(blocked)
    IN  IF blocked = {} THEN {[position |-> to, met |-> NONE]}
        ELSE {[position |-> Pixels(from, to, IF StopsOn(mover, o) THEN last ELSE last - 1),
               met |-> o] : o \in met(last)}

\* What update_object_in_matrix() finds at the place the mover got to: what
\* stopped it, if that is still there, for the addresses did not change.
Collider(mover, moved) ==
    LET met == collides(mover, moved.position,
                        get_adyacent_objects(get_cell_from_position(moved.position)))
    IN  IF met = {} THEN {NONE} ELSE IF moved.met \in met THEN {moved.met} ELSE met

-----------------------------------------------------------------------------
(* The matrix *)

Entry(object, position) == <<get_cell_from_position(position), object>>

remove_from_matrix(m, object, position) == m \ {Entry(object, position)}

EntriesOfBullets(gone) == {Entry(Bullet(n), bullets[n].position) : n \in gone}

delete_bullets(gone) ==
    /\ bullets' = Without(bullets, gone)
    /\ objects' = objects \ {Bullet(n) : n \in gone}
    /\ matrix' = matrix \ EntriesOfBullets(gone)

\* Mutant: the bullet is taken only out of the cell it has got to.
HitPlayerFromNewCell(n, old, id, dies) ==
    /\ bullets' = Without(bullets, {n})
    /\ objects' = objects \ ({Bullet(n)} \cup IF dies THEN {Player(id)} ELSE {})
    /\ matrix' = (matrix \ {Entry(Bullet(n), bullets[n].position)})
                 \ IF dies THEN {Entry(Player(id), players[id])} ELSE {}
    /\ players' = IF dies THEN Without(players, {id}) ELSE players
    /\ dead_players' = IF dies THEN With(dead_players, id, players[id]) ELSE dead_players

\* A bullet that was taken out of its cell hits a player who is in his.
HitPlayer(n, old, id, dies) ==
    /\ bullets' = Without(bullets, {n})
    /\ objects' = objects \ ({Bullet(n)} \cup IF dies THEN {Player(id)} ELSE {})
    /\ matrix' = (matrix \ {Entry(Bullet(n), old), Entry(Bullet(n), bullets[n].position)})
                 \ IF dies THEN {Entry(Player(id), players[id])} ELSE {}
    /\ players' = IF dies THEN Without(players, {id}) ELSE players
    /\ dead_players' = IF dies THEN With(dead_players, id, players[id]) ELSE dead_players

-----------------------------------------------------------------------------
(* Where players are put *)

Middle(corner, size) == corner + size \div 2

ZoneFrom(centre) == Clamp(centre - ZONE_SIZE \div 2, 0, MapSize)
ZoneTo(centre) == Lower(centre - ZONE_SIZE \div 2 + ZONE_SIZE, MapSize) - PLAYER_RADIUS

\* The positions get_random_player_position() draws from.
Drawn(type) ==
    IF /\ type \in DOMAIN TeamZones
       /\ TeamZones[type].width >= PLAYER_RADIUS
       /\ TeamZones[type].height >= PLAYER_RADIUS
    THEN LET x == Middle(TeamZones[type].x, TeamZones[type].width)
             y == Middle(TeamZones[type].y, TeamZones[type].height)
         IN  (ZoneFrom(x) .. ZoneTo(x)) \X (ZoneFrom(y) .. ZoneTo(y))
    ELSE (PLAYER_RADIUS .. MapSize - PLAYER_RADIUS)
            \X (PLAYER_RADIUS .. MapSize - PLAYER_RADIUS)

get_random_player_position(type, id) ==
    {position \in Drawn(type) :
        collides(Player(id), position,
                 get_adyacent_objects(get_cell_from_position(position))) = {}}

OfType(type) == {id \in DOMAIN players : player_type[id] = type}

Init ==
    /\ phase = "lobby"
    /\ players = <<>>
    /\ dead_players = <<>>
    /\ player_type = [id \in Ids |-> "UNKNOWN"]
    /\ bullets = <<>>
    /\ bullet_id = 1
    /\ objects = {Obstacle(o) : o \in Obstacles}
    /\ matrix = {Entry(Obstacle(o), o.corner) : o \in Obstacles}
    /\ bullets_to_update = <<>>
    /\ bullets_to_delete = {}
    /\ relocate = {}
    /\ revived = {}
    /\ newcomers = {}
    /\ round_number = 0
    /\ actions = 0

\* max_player_amount and actual_player_amount are cut to eight bits.
Uint8 == 256

IsFull(type) == Cardinality(OfType(type)) % Uint8 = Places[type] % Uint8

\* Whether the loop of reset_players() still comes to a player who joins now.  It
\* goes through the map in the order of the ids: with none left before his it
\* depends on the moment, and on whom it has passed.
Visited(id) ==
    IF phase # "reset" THEN {FALSE}
    ELSE IF \E other \in relocate : other < id THEN {TRUE} ELSE BOOLEAN

\* The handler's thread adds a player whatever the match is doing.  Ids are not
\* reused: player_type tells who was here.
AddPlayer(id, type) ==
    /\ player_type[id] = "UNKNOWN"
    /\ ~IsFull(type)
    /\ \E position \in get_random_player_position(type, id) :
          /\ players' = With(players, id, position)
          /\ matrix' = matrix \cup {Entry(Player(id), position)}
    /\ player_type' = [player_type EXCEPT ![id] = type]
    /\ objects' = objects \cup {Player(id)}
    /\ \E visited \in Visited(id) :
          relocate' = IF visited THEN relocate \cup {id} ELSE relocate
    /\ newcomers' = IF phase = "bullets" THEN newcomers \cup {id} ELSE newcomers
    /\ UNCHANGED <<phase, dead_players, bullets, bullet_id, bullets_to_update,
                   bullets_to_delete, revived, round_number, actions>>

\* Every place is taken, or someone on each side sends START.
StartMatch ==
    /\ phase = "lobby"
    /\ \/ \A type \in Sides : Cardinality(OfType(type)) = Places[type]
       \/ \A type \in Sides : OfType(type) # {}
    /\ phase' = "game"
    /\ round_number' = 1
    /\ UNCHANGED <<registry, player_type, bullet_id, loops, actions>>

\* In the lobby, in the shop or between two snapshots.
Quit(id) ==
    /\ phase \in {"lobby", "game"}
    /\ id \in DOMAIN players \cup DOMAIN dead_players
    /\ objects' = objects \ {Player(id)}
    /\ matrix' = IF id \in DOMAIN players
                 THEN remove_from_matrix(matrix, Player(id), players[id])
                 ELSE matrix
    /\ players' = Without(players, {id})
    /\ dead_players' = Without(dead_players, {id})
    /\ UNCHANGED <<phase, player_type, bullets, bullet_id, loops, round_number, actions>>

-----------------------------------------------------------------------------
(* Moves and shots *)

Sign(d) == IF d > 0 THEN 1 ELSE IF d < 0 THEN -1 ELSE 0

\* distance * a / sqrt(square) rounded, without the root; halves go both ways.
Along(a, square, distance) ==
    {Sign(a) * k : k \in {k \in 0 .. distance :
        LET twice == 2 * a * distance IN
        /\ twice * twice <= (2 * k + 1) * (2 * k + 1) * square
        /\ k # 0 => (2 * k - 1) * (2 * k - 1) * square <= twice * twice}}

InMap(v) == Clamp(v, BULLET_RADIUS, MapSize - BULLET_RADIUS)

\* A bullet's position at a distance from another, along a vector: each coordinate
\* is rounded by itself, and cut at the border.
Away(position, heading, distance) ==
    LET square == heading[1] * heading[1] + heading[2] * heading[2]
    IN  {<<InMap(position[1] + x), InMap(position[2] + y)>> :
            x \in Along(heading[1], square, distance),
            y \in Along(heading[2], square, distance)}

\* Off the axes set_starting_position() may find its first offset too small by
\* an error of its floats, and takes the next.
Offsets(heading) ==
    LET first == PLAYER_RADIUS + BULLET_RADIUS + 1
    IN  IF 0 \in {heading[1], heading[2]} THEN {first} ELSE {first, first + 1}

Starts(position, heading) ==
    UNION {Away(position, heading, offset) : offset \in Offsets(heading)}

Player_get_next_position(position, direction) ==
    LET low == PLAYER_RADIUS
        high == MapSize - PLAYER_RADIUS
    IN  CASE direction = "UP" -> <<position[1], Higher(position[2] - MOVE_STEP, low)>>
          [] direction = "DOWN" -> <<position[1], Lower(position[2] + MOVE_STEP, high)>>
          [] direction = "LEFT" -> <<Higher(position[1] - MOVE_STEP, low), position[2]>>
          [] direction = "RIGHT" -> <<Lower(position[1] + MOVE_STEP, high), position[2]>>

Busy == actions < MaxActions /\ actions' = actions + 1

\* Game::move() when the player gets anywhere: he is put in his new cell, or
\* he runs into a bullet, which hits him there.
Move(id, direction) ==
    /\ phase = "game" /\ Busy
    /\ id \in DOMAIN players
    /\ LET old == players[id]
           next == Player_get_next_position(old, direction)
       IN  \E moved \in get_max_position(Player(id), old, next) :
             /\ moved.position # old
             /\ \E other \in Collider(Player(id), moved) :
                   LET hit == other[1] = "BULLET" IN
                   \E dies \in IF hit THEN BOOLEAN ELSE {FALSE} :
                      /\ players' = IF dies THEN Without(players, {id})
                                    ELSE [players EXCEPT ![id] = moved.position]
                      /\ dead_players' = IF dies
                                         THEN With(dead_players, id, moved.position)
                                         ELSE dead_players
                      /\ bullets' = IF hit THEN Without(bullets, {other[2]}) ELSE bullets
                      /\ objects' = objects \ ((IF hit THEN {other} ELSE {})
                                               \cup (IF dies THEN {Player(id)} ELSE {}))
                      /\ matrix' = (remove_from_matrix(matrix, Player(id), old)
                                      \ IF hit THEN EntriesOfBullets({other[2]}) ELSE {})
                                   \cup IF dies THEN {}
                                        ELSE {Entry(Player(id), moved.position)}
    /\ UNCHANGED <<phase, player_type, bullet_id, loops, round_number>>

NextBulletId == IF bullet_id = MaxBulletId THEN 1 ELSE bullet_id + 1

\* The constructor of Bullet, and create_bullet().  An id in use would have to
\* come round again, 65535 shots later.
Shoot(id, heading, range) ==
    /\ phase = "game" /\ Busy
    /\ id \in DOMAIN players
    /\ bullet_id \notin DOMAIN bullets
    /\ \E start \in Starts(players[id], heading), target \in Away(players[id], heading, range) :
          /\ bullets' = With(bullets, bullet_id,
                             [position |-> start, target |-> target, range |-> range,
                              player_id |-> id])
          /\ matrix' = matrix \cup {Entry(Bullet(bullet_id), start)}
    /\ objects' = objects \cup {Bullet(bullet_id)}
    /\ bullet_id' = NextBulletId
    /\ UNCHANGED <<phase, players, dead_players, player_type, loops, round_number>>

-----------------------------------------------------------------------------
(* update_bullets() *)

IsAlive(bullet) == bullet.range > 0 \/ bullet.position # bullet.target

\* The step is not cut short at the target: a bullet that passes it comes back.
Bullet_get_next_position(bullet) ==
    IF bullet.position = bullet.target
    THEN {bullet.position}
    ELSE Away(bullet.position,
              <<bullet.target[1] - bullet.position[1], bullet.target[2] - bullet.position[2]>>,
              Lower(BULLET_STEP, bullet.range))

\* What a bullet may do in this update.
Flights(n) ==
    IF IsAlive(bullets[n])
    THEN UNION {get_max_position(Bullet(n), bullets[n].position, next) :
                   next \in Bullet_get_next_position(bullets[n])}
    ELSE {[position |-> bullets[n].position, met |-> NONE]}

decrement_range(range, distance) == IF distance >= range THEN 0 ELSE range - distance

\* The first loop: every bullet gets its position and its range, none its cell.
MoveBullets ==
    /\ phase = "game"
    /\ DOMAIN bullets # {}
    /\ phase' = "bullets"
    /\ \E flight \in {f \in [DOMAIN bullets -> UNION {Flights(n) : n \in DOMAIN bullets}] :
                       \A n \in DOMAIN bullets : f[n] \in Flights(n)} :
          LET moved == {n \in DOMAIN bullets : flight[n].position # bullets[n].position} IN
          /\ bullets_to_update' = [n \in moved |-> [old |-> bullets[n].position,
                                                    met |-> flight[n].met]]
          /\ bullets_to_delete' = DOMAIN bullets \ moved
          /\ bullets' = [n \in DOMAIN bullets |->
                           IF n \in moved
                           THEN [bullets[n] EXCEPT
                                   !.position = flight[n].position,
                                   !.range = decrement_range(@,
                                       distance_between(bullets[n].position,
                                                        flight[n].position))]
                           ELSE bullets[n]]
    /\ UNCHANGED <<players, dead_players, player_type, bullet_id, objects, matrix,
                   relocate, revived, newcomers, round_number, actions>>

\* The second loop, in the order of the ids.
UpdateBullet ==
    /\ phase = "bullets"
    /\ DOMAIN bullets_to_update # {}
    /\ LET n == Min(DOMAIN bullets_to_update)
           old == bullets_to_update[n].old
           moved == [position |-> bullets[n].position, met |-> bullets_to_update[n].met]
       IN  /\ \E other \in Collider(Bullet(n), moved) :
                 \/ /\ other[1] = "PLAYER"
                    /\ \E dies \in BOOLEAN : HitPlayer(n, old, other[2], dies)
                 \/ /\ other[1] = "OBSTACLE"
                    /\ bullets' = Without(bullets, {n})
                    /\ objects' = objects \ {Bullet(n)}
                    /\ matrix' = matrix \ {Entry(Bullet(n), old),
                                           Entry(Bullet(n), bullets[n].position)}
                    /\ UNCHANGED <<players, dead_players>>
                 \/ /\ other = NONE
                    /\ matrix' = remove_from_matrix(matrix, Bullet(n), old)
                                 \cup {Entry(Bullet(n), bullets[n].position)}
                    /\ UNCHANGED <<bullets, objects, players, dead_players>>
           /\ bullets_to_update' = Without(bullets_to_update, {n})
    /\ UNCHANGED <<phase, player_type, bullet_id, bullets_to_delete, relocate, revived,
                   newcomers, round_number, actions>>

\* The third loop.
DeleteBullets ==
    /\ phase = "bullets"
    /\ DOMAIN bullets_to_update = {}
    /\ delete_bullets(bullets_to_delete)
    /\ bullets_to_delete' = {}
    /\ newcomers' = {}
    /\ phase' = "game"
    /\ UNCHANGED <<players, dead_players, player_type, bullet_id, bullets_to_update,
                   relocate, revived, round_number, actions>>

-----------------------------------------------------------------------------
(* The reset of a round *)

Switched(type) ==
    CASE type = "TERRORIST" -> "COUNTERTERRORIST"
      [] type = "COUNTERTERRORIST" -> "TERRORIST"
      [] OTHER -> type

\* The dead are back in the maps, at the place where they died but in no cell.
EndRound ==
    /\ phase = "game"
    /\ round_number < MaxRounds
    /\ phase' = "reset"
    /\ players' = [id \in DOMAIN players \cup DOMAIN dead_players |->
                      IF id \in DOMAIN dead_players THEN dead_players[id] ELSE players[id]]
    /\ objects' = objects \cup {Player(id) : id \in DOMAIN dead_players}
    /\ revived' = DOMAIN dead_players
    /\ relocate' = DOMAIN players \cup DOMAIN dead_players
    /\ dead_players' = <<>>
    /\ player_type' = IF round_number = RoundsTotal \div 2
                      THEN [id \in Ids |-> IF id \in relocate' THEN Switched(player_type[id])
                                           ELSE player_type[id]]
                      ELSE player_type
    /\ UNCHANGED <<bullets, bullet_id, matrix, bullets_to_update, bullets_to_delete,
                   newcomers, round_number, actions>>

RelocatePlayer ==
    /\ phase = "reset"
    /\ relocate # {}
    /\ LET id == Min(relocate) IN
       /\ \E position \in get_random_player_position(player_type[id], id) :
             /\ players' = [players EXCEPT ![id] = position]
             /\ matrix' = remove_from_matrix(matrix, Player(id), players[id])
                          \cup {Entry(Player(id), position)}
       /\ relocate' = relocate \ {id}
       /\ revived' = revived \ {id}
    /\ UNCHANGED <<phase, dead_players, player_type, bullets, bullet_id, objects,
                   bullets_to_update, bullets_to_delete, newcomers, round_number,
                   actions>>

\* reset_bullets(), and the next round.
NextRound ==
    /\ phase = "reset"
    /\ relocate = {}
    /\ delete_bullets(DOMAIN bullets)
    /\ bullet_id' = 1
    /\ phase' = "game"
    /\ round_number' = round_number + 1
    /\ UNCHANGED <<players, dead_players, player_type, loops, actions>>

Next ==
    \/ \E id \in Ids :
          \/ \E type \in Sides : AddPlayer(id, type)
          \/ Quit(id)
          \/ \E direction \in Directions : Move(id, direction)
          \/ \E heading \in Headings, range \in Ranges : Shoot(id, heading, range)
    \/ StartMatch
    \/ MoveBullets \/ UpdateBullet \/ DeleteBullets
    \/ EndRound \/ RelocatePlayer \/ NextRound

Spec == Init /\ [][Next]_vars

-----------------------------------------------------------------------------
(* Properties *)

\* Every variable has its type; a player is in one of the two maps; what the
\* loops still have to do are bullets and players there are.
TypeOK ==
    /\ phase \in {"lobby", "game", "bullets", "reset"}
    /\ DOMAIN players \subseteq Ids /\ players \in [DOMAIN players -> Position]
    /\ DOMAIN dead_players \subseteq Ids
    /\ dead_players \in [DOMAIN dead_players -> Position]
    /\ DOMAIN players \cap DOMAIN dead_players = {}
    /\ player_type \in [Ids -> Sides \cup {"UNKNOWN"}]
    /\ \A id \in DOMAIN players \cup DOMAIN dead_players : player_type[id] \in Sides
    /\ DOMAIN bullets \subseteq 1 .. MaxBulletId
    /\ bullets \in [DOMAIN bullets -> BulletRecord]
    /\ bullet_id \in 1 .. MaxBulletId
    /\ DOMAIN bullets_to_update \subseteq DOMAIN bullets
    /\ bullets_to_update \in
          [DOMAIN bullets_to_update -> [old : Position, met : Object \cup {NONE}]]
    /\ bullets_to_delete \subseteq DOMAIN bullets \ DOMAIN bullets_to_update
    /\ phase # "bullets" => DOMAIN bullets_to_update = {} /\ bullets_to_delete = {}
    /\ revived \subseteq relocate /\ relocate \subseteq DOMAIN players
    /\ phase # "reset" => relocate = {}
    /\ newcomers \subseteq Ids
    /\ phase # "bullets" => newcomers = {}
    /\ phase \in {"lobby", "reset"} => DOMAIN dead_players = {}

\* The position whose cell an object is in: a bullet that has moved is still
\* where it was until its turn of the second loop.
Seat(object) ==
    IF object[1] = "BULLET" /\ object[2] \in DOMAIN bullets_to_update
    THEN bullets_to_update[object[2]].old
    ELSE PositionOf(object)

Dead(object) == object[1] = "PLAYER" /\ object[2] \in revived

ObjectsKnown ==
    objects = {Player(id) : id \in DOMAIN players}
              \cup {Bullet(n) : n \in DOMAIN bullets}
              \cup {Obstacle(o) : o \in Obstacles}

Placed == {o \in objects : ~Dead(o)}

MatrixRight == matrix = {Entry(object, Seat(object)) : object \in Placed}

\* The vector of objects, the matrix and the two maps agree: what is sent to
\* the clients, what can be hit and what the rules know of are the same
\* things, each in the one cell of its position, whoever moves, shoots, dies,
\* leaves or comes back.
Registered == ObjectsKnown /\ MatrixRight

Solid == {o \in Placed : o[1] # "BULLET"}

\* The pixels of a way on which a bullet may not have touched an object.  A player
\* who joined after the bullets got their positions may stand where one of them
\* has passed, but not where it is.
Forbidden(o, from, to) ==
    IF o \in {Player(id) : id \in newcomers}
    THEN {PathLength(from, to)} \ {0}
    ELSE 1 .. PathLength(from, to)

\* No bullet flies through anything: one that is still there after an update
\* touched no wall and no living player on any pixel of its way, though only
\* the cells around its last position were searched, whoever joins, leaves or
\* dies while the bullets have their turns.
NoTunnelling ==
    [][\A n \in DOMAIN bullets_to_update :
         n \in DOMAIN bullets' /\ n \notin DOMAIN bullets_to_update' =>
            LET from == bullets_to_update[n].old
                to == bullets[n].position
            IN  \A o \in Solid \cap objects' : \A k \in Forbidden(o, from, to) :
                    ~Overlaps(Bullet(n), Pixels(from, to, k), o)]_vars

Touching(id) ==
    \E o \in Solid : Overlaps(Player(id), players[id], o)

\* A bullet that was where a player now is hit him in this step, and is gone.
HitThere(id) ==
    \E n \in DOMAIN bullets \ DOMAIN bullets' :
        circle_circle_collision(players'[id], PLAYER_RADIUS,
                                bullets[n].position, BULLET_RADIUS)

\* Nobody gets into a wall or another player, by his own steps, where a round
\* begins or where he joins, whatever the match is doing: but for a player who
\* runs into a bullet, who is put on the very pixel where it stops him, though a
\* wall or a player is there too.
OnlyBulletsPush ==
    [][\A id \in DOMAIN players' \ relocate' :
         (id \in DOMAIN players \ relocate => players'[id] # players[id])
         /\ Touching(id)' => HitThere(id)]_vars
=============================================================================
