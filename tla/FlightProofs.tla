---------------------------- MODULE FlightProofs ----------------------------
(***************************************************************************)
(* World: nothing flies or walks through anything.                         *)
(***************************************************************************)
EXTENDS WorldProofs

-----------------------------------------------------------------------------
(* Ways *)

LEMMA Scale ==
  /\ LongestMove \in Nat \ {0} /\ LongestFlight \in Nat \ {0}
  /\ PLAYER_RADIUS <= LongestMove /\ MOVE_STEP <= LongestMove
  /\ BULLET_RADIUS <= LongestFlight /\ BULLET_STEP <= LongestFlight
BY Sizes, GeometryAssumption DEF GeometryAssumption, LongestMove, LongestFlight, Higher

LEMMA ObstacleSizes ==
  \A w \in Obstacles : w.width \in Nat /\ w.height \in Nat
BY WorldAssumption DEF WorldAssumption, ObstacleRecord

LEMMA TowardGap ==
  ASSUME NEW a \in Nat, NEW b \in Nat, NEW k \in Nat \ {0}, NEW s \in Nat \ {0},
         Gap(a, b) <= s
  PROVE  Toward(a, b, k) - b <= s - 1 /\ b - Toward(a, b, k) <= s - 1
BY DEF Toward, Gap, Lower, Higher

\* After its first pixel a way of at most s pixels is within s - 1 of its end.
LEMMA PixelsGap ==
  ASSUME NEW from \in Position, NEW to \in Position, NEW k \in Nat \ {0},
         NEW s \in Nat \ {0}, PathLength(from, to) <= s
  PROVE  /\ Pixels(from, to, k)[1] - to[1] <= s - 1 /\ to[1] - Pixels(from, to, k)[1] <= s - 1
         /\ Pixels(from, to, k)[2] - to[2] <= s - 1 /\ to[2] - Pixels(from, to, k)[2] <= s - 1
<1>1. /\ from[1] \in Nat /\ from[2] \in Nat /\ to[1] \in Nat /\ to[2] \in Nat
  BY MapSizeType DEF Position, Pixel
<1>2. Gap(from[1], to[1]) <= s /\ Gap(from[2], to[2]) <= s
  BY <1>1 DEF PathLength, Gap, Higher
<1> QED BY <1>1, <1>2, TowardGap DEF Pixels

LEMMA TowardCut ==
  ASSUME NEW a \in Nat, NEW b \in Nat, NEW k \in Nat, NEW last \in Nat \ {0}, k <= last
  PROVE  /\ Toward(a, Toward(a, b, last), k) = Toward(a, b, k)
         /\ Gap(a, Toward(a, b, last)) = Lower(last, Gap(a, b))
BY DEF Toward, Gap, Lower, Higher

\* The way to the last-th pixel of a way is its beginning.
LEMMA PathCut ==
  ASSUME NEW from \in Position, NEW to \in Position,
         NEW last \in 1 .. PathLength(from, to)
  PROVE  /\ PathLength(from, Pixels(from, to, last)) = last
         /\ \A k \in 0 .. last : Pixels(from, Pixels(from, to, last), k) = Pixels(from, to, k)
<1>1. /\ from[1] \in Nat /\ from[2] \in Nat /\ to[1] \in Nat /\ to[2] \in Nat
      /\ last \in Nat \ {0} /\ PathLength(from, to) \in Nat
  BY PathLengthType, MapSizeType DEF Position, Pixel
<1>2. \A k \in 0 .. last : Pixels(from, Pixels(from, to, last), k) = Pixels(from, to, k)
  BY <1>1, TowardCut DEF Pixels
<1>3. /\ Gap(from[1], Toward(from[1], to[1], last)) = Lower(last, Gap(from[1], to[1]))
      /\ Gap(from[2], Toward(from[2], to[2], last)) = Lower(last, Gap(from[2], to[2]))
  BY <1>1, TowardCut
<1>4. PathLength(from, Pixels(from, to, last))
        = Higher(Lower(last, Gap(from[1], to[1])), Lower(last, Gap(from[2], to[2])))
  BY <1>3 DEF PathLength, Pixels
<1>5. /\ Gap(from[1], to[1]) \in Nat /\ Gap(from[2], to[2]) \in Nat
      /\ last <= Higher(Gap(from[1], to[1]), Gap(from[2], to[2]))
  BY <1>1 DEF Gap, Higher, PathLength
<1>6. PathLength(from, Pixels(from, to, last)) = last
  BY <1>1, <1>4, <1>5 DEF Higher, Lower
<1> QED BY <1>2, <1>6

LEMMA PathEnds ==
  ASSUME NEW from \in Position, NEW to \in Position
  PROVE  /\ Pixels(from, to, 0) = from
         /\ Pixels(from, to, PathLength(from, to)) = to
         /\ from # to => PathLength(from, to) \in Nat \ {0}
<1>1. /\ from[1] \in Nat /\ from[2] \in Nat /\ to[1] \in Nat /\ to[2] \in Nat
      /\ from = <<from[1], from[2]>> /\ to = <<to[1], to[2]>>
  BY MapSizeType DEF Position, Pixel
<1>2. \A k \in Nat : Gap(from[1], to[1]) <= k => Toward(from[1], to[1], k) = to[1]
  BY <1>1 DEF Gap, Toward, Lower, Higher
<1>3. \A k \in Nat : Gap(from[2], to[2]) <= k => Toward(from[2], to[2], k) = to[2]
  BY <1>1 DEF Gap, Toward, Lower, Higher
<1>4. /\ PathLength(from, to) \in Nat
      /\ Gap(from[1], to[1]) <= PathLength(from, to)
      /\ Gap(from[2], to[2]) <= PathLength(from, to)
  BY <1>1 DEF PathLength, Gap, Higher
<1>5. Pixels(from, to, PathLength(from, to)) = to
  BY <1>1, <1>2, <1>3, <1>4 DEF Pixels
<1>6. Pixels(from, to, 0) = from
  BY <1>1 DEF Pixels, Toward, Lower, Higher
<1>7. PathLength(from, to) = 0 => from = to
  BY <1>5, <1>6
<1> QED BY <1>4, <1>5, <1>6, <1>7

\* A player and a bullet get no further than the longest step.
LEMMA MoveLength ==
  ASSUME NEW position \in Position, NEW direction \in Directions
  PROVE  PathLength(position, Player_get_next_position(position, direction)) <= LongestMove
<1>1. position[1] \in 0 .. MapSize /\ position[2] \in 0 .. MapSize
  BY DEF Position, Pixel
<1> QED
  BY <1>1, Sizes, Scale
     DEF Player_get_next_position, PathLength, Gap, Lower, Higher, Directions

\* Back inside the border, or at most a distance away.
LEMMA InMapGap ==
  ASSUME NEW a \in Pixel, NEW x \in Int, NEW distance \in Nat, distance <= LongestFlight,
         -distance <= x, x <= distance
  PROVE  Gap(a, InMap(a + x)) <= LongestFlight
BY Sizes, Scale DEF Gap, InMap, Clamp, Lower, Higher, Pixel

LEMMA FlightLength ==
  ASSUME NEW bullet \in BulletRecord, NEW next \in Bullet_get_next_position(bullet)
  PROVE  PathLength(bullet.position, next) <= LongestFlight
<1>1. PICK from \in Position, to \in Position : from = bullet.position /\ to = bullet.target
  BY DEF BulletRecord
<1>2. CASE from = to
  <2>1. next = from
    BY <1>1, <1>2 DEF Bullet_get_next_position
  <2>2. PathLength(from, from) = 0
    BY MapSizeType DEF PathLength, Gap, Higher, Position, Pixel
  <2> QED BY <1>1, <2>1, <2>2, Scale
<1>3. CASE from # to
  <2>1. PICK distance \in Nat : distance = Lower(BULLET_STEP, bullet.range)
    BY Sizes DEF BulletRecord, Lower
  <2>2. distance <= LongestFlight
    BY <2>1, Scale, Sizes DEF BulletRecord, Lower
  <2>3. PICK heading \in Int \X Int : heading = <<to[1] - from[1], to[2] - from[2]>>
    <3>1. from[1] \in Int /\ from[2] \in Int /\ to[1] \in Int /\ to[2] \in Int
      BY MapSizeType DEF Position, Pixel
    <3>2. <<to[1] - from[1], to[2] - from[2]>> \in Int \X Int
      BY <3>1
    <3> QED BY <3>2
  <2>4. next \in Away(from, heading, distance)
    BY <1>1, <1>3, <2>1, <2>3 DEF Bullet_get_next_position
  <2>5. PICK square : square = heading[1] * heading[1] + heading[2] * heading[2]
    OBVIOUS
  <2>6. PICK x \in Along(heading[1], square, distance), y \in Along(heading[2], square, distance) :
           next = <<InMap(from[1] + x), InMap(from[2] + y)>>
    BY <2>4, <2>5 DEF Away
  <2>7. /\ x \in Int /\ -distance <= x /\ x <= distance
        /\ y \in Int /\ -distance <= y /\ y <= distance
    BY <2>6, AlongBound
  <2>8. from[1] \in Pixel /\ from[2] \in Pixel
    BY DEF Position
  <2>9. /\ Gap(from[1], InMap(from[1] + x)) <= LongestFlight
        /\ Gap(from[2], InMap(from[2] + y)) <= LongestFlight
    BY <2>2, <2>7, <2>8, InMapGap
  <2> QED BY <1>1, <2>6, <2>9 DEF PathLength, Higher
<1> QED BY <1>2, <1>3

-----------------------------------------------------------------------------
(* The search *)

\* Whatever solid overlaps a circle is found by a search from any position
\* within step pixels, if the sizes and the step fit in two cells.
LEMMA SearchFinds ==
  ASSUME TypeOK, Registered, NEW mover, NEW step \in Nat,
         NEW p \in Position, NEW q \in Position,
         p[1] - q[1] <= step, q[1] - p[1] <= step,
         p[2] - q[2] <= step, q[2] - p[2] <= step,
         Radius(mover) + PLAYER_RADIUS + step <= 2 * CELL_SIZE,
         \A w \in Obstacles : /\ Radius(mover) + w.width + step <= 2 * CELL_SIZE
                              /\ Radius(mover) + w.height + step <= 2 * CELL_SIZE,
         NEW o \in Solid, Overlaps(mover, p, o)
  PROVE  o \in get_adyacent_objects(get_cell_from_position(q))
<1>1. /\ p \in Nat \X Nat /\ q \in Nat \X Nat /\ Radius(mover) \in Nat
      /\ o \in objects /\ Entry(o, Seat(o)) \in matrix
  BY MapSizeType, Sizes DEF Position, Pixel, Radius, Solid, Placed, Registered, MatrixRight
<1>2. \/ \E id \in DOMAIN players : o = Player(id)
      \/ \E w \in Obstacles : o = Obstacle(w)
  BY DEF Solid, Placed, Registered, ObjectsKnown, Bullet
<1>3. get_cell_from_position(Seat(o)) \in
         get_cells_within_radius(get_cell_from_position(q), 2)
  <2>1. ASSUME NEW id \in DOMAIN players, o = Player(id)
        PROVE  get_cell_from_position(Seat(o)) \in
                  get_cells_within_radius(get_cell_from_position(q), 2)
    <3>1. PICK c \in Nat \X Nat : Seat(o) = c /\ players[id] = c
      BY <2>1, PlayerSeat, MapSizeType DEF TypeOK, Position, Pixel
    <3>2. circle_circle_collision(p, Radius(mover), c, PLAYER_RADIUS)
      BY <2>1, <3>1 DEF Overlaps, PositionOf, Player
    <3>3. PICK size \in Nat : size = PLAYER_RADIUS
      BY Sizes
    <3>4. /\ c[1] - p[1] < Radius(mover) + size /\ p[1] - c[1] < Radius(mover) + size
          /\ c[2] - p[2] < Radius(mover) + size /\ p[2] - c[2] < Radius(mover) + size
      BY <1>1, <3>2, <3>3, CircleGap
    <3>5. Radius(mover) + size + step <= 2 * CELL_SIZE
      BY <3>3
    <3> QED BY <1>1, <3>1, <3>4, <3>5, NeighboursSuffice
  <2>2. ASSUME NEW w \in Obstacles, o = Obstacle(w)
        PROVE  get_cell_from_position(Seat(o)) \in
                  get_cells_within_radius(get_cell_from_position(q), 2)
    <3>1. /\ Seat(o) = w.corner /\ w.corner \in Nat \X Nat
          /\ w.width \in Nat /\ w.height \in Nat
      BY <2>2, ObstacleSeat, MapSizeType, WorldAssumption
         DEF WorldAssumption, ObstacleRecord, Position, Pixel
    <3>2. circle_rectangle_collision(p, Radius(mover), w.corner, w.width, w.height)
      BY <2>2 DEF Overlaps, Obstacle
    <3> DEFINE size == Higher(w.width, w.height)
    <3>3. /\ size \in Nat /\ w.width <= size /\ w.height <= size
          /\ Radius(mover) + size + step <= 2 * CELL_SIZE
      BY <3>1 DEF Higher
    <3> HIDE DEF size
    <3>4. PICK c \in Nat \X Nat, r \in Nat : c = w.corner /\ r = Radius(mover)
      BY <1>1, <3>1
    <3>5. /\ c[1] - p[1] < r /\ p[1] - c[1] < w.width + r
          /\ c[2] - p[2] < r /\ p[2] - c[2] < w.height + r
      BY <1>1, <3>1, <3>2, <3>4, RectangleGap
    <3>6. /\ c[1] - p[1] < r + size /\ p[1] - c[1] < r + size
          /\ c[2] - p[2] < r + size /\ p[2] - c[2] < r + size
      BY <1>1, <3>1, <3>3, <3>4, <3>5
    <3> QED BY <1>1, <3>1, <3>3, <3>4, <3>6, NeighboursSuffice
  <2> QED BY <1>2, <2>1, <2>2
<1> QED BY <1>1, <1>3 DEF get_adyacent_objects, Entry

\* Where a search from nearby finds no collision a bullet touches nothing solid.
LEMMA BulletClear ==
  ASSUME TypeOK, Registered, NEW n, NEW p \in Position, NEW q \in Position,
         p[1] - q[1] <= LongestFlight - 1, q[1] - p[1] <= LongestFlight - 1,
         p[2] - q[2] <= LongestFlight - 1, q[2] - p[2] <= LongestFlight - 1,
         collides(Bullet(n), p, get_adyacent_objects(get_cell_from_position(q))) = {}
  PROVE  \A o \in Solid : ~Overlaps(Bullet(n), p, o)
<1>1. Radius(Bullet(n)) = BULLET_RADIUS
  BY DEF Radius, Bullet
<1>2. /\ LongestFlight - 1 \in Nat
      /\ BULLET_RADIUS + PLAYER_RADIUS + (LongestFlight - 1) <= 2 * CELL_SIZE
      /\ \A w \in Obstacles : /\ BULLET_RADIUS + w.width + (LongestFlight - 1) <= 2 * CELL_SIZE
                              /\ BULLET_RADIUS + w.height + (LongestFlight - 1) <= 2 * CELL_SIZE
  BY Scale, Sizes, ObstacleSizes, ScaleAssumption, GeometryAssumption
     DEF ScaleAssumption, GeometryAssumption
<1> QED BY <1>1, <1>2, SearchFinds DEF collides

LEMMA PlayerClear ==
  ASSUME TypeOK, Registered, NEW id, NEW p \in Position, NEW q \in Position,
         p[1] - q[1] <= LongestMove - 1, q[1] - p[1] <= LongestMove - 1,
         p[2] - q[2] <= LongestMove - 1, q[2] - p[2] <= LongestMove - 1,
         collides(Player(id), p, get_adyacent_objects(get_cell_from_position(q))) = {}
  PROVE  \A o \in Solid : ~Overlaps(Player(id), p, o)
<1>1. Radius(Player(id)) = PLAYER_RADIUS
  BY DEF Radius, Player
<1>2. /\ LongestMove - 1 \in Nat
      /\ PLAYER_RADIUS + PLAYER_RADIUS + (LongestMove - 1) <= 2 * CELL_SIZE
      /\ \A w \in Obstacles : /\ PLAYER_RADIUS + w.width + (LongestMove - 1) <= 2 * CELL_SIZE
                              /\ PLAYER_RADIUS + w.height + (LongestMove - 1) <= 2 * CELL_SIZE
  BY Scale, Sizes, ObstacleSizes, ScaleAssumption, GeometryAssumption
     DEF ScaleAssumption, GeometryAssumption
<1> QED BY <1>1, <1>2, SearchFinds DEF collides

-----------------------------------------------------------------------------
(* Bullets *)

\* What was there already when the bullets got their positions.
Settled == Solid \ {Player(id) : id \in newcomers}

\* A bullet in the second loop touched nothing settled on its way, but for the last
\* pixel: there the second loop looks once more.
FlightClear ==
    \A n \in DOMAIN bullets_to_update :
        LET from == bullets_to_update[n].old
            to == bullets[n].position
        IN  \A o \in Settled, k \in 1 .. PathLength(from, to) - 1 :
                ~Overlaps(Bullet(n), Pixels(from, to, k), o)

\* What the search of get_max_position() leaves behind it is clear.
LEMMA FlightSearched ==
  ASSUME TypeOK, Registered, NEW n \in DOMAIN bullets, NEW moved \in Flights(n)
  PROVE  \A o \in Solid, k \in 1 .. PathLength(bullets[n].position, moved.position) - 1 :
            ~Overlaps(Bullet(n), Pixels(bullets[n].position, moved.position, k), o)
<1>1. PICK from \in Position : from = bullets[n].position
  BY DEF TypeOK, BulletRecord
<1>2. CASE ~IsAlive(bullets[n])
  <2>1. moved.position = from
    BY <1>1, <1>2 DEF Flights
  <2>2. PathLength(from, from) = 0
    BY <1>1, MapSizeType DEF PathLength, Gap, Higher, Position, Pixel
  <2> QED BY <1>1, <2>1, <2>2
<1>3. CASE IsAlive(bullets[n])
  <2>b. Bullet_get_next_position(bullets[n]) \subseteq Position
    BY BulletNextType DEF TypeOK
  <2>a. PICK to \in Position : /\ to \in Bullet_get_next_position(bullets[n])
                              /\ moved \in get_max_position(Bullet(n), from, to)
    BY <1>1, <1>3, <2>b DEF Flights
  <2>c. PathLength(from, to) \in Nat /\ PathLength(from, to) <= LongestFlight
    BY <1>1, <2>a, PathLengthType, FlightLength DEF TypeOK
  <2> DEFINE near == get_adyacent_objects(get_cell_from_position(to))
             met(k) == collides(Bullet(n), Pixels(from, to, k), near)
             blocked == {k \in 1 .. PathLength(from, to) : met(k) # {}}
             last == Min(blocked)
  <2>1. ASSUME NEW k \in 1 .. PathLength(from, to), k \notin blocked
        PROVE  \A o \in Solid : ~Overlaps(Bullet(n), Pixels(from, to, k), o)
    <3>1. k \in Nat \ {0} /\ Pixels(from, to, k) \in Position
      BY <2>c, PixelsType
    <3>2. collides(Bullet(n), Pixels(from, to, k), get_adyacent_objects(get_cell_from_position(to))) = {}
      BY <2>1
    <3>3. LET p == Pixels(from, to, k)
          IN  /\ p[1] - to[1] <= LongestFlight - 1 /\ to[1] - p[1] <= LongestFlight - 1
              /\ p[2] - to[2] <= LongestFlight - 1 /\ to[2] - p[2] <= LongestFlight - 1
      BY <2>c, <3>1, PixelsGap, Scale
    <3> QED BY <3>1, <3>2, <3>3, BulletClear
  <2>2. CASE blocked = {}
    <3>1. moved.position = to
      BY <2>a, <2>2 DEF get_max_position
    <3> HIDE DEF blocked
    <3> QED BY <1>1, <2>c, <2>1, <2>2, <3>1
  <2>3. CASE blocked # {}
    <3>1. last \in blocked /\ \A k \in blocked : last <= k
      <4>1. blocked \in SUBSET Nat
        BY <2>c
      <4> HIDE DEF blocked
      <4> QED BY <2>3, <4>1, MinIsLeast
    <3>2. PICK o \in met(last) :
             moved = [position |-> Pixels(from, to, IF StopsOn(Bullet(n), o) THEN last ELSE last - 1),
                      met |-> o]
      BY <2>a, <2>3 DEF get_max_position
    <3>3. StopsOn(Bullet(n), o)
      <4>1. o \in objects /\ Overlaps(Bullet(n), Pixels(from, to, last), o)
        BY <3>2 DEF collides, get_adyacent_objects
      <4>2. o[1] # "BULLET"
        BY <4>1 DEF Overlaps, Bullet
      <4> QED BY <4>1, <4>2 DEF Registered, ObjectsKnown, Player, Bullet, Obstacle, StopsOn
    <3>4. last \in 1 .. PathLength(from, to)
      BY <3>1
    <3>5. moved.position = Pixels(from, to, last)
      BY <3>2, <3>3
    <3> HIDE DEF blocked, last
    <3>6. /\ PathLength(from, moved.position) = last
          /\ \A k \in 0 .. last : Pixels(from, moved.position, k) = Pixels(from, to, k)
      BY <3>4, <3>5, PathCut
    <3> QED BY <1>1, <2>c, <2>1, <3>1, <3>4, <3>6
  <2> QED BY <2>2, <2>3
<1> QED BY <1>2, <1>3

LEMMA MoveBulletsClear ==
  ASSUME TypeOK, Registered, MoveBullets
  PROVE  FlightClear'
<1>1. PICK flight \in [DOMAIN bullets -> UNION {Flights(n) : n \in DOMAIN bullets}] :
         /\ \A n \in DOMAIN bullets : flight[n] \in Flights(n)
         /\ LET moved == {n \in DOMAIN bullets : flight[n].position # bullets[n].position} IN
            /\ bullets_to_update' = [n \in moved |-> [old |-> bullets[n].position,
                                                      met |-> flight[n].met]]
            /\ bullets' = [n \in DOMAIN bullets |->
                             IF n \in moved
                             THEN [bullets[n] EXCEPT
                                     !.position = flight[n].position,
                                     !.range = decrement_range(@,
                                         distance_between(bullets[n].position,
                                                          flight[n].position))]
                             ELSE bullets[n]]
  BY DEF MoveBullets
<1>2. ASSUME NEW n \in DOMAIN bullets_to_update'
      PROVE  /\ n \in DOMAIN bullets /\ flight[n] \in Flights(n)
             /\ bullets_to_update'[n].old = bullets[n].position
             /\ bullets'[n].position = flight[n].position
  <2>1. bullets[n] \in BulletRecord /\ n \in DOMAIN bullets
    BY <1>1 DEF TypeOK
  <2> QED BY <1>1, <2>1 DEF BulletRecord
<1>3. Settled' = Settled /\ \A m, p, o : o \in Solid => (Overlaps(Bullet(m), p, o)' <=> Overlaps(Bullet(m), p, o))
  <2>1. UNCHANGED <<players, objects, revived, newcomers>>
    BY DEF MoveBullets
  <2>2. Solid' = Solid
    BY <2>1 DEF Solid, Placed, Dead
  <2>3. \A o \in Solid : PositionOf(o)' = PositionOf(o)
    BY <2>1 DEF Solid, Placed, PositionOf, Registered, ObjectsKnown, Player, Bullet, Obstacle
  <2> QED BY <2>1, <2>2, <2>3 DEF Overlaps, Solid, Settled
<1> QED BY <1>2, <1>3, FlightSearched DEF FlightClear, Settled

\* The living that a turn of the second loop leaves are where they were.
LEMMA SolidKept ==
  ASSUME TypeOK, Registered, objects' \subseteq objects, revived' = revived,
         \A id \in DOMAIN players' : players'[id] = players[id],
         Registered'
  PROVE  /\ Solid' = Solid \cap objects'
         /\ \A m, p : \A o \in Solid' : Overlaps(Bullet(m), p, o)' <=> Overlaps(Bullet(m), p, o)
<1>1. \A o : Dead(o)' <=> Dead(o)
  BY DEF Dead
<1>2. Solid' = Solid \cap objects'
  BY <1>1 DEF Solid, Placed
<1>3. \A o \in Solid' : PositionOf(o)' = PositionOf(o)
  BY <1>2 DEF Solid, Placed, PositionOf, Registered, ObjectsKnown, Player, Bullet, Obstacle
<1>4. \A o \in Solid' : o[1] # "BULLET"
  BY DEF Solid
<1> QED BY <1>2, <1>3, <1>4 DEF Overlaps

\* The turn of a bullet in the second loop, as the properties see it.
LEMMA UpdateBulletShape ==
  ASSUME TypeOK, Registered, UpdateBullet
  PROVE  \E n \in DOMAIN bullets_to_update :
            /\ bullets_to_update' = Without(bullets_to_update, {n})
            /\ \A m \in DOMAIN bullets' : m \in DOMAIN bullets /\ bullets'[m] = bullets[m]
            /\ \A id \in DOMAIN players' : id \in DOMAIN players /\ players'[id] = players[id]
            /\ objects' \subseteq objects /\ UNCHANGED <<revived, relocate, newcomers>>
            /\ n \in DOMAIN bullets' =>
                  collides(Bullet(n), bullets[n].position,
                           get_adyacent_objects(get_cell_from_position(bullets[n].position))) = {}
<1>1. PICK n : n = Min(DOMAIN bullets_to_update)
  OBVIOUS
<1>2. n \in DOMAIN bullets_to_update
  <2>1. DOMAIN bullets_to_update \in SUBSET Nat /\ DOMAIN bullets_to_update # {}
    BY DEF TypeOK, UpdateBullet
  <2> QED BY <1>1, <2>1, MinIsLeast
<1> DEFINE moved == [position |-> bullets[n].position, met |-> bullets_to_update[n].met]
<1>3. PICK other \in Collider(Bullet(n), moved) :
         \/ \E id, dies : HitPlayer(n, bullets_to_update[n].old, id, dies)
         \/ /\ bullets' = Without(bullets, {n})
            /\ objects' = objects \ {Bullet(n)}
            /\ UNCHANGED players
         \/ other = NONE /\ UNCHANGED <<bullets, objects, players>>
  BY <1>1 DEF UpdateBullet
<1>4. UNCHANGED <<revived, relocate, newcomers>> /\ bullets_to_update' = Without(bullets_to_update, {n})
  BY <1>1 DEF UpdateBullet
<1>5. CASE \E id, dies : HitPlayer(n, bullets_to_update[n].old, id, dies)
  BY <1>2, <1>4, <1>5 DEF HitPlayer, Without
<1>6. CASE /\ bullets' = Without(bullets, {n})
           /\ objects' = objects \ {Bullet(n)}
           /\ UNCHANGED players
  BY <1>2, <1>4, <1>6 DEF Without
<1>7. CASE other = NONE /\ UNCHANGED <<bullets, objects, players>>
  <2>1. NONE \notin objects
    BY DEF NONE, Registered, ObjectsKnown, Player, Bullet, Obstacle
  <2>2. collides(Bullet(n), moved.position,
                 get_adyacent_objects(get_cell_from_position(moved.position))) = {}
    <3> DEFINE met == collides(Bullet(n), moved.position,
                               get_adyacent_objects(get_cell_from_position(moved.position)))
    <3>1. NONE \notin met
      BY <2>1 DEF collides, get_adyacent_objects
    <3>2. other \in IF met = {} THEN {NONE} ELSE IF moved.met \in met THEN {moved.met} ELSE met
      BY <1>3 DEF Collider
    <3> HIDE DEF met
    <3> QED BY <1>7, <3>1, <3>2 DEF met
  <2> QED BY <1>2, <1>4, <1>7, <2>2
<1> QED BY <1>3, <1>5, <1>6, <1>7

LEMMA UpdateBulletClear ==
  ASSUME TypeOK, Registered, FlightClear, UpdateBullet, Registered'
  PROVE  FlightClear'
<1>1. PICK n \in DOMAIN bullets_to_update :
            /\ bullets_to_update' = Without(bullets_to_update, {n})
            /\ \A m \in DOMAIN bullets' : m \in DOMAIN bullets /\ bullets'[m] = bullets[m]
            /\ \A id \in DOMAIN players' : id \in DOMAIN players /\ players'[id] = players[id]
            /\ objects' \subseteq objects /\ UNCHANGED <<revived, relocate, newcomers>>
            /\ DOMAIN bullets_to_update' \subseteq DOMAIN bullets'
  <2>1. TypeOK'
    BY UpdateBulletStep
  <2> QED BY <2>1, UpdateBulletShape DEF TypeOK
<1>2. /\ Solid' \subseteq Solid
      /\ \A m, p : \A o \in Solid' : Overlaps(Bullet(m), p, o)' <=> Overlaps(Bullet(m), p, o)
  BY <1>1, SolidKept
<1>a. Settled' \subseteq Settled /\ Settled' \subseteq Solid'
  BY <1>1, <1>2 DEF Settled
<1>3. \A m \in DOMAIN bullets_to_update' :
         /\ m \in DOMAIN bullets_to_update /\ bullets_to_update'[m] = bullets_to_update[m]
         /\ bullets'[m] = bullets[m]
  BY <1>1 DEF Without
<1> QED BY <1>2, <1>a, <1>3 DEF FlightClear

\* Who joins between the loops is no reason for a bullet to stop where it did.
LEMMA JoinClear ==
  ASSUME TypeOK, Registered, FlightClear, NEW id \in Ids, NEW type \in Sides,
         AddPlayer(id, type), phase = "bullets"
  PROVE  FlightClear'
<1>1. /\ UNCHANGED <<bullets, bullets_to_update, revived>>
      /\ objects' = objects \cup {Player(id)} /\ newcomers' = newcomers \cup {id}
      /\ \A i \in DOMAIN players : players'[i] = players[i]
  <2>1. player_type[id] = "UNKNOWN" /\ \E position : players' = With(players, id, position)
    BY DEF AddPlayer
  <2>2. id \notin DOMAIN players
    BY <2>1 DEF TypeOK, Sides
  <2> QED BY <2>1, <2>2 DEF AddPlayer, With
<1>2. Settled' \subseteq Settled
  BY <1>1 DEF Settled, Solid, Placed, Dead
<1>3. \A o \in Settled : PositionOf(o)' = PositionOf(o) /\ o[1] # "BULLET"
  BY <1>1 DEF Settled, Solid, Placed, PositionOf, Registered, ObjectsKnown, Player, Bullet,
              Obstacle
<1>4. \A n, p : \A o \in Settled : Overlaps(Bullet(n), p, o)' <=> Overlaps(Bullet(n), p, o)
  BY <1>3 DEF Overlaps
<1> QED BY <1>1, <1>2, <1>4 DEF FlightClear

\* The inductive invariant behind NoTunnelling.
FlightInv == TypeOK /\ Registered /\ FlightClear

LEMMA FlightStep ==
  ASSUME FlightInv, [Next]_vars
  PROVE  FlightInv'
<1>1. TypeOK' /\ Registered'
  BY NextStep DEF FlightInv
<1>2. CASE DOMAIN bullets_to_update' = {}
  BY <1>1, <1>2 DEF FlightInv, FlightClear
<1>3. CASE MoveBullets
  BY <1>1, <1>3, MoveBulletsClear DEF FlightInv
<1>4. CASE UpdateBullet
  BY <1>1, <1>4, UpdateBulletClear DEF FlightInv
<1>5. CASE UNCHANGED vars
  <2>1. /\ UNCHANGED <<bullets, bullets_to_update, newcomers>>
        /\ objects' \subseteq objects /\ revived' = revived
        /\ \A id \in DOMAIN players' : players'[id] = players[id]
    BY <1>5 DEF vars
  <2>2. /\ Solid' \subseteq Solid
        /\ \A m, p : \A o \in Solid' : Overlaps(Bullet(m), p, o)' <=> Overlaps(Bullet(m), p, o)
    BY <1>1, <2>1, SolidKept DEF FlightInv
  <2>3. Settled' \subseteq Settled /\ Settled' \subseteq Solid'
    BY <2>1, <2>2 DEF Settled
  <2> QED BY <1>1, <2>1, <2>2, <2>3 DEF FlightInv, FlightClear
<1>6. ASSUME NEW id \in Ids, NEW type \in Sides, AddPlayer(id, type)
      PROVE  FlightInv'
  <2>1. CASE phase = "bullets"
    BY <1>1, <1>6, <2>1, JoinClear DEF FlightInv
  <2>2. CASE phase # "bullets"
    BY <1>1, <1>2, <1>6, <2>2 DEF AddPlayer, TypeOK
  <2> QED BY <2>1, <2>2
<1>7. CASE \/ StartMatch \/ DeleteBullets \/ EndRound \/ RelocatePlayer \/ NextRound
           \/ \E id \in Ids : Quit(id)
           \/ \E id \in Ids, direction \in Directions : Move(id, direction)
           \/ \E id \in Ids, heading \in Headings, range \in Ranges : Shoot(id, heading, range)
  <2>1. phase' # "bullets"
    BY <1>7 DEF StartMatch, Quit, Move, Shoot, DeleteBullets, EndRound, RelocatePlayer,
                NextRound
  <2> QED BY <1>1, <1>2, <2>1 DEF TypeOK
<1> QED BY <1>3, <1>4, <1>5, <1>6, <1>7 DEF Next

LEMMA TunnellingStep ==
  ASSUME FlightInv, Next
  PROVE  \A n \in DOMAIN bullets_to_update :
           n \in DOMAIN bullets' /\ n \notin DOMAIN bullets_to_update' =>
              LET from == bullets_to_update[n].old
                  to == bullets[n].position
              IN  \A o \in Solid \cap objects' : \A k \in Forbidden(o, from, to) :
                      ~Overlaps(Bullet(n), Pixels(from, to, k), o)
<1> SUFFICES ASSUME NEW n \in DOMAIN bullets_to_update,
                    n \in DOMAIN bullets', n \notin DOMAIN bullets_to_update',
                    NEW o \in Solid,
                    NEW k \in Forbidden(o, bullets_to_update[n].old, bullets[n].position)
             PROVE  ~Overlaps(Bullet(n),
                              Pixels(bullets_to_update[n].old, bullets[n].position, k), o)
  OBVIOUS
<1>1. phase = "bullets"
  BY DEF FlightInv, TypeOK
<1>2. UpdateBullet
  <2>1. ASSUME NEW id \in Ids, NEW type \in Sides, AddPlayer(id, type)
        PROVE  FALSE
    BY <2>1 DEF AddPlayer
  <2>2. ASSUME NEW id \in Ids, Quit(id)
        PROVE  FALSE
    BY <1>1, <2>2 DEF Quit
  <2>3. CASE \E id \in Ids, direction \in Directions : Move(id, direction)
    BY <1>1, <2>3 DEF Move
  <2>4. CASE \E id \in Ids, heading \in Headings, range \in Ranges : Shoot(id, heading, range)
    BY <1>1, <2>4 DEF Shoot
  <2>5. CASE StartMatch \/ MoveBullets \/ EndRound \/ RelocatePlayer \/ NextRound
    BY <1>1, <2>5 DEF StartMatch, MoveBullets, EndRound, RelocatePlayer, NextRound
  <2>6. CASE DeleteBullets
    BY <2>6 DEF DeleteBullets
  <2> QED BY <2>1, <2>2, <2>3, <2>4, <2>5, <2>6 DEF Next
<1>3. collides(Bullet(n), bullets[n].position,
               get_adyacent_objects(get_cell_from_position(bullets[n].position))) = {}
  BY <1>2, UpdateBulletShape DEF FlightInv, Without
<1>4. PICK from \in Position, to \in Position :
         from = bullets_to_update[n].old /\ to = bullets[n].position
  BY DEF FlightInv, TypeOK, BulletRecord
<1>5. CASE k = PathLength(from, to)
  <2>1. Pixels(from, to, k) = to
    BY <1>5, PathEnds
  <2>2. LongestFlight - 1 \in Nat /\ to[1] - to[1] = 0 /\ to[2] - to[2] = 0
    BY <1>4, Scale, MapSizeType DEF Position, Pixel
  <2>3. ~Overlaps(Bullet(n), to, o)
    BY <1>3, <1>4, <2>2, BulletClear DEF FlightInv
  <2> QED BY <1>4, <2>1, <2>3
<1>6. CASE k # PathLength(from, to)
  <2>1. o \notin {Player(id) : id \in newcomers} /\ k \in 1 .. PathLength(from, to)
    BY <1>4, <1>6 DEF Forbidden
  <2>2. k \in 1 .. PathLength(from, to) - 1
    BY <1>4, <1>6, <2>1, PathLengthType
  <2> QED BY <1>4, <2>1, <2>2 DEF FlightInv, FlightClear, Settled
<1> QED BY <1>5, <1>6

\* On every map whose walls and steps fit in two cells no bullet passes through a
\* wall or a living player, though only the cells around the end of its way are
\* searched.
THEOREM NothingTunnels == Spec => NoTunnelling
<1>1. Init => FlightInv
  BY InitStep DEF Init, FlightInv, FlightClear
<1>2. FlightInv /\ [Next]_vars => FlightInv'
  BY FlightStep
<1>3. FlightInv /\ [Next]_vars =>
        [\A n \in DOMAIN bullets_to_update :
           n \in DOMAIN bullets' /\ n \notin DOMAIN bullets_to_update' =>
              LET from == bullets_to_update[n].old
                  to == bullets[n].position
              IN  \A o \in Solid \cap objects' : \A k \in Forbidden(o, from, to) :
                      ~Overlaps(Bullet(n), Pixels(from, to, k), o)]_vars
  BY TunnellingStep
<1> QED BY <1>1, <1>2, <1>3, PTL DEF Spec, NoTunnelling

-----------------------------------------------------------------------------
(* Players *)

\* Where a player gets with no bullet in his way, he touches nothing solid.
LEMMA PlayerMoved ==
  ASSUME TypeOK, Registered, phase = "game", NEW id \in DOMAIN players,
         NEW direction \in Directions,
         NEW moved \in get_max_position(Player(id), players[id],
                                        Player_get_next_position(players[id], direction)),
         moved.position # players[id],
         NEW other \in Collider(Player(id), moved), other[1] # "BULLET"
  PROVE  \A o \in Solid : ~Overlaps(Player(id), moved.position, o)
<1>1. PICK from \in Position, to \in Position :
         from = players[id] /\ to = Player_get_next_position(players[id], direction)
  BY PlayerNextType DEF TypeOK
<1>2. PathLength(from, to) \in Nat /\ PathLength(from, to) <= LongestMove
  BY <1>1, PathLengthType, MoveLength
<1> DEFINE near == get_adyacent_objects(get_cell_from_position(to))
           met(k) == collides(Player(id), Pixels(from, to, k), near)
           blocked == {k \in 1 .. PathLength(from, to) : met(k) # {}}
           last == Min(blocked)
<1>3. moved \in get_max_position(Player(id), from, to)
  BY <1>1
<1>4. ASSUME NEW k \in 1 .. PathLength(from, to), k \notin blocked
      PROVE  \A o \in Solid : ~Overlaps(Player(id), Pixels(from, to, k), o)
  <2>1. k \in Nat \ {0} /\ Pixels(from, to, k) \in Position
    BY <1>2, PixelsType
  <2>2. collides(Player(id), Pixels(from, to, k), get_adyacent_objects(get_cell_from_position(to))) = {}
    BY <1>4
  <2>3. LET p == Pixels(from, to, k)
        IN  /\ p[1] - to[1] <= LongestMove - 1 /\ to[1] - p[1] <= LongestMove - 1
            /\ p[2] - to[2] <= LongestMove - 1 /\ to[2] - p[2] <= LongestMove - 1
    BY <1>2, <2>1, PixelsGap, Scale
  <2> QED BY <2>1, <2>2, <2>3, PlayerClear
<1>5. CASE blocked = {}
  <2>1. moved.position = to
    BY <1>3, <1>5 DEF get_max_position
  <2>2. PathLength(from, to) \in 1 .. PathLength(from, to)
        /\ Pixels(from, to, PathLength(from, to)) = to
    BY <1>1, <2>1, PathEnds
  <2> HIDE DEF blocked
  <2> QED BY <1>4, <1>5, <2>1, <2>2
<1>6. CASE blocked # {}
  <2>1. last \in blocked /\ \A k \in blocked : last <= k
    <3>1. blocked \in SUBSET Nat
      BY <1>2
    <3> HIDE DEF blocked
    <3> QED BY <1>6, <3>1, MinIsLeast
  <2>2. PICK o \in met(last) :
           moved = [position |-> Pixels(from, to, IF StopsOn(Player(id), o) THEN last ELSE last - 1),
                    met |-> o]
    BY <1>3, <1>6 DEF get_max_position
  <2>3. last \in 1 .. PathLength(from, to)
    BY <2>1
  <2>4. ~StopsOn(Player(id), o)
    <3> SUFFICES ASSUME StopsOn(Player(id), o) PROVE FALSE
      OBVIOUS
    <3>1. /\ moved.position = Pixels(from, to, last) /\ moved.met = o
          /\ o \in objects /\ Overlaps(Player(id), moved.position, o)
      BY <2>2 DEF collides, get_adyacent_objects
    <3>2. PICK n \in DOMAIN bullets : o = Bullet(n)
      BY <3>1 DEF StopsOn, Player, Bullet, Obstacle, Registered, ObjectsKnown
    <3>3. PICK p \in Nat \X Nat, c \in Nat \X Nat, r \in Nat, s \in Nat :
             p = moved.position /\ c = bullets[n].position
             /\ r = PLAYER_RADIUS /\ s = BULLET_RADIUS
      <4>1. last \in Nat \ {0}
        BY <1>2, <2>3
      <4>2. moved.position \in Position
        BY <3>1, <4>1, PixelsType
      <4>3. bullets[n].position \in Position
        BY <3>2 DEF TypeOK, BulletRecord
      <4>4. Position \subseteq Nat \X Nat
        BY MapSizeType DEF Position, Pixel
      <4> QED BY <4>2, <4>3, <4>4, Sizes
    <3>4. circle_circle_collision(p, r, c, s)
      BY <3>1, <3>2, <3>3 DEF Overlaps, PositionOf, Radius, Player, Bullet
    <3>5. c[1] - p[1] < r + s /\ p[1] - c[1] < r + s /\ c[2] - p[2] < r + s /\ p[2] - c[2] < r + s
      BY <3>3, <3>4, CircleGap
    <3>6. r + s + 0 <= 2 * CELL_SIZE
      BY <3>3, Sizes, Scale, ScaleAssumption, GeometryAssumption
         DEF ScaleAssumption, GeometryAssumption
    <3>7. p[1] - p[1] <= 0 /\ p[2] - p[2] <= 0
      BY <3>3
    <3>8. get_cell_from_position(c) \in get_cells_within_radius(get_cell_from_position(p), 2)
      BY <3>3, <3>5, <3>6, <3>7, NeighboursSuffice
    <3>9. Entry(o, c) \in matrix
      <4>1. Seat(o) = c /\ o \in Placed
        BY <3>1, <3>2, <3>3, BulletSeat DEF TypeOK, Placed, Dead, Bullet
      <4> QED BY <4>1 DEF Registered, MatrixRight
    <3>10. o \in collides(Player(id), moved.position,
                          get_adyacent_objects(get_cell_from_position(moved.position)))
      BY <3>1, <3>3, <3>8, <3>9 DEF collides, get_adyacent_objects, Entry
    <3>11. other = o
      BY <3>1, <3>10 DEF Collider
    <3> QED BY <3>2, <3>11 DEF Bullet
  <2>5. moved.position = Pixels(from, to, last - 1)
    BY <2>2, <2>4
  <2>6. last - 1 # 0
    BY <1>1, <2>5, PathEnds
  <2>7. last - 1 \in 1 .. PathLength(from, to) /\ last - 1 \notin blocked
    <3> HIDE DEF blocked
    <3> QED BY <1>2, <2>1, <2>3, <2>6
  <2> HIDE DEF blocked, last
  <2> QED BY <1>4, <2>5, <2>7
<1> QED BY <1>5, <1>6

\* A player put where nothing was touched touches nothing, though he is there now.
LEMMA PutClear ==
  ASSUME TypeOK, Registered, Registered', NEW id,
         \A o \in Solid : ~Overlaps(Player(id), players'[id], o),
         \A o \in Placed' : o # Player(id) => o \in Placed,
         \A i \in DOMAIN players' : i # id => players'[i] = players[i]
  PROVE  ~Touching(id)'
<1> SUFFICES ASSUME NEW o \in Solid', Overlaps(Player(id), players[id], o)'
             PROVE  FALSE
  BY DEF Touching
<1>1. o # Player(id)
  BY DEF Overlaps
<1>2. o \in Solid
  BY <1>1 DEF Solid
<1>3. PositionOf(o)' = PositionOf(o)
  BY <1>1 DEF Solid, Placed, PositionOf, Registered, ObjectsKnown, Player, Bullet, Obstacle
<1>4. o[1] # "BULLET"
  BY DEF Solid
<1>5. Overlaps(Player(id), players'[id], o)
  BY <1>3, <1>4 DEF Overlaps
<1> QED BY <1>2, <1>5

LEMMA DrawnClear ==
  ASSUME TypeOK, Registered, NEW id, NEW type \in Sides,
         NEW position \in get_random_player_position(type, id)
  PROVE  \A o \in Solid : ~Overlaps(Player(id), position, o)
<1>1. position \in Position
  BY DrawnType DEF get_random_player_position
<1>2. collides(Player(id), position,
               get_adyacent_objects(get_cell_from_position(position))) = {}
  BY DEF get_random_player_position
<1>3. LongestMove - 1 \in Nat /\ position[1] - position[1] = 0 /\ position[2] - position[2] = 0
  BY <1>1, Scale, MapSizeType DEF Position, Pixel
<1> QED BY <1>1, <1>2, <1>3, PlayerClear

LEMMA PushStep ==
  ASSUME TypeOK, Registered, Next
  PROVE  \A id \in DOMAIN players' \ relocate' :
           (id \in DOMAIN players \ relocate => players'[id] # players[id])
           /\ Touching(id)' => HitThere(id)
<1> DEFINE Came(id) == id \in DOMAIN players \ relocate => players'[id] # players[id]
<1> SUFFICES ASSUME NEW id \in DOMAIN players', id \notin relocate', Came(id), Touching(id)'
             PROVE  HitThere(id)
  OBVIOUS
<1>1. TypeOK' /\ Registered'
  BY NextStep
<1>2. ASSUME NEW i \in Ids, NEW type \in Sides, AddPlayer(i, type)
      PROVE  FALSE
  <2>1. PICK position \in get_random_player_position(type, i) :
           players' = With(players, i, position)
    BY <1>2 DEF AddPlayer
  <2>2. /\ i \notin DOMAIN players /\ relocate \subseteq relocate' /\ revived' = revived
        /\ objects' = objects \cup {Player(i)}
    BY <1>2 DEF AddPlayer, TypeOK, Sides
  <2>3. id = i /\ players'[i] = position /\ \A j \in DOMAIN players' : j # i => players'[j] = players[j]
    BY <2>1, <2>2 DEF With
  <2>4. \A o \in Placed' : o # Player(i) => o \in Placed
    BY <2>2 DEF Placed, Dead
  <2>5. \A o \in Solid : ~Overlaps(Player(i), players'[i], o)
    BY <2>3, DrawnClear
  <2> QED BY <1>1, <2>3, <2>4, <2>5, PutClear
<1>3. ASSUME NEW i \in Ids, NEW direction \in Directions, Move(i, direction)
      PROVE  HitThere(id)
  <2>1. /\ phase = "game" /\ i \in DOMAIN players
        /\ relocate = {} /\ relocate' = relocate /\ revived' = revived
    BY <1>3 DEF Move, loops, TypeOK
  <2> DEFINE Got(moved, other, dies) ==
        /\ players' = IF dies THEN Without(players, {i})
                      ELSE [players EXCEPT ![i] = moved.position]
        /\ bullets' = IF other[1] = "BULLET" THEN Without(bullets, {other[2]}) ELSE bullets
        /\ objects' = objects \ ((IF other[1] = "BULLET" THEN {other} ELSE {})
                                 \cup (IF dies THEN {Player(i)} ELSE {}))
  <2>moved. PICK moved \in get_max_position(Player(i), players[i],
                                        Player_get_next_position(players[i], direction)) :
           /\ moved.position # players[i]
           /\ \E other \in Collider(Player(i), moved) :
              \E dies \in IF other[1] = "BULLET" THEN BOOLEAN ELSE {FALSE} : Got(moved, other, dies)
    BY <1>3 DEF Move
  <2>other. PICK other \in Collider(Player(i), moved) :
           \E dies \in IF other[1] = "BULLET" THEN BOOLEAN ELSE {FALSE} : Got(moved, other, dies)
    BY <2>moved
  <2>2. PICK dies \in IF other[1] = "BULLET" THEN BOOLEAN ELSE {FALSE} : Got(moved, other, dies)
    BY <2>other
  <2>3. CASE other[1] = "BULLET"
    <3>1. PICK n \in DOMAIN bullets : other = Bullet(n) /\ other[2] = n
      BY <2>3, ColliderKnown DEF Registered
    <3>2. n \notin DOMAIN bullets'
      BY <2>2, <2>3, <3>1 DEF Without
    <3>3. id = i /\ players'[i] = moved.position
      BY <2>1, <2>2 DEF Without
    <3>4. Overlaps(Player(i), moved.position, Bullet(n))
      BY <3>1 DEF Collider, collides, NONE, Bullet
    <3>5. circle_circle_collision(moved.position, PLAYER_RADIUS, bullets[n].position,
                                  BULLET_RADIUS)
      BY <3>4 DEF Overlaps, PositionOf, Radius, Player, Bullet
    <3> QED BY <3>1, <3>2, <3>3, <3>5 DEF HitThere
  <2>4. CASE other[1] # "BULLET"
    <3>1. players' = [players EXCEPT ![i] = moved.position] /\ objects' = objects
      BY <2>2, <2>4
    <3>2. id = i /\ players'[i] = moved.position
          /\ \A j \in DOMAIN players' : j # i => players'[j] = players[j]
      BY <2>1, <3>1
    <3>3. \A o \in Solid : ~Overlaps(Player(i), players'[i], o)
      BY <2>1, <2>moved, <2>4, <3>2, PlayerMoved
    <3>4. \A o \in Placed' : o # Player(i) => o \in Placed
      BY <2>1, <3>1 DEF Placed, Dead
    <3> QED BY <1>1, <3>2, <3>3, <3>4, PutClear
  <2> QED BY <2>3, <2>4
<1>4. CASE RelocatePlayer
  <2>1. PICK i : i = Min(relocate)
    OBVIOUS
  <2>2. PICK position \in get_random_player_position(player_type[i], i) :
           players' = [players EXCEPT ![i] = position]
    BY <1>4, <2>1 DEF RelocatePlayer
  <2>3. /\ objects' = objects /\ revived' = revived \ {i} /\ relocate' = relocate \ {i}
        /\ i \in DOMAIN players
    <3>1. relocate \in SUBSET Nat /\ relocate # {}
      BY <1>4, WorldAssumption DEF TypeOK, WorldAssumption, RelocatePlayer
    <3> QED BY <1>4, <2>1, <3>1, MinIsLeast DEF RelocatePlayer, TypeOK
  <2>4. id = i /\ players'[i] = position
        /\ \A j \in DOMAIN players' : j # i => players'[j] = players[j]
    BY <2>2, <2>3
  <2>5. \A o \in Placed' : o # Player(i) => o \in Placed
    <3>1. \A o \in objects : o[1] = "PLAYER" /\ o[2] = i => o = Player(i)
      BY DEF Registered, ObjectsKnown, Player, Bullet, Obstacle
    <3> QED BY <2>3, <3>1 DEF Placed, Dead
  <2>6. player_type[i] \in Sides
    BY <2>3 DEF TypeOK
  <2>7. \A o \in Solid : ~Overlaps(Player(i), players'[i], o)
    BY <2>4, <2>6, DrawnClear
  <2> QED BY <1>1, <2>4, <2>5, <2>7, PutClear
<1>5. CASE EndRound
  BY <1>5 DEF EndRound
<1>6. CASE UpdateBullet
  BY <1>6, UpdateBulletShape
<1>7. CASE StartMatch \/ MoveBullets \/ DeleteBullets \/ NextRound
  BY <1>7 DEF StartMatch, MoveBullets, DeleteBullets, NextRound, registry, loops
<1>8. ASSUME NEW i \in Ids, NEW heading \in Headings, NEW range \in Ranges,
             Shoot(i, heading, range)
      PROVE  FALSE
  BY <1>8 DEF Shoot, loops
<1>9. ASSUME NEW i \in Ids, Quit(i)
      PROVE  FALSE
  BY <1>9 DEF Quit, loops, Without
<1> QED BY <1>2, <1>3, <1>4, <1>5, <1>6, <1>7, <1>8, <1>9 DEF Next

\* On every such map nobody steps or is put into a wall or another player, unless
\* a bullet hits him in the same step.
THEOREM NobodyIsInside == Spec => OnlyBulletsPush
<1>1. Init => FlightInv
  BY InitStep DEF Init, FlightInv, FlightClear
<1>2. FlightInv /\ [Next]_vars => FlightInv'
  BY FlightStep
<1>3. FlightInv /\ [Next]_vars =>
        [\A id \in DOMAIN players' \ relocate' :
           (id \in DOMAIN players \ relocate => players'[id] # players[id])
           /\ Touching(id)' => HitThere(id)]_vars
  BY PushStep DEF FlightInv
<1> QED BY <1>1, <1>2, <1>3, PTL DEF Spec, OnlyBulletsPush
=============================================================================
