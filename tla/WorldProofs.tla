---------------------------- MODULE WorldProofs ----------------------------
(***************************************************************************)
(* World: what a search of the cells around a position finds, the types,   *)
(* and the agreement of the registries.                                    *)
(***************************************************************************)
EXTENDS World, WellFoundedInduction, TLAPS

-----------------------------------------------------------------------------
(* Cells *)

LEMMA MapSizeType == MapSize \in Nat
BY GeometryAssumption DEF GeometryAssumption, MapSize

LEMMA DivBounds ==
  ASSUME NEW a \in Nat
  PROVE  /\ a \div CELL_SIZE \in Nat
         /\ CELL_SIZE * (a \div CELL_SIZE) <= a
         /\ a < CELL_SIZE * (a \div CELL_SIZE) + CELL_SIZE
BY GeometryAssumption DEF GeometryAssumption

LEMMA SquareBelow ==
  ASSUME NEW d \in Int, NEW e \in Int, NEW r \in Nat, d * d + e * e < r * r
  PROVE  -r < d /\ d < r
OBVIOUS

LEMMA ProductOrder ==
  ASSUME NEW i \in Nat, NEW j \in Nat, CELL_SIZE * i < CELL_SIZE * j
  PROVE  i < j
BY GeometryAssumption DEF GeometryAssumption

\* Coordinates at most two cells apart are in cells at most two apart.
LEMMA CellsClose ==
  ASSUME NEW a \in Nat, NEW b \in Nat, a <= b + 2 * CELL_SIZE, b <= a + 2 * CELL_SIZE
  PROVE  Cell(a) \in Around(Cell(b), 2)
<1> DEFINE i == a \div CELL_SIZE
           j == b \div CELL_SIZE
<1> USE GeometryAssumption DEF GeometryAssumption
<1>1. i \in Nat /\ CELL_SIZE * i <= a /\ a < CELL_SIZE * i + CELL_SIZE
  BY DivBounds
<1>2. j \in Nat /\ CELL_SIZE * j <= b /\ b < CELL_SIZE * j + CELL_SIZE
  BY DivBounds
<1> HIDE DEF i, j
<1>3. CELL_SIZE * (j + 3) = CELL_SIZE * j + 3 * CELL_SIZE
      /\ CELL_SIZE * (i + 3) = CELL_SIZE * i + 3 * CELL_SIZE
  BY <1>1, <1>2
<1>4. CELL_SIZE * i \in Nat /\ CELL_SIZE * j \in Nat
  BY <1>1, <1>2
<1>5. CELL_SIZE * i < CELL_SIZE * (j + 3)
  BY <1>1, <1>2, <1>3, <1>4
<1>6. CELL_SIZE * j < CELL_SIZE * (i + 3)
  BY <1>1, <1>2, <1>3, <1>4
<1>7. i < j + 3 /\ j < i + 3
  BY <1>1, <1>2, <1>5, <1>6, ProductOrder
<1>8. Cell(a) = Lower(i, MATRIX_SIZE - 1) /\ Cell(b) = Lower(j, MATRIX_SIZE - 1)
  BY DEF Cell, i, j
<1> QED
  BY <1>1, <1>2, <1>7, <1>8 DEF Around, Lower, Higher

\* Circles that overlap have their centres closer than the sum of their radii.
LEMMA CircleGap ==
  ASSUME NEW p \in Nat \X Nat, NEW r \in Nat, NEW c \in Nat \X Nat, NEW s \in Nat,
         circle_circle_collision(p, r, c, s)
  PROVE  /\ p[1] - c[1] < r + s /\ c[1] - p[1] < r + s
         /\ p[2] - c[2] < r + s /\ c[2] - p[2] < r + s
<1> DEFINE dx == p[1] - c[1]
           dy == p[2] - c[2]
<1>1. dx \in Int /\ dy \in Int /\ r + s \in Nat
  OBVIOUS
<1>2. dx * dx + dy * dy < (r + s) * (r + s)
  BY DEF circle_circle_collision
<1>3. -(r + s) < dx /\ dx < r + s
  <2> HIDE DEF dx, dy
  <2> QED BY <1>1, <1>2, SquareBelow
<1>4. -(r + s) < dy /\ dy < r + s
  <2> HIDE DEF dx, dy
  <2>1. dy * dy + dx * dx < (r + s) * (r + s)
    BY <1>1, <1>2
  <2> QED BY <1>1, <2>1, SquareBelow
<1> QED
  BY <1>1, <1>3, <1>4

\* A circle that overlaps a rectangle has its centre within a radius of it.
LEMMA RectangleGap ==
  ASSUME NEW p \in Nat \X Nat, NEW r \in Nat, NEW c \in Nat \X Nat,
         NEW w \in Nat, NEW h \in Nat,
         circle_rectangle_collision(p, r, c, w, h)
  PROVE  /\ c[1] - p[1] < r /\ p[1] - c[1] < w + r
         /\ c[2] - p[2] < r /\ p[2] - c[2] < h + r
<1> DEFINE dx == Clamp(p[1], c[1], c[1] + w) - p[1]
           dy == Clamp(p[2], c[2], c[2] + h) - p[2]
<1>1. dx \in Int /\ dy \in Int
  BY DEF Clamp, Lower, Higher
<1>2. dx * dx + dy * dy < r * r
  BY DEF circle_rectangle_collision
<1>3. -r < dx /\ dx < r
  <2> HIDE DEF dx, dy
  <2> QED BY <1>1, <1>2, SquareBelow
<1>4. -r < dy /\ dy < r
  <2> HIDE DEF dx, dy
  <2>1. dy * dy + dx * dx < r * r
    BY <1>1, <1>2
  <2> QED BY <1>1, <2>1, SquareBelow
<1> QED
  BY <1>3, <1>4 DEF Clamp, Lower, Higher

\* The cells two around that of q hold the corner of everything with a size of
\* at most size that a circle of radius r may touch within step pixels of q.
THEOREM NeighboursSuffice ==
  ASSUME NEW p \in Nat \X Nat, NEW q \in Nat \X Nat, NEW c \in Nat \X Nat,
         NEW r \in Nat, NEW size \in Nat, NEW step \in Nat,
         r + size + step <= 2 * CELL_SIZE,
         p[1] - q[1] <= step, q[1] - p[1] <= step,
         p[2] - q[2] <= step, q[2] - p[2] <= step,
         c[1] - p[1] < r + size, p[1] - c[1] < r + size,
         c[2] - p[2] < r + size, p[2] - c[2] < r + size
  PROVE  get_cell_from_position(c) \in
           get_cells_within_radius(get_cell_from_position(q), 2)
<1>1. /\ c[1] <= q[1] + 2 * CELL_SIZE /\ q[1] <= c[1] + 2 * CELL_SIZE
      /\ c[2] <= q[2] + 2 * CELL_SIZE /\ q[2] <= c[2] + 2 * CELL_SIZE
  BY GeometryAssumption DEF GeometryAssumption
<1>2. Cell(c[1]) \in Around(Cell(q[1]), 2) /\ Cell(c[2]) \in Around(Cell(q[2]), 2)
  BY <1>1, CellsClose
<1> QED
  BY <1>2 DEF get_cell_from_position, get_cells_within_radius

-----------------------------------------------------------------------------
(* Positions *)

LEMMA HasLeast ==
  ASSUME NEW S \in SUBSET Nat, S # {}
  PROVE  \E m \in S : \A k \in S : m <= k
<1> DEFINE R == {p \in Nat \X Nat : p[1] < p[2]}
<1>1. IsWellFoundedOn(R, Nat)
  <2>1. R = OpToRel(<, Nat)
    BY Zenon DEF OpToRel
  <2> QED BY <2>1, NatLessThanWellFounded, Zenon
<1> HIDE DEF R
<1>2. PICK m \in S : \A k \in S : ~(<<k, m>> \in R)
  BY <1>1, WFMin
<1>3. \A k \in S : ~(k < m)
  BY <1>2 DEF R
<1> QED BY <1>3

LEMMA MinIsLeast ==
  ASSUME NEW S \in SUBSET Nat, S # {}
  PROVE  Min(S) \in S /\ \A k \in S : Min(S) <= k
BY HasLeast DEF Min

LEMMA Sizes ==
  /\ MapSize \in Nat
  /\ PLAYER_RADIUS \in Nat /\ BULLET_RADIUS \in Nat /\ BULLET_RADIUS <= PLAYER_RADIUS
  /\ 2 * PLAYER_RADIUS <= MapSize
  /\ ZONE_SIZE \in Nat /\ MOVE_STEP \in Nat /\ BULLET_STEP \in Nat
BY MapSizeType, GeometryAssumption, WorldAssumption DEF GeometryAssumption, WorldAssumption

LEMMA DrawnType ==
  ASSUME NEW type \in Sides
  PROVE  Drawn(type) \subseteq Position
<1>1. ASSUME NEW centre \in Nat
      PROVE  ZoneFrom(centre) .. ZoneTo(centre) \subseteq Pixel
  BY Sizes DEF ZoneFrom, ZoneTo, Clamp, Lower, Higher, Pixel
<1>2. PLAYER_RADIUS .. MapSize - PLAYER_RADIUS \subseteq Pixel
  BY Sizes DEF Pixel
<1>3. ASSUME type \in DOMAIN TeamZones
      PROVE  /\ Middle(TeamZones[type].x, TeamZones[type].width) \in Nat
             /\ Middle(TeamZones[type].y, TeamZones[type].height) \in Nat
  <2>1. TeamZones[type] \in Zone
    BY <1>3, WorldAssumption DEF WorldAssumption
  <2> QED BY <2>1 DEF Zone, Middle
<1> QED
  BY <1>1, <1>2, <1>3 DEF Drawn, Position

LEMMA InMapType ==
  ASSUME NEW v \in Int
  PROVE  InMap(v) \in Pixel
BY Sizes DEF InMap, Clamp, Lower, Higher, Pixel

\* Rounding makes no distance longer.
LEMMA AlongBound ==
  ASSUME NEW a \in Int, NEW square, NEW distance \in Nat, NEW x \in Along(a, square, distance)
  PROVE  x \in Int /\ -distance <= x /\ x <= distance
<1>1. PICK k \in 0 .. distance : x = Sign(a) * k
  BY DEF Along
<1>2. Sign(a) = 1 \/ Sign(a) = 0 \/ Sign(a) = -1
  BY DEF Sign
<1> QED BY <1>1, <1>2

LEMMA AwayType ==
  ASSUME NEW position \in Position, NEW heading \in Int \X Int, NEW distance \in Nat
  PROVE  Away(position, heading, distance) \subseteq Position
<1> SUFFICES ASSUME NEW end \in Away(position, heading, distance)
             PROVE  end \in Position
  OBVIOUS
<1> DEFINE square == heading[1] * heading[1] + heading[2] * heading[2]
<1>1. PICK x \in Along(heading[1], square, distance), y \in Along(heading[2], square, distance) :
         end = <<InMap(position[1] + x), InMap(position[2] + y)>>
  BY DEF Away
<1>2. x \in Int /\ y \in Int
  <2> HIDE DEF square
  <2> QED BY AlongBound
<1>3. position[1] + x \in Int /\ position[2] + y \in Int
  BY <1>2, MapSizeType DEF Position, Pixel
<1> QED BY <1>1, <1>3, InMapType DEF Position

LEMMA StartsType ==
  ASSUME NEW position \in Position, NEW heading \in Int \X Int
  PROVE  Starts(position, heading) \subseteq Position
<1>1. Offsets(heading) \subseteq Nat
  BY Sizes DEF Offsets
<1> QED BY <1>1, AwayType DEF Starts

LEMMA PlayerNextType ==
  ASSUME NEW position \in Position, NEW direction \in Directions
  PROVE  Player_get_next_position(position, direction) \in Position
BY Sizes
   DEF Player_get_next_position, Directions, Lower, Higher, Position, Pixel

LEMMA BulletNextType ==
  ASSUME NEW bullet \in BulletRecord
  PROVE  Bullet_get_next_position(bullet) \subseteq Position
<1>1. bullet.position \in Position /\ bullet.target \in Position
  BY DEF BulletRecord
<1>2. Lower(BULLET_STEP, bullet.range) \in Nat
  BY Sizes DEF BulletRecord, Lower
<1>3. <<bullet.target[1] - bullet.position[1], bullet.target[2] - bullet.position[2]>>
         \in Int \X Int
  BY <1>1, MapSizeType DEF Position, Pixel
<1> QED BY <1>1, <1>2, <1>3, AwayType DEF Bullet_get_next_position

LEMMA PixelsType ==
  ASSUME NEW from \in Position, NEW to \in Position, NEW k \in Nat
  PROVE  Pixels(from, to, k) \in Position
BY MapSizeType DEF Pixels, Toward, Lower, Higher, Position, Pixel

LEMMA PathLengthType ==
  ASSUME NEW from \in Position, NEW to \in Position
  PROVE  PathLength(from, to) \in Nat
BY MapSizeType DEF PathLength, Gap, Higher, Position, Pixel

\* A square root there is: the least number whose successor is too large.
LEMMA DistanceType ==
  ASSUME NEW p \in Position, NEW q \in Position
  PROVE  distance_between(p, q) \in Nat
<1> DEFINE dx == p[1] - q[1]
           dy == p[2] - q[2]
           n == dx * dx + dy * dy
           S == {d \in 0 .. 2 * MapSize : n < (d + 1) * (d + 1)}
<1>1. /\ dx \in Int /\ -MapSize <= dx /\ dx <= MapSize
      /\ dy \in Int /\ -MapSize <= dy /\ dy <= MapSize
  BY MapSizeType DEF Position, Pixel
<1>2. n \in Nat /\ n <= 2 * (MapSize * MapSize)
  <2> HIDE DEF dx, dy
  <2>1. dx * dx \in Nat /\ dx * dx <= MapSize * MapSize
    BY <1>1, MapSizeType
  <2>2. dy * dy \in Nat /\ dy * dy <= MapSize * MapSize
    BY <1>1, MapSizeType
  <2> QED BY <2>1, <2>2, MapSizeType
<1>3. S \in SUBSET Nat /\ 2 * MapSize \in S
  <2> HIDE DEF n
  <2>1. 2 * (MapSize * MapSize) < (2 * MapSize + 1) * (2 * MapSize + 1)
    BY MapSizeType
  <2> QED BY <1>2, <2>1, MapSizeType
<1>4. PICK d \in S : \A e \in S : d <= e
  <2> HIDE DEF S
  <2> QED BY <1>3, HasLeast
<1>5. d \in 0 .. 2 * MapSize /\ n < (d + 1) * (d + 1)
  BY <1>4
<1>6. d * d <= n
  <2> HIDE DEF n
  <2>1. CASE d = 0
    BY <2>1, <1>2
  <2>2. CASE d # 0
    <3>1. d - 1 \in 0 .. 2 * MapSize /\ d - 1 \notin S
      BY <2>2, <1>3, <1>4, MapSizeType
    <3>2. ~(n < (d - 1 + 1) * (d - 1 + 1))
      BY <3>1
    <3> QED BY <3>2, <1>2, <1>5, MapSizeType
  <2> QED BY <2>1, <2>2
<1>7. \E e \in 0 .. 2 * MapSize : e * e <= n /\ n < (e + 1) * (e + 1)
  BY <1>5, <1>6
<1>8. distance_between(p, q) = CHOOSE e \in 0 .. 2 * MapSize : e * e <= n /\ n < (e + 1) * (e + 1)
  BY DEF distance_between
<1> HIDE DEF n
<1>9. distance_between(p, q) \in 0 .. 2 * MapSize
  BY <1>7, <1>8
<1> QED BY <1>9, MapSizeType

LEMMA MaxPositionType ==
  ASSUME NEW mover, NEW from \in Position, NEW to \in Position,
         NEW moved \in get_max_position(mover, from, to)
  PROVE  moved.position \in Position /\ moved.met \in objects \cup {NONE}
<1> DEFINE near == get_adyacent_objects(get_cell_from_position(to))
           met(k) == collides(mover, Pixels(from, to, k), near)
           blocked == {k \in 1 .. PathLength(from, to) : met(k) # {}}
           last == Min(blocked)
<1>1. \A k : met(k) \subseteq objects
  BY DEF collides, get_adyacent_objects
<1>2. CASE blocked = {}
  BY <1>2 DEF get_max_position
<1>3. CASE blocked # {}
  <2>1. blocked \in SUBSET Nat
    BY PathLengthType
  <2>2. last \in blocked
    <3> HIDE DEF blocked
    <3> QED BY <1>3, <2>1, MinIsLeast
  <2>3. last \in Nat /\ last - 1 \in Nat
    BY <2>2, PathLengthType
  <2>4. PICK o \in met(last) :
           moved = [position |-> Pixels(from, to, IF StopsOn(mover, o) THEN last ELSE last - 1),
                    met |-> o]
    BY <1>3 DEF get_max_position
  <2> HIDE DEF last, met
  <2> QED BY <1>1, <2>3, <2>4, PixelsType
<1> QED BY <1>2, <1>3

-----------------------------------------------------------------------------
(* Objects, their seats and their entries in the matrix *)

\* Objects of different maps are different, and a map's ids tell them apart.
LEMMA ObjectsDiffer ==
  /\ \A i, j : Player(i) = Player(j) <=> i = j
  /\ \A i, j : Bullet(i) = Bullet(j) <=> i = j
  /\ \A i, j : Obstacle(i) = Obstacle(j) <=> i = j
  /\ \A i, j : Player(i) # Bullet(j) /\ Player(i) # Obstacle(j) /\ Bullet(i) # Obstacle(j)
BY DEF Player, Bullet, Obstacle

LEMMA EntriesDiffer ==
  ASSUME NEW o, NEW p, NEW s, NEW t, Entry(o, s) = Entry(p, t)
  PROVE  o = p
BY DEF Entry

LEMMA PlayerSeat ==
  ASSUME NEW id
  PROVE  Seat(Player(id)) = players[id] /\ Seat(Player(id))' = players'[id]
BY DEF Seat, PositionOf, Player

LEMMA ObstacleSeat ==
  ASSUME NEW o
  PROVE  Seat(Obstacle(o)) = o.corner /\ Seat(Obstacle(o))' = o.corner
BY DEF Seat, PositionOf, Obstacle

LEMMA BulletSeat ==
  ASSUME NEW n
  PROVE  /\ n \notin DOMAIN bullets_to_update => Seat(Bullet(n)) = bullets[n].position
         /\ n \in DOMAIN bullets_to_update => Seat(Bullet(n)) = bullets_to_update[n].old
         /\ n \notin DOMAIN bullets_to_update' => Seat(Bullet(n))' = bullets'[n].position
         /\ n \in DOMAIN bullets_to_update' => Seat(Bullet(n))' = bullets_to_update'[n].old
BY DEF Seat, PositionOf, Bullet

\* The vector follows the maps.
LEMMA Removed ==
  ASSUME ObjectsKnown, NEW ids, NEW ns,
         DOMAIN players' = DOMAIN players \ ids, DOMAIN bullets' = DOMAIN bullets \ ns,
         objects' = objects \ ({Player(id) : id \in ids} \cup {Bullet(n) : n \in ns})
  PROVE  ObjectsKnown'
<1>1. ASSUME NEW o \in objects'
      PROVE  \/ \E id \in DOMAIN players' : o = Player(id)
             \/ \E n \in DOMAIN bullets' : o = Bullet(n)
             \/ \E w \in Obstacles : o = Obstacle(w)
  BY ObjectsDiffer DEF ObjectsKnown
<1>2. ASSUME NEW id \in DOMAIN players' PROVE Player(id) \in objects'
  BY ObjectsDiffer DEF ObjectsKnown
<1>3. ASSUME NEW n \in DOMAIN bullets' PROVE Bullet(n) \in objects'
  BY ObjectsDiffer DEF ObjectsKnown
<1>4. ASSUME NEW w \in Obstacles PROVE Obstacle(w) \in objects'
  BY ObjectsDiffer DEF ObjectsKnown
<1> HIDE DEF ObjectsKnown
<1>5. objects' = {Player(id) : id \in DOMAIN players'}
                 \cup {Bullet(n) : n \in DOMAIN bullets'}
                 \cup {Obstacle(o) : o \in Obstacles}
  BY <1>1, <1>2, <1>3, <1>4
<1> QED BY <1>5 DEF ObjectsKnown

LEMMA Added ==
  ASSUME ObjectsKnown, NEW ids, NEW ns,
         DOMAIN players' = DOMAIN players \cup ids, DOMAIN bullets' = DOMAIN bullets \cup ns,
         objects' = objects \cup ({Player(id) : id \in ids} \cup {Bullet(n) : n \in ns})
  PROVE  ObjectsKnown'
BY DEF ObjectsKnown

\* When the entries of the objects in changed are taken out of the matrix, and
\* put in again for those that are left, the matrix stays right.
LEMMA Refile ==
  ASSUME MatrixRight, NEW changed,
         \A o \in Placed' \ changed : o \in Placed /\ Seat(o)' = Seat(o),
         Placed \ changed \subseteq Placed',
         matrix' = (matrix \ {Entry(o, Seat(o)) : o \in changed \cap Placed})
                   \cup {Entry(o, Seat(o)') : o \in changed \cap Placed'}
  PROVE  MatrixRight'
<1>1. ASSUME NEW e \in matrix'
      PROVE  \E o \in Placed' : e = Entry(o, Seat(o)')
  <2>1. CASE e \in {Entry(o, Seat(o)') : o \in changed \cap Placed'}
    BY <2>1
  <2>2. CASE e \in matrix /\ e \notin {Entry(o, Seat(o)) : o \in changed \cap Placed}
    <3>1. PICK o \in Placed : e = Entry(o, Seat(o))
      BY <2>2 DEF MatrixRight
    <3>2. o \notin changed
      BY <2>2, <3>1
    <3> QED BY <3>1, <3>2
  <2> QED BY <1>1, <2>1, <2>2
<1>2. ASSUME NEW o \in Placed'
      PROVE  Entry(o, Seat(o)') \in matrix'
  <2>1. CASE o \in changed
    BY <2>1
  <2>2. CASE o \notin changed
    <3>1. o \in Placed /\ Seat(o)' = Seat(o)
      BY <2>2
    <3>2. Entry(o, Seat(o)) \in matrix
      BY <3>1 DEF MatrixRight
    <3>3. Entry(o, Seat(o)) \notin {Entry(p, Seat(p)) : p \in changed \cap Placed}
      BY <2>2, EntriesDiffer
    <3> QED BY <3>1, <3>2, <3>3
  <2> QED BY <2>1, <2>2
<1>3. matrix' = {Entry(o, Seat(o)') : o \in Placed'}
  BY <1>1, <1>2
<1> QED BY <1>3 DEF MatrixRight

\* An object that is not among the changed keeps its seat.
LEMMA SeatsKept ==
  ASSUME ObjectsKnown', NEW changed,
         \A id \in DOMAIN players' :
            Player(id) \notin changed => players'[id] = players[id],
         \A n \in DOMAIN bullets' :
            Bullet(n) \notin changed => Seat(Bullet(n))' = Seat(Bullet(n))
  PROVE  \A o \in objects' \ changed : Seat(o)' = Seat(o)
<1> SUFFICES ASSUME NEW o \in objects', o \notin changed
             PROVE  Seat(o)' = Seat(o)
  OBVIOUS
<1>1. CASE \E id \in DOMAIN players' : o = Player(id)
  BY <1>1, PlayerSeat
<1>2. CASE \E n \in DOMAIN bullets' : o = Bullet(n)
  BY <1>2
<1>3. CASE \E w \in Obstacles : o = Obstacle(w)
  BY <1>3, ObstacleSeat
<1> QED BY <1>1, <1>2, <1>3 DEF ObjectsKnown

\* An object has no entry but the one of its seat.
LEMMA OneEntry ==
  ASSUME MatrixRight, NEW o, NEW p, Entry(o, p) \in matrix
  PROVE  o \in Placed /\ Entry(o, p) = Entry(o, Seat(o))
<1>1. PICK q \in Placed : Entry(o, p) = Entry(q, Seat(q))
  BY DEF MatrixRight
<1>2. q = o
  BY <1>1, EntriesDiffer
<1> QED BY <1>1, <1>2

LEMMA ColliderKnown ==
  ASSUME ObjectsKnown, NEW mover, NEW moved, NEW other \in Collider(mover, moved)
  PROVE  /\ other[1] = "PLAYER" => \E id \in DOMAIN players : other = Player(id) /\ other[2] = id
         /\ other[1] = "BULLET" => \E n \in DOMAIN bullets : other = Bullet(n) /\ other[2] = n
<1>1. other \in objects \cup {NONE}
  BY DEF Collider, collides, get_adyacent_objects
<1>2. CASE other = NONE
  BY <1>2 DEF NONE
<1>3. CASE other \in objects
  BY <1>3 DEF ObjectsKnown, Player, Bullet, Obstacle
<1> QED BY <1>1, <1>2, <1>3

LEMMA PlayerKnown ==
  ASSUME ObjectsKnown, NEW id, Player(id) \in objects
  PROVE  id \in DOMAIN players
BY ObjectsDiffer DEF ObjectsKnown

\* Outside the reset of a round every object is in the matrix.
LEMMA AllPlaced ==
  /\ revived = {} => Placed = objects
  /\ revived' = {} => Placed' = objects'
BY DEF Placed, Dead

-----------------------------------------------------------------------------
(* Steps *)

LEMMA InitStep ==
  ASSUME Init
  PROVE  TypeOK /\ Registered
<1> USE DEF Init
<1>1. DOMAIN players = {} /\ DOMAIN dead_players = {} /\ DOMAIN bullets = {}
      /\ DOMAIN bullets_to_update = {}
  OBVIOUS
<1>2. bullet_id \in 1 .. MaxBulletId
  BY WorldAssumption DEF WorldAssumption
<1>3. TypeOK
  BY <1>1, <1>2 DEF TypeOK, Sides
<1>4. ObjectsKnown
  BY <1>1 DEF ObjectsKnown
<1>5. MatrixRight
  <2>1. Placed = {Obstacle(o) : o \in Obstacles}
    BY AllPlaced
  <2>2. {Entry(o, Seat(o)) : o \in Placed} = {Entry(Obstacle(o), o.corner) : o \in Obstacles}
    BY <2>1, ObstacleSeat
  <2> QED BY <2>2 DEF MatrixRight
<1> QED BY <1>3, <1>4, <1>5 DEF Registered

LEMMA AddPlayerStep ==
  ASSUME TypeOK, Registered, NEW id \in Ids, NEW type \in Sides, AddPlayer(id, type)
  PROVE  TypeOK' /\ Registered'
<1>1. PICK position \in get_random_player_position(type, id) :
         /\ players' = With(players, id, position)
         /\ matrix' = matrix \cup {Entry(Player(id), position)}
  BY DEF AddPlayer
<1>2. position \in Position
  BY DrawnType DEF get_random_player_position
<1>3. /\ phase' = phase /\ player_type[id] = "UNKNOWN"
      /\ player_type' = [player_type EXCEPT ![id] = type]
      /\ objects' = objects \cup {Player(id)}
      /\ UNCHANGED <<dead_players, bullets, bullet_id, bullets_to_update,
                     bullets_to_delete, revived>>
  BY DEF AddPlayer
<1>a. /\ relocate \subseteq relocate' /\ relocate' \subseteq relocate \cup {id}
      /\ phase # "reset" => relocate' = relocate
      /\ newcomers' \subseteq newcomers \cup {id}
      /\ phase # "bullets" => newcomers' = newcomers
  <2>1. PICK visited \in Visited(id) :
           relocate' = IF visited THEN relocate \cup {id} ELSE relocate
    BY DEF AddPlayer
  <2>2. phase # "reset" => Visited(id) = {FALSE}
    BY DEF Visited
  <2>3. phase # "reset" => visited = FALSE
    BY <2>1, <2>2
  <2>4. newcomers' = IF phase = "bullets" THEN newcomers \cup {id} ELSE newcomers
    BY DEF AddPlayer
  <2> QED BY <2>1, <2>3, <2>4
<1>4. id \notin DOMAIN players /\ id \notin DOMAIN dead_players /\ id \notin revived
  BY <1>3 DEF TypeOK, Sides
<1>5. DOMAIN players' = DOMAIN players \cup {id} /\ players'[id] = position
      /\ \A i \in DOMAIN players : i # id => players'[i] = players[i]
  BY <1>1 DEF With
<1>6. players' \in [DOMAIN players' -> Position]
  BY <1>1, <1>2, <1>5 DEF With, TypeOK
<1>7. TypeOK'
  <2>1. /\ player_type' \in [Ids -> Sides \cup {"UNKNOWN"}]
        /\ \A i \in DOMAIN players' \cup DOMAIN dead_players' : player_type'[i] \in Sides
    BY <1>3, <1>5 DEF TypeOK
  <2>2. /\ revived' \subseteq relocate' /\ relocate' \subseteq DOMAIN players'
        /\ phase' # "reset" => relocate' = {}
        /\ newcomers' \subseteq Ids
        /\ phase' # "bullets" => newcomers' = {}
    BY <1>3, <1>a, <1>5 DEF TypeOK
  <2> QED BY <1>3, <1>4, <1>5, <1>6, <2>1, <2>2 DEF TypeOK
<1>8. ObjectsKnown'
  <2>1. DOMAIN bullets' = DOMAIN bullets \cup {}
        /\ objects' = objects \cup ({Player(i) : i \in {id}} \cup {Bullet(n) : n \in {}})
    BY <1>3
  <2> QED BY <1>5, <2>1, Added DEF Registered
<1>9. MatrixRight'
  <2>1. Player(id) \notin objects /\ ~Dead(Player(id))'
    BY <1>3, <1>4, ObjectsDiffer DEF Registered, ObjectsKnown, Dead, Player
  <2>2. \A n \in DOMAIN bullets' : Seat(Bullet(n))' = Seat(Bullet(n))
    BY <1>3, BulletSeat
  <2>3. \A o \in objects' \ {Player(id)} : Seat(o)' = Seat(o)
    BY <1>4, <1>5, <1>8, <2>2, SeatsKept
  <2>4. Player(id) \notin Placed /\ Placed' = Placed \cup {Player(id)}
    BY <1>3, <2>1 DEF Placed, Dead
  <2>5. matrix' = (matrix \ {Entry(o, Seat(o)) : o \in {Player(id)} \cap Placed})
                  \cup {Entry(o, Seat(o)') : o \in {Player(id)} \cap Placed'}
    <3>1. {Entry(o, Seat(o)) : o \in {Player(id)} \cap Placed} = {}
      BY <2>4
    <3>2. {Entry(o, Seat(o)') : o \in {Player(id)} \cap Placed'} = {Entry(Player(id), position)}
      BY <1>5, <2>4, PlayerSeat
    <3> QED BY <1>1, <3>1, <3>2
  <2>6. \A o \in Placed' \ {Player(id)} : o \in Placed /\ Seat(o)' = Seat(o)
    BY <2>3, <2>4 DEF Placed
  <2> QED BY <2>4, <2>5, <2>6, Refile DEF Registered
<1> QED BY <1>7, <1>8, <1>9 DEF Registered

LEMMA StartMatchStep ==
  ASSUME TypeOK, Registered, StartMatch
  PROVE  TypeOK' /\ Registered'
<1> USE DEF StartMatch, registry, loops
<1>1. TypeOK'
  BY DEF TypeOK
<1>2. Placed' = Placed /\ \A o : Seat(o)' = Seat(o)
  BY DEF Placed, Dead, Seat, PositionOf
<1> QED BY <1>1, <1>2 DEF Registered, ObjectsKnown, MatrixRight

LEMMA QuitStep ==
  ASSUME TypeOK, Registered, NEW id \in Ids, Quit(id)
  PROVE  TypeOK' /\ Registered'
<1> USE DEF Quit, loops
<1>1. TypeOK'
  BY DEF TypeOK, Without, Player
<1>2. ObjectsKnown'
  <2>1. DOMAIN players' = DOMAIN players \ {id} /\ DOMAIN bullets' = DOMAIN bullets \ {}
    BY DEF Without
  <2>2. objects' = objects \ ({Player(i) : i \in {id}} \cup {Bullet(n) : n \in {}})
    OBVIOUS
  <2> QED BY <2>1, <2>2, Removed DEF Registered
<1>3. MatrixRight'
  <2>1. /\ revived = {} /\ revived' = {}
        /\ bullets_to_update' = bullets_to_update /\ bullets' = bullets
    BY DEF TypeOK
  <2>2. Placed = objects /\ Placed' = objects'
    BY <2>1, AllPlaced
  <2>3. \A o \in Placed' \ {Player(id)} : o \in Placed /\ Seat(o)' = Seat(o)
    <3>1. \A i \in DOMAIN players' : players'[i] = players[i]
      BY DEF Without
    <3>2. \A n \in DOMAIN bullets' : Seat(Bullet(n))' = Seat(Bullet(n))
      BY <2>1, BulletSeat
    <3> QED BY <1>2, <2>2, <3>1, <3>2, SeatsKept
  <2>4. Placed \ {Player(id)} \subseteq Placed' /\ Player(id) \notin Placed'
    BY <2>2
  <2>5. matrix' = (matrix \ {Entry(o, Seat(o)) : o \in {Player(id)} \cap Placed})
                  \cup {Entry(o, Seat(o)') : o \in {Player(id)} \cap Placed'}
    <3>1. {Entry(o, Seat(o)') : o \in {Player(id)} \cap Placed'} = {}
      BY <2>4
    <3>2. CASE id \in DOMAIN players
      <4>1. Player(id) \in Placed
        BY <3>2, <2>2 DEF Registered, ObjectsKnown
      <4>2. {Entry(o, Seat(o)) : o \in {Player(id)} \cap Placed} = {Entry(Player(id), players[id])}
        BY <4>1, PlayerSeat
      <4> QED BY <3>1, <3>2, <4>2 DEF remove_from_matrix
    <3>3. CASE id \notin DOMAIN players
      <4>1. Player(id) \notin Placed
        BY <3>3, <2>2, PlayerKnown DEF Registered
      <4> QED BY <3>1, <3>3, <4>1
    <3> QED BY <3>2, <3>3
  <2> QED BY <2>3, <2>4, <2>5, Refile DEF Registered
<1> QED BY <1>1, <1>2, <1>3 DEF Registered

LEMMA MoveStep ==
  ASSUME TypeOK, Registered, NEW id \in Ids, NEW direction \in Directions,
         Move(id, direction)
  PROVE  TypeOK' /\ Registered'
<1> DEFINE next == Player_get_next_position(players[id], direction)
           Hit(other) == other[1] = "BULLET"
<1>1. /\ phase = "game" /\ phase' = "game" /\ id \in DOMAIN players
      /\ UNCHANGED <<player_type, bullet_id, bullets_to_update, bullets_to_delete,
                     relocate, revived, newcomers>>
  BY DEF Move, loops
<1> DEFINE Outcome(moved, other, dies) ==
         /\ players' = IF dies THEN Without(players, {id})
                       ELSE [players EXCEPT ![id] = moved.position]
         /\ dead_players' = IF dies THEN With(dead_players, id, moved.position)
                            ELSE dead_players
         /\ bullets' = IF Hit(other) THEN Without(bullets, {other[2]}) ELSE bullets
         /\ objects' = objects \ ((IF Hit(other) THEN {other} ELSE {})
                                  \cup (IF dies THEN {Player(id)} ELSE {}))
         /\ matrix' = (remove_from_matrix(matrix, Player(id), players[id])
                         \ IF Hit(other) THEN EntriesOfBullets({other[2]}) ELSE {})
                      \cup IF dies THEN {} ELSE {Entry(Player(id), moved.position)}
<1>a. PICK moved \in get_max_position(Player(id), players[id], next) :
         \E other \in Collider(Player(id), moved) :
            \E dies \in IF Hit(other) THEN BOOLEAN ELSE {FALSE} : Outcome(moved, other, dies)
  BY DEF Move
<1>b. PICK other \in Collider(Player(id), moved) :
         \E dies \in IF Hit(other) THEN BOOLEAN ELSE {FALSE} : Outcome(moved, other, dies)
  BY <1>a
<1>c. PICK dies \in IF Hit(other) THEN BOOLEAN ELSE {FALSE} : Outcome(moved, other, dies)
  BY <1>b
<1>2. dies \in BOOLEAN /\ (dies => Hit(other)) /\ Outcome(moved, other, dies)
  BY <1>c
<1> DEFINE ns == IF Hit(other) THEN {other[2]} ELSE {}
           ids == IF dies THEN {id} ELSE {}
<1>3. moved.position \in Position
  <2>1. players[id] \in Position /\ next \in Position
    BY <1>1, PlayerNextType DEF TypeOK
  <2> QED BY <2>1, MaxPositionType
<1>4. Hit(other) => other = Bullet(other[2]) /\ other[2] \in DOMAIN bullets
  BY ColliderKnown DEF Registered
<1>5. /\ DOMAIN players' = DOMAIN players \ ids /\ DOMAIN bullets' = DOMAIN bullets \ ns
      /\ \A i \in DOMAIN players' : i # id => players'[i] = players[i]
      /\ ~dies => players'[id] = moved.position
      /\ \A n \in DOMAIN bullets' : bullets'[n] = bullets[n]
  BY <1>1, <1>2 DEF Without
<1>6. TypeOK'
  <2>1. players' \in [DOMAIN players' -> Position]
    BY <1>1, <1>2, <1>3 DEF Without, TypeOK
  <2>2. dead_players' \in [DOMAIN dead_players' -> Position]
        /\ DOMAIN dead_players' = DOMAIN dead_players \cup ids
    BY <1>2, <1>3 DEF With, TypeOK
  <2>3. bullets' \in [DOMAIN bullets' -> BulletRecord]
    BY <1>2 DEF Without, TypeOK
  <2>4. DOMAIN bullets_to_update = {} /\ bullets_to_delete = {} /\ relocate = {} /\ revived = {}
    BY <1>1 DEF TypeOK
  <2> QED BY <1>1, <1>5, <2>1, <2>2, <2>3, <2>4 DEF TypeOK
<1>7. objects' = objects \ ({Player(i) : i \in ids} \cup {Bullet(n) : n \in ns})
  BY <1>2, <1>4
<1>8. ObjectsKnown'
  BY <1>5, <1>7, Removed DEF Registered
<1>9. MatrixRight'
  <2> DEFINE changed == {Player(id)} \cup {Bullet(n) : n \in ns}
  <2>1. /\ Placed = objects /\ Placed' = objects' /\ DOMAIN bullets_to_update = {}
    BY <1>1, AllPlaced DEF TypeOK
  <2>2. \A n \in DOMAIN bullets' : Seat(Bullet(n))' = Seat(Bullet(n))
    BY <1>1, <1>5, <2>1, BulletSeat
  <2>3. \A o \in objects' \ changed : Seat(o)' = Seat(o)
    BY <1>5, <1>8, <2>2, SeatsKept
  <2>4. changed \subseteq objects
    BY <1>1, <1>4 DEF Registered, ObjectsKnown
  <2>5. changed \cap objects' = IF dies THEN {} ELSE {Player(id)}
    BY <1>1, <1>7, <2>4, ObjectsDiffer
  <2>6. {Entry(o, Seat(o)) : o \in changed \cap Placed}
           = {Entry(Player(id), players[id])} \cup EntriesOfBullets(ns)
    <3>1. \A n : Seat(Bullet(n)) = bullets[n].position
      BY <2>1, BulletSeat
    <3>2. changed \cap Placed = changed
      BY <2>1, <2>4
    <3> QED BY <3>1, <3>2, PlayerSeat DEF EntriesOfBullets
  <2>7. {Entry(o, Seat(o)') : o \in changed \cap Placed'}
           = IF dies THEN {} ELSE {Entry(Player(id), moved.position)}
    BY <1>5, <2>1, <2>5, PlayerSeat
  <2>8. matrix' = (matrix \ {Entry(o, Seat(o)) : o \in changed \cap Placed})
                  \cup {Entry(o, Seat(o)') : o \in changed \cap Placed'}
    <3>1. EntriesOfBullets(ns) = IF Hit(other) THEN EntriesOfBullets({other[2]}) ELSE {}
      BY DEF EntriesOfBullets
    <3> HIDE DEF changed
    <3> QED BY <1>2, <2>6, <2>7, <3>1 DEF remove_from_matrix
  <2>9. Placed \ changed \subseteq Placed'
    BY <1>7, <2>1
  <2>10. \A o \in Placed' \ changed : o \in Placed /\ Seat(o)' = Seat(o)
    BY <1>7, <2>1, <2>3
  <2> HIDE DEF changed
  <2> QED BY <2>8, <2>9, <2>10, Refile DEF Registered
<1> QED BY <1>6, <1>8, <1>9 DEF Registered

LEMMA ShootStep ==
  ASSUME TypeOK, Registered, NEW id \in Ids, NEW heading \in Headings,
         NEW range \in Ranges, Shoot(id, heading, range)
  PROVE  TypeOK' /\ Registered'
<1>aim. PICK start \in Starts(players[id], heading), target \in Away(players[id], heading, range) :
          /\ bullets' = With(bullets, bullet_id,
                             [position |-> start, target |-> target, range |-> range,
                              player_id |-> id])
          /\ matrix' = matrix \cup {Entry(Bullet(bullet_id), start)}
  BY DEF Shoot
<1> DEFINE bullet == [position |-> start, target |-> target, range |-> range,
                      player_id |-> id]
<1>1. /\ phase = "game" /\ phase' = "game" /\ id \in DOMAIN players
      /\ bullet_id \notin DOMAIN bullets
      /\ bullets' = With(bullets, bullet_id, bullet)
      /\ matrix' = matrix \cup {Entry(Bullet(bullet_id), start)}
      /\ objects' = objects \cup {Bullet(bullet_id)}
      /\ bullet_id' = NextBulletId
      /\ UNCHANGED <<players, dead_players, player_type, bullets_to_update,
                     bullets_to_delete, relocate, revived, newcomers>>
  BY <1>aim DEF Shoot, loops
<1>2. bullet \in BulletRecord
  <2>1. players[id] \in Position /\ range \in Nat /\ heading \in Int \X Int
    BY <1>1, WorldAssumption DEF TypeOK, WorldAssumption
  <2>2. start \in Position /\ target \in Position
    BY <2>1, StartsType, AwayType
  <2> QED BY <2>1, <2>2 DEF BulletRecord
<1>3. start = bullet.position
  OBVIOUS
<1> HIDE DEF bullet
<1>4. /\ DOMAIN bullets' = DOMAIN bullets \cup {bullet_id} /\ bullets'[bullet_id] = bullet
      /\ \A n \in DOMAIN bullets : n # bullet_id => bullets'[n] = bullets[n]
  BY <1>1 DEF With
<1>5. TypeOK'
  <2>1. bullets' \in [DOMAIN bullets' -> BulletRecord]
    BY <1>1, <1>2, <1>4 DEF With, TypeOK
  <2>2. bullet_id' \in 1 .. MaxBulletId
    BY <1>1, WorldAssumption DEF NextBulletId, TypeOK, WorldAssumption
  <2>3. DOMAIN bullets' \subseteq 1 .. MaxBulletId
    BY <1>4 DEF TypeOK
  <2> QED BY <1>1, <1>4, <2>1, <2>2, <2>3 DEF TypeOK
<1>6. ObjectsKnown'
  <2>1. DOMAIN players' = DOMAIN players \cup {}
        /\ objects' = objects \cup ({Player(i) : i \in {}} \cup {Bullet(n) : n \in {bullet_id}})
    BY <1>1
  <2> QED BY <1>4, <2>1, Added DEF Registered
<1>7. MatrixRight'
  <2> DEFINE changed == {Bullet(bullet_id)}
  <2>1. /\ Placed = objects /\ Placed' = objects'
        /\ DOMAIN bullets_to_update = {} /\ DOMAIN bullets_to_update' = {}
    BY <1>1, AllPlaced DEF TypeOK
  <2>2. \A n \in DOMAIN bullets' : Bullet(n) \notin changed => Seat(Bullet(n))' = Seat(Bullet(n))
    BY <1>4, <2>1, BulletSeat
  <2>3. \A o \in objects' \ changed : Seat(o)' = Seat(o)
    BY <1>1, <1>6, <2>2, SeatsKept
  <2>4. Bullet(bullet_id) \notin Placed /\ Bullet(bullet_id) \in Placed'
    <3>1. \A n : Bullet(n) \in objects => n \in DOMAIN bullets
      BY ObjectsDiffer DEF Registered, ObjectsKnown
    <3> QED BY <1>1, <2>1, <3>1
  <2>5. matrix' = (matrix \ {Entry(o, Seat(o)) : o \in changed \cap Placed})
                  \cup {Entry(o, Seat(o)') : o \in changed \cap Placed'}
    <3>1. {Entry(o, Seat(o)) : o \in changed \cap Placed} = {}
      BY <2>4
    <3>2. {Entry(o, Seat(o)') : o \in changed \cap Placed'} = {Entry(Bullet(bullet_id), start)}
      BY <1>3, <1>4, <2>1, <2>4, BulletSeat
    <3> HIDE DEF changed
    <3> QED BY <1>1, <3>1, <3>2
  <2> QED BY <1>1, <2>1, <2>3, <2>5, Refile DEF Registered
<1> QED BY <1>5, <1>6, <1>7 DEF Registered

LEMMA MoveBulletsStep ==
  ASSUME TypeOK, Registered, MoveBullets
  PROVE  TypeOK' /\ Registered'
<1>1. /\ phase = "game" /\ phase' = "bullets"
      /\ UNCHANGED <<players, dead_players, player_type, bullet_id, objects, matrix,
                     relocate, revived, newcomers>>
  BY DEF MoveBullets
<1>2. PICK flight \in [DOMAIN bullets -> UNION {Flights(n) : n \in DOMAIN bullets}] :
         /\ \A n \in DOMAIN bullets : flight[n] \in Flights(n)
         /\ LET moved == {n \in DOMAIN bullets : flight[n].position # bullets[n].position} IN
            /\ bullets_to_update' = [n \in moved |-> [old |-> bullets[n].position,
                                                      met |-> flight[n].met]]
            /\ bullets_to_delete' = DOMAIN bullets \ moved
            /\ bullets' = [n \in DOMAIN bullets |->
                             IF n \in moved
                             THEN [bullets[n] EXCEPT
                                     !.position = flight[n].position,
                                     !.range = decrement_range(@,
                                         distance_between(bullets[n].position,
                                                          flight[n].position))]
                             ELSE bullets[n]]
  BY DEF MoveBullets
<1> DEFINE moved == {n \in DOMAIN bullets : flight[n].position # bullets[n].position}
<1>3. \A n \in DOMAIN bullets :
         /\ flight[n].position \in Position
         /\ flight[n].met \in objects \cup {NONE}
  <2> SUFFICES ASSUME NEW n \in DOMAIN bullets
               PROVE  /\ flight[n].position \in Position
                      /\ flight[n].met \in objects \cup {NONE}
    OBVIOUS
  <2>1. bullets[n] \in BulletRecord /\ bullets[n].position \in Position
    BY DEF TypeOK, BulletRecord
  <2>2. Bullet_get_next_position(bullets[n]) \subseteq Position
    BY <2>1, BulletNextType
  <2>3. flight[n] \in Flights(n)
    BY <1>2
  <2>4. CASE IsAlive(bullets[n])
    <3>1. PICK next \in Bullet_get_next_position(bullets[n]) :
             flight[n] \in get_max_position(Bullet(n), bullets[n].position, next)
      BY <2>3, <2>4 DEF Flights
    <3> QED BY <2>1, <2>2, <3>1, MaxPositionType
  <2>5. CASE ~IsAlive(bullets[n])
    BY <2>1, <2>3, <2>5 DEF Flights
  <2> QED BY <2>4, <2>5
<1>4. /\ DOMAIN bullets' = DOMAIN bullets
      /\ DOMAIN bullets_to_update' = moved
      /\ bullets_to_delete' = DOMAIN bullets \ moved
      /\ \A n \in moved : bullets_to_update'[n] = [old |-> bullets[n].position,
                                                   met |-> flight[n].met]
      /\ \A n \in DOMAIN bullets \ moved : bullets'[n] = bullets[n]
  BY <1>2
<1>5. TypeOK'
  <2>1. bullets' \in [DOMAIN bullets' -> BulletRecord]
    <3> SUFFICES ASSUME NEW n \in DOMAIN bullets
                 PROVE  bullets'[n] \in BulletRecord
      BY <1>2, <1>4
    <3>1. bullets[n] \in BulletRecord
      BY DEF TypeOK
    <3>2. CASE n \notin moved
      BY <1>4, <3>1, <3>2
    <3>3. CASE n \in moved
      <4> DEFINE distance == distance_between(bullets[n].position, flight[n].position)
      <4>1. distance \in Nat
        BY <1>3, <3>1, DistanceType DEF BulletRecord
      <4>2. bullets'[n] = [bullets[n] EXCEPT !.position = flight[n].position,
                                             !.range = decrement_range(@, distance)]
        BY <1>2, <3>3
      <4> HIDE DEF distance
      <4>3. decrement_range(bullets[n].range, distance) \in Nat
        BY <3>1, <4>1 DEF decrement_range, BulletRecord
      <4> QED BY <1>3, <3>1, <4>2, <4>3 DEF BulletRecord
    <3> QED BY <3>2, <3>3
  <2>2. bullets_to_update' \in
           [DOMAIN bullets_to_update' -> [old : Position, met : Object \cup {NONE}]]
    <3>1. objects \subseteq Object
      BY DEF Registered, ObjectsKnown, Object, TypeOK
    <3>2. \A n \in moved : bullets[n].position \in Position
      BY DEF TypeOK, BulletRecord
    <3>3. bullets_to_update' = [n \in moved |-> [old |-> bullets[n].position,
                                                 met |-> flight[n].met]]
      BY <1>2
    <3> QED BY <1>3, <1>4, <3>1, <3>2, <3>3
  <2>3. moved \subseteq DOMAIN bullets
    OBVIOUS
  <2> HIDE DEF moved
  <2> QED BY <1>1, <1>4, <2>1, <2>2, <2>3 DEF TypeOK
<1>6. ObjectsKnown'
  BY <1>1, <1>4 DEF Registered, ObjectsKnown
<1>7. MatrixRight'
  <2>1. Placed = objects /\ Placed' = objects' /\ DOMAIN bullets_to_update = {}
    BY <1>1, AllPlaced DEF TypeOK
  <2>2. \A n \in DOMAIN bullets' : Seat(Bullet(n))' = Seat(Bullet(n))
    <3> SUFFICES ASSUME NEW n \in DOMAIN bullets
                 PROVE  Seat(Bullet(n))' = Seat(Bullet(n))
      BY <1>4
    <3>1. Seat(Bullet(n)) = bullets[n].position
      BY <2>1, BulletSeat
    <3>2. CASE n \in moved
      <4>1. bullets_to_update'[n].old = bullets[n].position
        BY <1>4, <3>2
      <4> QED BY <1>4, <3>1, <3>2, <4>1, BulletSeat
    <3>3. CASE n \notin moved
      BY <1>4, <3>1, <3>3, BulletSeat
    <3> QED BY <3>2, <3>3
  <2>3. \A o \in objects' \ {} : Seat(o)' = Seat(o)
    BY <1>1, <1>6, <2>2, SeatsKept
  <2>4. matrix' = (matrix \ {Entry(o, Seat(o)) : o \in {} \cap Placed})
                  \cup {Entry(o, Seat(o)') : o \in {} \cap Placed'}
    BY <1>1
  <2> QED BY <1>1, <2>1, <2>3, <2>4, Refile DEF Registered
<1> QED BY <1>5, <1>6, <1>7 DEF Registered

\* Bullets that have their turn behind them, or none, are taken away.
LEMMA DeleteRegistered ==
  ASSUME Registered, NEW gone, delete_bullets(gone), gone \subseteq DOMAIN bullets,
         DOMAIN bullets_to_update = {}, DOMAIN bullets_to_update' = {},
         players' = players, revived = {}, revived' = {}
  PROVE  Registered'
<1>1. /\ DOMAIN bullets' = DOMAIN bullets \ gone
      /\ \A n \in DOMAIN bullets' : bullets'[n] = bullets[n]
      /\ objects' = objects \ {Bullet(n) : n \in gone}
      /\ matrix' = matrix \ EntriesOfBullets(gone)
  BY DEF delete_bullets, Without
<1>2. ObjectsKnown'
  <2>1. objects' = objects \ ({Player(id) : id \in {}} \cup {Bullet(n) : n \in gone})
        /\ DOMAIN players' = DOMAIN players \ {}
    BY <1>1
  <2> QED BY <1>1, <2>1, Removed DEF Registered
<1>3. MatrixRight'
  <2> DEFINE changed == {Bullet(n) : n \in gone}
  <2>1. Placed = objects /\ Placed' = objects'
    BY AllPlaced
  <2>2. \A n \in DOMAIN bullets' : Seat(Bullet(n))' = Seat(Bullet(n))
    BY <1>1, BulletSeat
  <2>3. \A o \in objects' \ changed : Seat(o)' = Seat(o)
    BY <1>2, <2>2, SeatsKept
  <2>4. changed \cap Placed = changed /\ changed \cap Placed' = {}
    BY <1>1, <2>1 DEF Registered, ObjectsKnown
  <2>5. {Entry(o, Seat(o)) : o \in changed} = EntriesOfBullets(gone)
    <3>1. \A n : Seat(Bullet(n)) = bullets[n].position
      BY BulletSeat
    <3> QED BY <3>1 DEF EntriesOfBullets
  <2> HIDE DEF changed
  <2>6. matrix' = (matrix \ {Entry(o, Seat(o)) : o \in changed \cap Placed})
                  \cup {Entry(o, Seat(o)') : o \in changed \cap Placed'}
    BY <1>1, <2>4, <2>5
  <2>7. Placed \ changed \subseteq Placed' /\ Placed' \subseteq Placed
    BY <1>1, <2>1 DEF changed
  <2> QED BY <2>1, <2>3, <2>6, <2>7, Refile DEF Registered
<1> QED BY <1>2, <1>3 DEF Registered

LEMMA DeleteBulletsStep ==
  ASSUME TypeOK, Registered, DeleteBullets
  PROVE  TypeOK' /\ Registered'
<1>1. /\ phase = "bullets" /\ phase' = "game" /\ DOMAIN bullets_to_update = {}
      /\ delete_bullets(bullets_to_delete) /\ bullets_to_delete' = {}
      /\ newcomers' = {}
      /\ UNCHANGED <<players, dead_players, player_type, bullet_id, bullets_to_update,
                     relocate, revived>>
  BY DEF DeleteBullets
<1>2. bullets' = Without(bullets, bullets_to_delete)
  BY <1>1 DEF delete_bullets
<1>3. TypeOK'
  BY <1>1, <1>2 DEF TypeOK, Without
<1>4. Registered'
  <2>1. revived = {} /\ bullets_to_delete \subseteq DOMAIN bullets
    BY <1>1 DEF TypeOK
  <2> QED BY <1>1, <2>1, DeleteRegistered
<1> QED BY <1>3, <1>4

LEMMA NextRoundStep ==
  ASSUME TypeOK, Registered, NextRound
  PROVE  TypeOK' /\ Registered'
<1>1. /\ phase = "reset" /\ phase' = "game" /\ relocate = {} /\ bullet_id' = 1
      /\ delete_bullets(DOMAIN bullets)
      /\ UNCHANGED <<players, dead_players, player_type, bullets_to_update,
                     bullets_to_delete, relocate, revived, newcomers>>
  BY DEF NextRound, loops
<1>2. DOMAIN bullets' = {} /\ bullets' \in [DOMAIN bullets' -> BulletRecord]
  BY <1>1 DEF delete_bullets, Without
<1>3. bullet_id' \in 1 .. MaxBulletId
  BY <1>1, WorldAssumption DEF WorldAssumption
<1>4. DOMAIN bullets_to_update = {} /\ bullets_to_delete = {} /\ revived = {}
  BY <1>1 DEF TypeOK
<1>5. TypeOK'
  BY <1>1, <1>2, <1>3, <1>4 DEF TypeOK
<1>6. Registered'
  BY <1>1, <1>4, DeleteRegistered
<1> QED BY <1>5, <1>6

\* The turn of a bullet in the second loop: it hits a player, or it goes into a
\* wall, or it gets its new cell.
LEMMA UpdateBulletStep ==
  ASSUME TypeOK, Registered, UpdateBullet
  PROVE  TypeOK' /\ Registered'
<1>least. PICK n : n = Min(DOMAIN bullets_to_update)
  OBVIOUS
<1> DEFINE old == bullets_to_update[n].old
           moved == [position |-> bullets[n].position, met |-> bullets_to_update[n].met]
<1>1. /\ phase = "bullets" /\ phase' = "bullets" /\ DOMAIN bullets_to_update # {}
      /\ bullets_to_update' = Without(bullets_to_update, {n})
      /\ UNCHANGED <<player_type, bullet_id, bullets_to_delete, relocate, revived,
                     newcomers>>
  BY <1>least DEF UpdateBullet
<1>2. n \in DOMAIN bullets_to_update
  <2>1. DOMAIN bullets_to_update \in SUBSET Nat
    BY DEF TypeOK
  <2> QED BY <1>least, <1>1, <2>1, MinIsLeast
<1>3. PICK other \in Collider(Bullet(n), moved) :
         \/ /\ other[1] = "PLAYER"
            /\ \E dies \in BOOLEAN : HitPlayer(n, old, other[2], dies)
         \/ /\ other[1] = "OBSTACLE"
            /\ bullets' = Without(bullets, {n})
            /\ objects' = objects \ {Bullet(n)}
            /\ matrix' = matrix \ {Entry(Bullet(n), old), Entry(Bullet(n), bullets[n].position)}
            /\ UNCHANGED <<players, dead_players>>
         \/ /\ other = NONE
            /\ matrix' = remove_from_matrix(matrix, Bullet(n), old)
                         \cup {Entry(Bullet(n), bullets[n].position)}
            /\ UNCHANGED <<bullets, objects, players, dead_players>>
  BY <1>least DEF UpdateBullet
<1>4. /\ Placed = objects
      /\ revived = {} /\ revived' = {} /\ relocate = {}
      /\ DOMAIN bullets_to_update' = DOMAIN bullets_to_update \ {n}
      /\ \A m \in DOMAIN bullets_to_update' : bullets_to_update'[m] = bullets_to_update[m]
      /\ n \in DOMAIN bullets
      /\ Bullet(n) \in objects
  BY <1>1, <1>2, AllPlaced DEF TypeOK, Without, Registered, ObjectsKnown
<1>5. Placed' = objects'
  BY <1>4, AllPlaced
<1>6. Seat(Bullet(n)) = old
  BY <1>2, BulletSeat
<1>7. \A m \in DOMAIN bullets' : m # n /\ m \in DOMAIN bullets /\ bullets'[m] = bullets[m]
                                   => Seat(Bullet(m))' = Seat(Bullet(m))
  BY <1>4, BulletSeat
<1>8. matrix \ {Entry(Bullet(n), old), Entry(Bullet(n), bullets[n].position)}
        = matrix \ {Entry(Bullet(n), old)}
  BY <1>6, OneEntry DEF Registered
<1>9. /\ DOMAIN bullets' \subseteq DOMAIN bullets
      /\ bullets' \in [DOMAIN bullets' -> BulletRecord]
      /\ DOMAIN bullets \ {n} \subseteq DOMAIN bullets'
      /\ DOMAIN players' \cap DOMAIN dead_players' = {}
      /\ DOMAIN players' \cup DOMAIN dead_players'
           \subseteq DOMAIN players \cup DOMAIN dead_players
      /\ players' \in [DOMAIN players' -> Position]
      /\ dead_players' \in [DOMAIN dead_players' -> Position]
      => TypeOK'
  <2>1. bullets_to_update' \in
          [DOMAIN bullets_to_update' -> [old : Position, met : Object \cup {NONE}]]
    BY <1>1 DEF TypeOK, Without
  <2>2. \A id \in DOMAIN players \cup DOMAIN dead_players : player_type[id] \in Sides
    BY DEF TypeOK
  <2>3. DOMAIN players \cup DOMAIN dead_players \subseteq Ids
    BY DEF TypeOK
  <2>4. bullets_to_delete \subseteq DOMAIN bullets \ DOMAIN bullets_to_update
    BY DEF TypeOK
  <2> QED BY <1>1, <1>2, <1>4, <2>1, <2>2, <2>3, <2>4 DEF TypeOK
<1>10. CASE other[1] = "PLAYER" /\ \E dies \in BOOLEAN : HitPlayer(n, old, other[2], dies)
  <2>1. PICK dies \in BOOLEAN : HitPlayer(n, old, other[2], dies)
    BY <1>10
  <2>2. PICK id \in DOMAIN players : other = Player(id) /\ other[2] = id
    BY <1>10, ColliderKnown DEF Registered
  <2> DEFINE ids == IF dies THEN {id} ELSE {}
  <2>3. /\ bullets' = Without(bullets, {n})
        /\ objects' = objects \ ({Bullet(n)} \cup IF dies THEN {Player(id)} ELSE {})
        /\ matrix' = (matrix \ {Entry(Bullet(n), old), Entry(Bullet(n), bullets[n].position)})
                     \ IF dies THEN {Entry(Player(id), players[id])} ELSE {}
        /\ players' = IF dies THEN Without(players, {id}) ELSE players
        /\ dead_players' = IF dies THEN With(dead_players, id, players[id]) ELSE dead_players
    BY <2>1, <2>2 DEF HitPlayer
  <2>4. /\ DOMAIN players' = DOMAIN players \ ids /\ DOMAIN bullets' = DOMAIN bullets \ {n}
        /\ \A i \in DOMAIN players' : players'[i] = players[i]
        /\ \A m \in DOMAIN bullets' : bullets'[m] = bullets[m]
        /\ DOMAIN dead_players' = DOMAIN dead_players \cup ids
    BY <2>3 DEF Without, With
  <2>5. TypeOK'
    <3>1. /\ bullets' \in [DOMAIN bullets' -> BulletRecord]
          /\ players' \in [DOMAIN players' -> Position]
      BY <2>3 DEF Without, TypeOK
    <3>2. dead_players' \in [DOMAIN dead_players' -> Position]
      BY <2>2, <2>3 DEF With, TypeOK
    <3>3. DOMAIN players' \cap DOMAIN dead_players' = {}
      BY <2>4 DEF TypeOK
    <3>4. DOMAIN players' \cup DOMAIN dead_players'
            \subseteq DOMAIN players \cup DOMAIN dead_players
      BY <2>2, <2>4
    <3> QED BY <1>9, <2>4, <3>1, <3>2, <3>3, <3>4
  <2>6. ObjectsKnown'
    <3>1. objects' = objects \ ({Player(i) : i \in ids} \cup {Bullet(m) : m \in {n}})
      BY <2>3
    <3> QED BY <2>4, <3>1, Removed DEF Registered
  <2>7. MatrixRight'
    <3> DEFINE changed == {Bullet(n)} \cup {Player(i) : i \in ids}
    <3>1. \A m \in DOMAIN bullets' : Seat(Bullet(m))' = Seat(Bullet(m))
      BY <1>7, <2>4
    <3>2. \A o \in objects' \ changed : Seat(o)' = Seat(o)
      BY <2>4, <2>6, <3>1, SeatsKept
    <3>3. changed \subseteq objects /\ changed \cap objects' = {}
      BY <1>4, <2>2, <2>3 DEF Registered, ObjectsKnown
    <3>4. {Entry(o, Seat(o)) : o \in changed}
            = {Entry(Bullet(n), old)} \cup IF dies THEN {Entry(Player(id), players[id])} ELSE {}
      BY <1>6, PlayerSeat
    <3>5. objects \ changed \subseteq objects' /\ objects' \subseteq objects
      BY <2>3
    <3> HIDE DEF changed
    <3>6. matrix' = (matrix \ {Entry(o, Seat(o)) : o \in changed \cap Placed})
                    \cup {Entry(o, Seat(o)') : o \in changed \cap Placed'}
      <4>1. changed \cap Placed = changed /\ changed \cap Placed' = {}
        BY <1>4, <1>5, <3>3
      <4> QED BY <1>8, <2>3, <3>4, <4>1
    <3> QED BY <1>4, <1>5, <3>2, <3>5, <3>6, Refile DEF Registered
  <2> QED BY <2>5, <2>6, <2>7 DEF Registered
<1>11. CASE /\ other[1] = "OBSTACLE"
            /\ bullets' = Without(bullets, {n})
            /\ objects' = objects \ {Bullet(n)}
            /\ matrix' = matrix \ {Entry(Bullet(n), old), Entry(Bullet(n), bullets[n].position)}
            /\ UNCHANGED <<players, dead_players>>
  <2>1. /\ DOMAIN bullets' = DOMAIN bullets \ {n} /\ DOMAIN players' = DOMAIN players \ {}
        /\ \A m \in DOMAIN bullets' : bullets'[m] = bullets[m]
    BY <1>11 DEF Without
  <2>2. TypeOK'
    <3>1. bullets' \in [DOMAIN bullets' -> BulletRecord]
      BY <1>11 DEF Without, TypeOK
    <3>2. /\ DOMAIN players \cap DOMAIN dead_players = {}
          /\ players \in [DOMAIN players -> Position]
          /\ dead_players \in [DOMAIN dead_players -> Position]
      BY DEF TypeOK
    <3> QED BY <1>9, <1>11, <2>1, <3>1, <3>2
  <2>3. ObjectsKnown'
    <3>1. objects' = objects \ ({Player(i) : i \in {}} \cup {Bullet(m) : m \in {n}})
      BY <1>11
    <3> QED BY <2>1, <3>1, Removed DEF Registered
  <2>4. MatrixRight'
    <3>1. \A m \in DOMAIN bullets' : Seat(Bullet(m))' = Seat(Bullet(m))
      BY <1>7, <2>1
    <3>2. \A o \in objects' \ {Bullet(n)} : Seat(o)' = Seat(o)
      BY <1>11, <2>3, <3>1, SeatsKept
    <3>3. {Bullet(n)} \cap Placed = {Bullet(n)} /\ {Bullet(n)} \cap Placed' = {}
      BY <1>4, <1>5, <1>11
    <3>4. matrix' = (matrix \ {Entry(o, Seat(o)) : o \in {Bullet(n)} \cap Placed})
                    \cup {Entry(o, Seat(o)') : o \in {Bullet(n)} \cap Placed'}
      BY <1>6, <1>8, <1>11, <3>3
    <3> QED BY <1>4, <1>5, <1>11, <3>2, <3>4, Refile DEF Registered
  <2> QED BY <2>2, <2>3, <2>4 DEF Registered
<1>12. CASE /\ other = NONE
            /\ matrix' = remove_from_matrix(matrix, Bullet(n), old)
                         \cup {Entry(Bullet(n), bullets[n].position)}
            /\ UNCHANGED <<bullets, objects, players, dead_players>>
  <2>1. TypeOK'
    <3>1. /\ DOMAIN players \cap DOMAIN dead_players = {}
          /\ players \in [DOMAIN players -> Position]
          /\ dead_players \in [DOMAIN dead_players -> Position]
          /\ bullets \in [DOMAIN bullets -> BulletRecord]
      BY DEF TypeOK
    <3> QED BY <1>9, <1>12, <3>1
  <2>2. ObjectsKnown'
    BY <1>12 DEF Registered, ObjectsKnown
  <2>3. MatrixRight'
    <3>1. \A m \in DOMAIN bullets' : Bullet(m) \notin {Bullet(n)} => Seat(Bullet(m))' = Seat(Bullet(m))
      BY <1>7, <1>12
    <3>2. \A o \in objects' \ {Bullet(n)} : Seat(o)' = Seat(o)
      BY <1>12, <2>2, <3>1, SeatsKept
    <3>3. {Bullet(n)} \cap Placed = {Bullet(n)} /\ {Bullet(n)} \cap Placed' = {Bullet(n)}
      BY <1>4, <1>5, <1>12
    <3>4. Seat(Bullet(n))' = bullets[n].position
      <4>1. n \notin DOMAIN bullets_to_update' /\ bullets' = bullets
        BY <1>4, <1>12
      <4> QED BY <4>1, BulletSeat
    <3>5. {Entry(o, Seat(o)) : o \in {Bullet(n)} \cap Placed} = {Entry(Bullet(n), old)}
      BY <1>6, <3>3
    <3>6. {Entry(o, Seat(o)') : o \in {Bullet(n)} \cap Placed'}
             = {Entry(Bullet(n), bullets[n].position)}
      BY <3>3, <3>4
    <3>7. matrix' = (matrix \ {Entry(o, Seat(o)) : o \in {Bullet(n)} \cap Placed})
                    \cup {Entry(o, Seat(o)') : o \in {Bullet(n)} \cap Placed'}
      BY <1>12, <3>5, <3>6 DEF remove_from_matrix
    <3> QED BY <1>4, <1>5, <1>12, <3>2, <3>7, Refile DEF Registered
  <2> QED BY <2>1, <2>2, <2>3 DEF Registered
<1> QED BY <1>3, <1>10, <1>11, <1>12

\* The dead come back to the vector, not to the matrix.
LEMMA EndRoundStep ==
  ASSUME TypeOK, Registered, EndRound
  PROVE  TypeOK' /\ Registered'
<1>1. /\ phase = "game" /\ phase' = "reset"
      /\ players' = [id \in DOMAIN players \cup DOMAIN dead_players |->
                        IF id \in DOMAIN dead_players THEN dead_players[id] ELSE players[id]]
      /\ objects' = objects \cup {Player(id) : id \in DOMAIN dead_players}
      /\ revived' = DOMAIN dead_players
      /\ relocate' = DOMAIN players \cup DOMAIN dead_players
      /\ dead_players' = <<>>
      /\ player_type' = IF round_number = RoundsTotal \div 2
                        THEN [id \in Ids |-> IF id \in relocate' THEN Switched(player_type[id])
                                             ELSE player_type[id]]
                        ELSE player_type
      /\ UNCHANGED <<bullets, bullet_id, matrix, bullets_to_update, bullets_to_delete,
                     newcomers>>
  BY DEF EndRound
<1>2. revived = {} /\ DOMAIN bullets_to_update = {} /\ bullets_to_delete = {} /\ relocate = {}
  BY <1>1 DEF TypeOK
<1>3. DOMAIN players' = DOMAIN players \cup DOMAIN dead_players /\ DOMAIN dead_players' = {}
  BY <1>1
<1>4. TypeOK'
  <2>1. players' \in [DOMAIN players' -> Position]
    <3>1. \A id \in DOMAIN dead_players : dead_players[id] \in Position
      BY DEF TypeOK
    <3>2. \A id \in DOMAIN players : players[id] \in Position
      BY DEF TypeOK
    <3> QED BY <1>1, <1>3, <3>1, <3>2
  <2>2. \A id \in DOMAIN players' : player_type[id] \in Sides
    BY <1>3 DEF TypeOK
  <2>3. /\ player_type' \in [Ids -> Sides \cup {"UNKNOWN"}]
        /\ \A id \in DOMAIN players' : player_type'[id] \in Sides
    <3>1. CASE round_number = RoundsTotal \div 2
      <4>1. player_type' = [id \in Ids |-> IF id \in relocate' THEN Switched(player_type[id])
                                           ELSE player_type[id]]
        BY <1>1, <3>1
      <4>2. \A type \in Sides : Switched(type) \in Sides
        BY DEF Switched, Sides
      <4>3. relocate' = DOMAIN players' /\ DOMAIN players' \subseteq Ids
        BY <1>1, <1>3 DEF TypeOK
      <4>4. \A id \in Ids : player_type[id] \in Sides \cup {"UNKNOWN"}
        BY DEF TypeOK
      <4> QED BY <2>2, <4>1, <4>2, <4>3, <4>4
    <3>2. CASE round_number # RoundsTotal \div 2
      BY <1>1, <2>2, <3>2 DEF TypeOK
    <3> QED BY <3>1, <3>2
  <2>4. dead_players' \in [DOMAIN dead_players' -> Position]
    BY <1>1
  <2> QED BY <1>1, <1>2, <1>3, <2>1, <2>3, <2>4 DEF TypeOK
<1>5. ObjectsKnown'
  <2>1. /\ DOMAIN bullets' = DOMAIN bullets \cup {}
        /\ objects' = objects \cup ({Player(id) : id \in DOMAIN dead_players}
                                    \cup {Bullet(n) : n \in {}})
    BY <1>1
  <2> QED BY <1>3, <2>1, Added DEF Registered
<1>6. MatrixRight'
  <2>1. Placed = objects
    BY <1>2, AllPlaced
  <2>2. Placed' = objects
    <3>1. \A o : Dead(o)' <=> o[1] = "PLAYER" /\ o[2] \in DOMAIN dead_players
      BY <1>1 DEF Dead
    <3>2. \A o \in objects : ~Dead(o)'
      BY <3>1 DEF Registered, ObjectsKnown, TypeOK, Player, Bullet, Obstacle
    <3>3. \A id \in DOMAIN dead_players : Dead(Player(id))'
      BY <3>1 DEF Player
    <3> QED BY <1>1, <3>2, <3>3 DEF Placed
  <2>3. \A n \in DOMAIN bullets' : Seat(Bullet(n))' = Seat(Bullet(n))
    BY <1>1, BulletSeat
  <2> DEFINE revivedObjects == {Player(id) : id \in DOMAIN dead_players}
  <2>4. \A o \in objects' \ revivedObjects : Seat(o)' = Seat(o)
    <3>1. \A id \in DOMAIN players' :
             Player(id) \notin revivedObjects => players'[id] = players[id]
      BY <1>1, <1>3
    <3> HIDE DEF revivedObjects
    <3> QED BY <1>5, <2>3, <3>1, SeatsKept
  <2>5. objects \cap revivedObjects = {}
    <3> SUFFICES ASSUME NEW id \in DOMAIN dead_players, Player(id) \in objects
                 PROVE  FALSE
      OBVIOUS
    <3>1. id \in DOMAIN players
      BY ObjectsDiffer DEF Registered, ObjectsKnown
    <3> QED BY <3>1 DEF TypeOK
  <2>6. \A o \in Placed' : o \in Placed /\ Seat(o)' = Seat(o)
    BY <1>1, <2>1, <2>2, <2>4, <2>5
  <2>7. matrix' = (matrix \ {Entry(o, Seat(o)) : o \in {} \cap Placed})
                  \cup {Entry(o, Seat(o)') : o \in {} \cap Placed'}
    BY <1>1
  <2> QED BY <2>1, <2>2, <2>6, <2>7, Refile DEF Registered
<1> QED BY <1>4, <1>5, <1>6 DEF Registered

LEMMA RelocatePlayerStep ==
  ASSUME TypeOK, Registered, RelocatePlayer
  PROVE  TypeOK' /\ Registered'
<1>1. PICK id : id = Min(relocate)
  OBVIOUS
<1>2. /\ phase = "reset" /\ phase' = "reset" /\ relocate # {}
      /\ relocate' = relocate \ {id} /\ revived' = revived \ {id}
      /\ UNCHANGED <<dead_players, player_type, bullets, bullet_id, objects,
                     bullets_to_update, bullets_to_delete, newcomers>>
  BY <1>1 DEF RelocatePlayer
<1>3. PICK position \in get_random_player_position(player_type[id], id) :
         /\ players' = [players EXCEPT ![id] = position]
         /\ matrix' = remove_from_matrix(matrix, Player(id), players[id])
                      \cup {Entry(Player(id), position)}
  BY <1>1 DEF RelocatePlayer
<1>4. id \in relocate /\ id \in DOMAIN players
  <2>1. relocate \in SUBSET Nat
    BY WorldAssumption DEF TypeOK, WorldAssumption
  <2> QED BY <1>1, <1>2, <2>1, MinIsLeast DEF TypeOK
<1>5. position \in Position
  <2>1. player_type[id] \in Sides
    BY <1>4 DEF TypeOK
  <2> QED BY <2>1, DrawnType DEF get_random_player_position
<1>6. /\ DOMAIN players' = DOMAIN players /\ players'[id] = position
      /\ \A i \in DOMAIN players : i # id => players'[i] = players[i]
  BY <1>3, <1>4
<1>7. TypeOK'
  <2>1. players' \in [DOMAIN players' -> Position]
    BY <1>3, <1>4, <1>5 DEF TypeOK
  <2> QED BY <1>2, <1>6, <2>1 DEF TypeOK
<1>8. ObjectsKnown'
  BY <1>2, <1>6 DEF Registered, ObjectsKnown
<1>9. MatrixRight'
  <2> DEFINE changed == {Player(id)}
  <2>1. DOMAIN bullets_to_update = {} /\ DOMAIN bullets_to_update' = {}
    BY <1>2 DEF TypeOK
  <2>2. \A n \in DOMAIN bullets' : Seat(Bullet(n))' = Seat(Bullet(n))
    BY <1>2, <2>1, BulletSeat
  <2>3. \A o \in objects' \ changed : Seat(o)' = Seat(o)
    BY <1>6, <1>8, <2>2, SeatsKept
  <2>4. /\ \A o \in objects : o # Player(id) => (Dead(o)' <=> Dead(o))
        /\ ~Dead(Player(id))'
    <3>1. \A o : Dead(o) <=> o[1] = "PLAYER" /\ o[2] \in revived
      BY DEF Dead
    <3>2. \A o : Dead(o)' <=> o[1] = "PLAYER" /\ o[2] \in revived \ {id}
      BY <1>2 DEF Dead
    <3>3. \A o \in objects : o[1] = "PLAYER" => o = Player(o[2])
      BY DEF Registered, ObjectsKnown, Player, Bullet, Obstacle
    <3>4. Player(id)[2] = id
      BY DEF Player
    <3> QED BY <3>1, <3>2, <3>3, <3>4
  <2>5. Player(id) \in objects
    BY <1>4 DEF Registered, ObjectsKnown
  <2>6. Player(id) \in Placed' /\ Placed' \ changed = Placed \ changed
    <3>1. objects' = objects
      BY <1>2
    <3>2. Placed' = {o \in objects : ~Dead(o)'}
      BY <3>1 DEF Placed
    <3> QED BY <2>4, <2>5, <3>2 DEF Placed
  <2>7. matrix \ {Entry(o, Seat(o)) : o \in changed \cap Placed}
          = remove_from_matrix(matrix, Player(id), players[id])
    <3>1. CASE Player(id) \in Placed
      BY <3>1, PlayerSeat DEF remove_from_matrix
    <3>2. CASE Player(id) \notin Placed
      <4>1. Entry(Player(id), players[id]) \notin matrix
        BY <3>2, OneEntry DEF Registered
      <4> QED BY <3>2, <4>1 DEF remove_from_matrix
    <3> QED BY <3>1, <3>2
  <2>8. {Entry(o, Seat(o)') : o \in changed \cap Placed'} = {Entry(Player(id), position)}
    BY <1>6, <2>6, PlayerSeat
  <2>9. matrix' = (matrix \ {Entry(o, Seat(o)) : o \in changed \cap Placed})
                  \cup {Entry(o, Seat(o)') : o \in changed \cap Placed'}
    BY <1>3, <2>7, <2>8
  <2>10. \A o \in Placed' \ changed : o \in Placed /\ Seat(o)' = Seat(o)
    BY <1>2, <2>3, <2>6 DEF Placed
  <2> HIDE DEF changed
  <2> QED BY <2>6, <2>9, <2>10, Refile DEF Registered
<1> QED BY <1>7, <1>8, <1>9 DEF Registered

-----------------------------------------------------------------------------
(* The theorems *)

LEMMA NextStep ==
  ASSUME TypeOK, Registered, [Next]_vars
  PROVE  TypeOK' /\ Registered'
<1>1. ASSUME NEW id \in Ids, NEW type \in Sides, AddPlayer(id, type)
      PROVE  TypeOK' /\ Registered'
  BY <1>1, AddPlayerStep
<1>2. ASSUME NEW id \in Ids, Quit(id)
      PROVE  TypeOK' /\ Registered'
  BY <1>2, QuitStep
<1>3. ASSUME NEW id \in Ids, NEW direction \in Directions, Move(id, direction)
      PROVE  TypeOK' /\ Registered'
  BY <1>3, MoveStep
<1>4. ASSUME NEW id \in Ids, NEW heading \in Headings, NEW range \in Ranges,
             Shoot(id, heading, range)
      PROVE  TypeOK' /\ Registered'
  BY <1>4, ShootStep
<1>5. CASE StartMatch
  BY <1>5, StartMatchStep
<1>6. CASE MoveBullets
  BY <1>6, MoveBulletsStep
<1>7. CASE UpdateBullet
  BY <1>7, UpdateBulletStep
<1>8. CASE DeleteBullets
  BY <1>8, DeleteBulletsStep
<1>9. CASE EndRound
  BY <1>9, EndRoundStep
<1>10. CASE RelocatePlayer
  BY <1>10, RelocatePlayerStep
<1>11. CASE NextRound
  BY <1>11, NextRoundStep
<1>12. CASE UNCHANGED vars
  <2>1. TypeOK' /\ ObjectsKnown' /\ \A o : Seat(o)' = Seat(o) /\ (Dead(o)' <=> Dead(o))
    BY <1>12 DEF vars, TypeOK, Registered, ObjectsKnown, Seat, PositionOf, Dead
  <2>2. Placed' = Placed /\ matrix' = matrix
    BY <1>12, <2>1 DEF vars, Placed
  <2>3. MatrixRight'
    BY <2>1, <2>2 DEF Registered, MatrixRight
  <2> QED BY <2>1, <2>3 DEF Registered
<1> QED BY <1>1, <1>2, <1>3, <1>4, <1>5, <1>6, <1>7, <1>8, <1>9, <1>10, <1>11, <1>12 DEF Next

\* In every match, on every map and with every order of moves, shots, deaths,
\* departures and rounds, the variables keep their types: nobody is in both
\* maps of players, and the loops work on bullets and players there are.
THEOREM TypeCorrect == Spec => []TypeOK
<1>1. Init => TypeOK /\ Registered
  BY InitStep
<1>2. TypeOK /\ Registered /\ [Next]_vars => TypeOK' /\ Registered'
  BY NextStep
<1> QED BY <1>1, <1>2, PTL DEF Spec

\* In every match the vector of objects, the matrix of cells and the two maps of
\* game.cpp agree: nothing is left in a cell it is no longer in, nothing there is
\* is missing from its cell.
THEOREM RegisteredAlways == Spec => []Registered
<1>1. Init => TypeOK /\ Registered
  BY InitStep
<1>2. TypeOK /\ Registered /\ [Next]_vars => TypeOK' /\ Registered'
  BY NextStep
<1> QED BY <1>1, <1>2, PTL DEF Spec
=============================================================================
