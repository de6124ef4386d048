------------------------------ MODULE Geometry ------------------------------
(***************************************************************************)
(* The plane of Game (common/game.cpp): positions in pixels, the cells of  *)
(* its matrix, circles against circles and rectangles.  A position is a    *)
(* pair, an obstacle a record of its corner and its size.                  *)
(***************************************************************************)
EXTENDS Integers, FiniteSets

CONSTANTS CELL_SIZE, MATRIX_SIZE, PLAYER_RADIUS, BULLET_RADIUS

ASSUME GeometryAssumption ==
    /\ CELL_SIZE \in Nat \ {0}
    /\ MATRIX_SIZE \in Nat \ {0}
    /\ PLAYER_RADIUS \in Nat \ {0}
    /\ BULLET_RADIUS \in Nat \ {0}
    /\ BULLET_RADIUS <= PLAYER_RADIUS

Lower(a, b) == IF a < b THEN a ELSE b
Higher(a, b) == IF a > b THEN a ELSE b
Clamp(value, low, high) == Higher(low, Lower(value, high))

MapSize == MATRIX_SIZE * CELL_SIZE

Cell(coordinate) == Lower(coordinate \div CELL_SIZE, MATRIX_SIZE - 1)

get_cell_from_position(position) == <<Cell(position[1]), Cell(position[2])>>

Around(k, radius) == Higher(k - radius, 0) .. Lower(k + radius, MATRIX_SIZE - 1)

\* Mutant: only the cells that touch the given one.
next_cells_only(cell, radius) == Around(cell[1], 1) \X Around(cell[2], 1)

get_cells_within_radius(cell, radius) ==
    Around(cell[1], radius) \X Around(cell[2], radius)

circle_circle_collision(position, radius, other, other_radius) ==
    LET dx == position[1] - other[1]
        dy == position[2] - other[2]
    IN  dx * dx + dy * dy < (radius + other_radius) * (radius + other_radius)

circle_rectangle_collision(center, radius, corner, width, height) ==
    LET dx == Clamp(center[1], corner[1], corner[1] + width) - center[1]
        dy == Clamp(center[2], corner[2], corner[2] + height) - center[2]
    IN  dx * dx + dy * dy < radius * radius

\* The square root is truncated.
distance_between(position, other) ==
    LET dx == position[1] - other[1]
        dy == position[2] - other[2]
    IN  CHOOSE d \in 0 .. 2 * MapSize :
          d * d <= dx * dx + dy * dy /\ dx * dx + dy * dy < (d + 1) * (d + 1)

=============================================================================
