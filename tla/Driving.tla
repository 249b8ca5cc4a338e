------------------------------ MODULE Driving ------------------------------
(***************************************************************************)
(* Where a tank can go and how a projectile flies: the shapes, the         *)
(* directions, the generated map and its accessors                         *)
(* (core/engine_run_game_room.c, game/entity_shape.c, model/direction.c,   *)
(* map/, map_generator/).                                                  *)
(*                                                                         *)
(* One body is followed: a tank from the start of a battle, then, if it    *)
(* shoots, the projectile.  Dirt never stops a body, so what was dug by    *)
(* whom is left out; Battle counts the blocks broken.  The shapes are the  *)
(* real tables, the chunks have the real size.                             *)
(***************************************************************************)
EXTENDS Integers, FiniteSets, Sequences

CONSTANTS Width, Height,  \* chunk_dimensions; 8 and 6 in a battle
          ChunkSize,      \* 21 in a battle
          Draws,          \* what rand() % chunkSize may give along the three
                          \* lines of rock: a sequence for each, repeated
          MaxBreaks       \* blocks one move can break

ASSUME DrivingAssumption ==
    /\ Width \in Nat /\ Height \in Nat /\ Width > 2 /\ Height > 2
    /\ ChunkSize \in Nat /\ ChunkSize > 12
    /\ \A d \in Draws : \A side \in {"across", "left", "right"} :
         d[side] \in Seq(0 .. ChunkSize - 1) /\ d[side] # <<>>
    /\ MaxBreaks \in Nat

VARIABLES
    land,     \* the map: what was drawn for the rock, the base and its gates
    what,     \* "tank", "shot", or "gone" when a projectile is cleared
    x, y,     \* location
    dir       \* direction

vars == <<land, what, x, y, dir>>

-----------------------------------------------------------------------------
(* Directions                                                              *)

Directions == {"N", "NE", "E", "SE", "S", "SW", "W", "NW"}

(* Variant: one of the assignments is missing.                             *)
DirectionXWithoutE(d) ==
    IF d \in {"NW", "W", "SW"} THEN -1 ELSE IF d \in {"NE", "SE"} THEN 1 ELSE 0

(* G_DIRECTIONS                                                            *)
DirectionX(d) ==
    IF d \in {"NW", "W", "SW"} THEN -1 ELSE IF d \in {"NE", "E", "SE"} THEN 1 ELSE 0
DirectionY(d) ==
    IF d \in {"NW", "N", "NE"} THEN -1 ELSE IF d \in {"SW", "S", "SE"} THEN 1 ELSE 0

DirectionsByD == <<"NW", "N", "NE", "W", "0", "E", "SW", "S", "SE">>
GetByD(dx, dy) == DirectionsByD[(dy + 1) * 3 + (dx + 1) + 1]

-----------------------------------------------------------------------------
(* Shapes: a width, a height and the offsets of the pixels that are set    *)

Shape(w, h, pixels) == [width |-> w, height |-> h, pixels |-> pixels]

Rotate(s) ==
    Shape(s.height, s.width,
          {c[1] * s.height + s.height - 1 - c[2] : c \in
             {p \in (0 .. s.width - 1) \X (0 .. s.height - 1) :
                p[2] * s.width + p[1] \in s.pixels}})

BodyN == Shape(3, 5, 0 .. 11)
BodyDiagonal == Shape(5, 5, {2, 6, 7, 8, 10, 11, 12, 13, 14, 16, 17, 18, 22})
BeltN == Shape(5, 7, {5 * row + col : row \in 1 .. 6, col \in {0, 4}})
BeltNE == Shape(7, 7, {3, 9, 15, 21, 27, 33, 39, 45})

BodyShape == [d \in Directions |->
    CASE d = "N" -> BodyN
      [] d = "E" -> Rotate(BodyN)
      [] d = "S" -> Rotate(Rotate(BodyN))
      [] d = "W" -> Rotate(Rotate(Rotate(BodyN)))
      [] OTHER -> BodyDiagonal]

BeltShape == [d \in Directions |->
    CASE d = "N" -> BeltN
      [] d = "E" -> Rotate(BeltN)
      [] d = "S" -> Rotate(Rotate(BeltN))
      [] d = "W" -> Rotate(Rotate(Rotate(BeltN)))
      [] d \in {"NE", "SW"} -> BeltNE
      [] OTHER -> Rotate(BeltNE)]

MaxX(s) == s.width \div 2
MaxY(s) == s.height \div 2

(* Variant: everything past the last pixel is read.                        *)
IsSolidUnbounded(s, sx, sy, beyond) ==
    LET offset == (sy + MaxY(s)) * s.width + sx + MaxX(s)
    IN  offset \in s.pixels \/ (beyond /\ offset >= s.width * s.height)

(* shape_is_solid_o: nothing keeps a column inside its row, and the offset *)
(* one past the last pixel, which nobody wrote, is read: beyond.           *)
IsSolid(s, sx, sy, beyond) ==
    LET offset == (sy + MaxY(s)) * s.width + sx + MaxX(s)
    IN  offset \in s.pixels \/ (beyond /\ offset = s.width * s.height)

(* The cells the loops over the belt's extent find solid in a shape        *)
Within(belt, s, beyond) ==
    {c \in (-MaxX(belt) .. MaxX(belt)) \X (-MaxY(belt) .. MaxY(belt)) :
       IsSolid(s, c[1], c[2], beyond)}

BodyCells == [d \in Directions |-> [beyond \in BOOLEAN |->
                Within(BeltShape[d], BodyShape[d], beyond)]]
TankCells == [d \in Directions |-> [beyond \in BOOLEAN |->
                BodyCells[d][beyond] \cup Within(BeltShape[d], BeltShape[d], beyond)]]

-----------------------------------------------------------------------------
(* The generated map                                                       *)

Columns == 0 .. Width * ChunkSize - 1
Rows == 0 .. Height * ChunkSize - 1

(* smooth_line_put: the mean of the last three, half a chunk to begin with *)
Member(draws, n) ==
    IF n < 0 THEN ChunkSize \div 2 ELSE draws[(n % Len(draws)) + 1]
Padding(draws, n) ==
    (Member(draws, n - 2) + Member(draws, n - 1) + Member(draws, n)) \div 3

(* _map_generator_rockify.  One line runs along the top of a chunk, then   *)
(* along its bottom, and on in the next chunk; the left side and the right *)
(* have a line each.                                                       *)
OnTop(col) == 2 * ChunkSize * (col \div ChunkSize) + (col % ChunkSize)
OnBottom(col) == OnTop(col) + ChunkSize

AtColumn(draws, col) ==
    {<<col, off>> : off \in 0 .. Padding(draws["across"], OnTop(col)) - 1} \cup
    {<<col, Height * ChunkSize - 1 - off>> :
       off \in 0 .. Padding(draws["across"], OnBottom(col)) - 1}
AtRow(draws, row) ==
    {<<off, row>> : off \in 0 .. Padding(draws["left"], row) - 1} \cup
    {<<Width * ChunkSize - 1 - off, row>> :
       off \in 0 .. Padding(draws["right"], row) - 1}

Rock(draws) == UNION ({AtColumn(draws, col) : col \in Columns} \cup
                      {AtRow(draws, row) : row \in Rows})

(* _map_generator_plant_base_on_chunk: the walls on a chunk, without gates *)
Near == 3
Far == ChunkSize - 3
GateWidth == IF ChunkSize % 2 = 1 THEN 7 ELSE 6
Gate == (ChunkSize - GateWidth) \div 2 .. (ChunkSize + GateWidth) \div 2

WallsOnSides(n) == {<<side, i>> : side \in {Near, Far}, i \in n}
Walls(gates) ==
    LET solid == Near .. Far
        broken == solid \ Gate
    IN  IF gates = "sides"
          THEN WallsOnSides(broken) \cup {<<c[2], c[1]>> : c \in WallsOnSides(solid)}
          ELSE WallsOnSides(solid) \cup {<<c[2], c[1]>> : c \in WallsOnSides(broken)}

(* map_generator_generate, with one base; _map_generator_plant_bases keeps *)
(* off the rim.                                                            *)
Bases == (1 .. Width - 2) \X (1 .. Height - 2)

Land(draws, base, gates) ==
    [base |-> base,
     obstacles |-> Rock(draws) \cup
       {<<base[1] * ChunkSize + c[1], base[2] * ChunkSize + c[2]>> : c \in Walls(gates)}]

Lands == {Land(draws, base, gates) :
            draws \in Draws, base \in Bases, gates \in {"sides", "ends"}}

(* The cell tunneler_map_get_block reads for a location: the column after  *)
(* the last is let through and is the first of the next row of chunks; the *)
(* row after the last is a row of chunks that were never made, all empty.  *)
Cell(cx, cy) ==
    LET chunk == (cy \div ChunkSize) * Width + (cx \div ChunkSize)
    IN  <<(chunk % Width) * ChunkSize + (cx % ChunkSize),
          (chunk \div Width) * ChunkSize + (cy % ChunkSize)>>

(* Variant: the right side has no bound.                                   *)
OffMapNotRight(cx, cy) == cx < 0 \/ cy < 0 \/ cy > Height * ChunkSize
OffMap(cx, cy) ==
    cx < 0 \/ cx > Width * ChunkSize \/ cy < 0 \/ cy > Height * ChunkSize

(* block_is_obstacle of it; BLOCK_UNDEFINED is one.                        *)
IsObstacle(cx, cy) == OffMap(cx, cy) \/ Cell(cx, cy) \in land.obstacles

-----------------------------------------------------------------------------
(* tunneler_map_assign_base and warzone_init_tank                          *)
BaseCentre(n) == n * ChunkSize + (ChunkSize \div 2)

Init ==
    /\ land \in Lands
    /\ what = "tank" /\ dir = "N"
    /\ x = BaseCentre(land.base[1]) /\ y = BaseCentre(land.base[2])

(* Variant: only the belt is held against the map.                         *)
CanMoveToBelt(nx, ny, beyond) ==
    \A c \in TankCells[dir][beyond] \ BodyCells[dir][beyond] :
      ~IsObstacle(nx + c[1], ny + c[2])

(* _warzone_can_tank_move_to, with the shapes of the direction the tank    *)
(* still has                                                               *)
CanMoveTo(nx, ny, beyond) ==
    \A c \in TankCells[dir][beyond] : ~IsObstacle(nx + c[1], ny + c[2])

(* _engine_uwz_move_tank, for what the keys held add up to.  The tank has  *)
(* turned when it has moved; nothing looks whether it fits then.           *)
Move ==
    \E dx \in -1 .. 1, dy \in -1 .. 1, beyond \in BOOLEAN :
      /\ what = "tank"
      /\ <<dx, dy>> # <<0, 0>>
      /\ CanMoveTo(x + dx, y + dy, beyond)
      /\ x' = x + dx /\ y' = y + dy /\ dir' = GetByD(dx, dy)
      /\ UNCHANGED <<land, what>>

(* _engine_uwz_shoot_add_projectile: it starts where the tank is.          *)
Shoot ==
    /\ what = "tank"
    /\ what' = "shot"
    /\ UNCHANGED <<land, x, y, dir>>

(* _engine_uwz_update_projectiles: where the projectile would be next.  An *)
(* obstacle stops it; so may dirt or a tank.  projectile_clear leaves      *)
(* nothing of it.                                                          *)
NextX == x + DirectionX(dir)
NextY == y + DirectionY(dir)
Stopped == IsObstacle(NextX, NextY)

FlyOn ==
    /\ what = "shot" /\ ~Stopped
    /\ x' = NextX /\ y' = NextY
    /\ UNCHANGED <<land, what, dir>>

Clear ==
    /\ what = "shot"
    /\ what' = "gone" /\ x' = 0 /\ y' = 0 /\ dir' = "0"
    /\ UNCHANGED land

Fly == FlyOn \/ Clear

(* Another battle, on another map                                          *)
NextBattle ==
    /\ what = "gone"
    /\ land' \in Lands
    /\ what' = "tank" /\ dir' = "N"
    /\ x' = BaseCentre(land'.base[1]) /\ y' = BaseCentre(land'.base[2])

Next == Move \/ Shoot \/ Fly \/ NextBattle

Spec == Init /\ [][Next]_vars

(* A room in battle is updated at every tick; that a projectile meets dirt *)
(* or a tank is not something to rely on.                                  *)
FairSpec == Spec /\ WF_vars(FlyOn) /\ WF_vars(Clear /\ Stopped)

-----------------------------------------------------------------------------
(* _engine_uwz_find_tank_hit: whether a projectile at (dx, dy) from a tank *)
(* that faces d hits it.  The row is computed from the columns.  The tank  *)
(* of who shot and one that is EMPTY are passed over before this.          *)

(* Variant: the last column and row are taken to be outside.               *)
HitsTankNarrow(dx, dy, d, beyond) ==
    LET s == BodyShape[d]
    IN  /\ dx \in -MaxX(s) .. MaxX(s) - 1 /\ dy \in -MaxY(s) .. MaxY(s) - 1
        /\ IsSolid(s, dx, dx, beyond)

HitsTank(dx, dy, d, beyond) ==
    LET s == BodyShape[d]
    IN  /\ dx \in -MaxX(s) .. MaxX(s) /\ dy \in -MaxY(s) .. MaxY(s)
        /\ IsSolid(s, dx, dx, beyond)

Core == (-1 .. 1) \X (-1 .. 1)

(* A tank is on the map; a projectile is at most one cell off it, to the   *)
(* right or below.                                                         *)
TypeOK ==
    /\ land.base \in Bases /\ what \in {"tank", "shot", "gone"}
    /\ dir \in Directions \cup {"0"}
    /\ x \in 0 .. Width * ChunkSize /\ y \in 0 .. Height * ChunkSize
    /\ what = "tank" => x \in Columns /\ y \in Rows

(* Whatever way a tank takes, and although nothing looks whether it fits   *)
(* when it has turned and the map's bounds let one column and one row too  *)
(* many through, its core of three by three cells stays on the map and out *)
(* of rock and base walls.                                                 *)
CoreFree ==
    what = "tank" => \A c \in Core :
      /\ x + c[1] \in Columns /\ y + c[2] \in Rows
      /\ <<x + c[1], y + c[2]>> \notin land.obstacles

(* A move breaks no more blocks than the loops find solid in the tank's    *)
(* body, which is far from the 49 of the comment in warzone.h even with    *)
(* the columns that run into the next row.                                 *)
BreaksBounded ==
    what = "tank" => \A beyond \in BOOLEAN :
      Cardinality(BodyCells[dir][beyond]) <= MaxBreaks

(* No projectile of another player passes through the core of a tank in    *)
(* play, whatever way the tank has turned: the row computed from the       *)
(* columns misses only at the ends.                                        *)
CoreHit ==
    what = "tank" => \A c \in Core, beyond \in BOOLEAN :
      HitsTank(c[1], c[2], dir, beyond)

(* Every projectile comes to an end, wherever it was shot, in a room that  *)
(* stays in battle; one in flight when the battle ends waits for the next. *)
ShotEnds == what = "shot" ~> what # "shot"
=============================================================================
