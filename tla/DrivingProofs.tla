--------------------------- MODULE DrivingProofs ---------------------------
(***************************************************************************)
(* What Driving keeps on a map of any size, with any rock along its rim.   *)
(*                                                                         *)
(* The invariant is TypeOK and CoreFree, with Faces for the direction.     *)
(* A move keeps it because the cells tested for the direction the tank     *)
(* still has hold its core, three by three (the part of every shape that   *)
(* no quarter turn moves), and something of the belt in the second column  *)
(* and in the second row, which meets the side of the map first.  So the   *)
(* proofs start with the shapes, by SolidCore and Reaches, and go on with  *)
(* the map: its cells, its rock and its bases.  BreaksBounded is about the *)
(* shapes alone: the cells of each body are numbered from 1 to 22.         *)
(***************************************************************************)
EXTENDS Driving, SequenceTheorems, FiniteSetTheorems, TLAPS

-----------------------------------------------------------------------------
(* The shapes                                                              *)

(* A pixel in row j and column i is in row i, counted from the right, of   *)
(* the shape turned by a quarter.                                          *)
LEMMA RotatedPixel ==
    ASSUME NEW s, NEW i \in 0 .. s.width - 1, NEW j \in 0 .. s.height - 1,
           j * s.width + i \in s.pixels
    PROVE  i * s.height + s.height - 1 - j \in Rotate(s).pixels
  <1> DEFINE solid == {c \in (0 .. s.width - 1) \X (0 .. s.height - 1) :
                         c[2] * s.width + c[1] \in s.pixels}
             place(c) == c[1] * s.height + s.height - 1 - c[2]
  <1>1. <<i, j>> \in solid
    OBVIOUS
  <1>2. place(<<i, j>>) = i * s.height + s.height - 1 - j
    OBVIOUS
  <1>3. Rotate(s).pixels = {p[1] * s.height + s.height - 1 - p[2] : p \in solid}
    BY DEF Rotate, Shape
  <1> QED
    BY <1>1, <1>2, <1>3

(* A quarter turn swaps width and height.                                  *)
LEMMA RotatedSize ==
    ASSUME NEW s
    PROVE  Rotate(s).width = s.height /\ Rotate(s).height = s.width
  BY DEF Rotate, Shape

(* A shape of w by h that is solid in the three by three cells about its   *)
(* middle.                                                                 *)
SolidCore(s, w, h) ==
    /\ s.width = w /\ s.height = h
    /\ \A row \in 0 .. h - 1, col \in 0 .. w - 1 :
         row - h \div 2 \in -1 .. 1 /\ col - w \div 2 \in -1 .. 1
           => row * w + col \in s.pixels

(* Three by three cells turn into three by three cells.                    *)
LEMMA RotatedCore ==
    ASSUME NEW s, NEW w \in {3, 5}, NEW h \in {3, 5}, SolidCore(s, w, h)
    PROVE  SolidCore(Rotate(s), h, w)
  <1>1. s.width = w /\ s.height = h
    BY DEF SolidCore
  <1>2. Rotate(s).width = h /\ Rotate(s).height = w
    BY <1>1, RotatedSize
  <1>3. ASSUME NEW row \in 0 .. w - 1, NEW col \in 0 .. h - 1,
               row - w \div 2 \in -1 .. 1, col - h \div 2 \in -1 .. 1
        PROVE  row * h + col \in Rotate(s).pixels
    <2> DEFINE j == h - 1 - col
    <2>1. j \in 0 .. h - 1 /\ j - h \div 2 \in -1 .. 1
      BY <1>3
    <2>2. j * w + row \in s.pixels
      BY <2>1, <1>3 DEF SolidCore
    <2>3. row * h + h - 1 - j \in Rotate(s).pixels
      BY <2>1, <2>2, <1>1, RotatedPixel
    <2>4. row * h + h - 1 - j = row * h + col
      OBVIOUS
    <2> QED
      BY <2>3, <2>4
  <1> QED
    BY <1>2, <1>3 DEF SolidCore

(* The bodies that are drawn rather than turned.                           *)
LEMMA BodyNCore == SolidCore(BodyN, 3, 5)
  BY DEF SolidCore, BodyN, Shape

LEMMA DiagonalCore == SolidCore(BodyDiagonal, 5, 5)
  BY DEF SolidCore, BodyDiagonal, Shape


(* Every body has one of four sizes and a solid core.                      *)
LEMMA BodyCores ==
    ASSUME NEW d \in Directions
    PROVE  \E w \in {3, 5}, h \in {3, 5} : SolidCore(BodyShape[d], w, h)
  <1>1. SolidCore(Rotate(BodyN), 5, 3)
    BY BodyNCore, RotatedCore
  <1>2. SolidCore(Rotate(Rotate(BodyN)), 3, 5)
    BY <1>1, RotatedCore
  <1>3. SolidCore(Rotate(Rotate(Rotate(BodyN))), 5, 3)
    BY <1>2, RotatedCore
  <1>4. CASE d = "N"
    BY <1>4, BodyNCore DEF BodyShape
  <1>5. CASE d = "E"
    BY <1>5, <1>1 DEF BodyShape
  <1>6. CASE d = "S"
    BY <1>6, <1>2 DEF BodyShape
  <1>7. CASE d = "W"
    BY <1>7, <1>3 DEF BodyShape
  <1>8. CASE d \notin {"N", "E", "S", "W"}
    BY <1>8, DiagonalCore DEF BodyShape
  <1> QED
    BY <1>4, <1>5, <1>6, <1>7, <1>8

(* A shape of w by h that is solid in the column and in the row two after  *)
(* its middle.                                                             *)
Reaches(s, w, h) ==
    /\ s.width = w /\ s.height = h
    /\ \E row \in 0 .. h - 1 : row * w + w \div 2 + 2 \in s.pixels
    /\ \E col \in 0 .. w - 1 : (h \div 2 + 2) * w + col \in s.pixels

(* The two belts that are drawn.                                           *)
LEMMA BeltSizes ==
    /\ BeltN.width = 5 /\ BeltN.height = 7
    /\ BeltNE.width = 7 /\ BeltNE.height = 7
    /\ \A row \in 1 .. 6 : 5 * row \in BeltN.pixels /\ 5 * row + 4 \in BeltN.pixels
    /\ BeltNE.pixels = {3, 9, 15, 21, 27, 33, 39, 45}
  <1>1. BeltN.pixels = {5 * row + col : row \in 1 .. 6, col \in {0, 4}}
    BY DEF BeltN, Shape
  <1>2. \A row \in 1 .. 6 : 5 * row + 0 \in BeltN.pixels /\ 5 * row + 4 \in BeltN.pixels
    BY <1>1
  <1> QED
    BY <1>2 DEF BeltN, BeltNE, Shape

(* The belts of the eight directions, one by one; the pixels that reach    *)
(* are traced back through the quarter turns to those that are drawn.      *)
LEMMA BeltNReaches == Reaches(BeltN, 5, 7)
  <1>1. 5 * 5 + 4 \in BeltN.pixels
    BY BeltSizes
  <1> QED
    BY <1>1, BeltSizes DEF Reaches

LEMMA BeltEReaches ==
    /\ Reaches(Rotate(BeltN), 7, 5)
    /\ 0 * 7 + 5 \in Rotate(BeltN).pixels /\ 0 * 7 + 1 \in Rotate(BeltN).pixels
  <1> DEFINE s == BeltN
  <1>1. s.width = 5 /\ s.height = 7
    BY BeltSizes
  <1>2. 1 * 5 + 4 \in s.pixels /\ 1 * 5 + 0 \in s.pixels /\ 5 * 5 + 0 \in s.pixels
    BY BeltSizes
  <1> HIDE DEF s
  <1>3. 4 * 7 + 7 - 1 - 1 \in Rotate(s).pixels
    <2>1. 4 \in 0 .. s.width - 1 /\ 1 \in 0 .. s.height - 1 /\ 1 * s.width + 4 \in s.pixels
      BY <1>1, <1>2
    <2>2. 4 * s.height + s.height - 1 - 1 \in Rotate(s).pixels
      BY <2>1, RotatedPixel
    <2> QED
      BY <1>1, <2>2
  <1>4. 0 * 7 + 7 - 1 - 1 \in Rotate(s).pixels
    <2>1. 0 \in 0 .. s.width - 1 /\ 1 \in 0 .. s.height - 1 /\ 1 * s.width + 0 \in s.pixels
      BY <1>1, <1>2
    <2>2. 0 * s.height + s.height - 1 - 1 \in Rotate(s).pixels
      BY <2>1, RotatedPixel
    <2> QED
      BY <1>1, <2>2
  <1>5. 0 * 7 + 7 - 1 - 5 \in Rotate(s).pixels
    <2>1. 0 \in 0 .. s.width - 1 /\ 5 \in 0 .. s.height - 1 /\ 5 * s.width + 0 \in s.pixels
      BY <1>1, <1>2
    <2>2. 0 * s.height + s.height - 1 - 5 \in Rotate(s).pixels
      BY <2>1, RotatedPixel
    <2> QED
      BY <1>1, <2>2
  <1>6. Rotate(s).width = 7 /\ Rotate(s).height = 5
    BY <1>1, RotatedSize
  <1> QED
    BY <1>3, <1>4, <1>5, <1>6 DEF Reaches, s

LEMMA BeltSReaches ==
    /\ Reaches(Rotate(Rotate(BeltN)), 5, 7)
    /\ 1 * 5 + 4 \in Rotate(Rotate(BeltN)).pixels
  <1> DEFINE s == Rotate(BeltN)
  <1>1. s.width = 7 /\ s.height = 5
    BY BeltEReaches DEF Reaches
  <1>2. 0 * 7 + 5 \in s.pixels /\ 0 * 7 + 1 \in s.pixels
    BY BeltEReaches
  <1> HIDE DEF s
  <1>3. 5 * 5 + 5 - 1 - 0 \in Rotate(s).pixels
    <2>1. 5 \in 0 .. s.width - 1 /\ 0 \in 0 .. s.height - 1 /\ 0 * s.width + 5 \in s.pixels
      BY <1>1, <1>2
    <2>2. 5 * s.height + s.height - 1 - 0 \in Rotate(s).pixels
      BY <2>1, RotatedPixel
    <2> QED
      BY <1>1, <2>2
  <1>4. 1 * 5 + 5 - 1 - 0 \in Rotate(s).pixels
    <2>1. 1 \in 0 .. s.width - 1 /\ 0 \in 0 .. s.height - 1 /\ 0 * s.width + 1 \in s.pixels
      BY <1>1, <1>2
    <2>2. 1 * s.height + s.height - 1 - 0 \in Rotate(s).pixels
      BY <2>1, RotatedPixel
    <2> QED
      BY <1>1, <2>2
  <1>5. Rotate(s).width = 5 /\ Rotate(s).height = 7
    BY <1>1, RotatedSize
  <1> QED
    BY <1>3, <1>4, <1>5 DEF Reaches, s

LEMMA BeltWReaches == Reaches(Rotate(Rotate(Rotate(BeltN))), 7, 5)
  <1> DEFINE s == Rotate(Rotate(BeltN))
  <1>1. s.width = 5 /\ s.height = 7
    BY BeltSReaches DEF Reaches
  <1>2. 1 * 5 + 4 \in s.pixels
    BY BeltSReaches
  <1> HIDE DEF s
  <1>3. 4 * 7 + 7 - 1 - 1 \in Rotate(s).pixels
    <2>1. 4 \in 0 .. s.width - 1 /\ 1 \in 0 .. s.height - 1 /\ 1 * s.width + 4 \in s.pixels
      BY <1>1, <1>2
    <2>2. 4 * s.height + s.height - 1 - 1 \in Rotate(s).pixels
      BY <2>1, RotatedPixel
    <2> QED
      BY <1>1, <2>2
  <1>4. Rotate(s).width = 7 /\ Rotate(s).height = 5
    BY <1>1, RotatedSize
  <1> QED
    BY <1>3, <1>4 DEF Reaches, s

LEMMA BeltNEReaches == Reaches(BeltNE, 7, 7)
  <1>1. 4 * 7 + 5 \in BeltNE.pixels /\ 5 * 7 + 4 \in BeltNE.pixels
    BY BeltSizes
  <1> QED
    BY <1>1, BeltSizes DEF Reaches

LEMMA BeltSEReaches == Reaches(Rotate(BeltNE), 7, 7)
  <1> DEFINE s == BeltNE
  <1>1. s.width = 7 /\ s.height = 7 /\ 1 * 7 + 2 \in s.pixels /\ 4 * 7 + 5 \in s.pixels
    BY BeltSizes
  <1> HIDE DEF s
  <1>2. 2 * 7 + 7 - 1 - 1 \in Rotate(s).pixels
    <2>1. 2 \in 0 .. s.width - 1 /\ 1 \in 0 .. s.height - 1 /\ 1 * s.width + 2 \in s.pixels
      BY <1>1
    <2>2. 2 * s.height + s.height - 1 - 1 \in Rotate(s).pixels
      BY <2>1, RotatedPixel
    <2> QED
      BY <1>1, <2>2
  <1>3. 5 * 7 + 7 - 1 - 4 \in Rotate(s).pixels
    <2>1. 5 \in 0 .. s.width - 1 /\ 4 \in 0 .. s.height - 1 /\ 4 * s.width + 5 \in s.pixels
      BY <1>1
    <2>2. 5 * s.height + s.height - 1 - 4 \in Rotate(s).pixels
      BY <2>1, RotatedPixel
    <2> QED
      BY <1>1, <2>2
  <1>4. Rotate(s).width = 7 /\ Rotate(s).height = 7
    BY <1>1, RotatedSize
  <1> QED
    BY <1>2, <1>3, <1>4 DEF Reaches, s

(* Every belt reaches two cells to the right and two down, in some place.  *)
LEMMA BeltReaches ==
    ASSUME NEW d \in Directions
    PROVE  \E w \in {5, 7}, h \in {5, 7} : Reaches(BeltShape[d], w, h)
  <1>1. CASE d = "N"
    BY <1>1, BeltNReaches DEF BeltShape
  <1>2. CASE d = "E"
    BY <1>2, BeltEReaches DEF BeltShape
  <1>3. CASE d = "S"
    BY <1>3, BeltSReaches DEF BeltShape
  <1>4. CASE d = "W"
    BY <1>4, BeltWReaches DEF BeltShape
  <1>5. CASE d \in {"NE", "SW"}
    BY <1>5, BeltNEReaches DEF BeltShape
  <1>6. CASE d \in {"SE", "NW"}
    BY <1>6, BeltSEReaches DEF BeltShape
  <1> QED
    BY <1>1, <1>2, <1>3, <1>4, <1>5, <1>6 DEF Directions

(* Whatever is read past the shape, the loops find the core solid in the   *)
(* body and something of the belt in the second column and the second row. *)
LEMMA TankCellsCover ==
    ASSUME NEW d \in Directions, NEW beyond \in BOOLEAN
    PROVE  /\ Core \subseteq TankCells[d][beyond]
           /\ \E c \in TankCells[d][beyond] : c[1] = 2
           /\ \E c \in TankCells[d][beyond] : c[2] = 2
           /\ TankCells[d][beyond] \subseteq Int \X Int
  <1> DEFINE belt == BeltShape[d]
             body == BodyShape[d]
  <1>1. TankCells[d][beyond] = Within(belt, body, beyond) \cup Within(belt, belt, beyond)
    BY DEF TankCells, BodyCells
  <1>2. PICK bw \in {5, 7}, bh \in {5, 7} : Reaches(belt, bw, bh)
    BY BeltReaches
  <1>3. PICK w \in {3, 5}, h \in {3, 5} : SolidCore(body, w, h)
    BY BodyCores
  <1> HIDE DEF belt, body
  <1>4. /\ MaxX(belt) = bw \div 2 /\ MaxY(belt) = bh \div 2
        /\ MaxX(body) = w \div 2 /\ MaxY(body) = h \div 2
        /\ belt.width = bw /\ body.width = w
    BY <1>2, <1>3 DEF Reaches, SolidCore, MaxX, MaxY
  <1>5. ASSUME NEW a \in -1 .. 1, NEW b \in -1 .. 1
        PROVE  <<a, b>> \in Within(belt, body, beyond)
    <2> DEFINE row == b + h \div 2
               col == a + w \div 2
    <2>1. /\ row \in 0 .. h - 1 /\ col \in 0 .. w - 1
          /\ row - h \div 2 \in -1 .. 1 /\ col - w \div 2 \in -1 .. 1
      BY <1>3
    <2>2. row * w + col \in body.pixels
      BY <1>3, <2>1 DEF SolidCore
    <2>3. IsSolid(body, a, b, beyond)
      <3>1. (b + MaxY(body)) * body.width + a + MaxX(body) = row * w + col
        BY <1>4
      <3> QED
        BY <2>2, <3>1 DEF IsSolid
    <2>4. a \in -MaxX(belt) .. MaxX(belt) /\ b \in -MaxY(belt) .. MaxY(belt)
      BY <1>4, <1>2
    <2> QED
      BY <2>3, <2>4 DEF Within
  <1>6. \E c \in Within(belt, belt, beyond) : c[1] = 2
    <2>1. PICK row \in 0 .. bh - 1 : row * bw + bw \div 2 + 2 \in belt.pixels
      BY <1>2 DEF Reaches
    <2> DEFINE b == row - bh \div 2
    <2>2. b \in -MaxY(belt) .. MaxY(belt) /\ 2 \in -MaxX(belt) .. MaxX(belt)
      BY <1>4, <1>2
    <2>3. (b + MaxY(belt)) * belt.width + 2 + MaxX(belt) = row * bw + bw \div 2 + 2
      BY <1>4, <1>2
    <2>4. IsSolid(belt, 2, b, beyond)
      BY <2>1, <2>3 DEF IsSolid
    <2> HIDE DEF b
    <2>5. <<2, b>> \in Within(belt, belt, beyond)
      BY <2>2, <2>4 DEF Within
    <2> QED
      BY <2>5
  <1>7. \E c \in Within(belt, belt, beyond) : c[2] = 2
    <2>1. PICK col \in 0 .. bw - 1 : (bh \div 2 + 2) * bw + col \in belt.pixels
      BY <1>2 DEF Reaches
    <2> DEFINE a == col - bw \div 2
    <2>2. a \in -MaxX(belt) .. MaxX(belt) /\ 2 \in -MaxY(belt) .. MaxY(belt)
      BY <1>4, <1>2
    <2>3. (2 + MaxY(belt)) * belt.width + a + MaxX(belt) = (bh \div 2 + 2) * bw + col
      BY <1>4, <1>2
    <2>4. IsSolid(belt, a, 2, beyond)
      BY <2>1, <2>3 DEF IsSolid
    <2> HIDE DEF a
    <2>5. <<a, 2>> \in Within(belt, belt, beyond)
      BY <2>2, <2>4 DEF Within
    <2> QED
      BY <2>5
  <1>8. TankCells[d][beyond] \subseteq Int \X Int
    <2>1. MaxX(belt) \in Int /\ MaxY(belt) \in Int
      BY <1>4, <1>2
    <2> QED
      BY <1>1, <2>1 DEF Within
  <1>9. Core \subseteq Within(belt, body, beyond)
    BY <1>5 DEF Core
  <1> QED
    BY <1>1, <1>6, <1>7, <1>8, <1>9


-----------------------------------------------------------------------------
(* The map                                                                 *)

(* A quotient and a rest make one number, and only one way.                *)
LEMMA Quotient ==
    ASSUME NEW N \in Nat \ {0}, NEW q \in Int, NEW r \in 0 .. N - 1
    PROVE  (N * q + r) \div N = q /\ (N * q + r) % N = r
  OBVIOUS

(* A number is its quotient times the divisor, and the rest.               *)
LEMMA Division ==
    ASSUME NEW N \in Nat \ {0}, NEW a \in Int
    PROVE  /\ a \div N \in Int /\ a % N \in 0 .. N - 1
           /\ a = N * (a \div N) + (a % N)
  OBVIOUS

(* More chunks are at least as long.                                       *)
LEMMA MoreIsLonger ==
    ASSUME NEW N \in Nat, NEW a \in Int, NEW b \in Int, a <= b
    PROVE  N * a <= N * b
  <1>1. N * (b - a) >= 0
    OBVIOUS
  <1>2. N * (b - a) = N * b - N * a
    OBVIOUS
  <1> QED
    BY <1>1, <1>2

(* The chunk a location is in.                                             *)
LEMMA ChunkOf ==
    ASSUME NEW n \in Nat \ {0}, NEW a \in 0 .. n * ChunkSize - 1
    PROVE  a \div ChunkSize \in 0 .. n - 1
  <1> DEFINE N == ChunkSize
             q == a \div N
             r == a % N
  <1>1. N \in Nat \ {0}
    BY DrivingAssumption
  <1> HIDE DEF N
  <1>2. q \in Int /\ r \in 0 .. N - 1 /\ a = N * q + r
    BY <1>1, Division
  <1> HIDE DEF q, r
  <1>3. q >= 0
    <2> SUFFICES ASSUME q <= -1 PROVE FALSE
      BY <1>2
    <2>1. N * q <= N * (-1)
      BY <1>1, <1>2, MoreIsLonger
    <2> QED
      BY <1>1, <1>2, <2>1
  <1>4. q <= n - 1
    <2> SUFFICES ASSUME n <= q PROVE FALSE
      BY <1>2
    <2>1. N * n <= N * q
      BY <1>1, <1>2, MoreIsLonger
    <2>2. a < n * N
      BY <1>1 DEF N
    <2>3. n * N = N * n
      BY <1>1
    <2> QED
      BY <1>1, <1>2, <2>1, <2>2, <2>3
  <1> QED
    BY <1>2, <1>3, <1>4 DEF q, N

(* On the map tunneler_map_get_block reads a location in the cell it       *)
(* names, through the chunk it is in, whatever the sizes: no two locations *)
(* share a block.                                                          *)
THEOREM CellOnMap ==
    ASSUME NEW cx \in Columns, NEW cy \in Rows
    PROVE  Cell(cx, cy) = <<cx, cy>>
  <1> DEFINE N == ChunkSize
             qx == cx \div N
             qy == cy \div N
             rx == cx % N
             ry == cy % N
  <1>1. N \in Nat \ {0} /\ Width \in Nat \ {0} /\ Height \in Nat \ {0}
    BY DrivingAssumption
  <1>2. qx \in 0 .. Width - 1 /\ qy \in 0 .. Height - 1
    BY <1>1, ChunkOf DEF Columns, Rows
  <1>3. cx \in Int /\ cy \in Int
    BY DEF Columns, Rows
  <1> HIDE DEF N
  <1>4. cx = N * qx + rx /\ cy = N * qy + ry
    BY <1>1, <1>3, Division
  <1>5. Cell(cx, cy) = <<((qy * Width + qx) % Width) * N + rx,
                         ((qy * Width + qx) \div Width) * N + ry>>
    BY DEF Cell, N
  <1> HIDE DEF qx, qy, rx, ry
  <1>6. (Width * qy + qx) \div Width = qy /\ (Width * qy + qx) % Width = qx
    BY <1>1, <1>2, Quotient
  <1>7. qy * Width = Width * qy /\ qx * N = N * qx /\ qy * N = N * qy
    BY <1>1, <1>2
  <1> QED
    BY <1>4, <1>5, <1>6, <1>7

(* The rock along the rim is less than a chunk thick.                      *)
LEMMA PaddingThin ==
    ASSUME NEW draws, draws \in Seq(0 .. ChunkSize - 1), draws # <<>>, NEW n \in Int
    PROVE  Padding(draws, n) \in 0 .. ChunkSize - 1
  <1> DEFINE N == ChunkSize
  <1>1. /\ draws \in Seq(0 .. N - 1) /\ draws # <<>> /\ N \in Nat /\ N > 12
    BY DrivingAssumption
  <1>2. Len(draws) \in Nat \ {0}
    BY <1>1, EmptySeq
  <1>3. ASSUME NEW m \in Int
        PROVE  Member(draws, m) \in 0 .. N - 1
    <2>1. CASE m < 0
      BY <2>1, <1>1 DEF Member, N
    <2>2. CASE m >= 0
      <3>1. m % Len(draws) \in 0 .. Len(draws) - 1
        BY <1>2
      <3>2. (m % Len(draws)) + 1 \in 1 .. Len(draws)
        BY <1>2, <3>1
      <3>3. draws[(m % Len(draws)) + 1] \in 0 .. N - 1
        BY <1>1, <3>2, ElementOfSeq
      <3> QED
        BY <2>2, <3>3 DEF Member
    <2> QED
      BY <2>1, <2>2
  <1>4. /\ Member(draws, n - 2) \in 0 .. N - 1 /\ Member(draws, n - 1) \in 0 .. N - 1
        /\ Member(draws, n) \in 0 .. N - 1
    BY <1>3
  <1> HIDE DEF N
  <1>5. (Member(draws, n - 2) + Member(draws, n - 1) + Member(draws, n)) \div 3 \in 0 .. N - 1
    BY <1>1, <1>4
  <1> QED
    BY <1>5 DEF Padding, N

(* A location a chunk away from each side is out of the rock.              *)
LEMMA InlandFree ==
    ASSUME NEW draws \in Draws, NEW a, NEW b,
           a \in ChunkSize - 1 .. Width * ChunkSize - ChunkSize,
           b \in ChunkSize - 1 .. Height * ChunkSize - ChunkSize
    PROVE  <<a, b>> \notin Rock(draws)
  <1>0. /\ ChunkSize \in Nat /\ ChunkSize > 12 /\ Width * ChunkSize \in Nat
        /\ Height * ChunkSize \in Nat
    BY DrivingAssumption
  <1>1. ASSUME NEW col \in Columns, <<a, b>> \in AtColumn(draws, col)
        PROVE  FALSE
    <2>1. OnTop(col) \in Int /\ OnBottom(col) \in Int
      <3>1. col \in Int /\ ChunkSize \in Nat \ {0}
        BY <1>0 DEF Columns
      <3>2. col \div ChunkSize \in Int /\ col % ChunkSize \in Int
        BY <3>1
      <3>3. 2 * ChunkSize * (col \div ChunkSize) \in Int
        BY <3>1, <3>2
      <3> QED
        BY <3>1, <3>2, <3>3 DEF OnTop, OnBottom
    <2> DEFINE line == draws["across"]
    <2>2. /\ Padding(line, OnTop(col)) \in 0 .. ChunkSize - 1
          /\ Padding(line, OnBottom(col)) \in 0 .. ChunkSize - 1
      BY <2>1, PaddingThin, DrivingAssumption
    <2>3. \/ \E off \in 0 .. Padding(line, OnTop(col)) - 1 : b = off
          \/ \E off \in 0 .. Padding(line, OnBottom(col)) - 1 :
               b = Height * ChunkSize - 1 - off
      BY <1>1 DEF AtColumn
    <2> QED
      BY <1>0, <2>2, <2>3
  <1>2. ASSUME NEW row \in Rows, <<a, b>> \in AtRow(draws, row)
        PROVE  FALSE
    <2>1. /\ Padding(draws["left"], row) \in 0 .. ChunkSize - 1
          /\ Padding(draws["right"], row) \in 0 .. ChunkSize - 1
      <3>1. row \in Int
        BY <1>0 DEF Rows
      <3>2. \A side \in {"across", "left", "right"} :
              draws[side] \in Seq(0 .. ChunkSize - 1) /\ draws[side] # <<>>
        BY DrivingAssumption
      <3> QED
        BY <3>1, <3>2, PaddingThin
    <2>2. \/ \E off \in 0 .. Padding(draws["left"], row) - 1 : a = off
          \/ \E off \in 0 .. Padding(draws["right"], row) - 1 :
               a = Width * ChunkSize - 1 - off
      BY <1>2 DEF AtRow
    <2> QED
      BY <1>0, <2>1, <2>2
  <1> QED
    BY <1>1, <1>2 DEF Rock

(* A location two chunks from the far side and one from the near side.     *)
LEMMA CentreInland ==
    ASSUME NEW m \in Nat, NEW n \in 1 .. m - 2, NEW e \in -1 .. 1
    PROVE  BaseCentre(n) + e \in ChunkSize - 1 .. m * ChunkSize - ChunkSize
  <1> DEFINE N == ChunkSize
  <1>1. N \in Nat /\ N > 12
    BY DrivingAssumption
  <1> HIDE DEF N
  <1>2. N * 1 <= N * n /\ N * n <= N * (m - 2)
    BY <1>1, MoreIsLonger
  <1>3. N * (m - 2) = m * N - 2 * N /\ N * n = n * N
    BY <1>1
  <1>4. N \div 2 \in 6 .. N - 2
    BY <1>1
  <1>5. BaseCentre(n) = n * N + (N \div 2)
    BY DEF BaseCentre, N
  <1>6. n * N \in Int /\ m * N \in Int
    BY <1>1
  <1>7. n * N + (N \div 2) + e \in N - 1 .. m * N - N
    BY <1>1, <1>2, <1>3, <1>4, <1>6
  <1> QED
    BY <1>5, <1>7 DEF N

(* The middle of a base is away from its walls, with a cell to spare.      *)
LEMMA MiddleOpen ==
    ASSUME NEW gates, NEW a \in -1 .. 1, NEW b \in -1 .. 1
    PROVE  <<(ChunkSize \div 2) + a, (ChunkSize \div 2) + b>> \notin Walls(gates)
  <1>1. /\ (ChunkSize \div 2) + a \notin {Near, Far}
        /\ (ChunkSize \div 2) + b \notin {Near, Far}
    BY DrivingAssumption DEF Near, Far
  <1>2. \A n : \A c \in WallsOnSides(n) : c[1] \in {Near, Far}
    BY DEF WallsOnSides
  <1> QED
    BY <1>1, <1>2 DEF Walls

(* The walls are cells of the chunk.                                       *)
LEMMA WallCells ==
    ASSUME NEW gates, NEW c \in Walls(gates)
    PROVE  c[1] \in Int /\ c[2] \in Int /\ c = <<c[1], c[2]>>
  <1>1. ChunkSize \in Nat /\ GateWidth \in Int /\ Near \in Int /\ Far \in Int
    BY DrivingAssumption DEF GateWidth, Near, Far
  <1>2. ASSUME NEW n \in SUBSET Int, NEW p \in WallsOnSides(n)
        PROVE  p[1] \in Int /\ p[2] \in Int /\ p = <<p[1], p[2]>>
    BY <1>1 DEF WallsOnSides
  <1>3. Near .. Far \in SUBSET Int /\ (Near .. Far) \ Gate \in SUBSET Int
    BY <1>1
  <1>4. PICK n \in SUBSET Int : c \in WallsOnSides(n)
                              \/ c \in {<<p[2], p[1]>> : p \in WallsOnSides(n)}
    BY <1>3 DEF Walls
  <1>5. CASE c \in WallsOnSides(n)
    BY <1>2, <1>5
  <1>6. CASE c \in {<<p[2], p[1]>> : p \in WallsOnSides(n)}
    <2>1. PICK p \in WallsOnSides(n) : c = <<p[2], p[1]>>
      BY <1>6
    <2> QED
      BY <1>2, <2>1
  <1> QED
    BY <1>4, <1>5, <1>6

(* A battle begins with the tank's core on the map and in the open.        *)
LEMMA CentreFree ==
    ASSUME NEW l \in Lands, NEW a \in -1 .. 1, NEW b \in -1 .. 1
    PROVE  /\ BaseCentre(l.base[1]) + a \in Columns
           /\ BaseCentre(l.base[2]) + b \in Rows
           /\ <<BaseCentre(l.base[1]) + a, BaseCentre(l.base[2]) + b>> \notin l.obstacles
  <1> DEFINE cx == BaseCentre(l.base[1]) + a
             cy == BaseCentre(l.base[2]) + b
  <1>1. PICK draws \in Draws : \E base \in Bases, gates \in {"sides", "ends"} :
               l = Land(draws, base, gates)
    BY DEF Lands
  <1>2. PICK base \in Bases, gates \in {"sides", "ends"} : l = Land(draws, base, gates)
    BY <1>1
  <1>3. /\ l.base = base
        /\ l.obstacles = Rock(draws) \cup
             {<<base[1] * ChunkSize + c[1], base[2] * ChunkSize + c[2]>> : c \in Walls(gates)}
    BY <1>2 DEF Land
  <1>4. /\ base[1] \in 1 .. Width - 2 /\ base[2] \in 1 .. Height - 2
        /\ Width \in Nat /\ Height \in Nat /\ ChunkSize \in Nat /\ ChunkSize > 12
    BY DrivingAssumption DEF Bases
  <1>5. /\ cx \in ChunkSize - 1 .. Width * ChunkSize - ChunkSize
        /\ cy \in ChunkSize - 1 .. Height * ChunkSize - ChunkSize
    BY <1>3, <1>4, CentreInland
  <1>6. cx \in Columns /\ cy \in Rows
    BY <1>4, <1>5 DEF Columns, Rows
  <1>7. <<cx, cy>> \notin Rock(draws)
    BY <1>5, InlandFree
  <1>8. ASSUME NEW c \in Walls(gates),
               <<cx, cy>> = <<base[1] * ChunkSize + c[1], base[2] * ChunkSize + c[2]>>
        PROVE  FALSE
    <2>1. c[1] \in Int /\ c[2] \in Int /\ c = <<c[1], c[2]>>
      BY <1>4, WallCells
    <2>2. c[1] = (ChunkSize \div 2) + a /\ c[2] = (ChunkSize \div 2) + b
      <3> DEFINE left == base[1] * ChunkSize
                 above == base[2] * ChunkSize
                 half == ChunkSize \div 2
      <3>1. left \in Int /\ above \in Int /\ half \in Int
        BY <1>4
      <3>2. left + c[1] = left + half + a /\ above + c[2] = above + half + b
        BY <1>3, <1>8 DEF BaseCentre
      <3> HIDE DEF left, above, half
      <3>3. c[1] = half + a /\ c[2] = half + b
        BY <2>1, <3>1, <3>2
      <3> QED
        BY <3>3 DEF half
    <2> QED
      BY <2>1, <2>2, MiddleOpen
  <1> QED
    BY <1>3, <1>6, <1>7, <1>8


-----------------------------------------------------------------------------
(* The steps                                                               *)

(* A tank or a projectile faces one of the eight directions.               *)
Faces == what \in {"tank", "shot"} => dir \in Directions

DrivingInv == TypeOK /\ Faces /\ CoreFree

(* The row and the column that the two moves add up to name a direction.   *)
LEMMA TurnedTo ==
    ASSUME NEW dx \in -1 .. 1, NEW dy \in -1 .. 1, <<dx, dy>> # <<0, 0>>
    PROVE  GetByD(dx, dy) \in Directions
  <1> DEFINE n == (dy + 1) * 3 + (dx + 1) + 1
  <1>1. n \in 1 .. 9 /\ n # 5
    OBVIOUS
  <1> HIDE DEF n
  <1>2. DirectionsByD[n] \in Directions
    BY <1>1 DEF DirectionsByD, Directions
  <1> QED
    BY <1>2 DEF GetByD, n

(* Where a battle begins, on whatever map.                                 *)
LEMMA BeginFree ==
    ASSUME NEW l \in Lands, NEW px, NEW py,
           px = BaseCentre(l.base[1]), py = BaseCentre(l.base[2])
    PROVE  /\ px \in Columns /\ py \in Rows /\ l.base \in Bases
           /\ \A c \in Core :
                /\ px + c[1] \in Columns /\ py + c[2] \in Rows
                /\ <<px + c[1], py + c[2]>> \notin l.obstacles
  <1>1. \A a \in -1 .. 1, b \in -1 .. 1 :
          /\ px + a \in Columns /\ py + b \in Rows
          /\ <<px + a, py + b>> \notin l.obstacles
    BY CentreFree
  <1>2. l.base \in Bases
    BY DEF Lands, Land
  <1>3. px \in Int /\ py \in Int
    <2>1. l.base[1] \in Int /\ l.base[2] \in Int /\ ChunkSize \in Nat
      BY <1>2, DrivingAssumption DEF Bases
    <2> QED
      BY <2>1 DEF BaseCentre
  <1>4. px + 0 \in Columns /\ py + 0 \in Rows
    BY <1>1
  <1>5. px \in Columns /\ py \in Rows
    BY <1>3, <1>4
  <1> QED
    BY <1>1, <1>2, <1>5 DEF Core

(* A location on the map is within the bounds of TypeOK.                   *)
LEMMA OnMapTyped ==
    ASSUME NEW px \in Columns, NEW py \in Rows
    PROVE  /\ px \in 0 .. Width * ChunkSize
           /\ py \in 0 .. Height * ChunkSize
           /\ px \in Int /\ py \in Int
  BY DrivingAssumption DEF Columns, Rows

(* Where the tank's cells meet no obstacle its core is on the map, although*)
(* the bounds let one column and one row too many through: the belt, which *)
(* reaches a cell further than the core, meets them first.                 *)
LEMMA CanMoveFree ==
    ASSUME NEW nx \in Int, NEW ny \in Int, NEW beyond \in BOOLEAN,
           dir \in Directions, CanMoveTo(nx, ny, beyond), NEW c \in Core
    PROVE  /\ nx + c[1] \in Columns /\ ny + c[2] \in Rows
           /\ <<nx + c[1], ny + c[2]>> \notin land.obstacles
  <1> DEFINE cells == TankCells[dir][beyond]
             right == Width * ChunkSize
             bottom == Height * ChunkSize
  <1>1. /\ Core \subseteq cells
        /\ \E p \in cells : p[1] = 2
        /\ \E p \in cells : p[2] = 2
        /\ cells \subseteq Int \X Int
    BY TankCellsCover
  <1>2. right \in Nat /\ bottom \in Nat
    BY DrivingAssumption
  <1>3. \A p \in cells : ~IsObstacle(nx + p[1], ny + p[2])
    BY DEF CanMoveTo
  <1> HIDE DEF cells, right, bottom
  <1>4. \A p \in cells : /\ nx + p[1] >= 0 /\ nx + p[1] <= right
                         /\ ny + p[2] >= 0 /\ ny + p[2] <= bottom
    <2> SUFFICES ASSUME NEW p \in cells
                 PROVE  /\ nx + p[1] >= 0 /\ nx + p[1] <= right
                        /\ ny + p[2] >= 0 /\ ny + p[2] <= bottom
      OBVIOUS
    <2>1. p[1] \in Int /\ p[2] \in Int
      BY <1>1
    <2>2. ~OffMap(nx + p[1], ny + p[2])
      BY <1>3 DEF IsObstacle
    <2> QED
      BY <1>2, <2>1, <2>2 DEF OffMap, right, bottom
  <1>5. nx - 1 >= 0 /\ ny - 1 >= 0
    <2>1. <<-1, -1>> \in cells
      BY <1>1 DEF Core
    <2> QED
      BY <1>4, <2>1
  <1>6. nx + 2 <= right /\ ny + 2 <= bottom
    BY <1>1, <1>4
  <1>7. c \in cells /\ c[1] \in -1 .. 1 /\ c[2] \in -1 .. 1
    BY <1>1 DEF Core
  <1>8. nx + c[1] \in 0 .. right - 1 /\ ny + c[2] \in 0 .. bottom - 1
    BY <1>2, <1>5, <1>6, <1>7
  <1>9. nx + c[1] \in Columns /\ ny + c[2] \in Rows
    BY <1>8 DEF Columns, Rows, right, bottom
  <1>10. Cell(nx + c[1], ny + c[2]) \notin land.obstacles
    BY <1>3, <1>7 DEF IsObstacle
  <1> QED
    BY <1>9, <1>10, CellOnMap

(* The first battle begins with the invariant.                             *)
LEMMA InitInv == Init => DrivingInv
  <1> SUFFICES ASSUME Init PROVE DrivingInv
    OBVIOUS
  <1>1. /\ x \in Columns /\ y \in Rows /\ land.base \in Bases
        /\ \A c \in Core :
             /\ x + c[1] \in Columns /\ y + c[2] \in Rows
             /\ <<x + c[1], y + c[2]>> \notin land.obstacles
    BY BeginFree DEF Init
  <1>2. what = "tank" /\ dir = "N"
    BY DEF Init
  <1> QED
    BY <1>1, <1>2, OnMapTyped DEF DrivingInv, TypeOK, Faces, CoreFree, Directions

(* A move goes where CanMoveTo allows it, and turns to what was pressed.   *)
LEMMA MoveInv ==
    ASSUME DrivingInv, Move
    PROVE  DrivingInv'
  <1>1. PICK dx \in -1 .. 1 : \E dy \in -1 .. 1, beyond \in BOOLEAN :
          /\ what = "tank"
          /\ <<dx, dy>> # <<0, 0>>
          /\ CanMoveTo(x + dx, y + dy, beyond)
          /\ x' = x + dx /\ y' = y + dy /\ dir' = GetByD(dx, dy)
          /\ UNCHANGED <<land, what>>
    BY Zenon DEF Move
  <1>2. PICK dy \in -1 .. 1 : \E beyond \in BOOLEAN :
          /\ what = "tank"
          /\ <<dx, dy>> # <<0, 0>>
          /\ CanMoveTo(x + dx, y + dy, beyond)
          /\ x' = x + dx /\ y' = y + dy /\ dir' = GetByD(dx, dy)
          /\ UNCHANGED <<land, what>>
    BY <1>1, Zenon
  <1>3. PICK beyond \in BOOLEAN :
          /\ what = "tank"
          /\ <<dx, dy>> # <<0, 0>>
          /\ CanMoveTo(x + dx, y + dy, beyond)
          /\ x' = x + dx /\ y' = y + dy /\ dir' = GetByD(dx, dy)
          /\ UNCHANGED <<land, what>>
    BY <1>2, Zenon
  <1>4. x \in Int /\ y \in Int /\ dir \in Directions /\ land.base \in Bases
    BY <1>3, DrivingAssumption DEF DrivingInv, TypeOK, Faces
  <1>5. x + dx \in Int /\ y + dy \in Int
    BY <1>4
  <1>6. \A c \in Core :
          /\ x' + c[1] \in Columns /\ y' + c[2] \in Rows
          /\ <<x' + c[1], y' + c[2]>> \notin land.obstacles
    BY <1>3, <1>4, <1>5, CanMoveFree
  <1>7. x' \in Columns /\ y' \in Rows
    <2>1. <<0, 0>> \in Core
      BY DEF Core
    <2>2. x' + 0 \in Columns /\ y' + 0 \in Rows
      BY <1>6, <2>1
    <2> QED
      BY <1>3, <1>5, <2>2
  <1>8. dir' \in Directions
    BY <1>3, TurnedTo
  <1>9. TypeOK'
    BY <1>3, <1>4, <1>7, <1>8, OnMapTyped DEF TypeOK
  <1>10. CoreFree'
    BY <1>3, <1>6 DEF CoreFree
  <1> QED
    BY <1>8, <1>9, <1>10 DEF DrivingInv, Faces

(* A projectile flies on no further than the bounds let it.                *)
LEMMA FlyOnInv ==
    ASSUME DrivingInv, FlyOn
    PROVE  DrivingInv'
  <1> DEFINE right == Width * ChunkSize
             bottom == Height * ChunkSize
  <1>1. right \in Nat /\ bottom \in Nat
    BY DrivingAssumption
  <1>2. /\ x \in Int /\ y \in Int /\ dir \in Directions /\ what = "shot"
        /\ land.base \in Bases
    BY <1>1 DEF DrivingInv, TypeOK, Faces, FlyOn
  <1>3. NextX \in Int /\ NextY \in Int
    BY <1>2 DEF NextX, NextY, DirectionX, DirectionY
  <1>4. ~OffMap(NextX, NextY)
    BY DEF FlyOn, Stopped, IsObstacle
  <1>5. NextX \in 0 .. right /\ NextY \in 0 .. bottom
    BY <1>1, <1>3, <1>4 DEF OffMap
  <1>6. x' = NextX /\ y' = NextY /\ UNCHANGED <<land, what, dir>>
    BY DEF FlyOn
  <1> HIDE DEF right, bottom
  <1>7. x' \in 0 .. right /\ y' \in 0 .. bottom
    BY <1>1, <1>5, <1>6
  <1> QED
    BY <1>2, <1>6, <1>7 DEF DrivingInv, TypeOK, Faces, CoreFree, right, bottom

(* A cleared projectile is nowhere, and no tank.                           *)
LEMMA ClearInv ==
    ASSUME DrivingInv, Clear
    PROVE  DrivingInv'
  <1>1. /\ what' = "gone" /\ x' = 0 /\ y' = 0 /\ dir' = "0" /\ land' = land
        /\ land.base \in Bases
    BY DEF Clear, DrivingInv, TypeOK
  <1>2. 0 \in 0 .. Width * ChunkSize /\ 0 \in 0 .. Height * ChunkSize
    <2>1. Width * ChunkSize \in Nat /\ Height * ChunkSize \in Nat
      BY DrivingAssumption
    <2> QED
      BY <2>1
  <1> QED
    BY <1>1, <1>2 DEF DrivingInv, TypeOK, Faces, CoreFree

(* The next battle begins as the first did.                                *)
LEMMA NextBattleInv ==
    ASSUME NextBattle
    PROVE  DrivingInv'
  <1>1. /\ x' \in Columns /\ y' \in Rows /\ land'.base \in Bases
        /\ \A c \in Core :
             /\ x' + c[1] \in Columns /\ y' + c[2] \in Rows
             /\ <<x' + c[1], y' + c[2]>> \notin land'.obstacles
    BY BeginFree DEF NextBattle
  <1>2. what' = "tank" /\ dir' = "N"
    BY DEF NextBattle
  <1> QED
    BY <1>1, <1>2, OnMapTyped DEF DrivingInv, TypeOK, Faces, CoreFree, Directions

(* Every step keeps the invariant.                                         *)
LEMMA NextInv == DrivingInv /\ [Next]_vars => DrivingInv'
  <1> SUFFICES ASSUME DrivingInv, [Next]_vars PROVE DrivingInv'
    OBVIOUS
  <1>1. CASE Move
    BY <1>1, MoveInv
  <1>2. CASE Shoot
    BY <1>2 DEF Shoot, DrivingInv, TypeOK, Faces, CoreFree
  <1>3. CASE FlyOn
    BY <1>3, FlyOnInv
  <1>4. CASE Clear
    BY <1>4, ClearInv
  <1>5. CASE NextBattle
    BY <1>5, NextBattleInv
  <1>6. CASE UNCHANGED vars
    BY <1>6 DEF vars, DrivingInv, TypeOK, Faces, CoreFree
  <1> QED
    BY <1>1, <1>2, <1>3, <1>4, <1>5, <1>6 DEF Next, Fly

(* So it always holds.                                                     *)
LEMMA DrivingInvariant == Spec => []DrivingInv
  BY InitInv, NextInv, PTL DEF Spec

(* A tank is on the map and a projectile no further than one cell off it,  *)
(* to the right or below, where tunneler_map_get_block lets it through.    *)
THEOREM TypeCorrect == Spec => []TypeOK
  <1>1. DrivingInv => TypeOK
    BY DEF DrivingInv
  <1> QED
    BY <1>1, DrivingInvariant, PTL

(* The core of a tank stays on the map and out of rock and walls, on a map *)
(* of any size with any rock: _warzone_can_tank_move_to tests the shapes   *)
(* of the direction the tank had, and tunneler_map_get_block lets a column *)
(* and a row too many through, but neither can bring the core there.       *)
THEOREM CoreAlwaysFree == Spec => []CoreFree
  <1>1. DrivingInv => CoreFree
    BY DEF DrivingInv
  <1> QED
    BY <1>1, DrivingInvariant, PTL

(* No projectile of another player passes through the core of a tank in    *)
(* play, whatever direction it has: _engine_uwz_find_tank_hit computes the *)
(* row from the column, which stays in the core.                           *)
THEOREM CoreAlwaysHit == Spec => []CoreHit
  <1>1. DrivingInv => CoreHit
    <2> SUFFICES ASSUME DrivingInv, what = "tank", NEW c \in Core, NEW beyond \in BOOLEAN
                 PROVE  HitsTank(c[1], c[2], dir, beyond)
      BY DEF CoreHit
    <2>1. dir \in Directions
      BY DEF DrivingInv, Faces
    <2> DEFINE s == BodyShape[dir]
               a == c[1]
    <2>2. PICK w \in {3, 5}, h \in {3, 5} : SolidCore(s, w, h)
      BY <2>1, BodyCores
    <2>3. c[1] \in -1 .. 1 /\ c[2] \in -1 .. 1
      BY DEF Core
    <2> HIDE DEF s
    <2>4. MaxX(s) = w \div 2 /\ MaxY(s) = h \div 2 /\ s.width = w
      BY <2>2 DEF SolidCore, MaxX, MaxY
    <2>5. a + h \div 2 \in 0 .. h - 1 /\ a + w \div 2 \in 0 .. w - 1
      BY <2>3
    <2>6. (a + h \div 2) * w + (a + w \div 2) \in s.pixels
      <3> DEFINE row == a + h \div 2
                 col == a + w \div 2
      <3>1. /\ row \in 0 .. h - 1 /\ row - h \div 2 \in -1 .. 1
            /\ col \in 0 .. w - 1 /\ col - w \div 2 \in -1 .. 1
        BY <2>3, <2>5
      <3> HIDE DEF row, col
      <3>2. row * w + col \in s.pixels
        BY <2>2, <3>1 DEF SolidCore
      <3> QED
        BY <3>2 DEF row, col
    <2>7. (a + MaxY(s)) * s.width + a + MaxX(s) = (a + h \div 2) * w + (a + w \div 2)
      BY <2>3, <2>4
    <2>8. IsSolid(s, a, a, beyond)
      BY <2>6, <2>7 DEF IsSolid
    <2>9. a \in -MaxX(s) .. MaxX(s) /\ c[2] \in -MaxY(s) .. MaxY(s)
      BY <2>3, <2>4
    <2> QED
      BY <2>8, <2>9 DEF HitsTank, s
  <1> QED
    BY <1>1, DrivingInvariant, PTL


-----------------------------------------------------------------------------
(* How many cells of the body a move finds solid: the cells are numbered,  *)
(* each with a number of its own.                                          *)
LEMMA AtMost ==
    ASSUME NEW n \in Nat, NEW S, NEW f \in [S -> 1 .. n],
           \A a, b \in S : f[a] = f[b] => a = b
    PROVE  Cardinality(S) <= n
  <1>1. f \in Injection(S, 1 .. n)
    BY DEF Injection, IsInjective
  <1>2. IsFiniteSet(1 .. n) /\ Cardinality(1 .. n) = n
    BY FS_Interval
  <1> QED
    BY <1>1, <1>2, FS_Injection

(* A body of three by five, and the offset past it.  A column has four     *)
(* cells, in consecutive rows, and two columns have one past the last row. *)
Upright(cx, cy) == 3 * (cy + 2) + cx + 1
UprightNumber(cx, cy) ==
    IF Upright(cx, cy) = 15 THEN IF cx < 0 THEN 21 ELSE 22
                            ELSE 4 * (cx + 2) + (cy % 4) + 1
UprightPixels(k) == k .. k + 11

(* No two cells have the same number.                                      *)
LEMMA UprightInjective ==
    ASSUME NEW k \in {0, 3},
           NEW ax \in -2 .. 2, NEW ay \in -3 .. 3, NEW bx \in -2 .. 2, NEW by \in -3 .. 3,
           Upright(ax, ay) \in UprightPixels(k) \cup {15},
           Upright(bx, by) \in UprightPixels(k) \cup {15},
           UprightNumber(ax, ay) = UprightNumber(bx, by)
    PROVE  ax = bx /\ ay = by
  BY DEF Upright, UprightNumber, UprightPixels

(* The numbers are 1 to 22.                                                *)
LEMMA UprightTyped ==
    ASSUME NEW cx \in -2 .. 2, NEW cy \in -3 .. 3
    PROVE  UprightNumber(cx, cy) \in 1 .. 22
  BY DEF Upright, UprightNumber

(* A body of five by three, and the offset past it.  A column has three    *)
(* cells, in consecutive rows, and two columns have one past the last row. *)
(* The body fills the columns from k on.                                   *)
Level(cx, cy) == 5 * (cy + 1) + cx + 2
LevelNumber(k, cx, cy) ==
    IF Level(cx, cy) = 15 THEN IF cx < 0 THEN 1 + 3 * k ELSE 22
                          ELSE 3 * (cx + 3) + (cy % 3) + 1
LevelPixels(k) == {5 * row + col : row \in 0 .. 2, col \in k .. k + 3}

(* No two cells have the same number.                                      *)
LEMMA LevelInjective ==
    ASSUME NEW k \in {0, 1},
           NEW ax \in -3 .. 3, NEW ay \in -2 .. 2, NEW bx \in -3 .. 3, NEW by \in -2 .. 2,
           Level(ax, ay) \in LevelPixels(k) \cup {15},
           Level(bx, by) \in LevelPixels(k) \cup {15},
           LevelNumber(k, ax, ay) = LevelNumber(k, bx, by)
    PROVE  ax = bx /\ ay = by
  BY DEF Level, LevelNumber, LevelPixels

(* The numbers are 1 to 22.                                                *)
LEMMA LevelTyped ==
    ASSUME NEW k \in {0, 1}, NEW cx \in -3 .. 3, NEW cy \in -2 .. 2
    PROVE  LevelNumber(k, cx, cy) \in 1 .. 22
  BY DEF Level, LevelNumber

(* The diagonal body.  In its own columns a cell has the number of its     *)
(* pixel; four cells are read from a neighbouring row.                     *)
Slanted(cx, cy) == 5 * (cy + 2) + cx + 2
SlantedNumber(cx, cy) ==
    IF Slanted(cx, cy) = 25 THEN IF cx < 0 THEN 1 ELSE 3
    ELSE IF cx = -3 THEN 4 ELSE IF cx = 3 THEN 5 ELSE Slanted(cx, cy)
SlantedPixels == {2, 6, 7, 8, 10, 11, 12, 13, 14, 16, 17, 18, 22}

(* No two cells have the same number.                                      *)
LEMMA SlantedInjective ==
    ASSUME NEW ax \in -3 .. 3, NEW ay \in -3 .. 3, NEW bx \in -3 .. 3, NEW by \in -3 .. 3,
           Slanted(ax, ay) \in SlantedPixels \cup {25},
           Slanted(bx, by) \in SlantedPixels \cup {25},
           SlantedNumber(ax, ay) = SlantedNumber(bx, by)
    PROVE  ax = bx /\ ay = by
  BY DEF Slanted, SlantedNumber, SlantedPixels

(* The numbers are 1 to 22.                                                *)
LEMMA SlantedTyped ==
    ASSUME NEW cx \in -3 .. 3, NEW cy \in -3 .. 3,
           Slanted(cx, cy) \in SlantedPixels \cup {25}
    PROVE  SlantedNumber(cx, cy) \in 1 .. 22
  BY DEF Slanted, SlantedNumber, SlantedPixels


(* A shape of w by h with no pixels but those in P.                        *)
Holds(s, w, h, P) == s.width = w /\ s.height = h /\ s.pixels \subseteq P

(* Each pixel of the turned shape comes from one of the shape.             *)
LEMMA RotatedFrom ==
    ASSUME NEW s, NEW q \in Rotate(s).pixels
    PROVE  \E i \in 0 .. s.width - 1 : \E j \in 0 .. s.height - 1 :
             j * s.width + i \in s.pixels /\ q = i * s.height + s.height - 1 - j
  <1>1. Rotate(s).pixels =
          {c[1] * s.height + s.height - 1 - c[2] : c \in
             {p \in (0 .. s.width - 1) \X (0 .. s.height - 1) :
                p[2] * s.width + p[1] \in s.pixels}}
    BY DEF Rotate, Shape
  <1>2. PICK c \in {p \in (0 .. s.width - 1) \X (0 .. s.height - 1) :
                      p[2] * s.width + p[1] \in s.pixels} :
          q = c[1] * s.height + s.height - 1 - c[2]
    BY <1>1
  <1> QED
    BY <1>2

(* The straight body as it is drawn.                                       *)
LEMMA BodyNHolds == Holds(BodyN, 3, 5, 0 .. 11)
  BY DEF Holds, BodyN, Shape

(* A quarter turned.                                                       *)
LEMMA BodyEHolds == Holds(Rotate(BodyN), 5, 3, LevelPixels(1))
  <1>1. /\ BodyN.width = 3 /\ BodyN.height = 5 /\ BodyN.pixels \subseteq 0 .. 11
        /\ Rotate(BodyN).width = 5 /\ Rotate(BodyN).height = 3
    BY BodyNHolds, RotatedSize DEF Holds
  <1>2. ASSUME NEW q \in Rotate(BodyN).pixels
        PROVE  q \in LevelPixels(1)
    <2>1. PICK i \in 0 .. 2 : \E j \in 0 .. 4 :
            j * 3 + i \in 0 .. 11 /\ q = i * 5 + 5 - 1 - j
      BY <1>1, RotatedFrom
    <2>2. PICK j \in 0 .. 4 : j * 3 + i \in 0 .. 11 /\ q = i * 5 + 5 - 1 - j
      BY <2>1
    <2>3. 4 - j \in 1 .. 4 /\ q = 5 * i + (4 - j)
      BY <2>2
    <2> QED
      BY <2>3 DEF LevelPixels
  <1> QED
    BY <1>1, <1>2 DEF Holds

(* Half turned.                                                            *)
LEMMA BodySHolds == Holds(Rotate(Rotate(BodyN)), 3, 5, 3 .. 14)
  <1> DEFINE s == Rotate(BodyN)
  <1>1. /\ s.width = 5 /\ s.height = 3 /\ s.pixels \subseteq LevelPixels(1)
        /\ Rotate(s).width = 3 /\ Rotate(s).height = 5
    BY BodyEHolds, RotatedSize DEF Holds
  <1> HIDE DEF s
  <1>2. ASSUME NEW q \in Rotate(s).pixels
        PROVE  q \in 3 .. 14
    <2>0. \E i \in 0 .. s.width - 1 : \E j \in 0 .. s.height - 1 :
            j * s.width + i \in s.pixels /\ q = i * s.height + s.height - 1 - j
      BY RotatedFrom
    <2>1. PICK i \in 0 .. 4 : \E j \in 0 .. 2 :
            j * 5 + i \in LevelPixels(1) /\ q = i * 3 + 3 - 1 - j
      BY <1>1, <2>0
    <2>2. PICK j \in 0 .. 2 : j * 5 + i \in LevelPixels(1) /\ q = i * 3 + 3 - 1 - j
      BY <2>1
    <2>3. i \in 1 .. 4
      BY <2>2 DEF LevelPixels
    <2> QED
      BY <2>2, <2>3
  <1> QED
    BY <1>1, <1>2 DEF Holds, s

(* Three quarters turned.                                                  *)
LEMMA BodyWHolds == Holds(Rotate(Rotate(Rotate(BodyN))), 5, 3, LevelPixels(0))
  <1> DEFINE s == Rotate(Rotate(BodyN))
  <1>1. /\ s.width = 3 /\ s.height = 5 /\ s.pixels \subseteq 3 .. 14
        /\ Rotate(s).width = 5 /\ Rotate(s).height = 3
    BY BodySHolds, RotatedSize DEF Holds
  <1> HIDE DEF s
  <1>2. ASSUME NEW q \in Rotate(s).pixels
        PROVE  q \in LevelPixels(0)
    <2>1. PICK i \in 0 .. 2 : \E j \in 0 .. 4 :
            j * 3 + i \in 3 .. 14 /\ q = i * 5 + 5 - 1 - j
      BY <1>1, RotatedFrom
    <2>2. PICK j \in 0 .. 4 : j * 3 + i \in 3 .. 14 /\ q = i * 5 + 5 - 1 - j
      BY <2>1
    <2>3. 4 - j \in 0 .. 3 /\ q = 5 * i + (4 - j)
      BY <2>2
    <2> QED
      BY <2>3 DEF LevelPixels
  <1> QED
    BY <1>1, <1>2 DEF Holds, s

(* What the loops over a belt of bw by bh find solid in a body.            *)
LEMMA WithinHolds ==
    ASSUME NEW belt, NEW bw \in {5, 7}, NEW bh \in {5, 7},
           belt.width = bw, belt.height = bh,
           NEW s, NEW w \in {3, 5}, NEW h \in {3, 5}, NEW P, Holds(s, w, h, P),
           NEW beyond, NEW c \in Within(belt, s, beyond)
    PROVE  /\ c = <<c[1], c[2]>>
           /\ c[1] \in -(bw \div 2) .. bw \div 2 /\ c[2] \in -(bh \div 2) .. bh \div 2
           /\ w * (c[2] + h \div 2) + c[1] + w \div 2 \in P \cup {w * h}
  <1>1. /\ MaxX(belt) = bw \div 2 /\ MaxY(belt) = bh \div 2
        /\ MaxX(s) = w \div 2 /\ MaxY(s) = h \div 2
        /\ s.width = w /\ s.height = h /\ s.pixels \subseteq P
    BY DEF Holds, MaxX, MaxY
  <1>2. /\ c \in (-(bw \div 2) .. bw \div 2) \X (-(bh \div 2) .. bh \div 2)
        /\ IsSolid(s, c[1], c[2], beyond)
    BY <1>1 DEF Within
  <1>3. (c[2] + h \div 2) * w + c[1] + w \div 2 \in s.pixels \cup {w * h}
    BY <1>1, <1>2 DEF IsSolid
  <1>4. (c[2] + h \div 2) * w + c[1] + w \div 2 = w * (c[2] + h \div 2) + c[1] + w \div 2
    BY <1>2
  <1> QED
    BY <1>1, <1>2, <1>3, <1>4

(* Three by five within the upright belt.                                  *)
LEMMA UprightSmall ==
    ASSUME NEW k \in {0, 3}, NEW s, Holds(s, 3, 5, UprightPixels(k)),
           NEW belt, belt.width = 5, belt.height = 7, NEW beyond
    PROVE  Cardinality(Within(belt, s, beyond)) <= 22
  <1> DEFINE C == Within(belt, s, beyond)
             f == [c \in C |-> UprightNumber(c[1], c[2])]
  <1>1. ASSUME NEW c \in C
        PROVE  /\ c = <<c[1], c[2]>> /\ c[1] \in -2 .. 2 /\ c[2] \in -3 .. 3
               /\ Upright(c[1], c[2]) \in UprightPixels(k) \cup {15}
    <2>1. /\ c = <<c[1], c[2]>>
          /\ c[1] \in -(5 \div 2) .. 5 \div 2 /\ c[2] \in -(7 \div 2) .. 7 \div 2
          /\ 3 * (c[2] + 5 \div 2) + c[1] + 3 \div 2 \in UprightPixels(k) \cup {3 * 5}
      BY WithinHolds
    <2> QED
      BY <2>1 DEF Upright
  <1> HIDE DEF C
  <1>2. f \in [C -> 1 .. 22]
    BY <1>1, UprightTyped
  <1>3. ASSUME NEW a \in C, NEW b \in C, f[a] = f[b]
        PROVE  a = b
    <2>1. UprightNumber(a[1], a[2]) = UprightNumber(b[1], b[2])
      BY <1>3
    <2>2. a[1] = b[1] /\ a[2] = b[2]
      BY <1>1, <2>1, UprightInjective
    <2> QED
      BY <1>1, <2>2
  <1> HIDE DEF f
  <1>4. Cardinality(C) <= 22
    BY <1>2, <1>3, AtMost
  <1> QED
    BY <1>4 DEF C

(* Five by three within the belt that lies.                                *)
LEMMA LevelSmall ==
    ASSUME NEW k \in {0, 1}, NEW s, Holds(s, 5, 3, LevelPixels(k)),
           NEW belt, belt.width = 7, belt.height = 5, NEW beyond
    PROVE  Cardinality(Within(belt, s, beyond)) <= 22
  <1> DEFINE C == Within(belt, s, beyond)
             f == [c \in C |-> LevelNumber(k, c[1], c[2])]
  <1>1. ASSUME NEW c \in C
        PROVE  /\ c = <<c[1], c[2]>> /\ c[1] \in -3 .. 3 /\ c[2] \in -2 .. 2
               /\ Level(c[1], c[2]) \in LevelPixels(k) \cup {15}
    <2>1. /\ c = <<c[1], c[2]>>
          /\ c[1] \in -(7 \div 2) .. 7 \div 2 /\ c[2] \in -(5 \div 2) .. 5 \div 2
          /\ 5 * (c[2] + 3 \div 2) + c[1] + 5 \div 2 \in LevelPixels(k) \cup {5 * 3}
      BY WithinHolds
    <2> QED
      BY <2>1 DEF Level
  <1> HIDE DEF C
  <1>2. f \in [C -> 1 .. 22]
    BY <1>1, LevelTyped
  <1>3. ASSUME NEW a \in C, NEW b \in C, f[a] = f[b]
        PROVE  a = b
    <2>1. a[1] = b[1] /\ a[2] = b[2]
      BY <1>1, <1>3, LevelInjective
    <2> QED
      BY <1>1, <2>1
  <1> HIDE DEF f
  <1>4. Cardinality(C) <= 22
    BY <1>2, <1>3, AtMost
  <1> QED
    BY <1>4 DEF C

(* The diagonal body within a diagonal belt.                               *)
LEMMA SlantedSmall ==
    ASSUME NEW belt, belt.width = 7, belt.height = 7, NEW beyond
    PROVE  Cardinality(Within(belt, BodyDiagonal, beyond)) <= 22
  <1> DEFINE C == Within(belt, BodyDiagonal, beyond)
             f == [c \in C |-> SlantedNumber(c[1], c[2])]
  <1>1. ASSUME NEW c \in C
        PROVE  /\ c = <<c[1], c[2]>> /\ c[1] \in -3 .. 3 /\ c[2] \in -3 .. 3
               /\ Slanted(c[1], c[2]) \in SlantedPixels \cup {25}
    <2>1. Holds(BodyDiagonal, 5, 5, SlantedPixels)
      BY DEF Holds, BodyDiagonal, Shape, SlantedPixels
    <2>2. /\ c = <<c[1], c[2]>>
          /\ c[1] \in -(7 \div 2) .. 7 \div 2 /\ c[2] \in -(7 \div 2) .. 7 \div 2
          /\ 5 * (c[2] + 5 \div 2) + c[1] + 5 \div 2 \in SlantedPixels \cup {5 * 5}
      BY <2>1, WithinHolds
    <2> QED
      BY <2>2 DEF Slanted
  <1> HIDE DEF C
  <1>2. f \in [C -> 1 .. 22]
    BY <1>1, SlantedTyped
  <1>3. ASSUME NEW a \in C, NEW b \in C, f[a] = f[b]
        PROVE  a = b
    <2>1. a[1] = b[1] /\ a[2] = b[2]
      BY <1>1, <1>3, SlantedInjective
    <2> QED
      BY <1>1, <2>1
  <1> HIDE DEF f
  <1>4. Cardinality(C) <= 22
    BY <1>2, <1>3, AtMost
  <1> QED
    BY <1>4 DEF C

(* In every direction, whatever is read past the last pixel.               *)
LEMMA BodiesSmall ==
    ASSUME NEW d \in Directions, NEW beyond \in BOOLEAN
    PROVE  Cardinality(BodyCells[d][beyond]) <= 22
  <1>1. BodyCells[d][beyond] = Within(BeltShape[d], BodyShape[d], beyond)
    BY DEF BodyCells
  <1>2. CASE d = "N"
    <2>1. BeltShape[d].width = 5 /\ BeltShape[d].height = 7 /\ BodyShape[d] = BodyN
      BY <1>2, BeltNReaches DEF BeltShape, BodyShape, Reaches
    <2>2. Holds(BodyN, 3, 5, UprightPixels(0))
      BY BodyNHolds DEF UprightPixels
    <2> QED
      BY <1>1, <2>1, <2>2, UprightSmall
  <1>3. CASE d = "E"
    <2>1. BeltShape[d].width = 7 /\ BeltShape[d].height = 5 /\ BodyShape[d] = Rotate(BodyN)
      BY <1>3, BeltEReaches DEF BeltShape, BodyShape, Reaches
    <2> QED
      BY <1>1, <2>1, BodyEHolds, LevelSmall
  <1>4. CASE d = "S"
    <2>1. /\ BeltShape[d].width = 5 /\ BeltShape[d].height = 7
          /\ BodyShape[d] = Rotate(Rotate(BodyN))
      BY <1>4, BeltSReaches DEF BeltShape, BodyShape, Reaches
    <2>2. Holds(Rotate(Rotate(BodyN)), 3, 5, UprightPixels(3))
      BY BodySHolds DEF UprightPixels
    <2> QED
      BY <1>1, <2>1, <2>2, UprightSmall
  <1>5. CASE d = "W"
    <2>1. /\ BeltShape[d].width = 7 /\ BeltShape[d].height = 5
          /\ BodyShape[d] = Rotate(Rotate(Rotate(BodyN)))
      BY <1>5, BeltWReaches DEF BeltShape, BodyShape, Reaches
    <2> QED
      BY <1>1, <2>1, BodyWHolds, LevelSmall
  <1>6. CASE d \in {"NE", "SW", "SE", "NW"}
    <2>1. BeltShape[d] \in {BeltNE, Rotate(BeltNE)} /\ BodyShape[d] = BodyDiagonal
      BY <1>6 DEF BeltShape, BodyShape
    <2>2. BeltShape[d].width = 7 /\ BeltShape[d].height = 7
      BY <2>1, BeltNEReaches, BeltSEReaches DEF Reaches
    <2> QED
      BY <1>1, <2>1, <2>2, SlantedSmall
  <1> QED
    BY <1>2, <1>3, <1>4, <1>5, <1>6 DEF Directions

(* So many cells are a number of them.                                     *)
LEMMA BodiesFinite ==
    ASSUME NEW d \in Directions, NEW beyond \in BOOLEAN
    PROVE  IsFiniteSet(BodyCells[d][beyond])
  <1> DEFINE belt == BeltShape[d]
             P == (-MaxX(belt) .. MaxX(belt)) \X (-MaxY(belt) .. MaxY(belt))
  <1>1. PICK bw \in {5, 7}, bh \in {5, 7} : Reaches(belt, bw, bh)
    BY BeltReaches
  <1>2. MaxX(belt) \in Int /\ MaxY(belt) \in Int
    BY <1>1 DEF Reaches, MaxX, MaxY
  <1>3. IsFiniteSet(P)
    <2> DEFINE A == -MaxX(belt) .. MaxX(belt)
               B == -MaxY(belt) .. MaxY(belt)
    <2>1. IsFiniteSet(A) /\ IsFiniteSet(B)
      BY <1>2, FS_Interval
    <2> HIDE DEF A, B
    <2>2. IsFiniteSet(A \X B)
      BY <2>1, FS_Product
    <2> QED
      BY <2>2 DEF A, B
  <1>4. BodyCells[d][beyond] \subseteq P
    BY DEF BodyCells, Within
  <1> QED
    BY <1>3, <1>4, FS_Subset

(* No move breaks more than 22 blocks, fewer than half the 49 that         *)
(* warzone.h reckons with, although _warzone_break_blocks_around also      *)
(* reads the neighbouring rows and the pixel past the last.                *)
THEOREM BreaksAlwaysBounded ==
    ASSUME MaxBreaks >= 22
    PROVE  Spec => []BreaksBounded
  <1>1. DrivingInv => BreaksBounded
    <2> SUFFICES ASSUME DrivingInv, what = "tank", NEW beyond \in BOOLEAN
                 PROVE  Cardinality(BodyCells[dir][beyond]) <= MaxBreaks
      BY DEF BreaksBounded
    <2>1. dir \in Directions
      BY DEF DrivingInv, Faces
    <2> DEFINE n == Cardinality(BodyCells[dir][beyond])
    <2>2. n <= 22
      BY <2>1, BodiesSmall
    <2>3. n \in Nat
      BY <2>1, BodiesFinite, FS_CardinalityType
    <2> HIDE DEF n
    <2>4. n <= MaxBreaks
      BY <2>2, <2>3, DrivingAssumption
    <2> QED
      BY <2>4 DEF n
  <1> QED
    BY <1>1, DrivingInvariant, PTL
=============================================================================
