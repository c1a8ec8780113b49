---------------------------- MODULE BurnInProofs ----------------------------
(* The burn-in shift stays in its amplitude, moves at every minute and is   *)
(* the same in both ports, for every bound, every config and every time     *)
(* before or after the epoch.                                               *)
EXTENDS BurnIn, TLAPS

-----------------------------------------------------------------------------
(* Quotients and remainders.                                                *)

(* Division rounds down: the quotient and the remainder give the dividend   *)
(* back, and the remainder is that of a cell of a row.                      *)
LEMMA DivMod ==
    ASSUME NEW a \in Int, NEW b \in Nat \ {0}
    PROVE  /\ a \div b \in Int /\ a % b \in 0..(b - 1)
           /\ a = b * (a \div b) + (a % b)
  BY SMT

(* There is one such quotient and remainder.                                *)
LEMMA Unique ==
    ASSUME NEW b \in Nat \ {0}, NEW q \in Int, NEW r \in 0..(b - 1),
           NEW p \in Int, NEW s \in 0..(b - 1),
           b * q + r = b * p + s
    PROVE  q = p /\ r = s
<1>1. b * (q - p) = s - r /\ -b < s - r /\ s - r < b
  BY SMT
<1>2. q - p < 1 /\ q - p > -1
  <2>1. CASE q - p >= 1
    <3>1. b * (q - p) >= b BY <2>1, SMT
    <3> QED BY <1>1, <3>1, SMT
  <2>2. CASE q - p =< -1
    <3>1. b * (q - p) =< -b BY <2>2, SMT
    <3> QED BY <1>1, <3>1, SMT
  <2> QED BY <2>1, <2>2, SMT
<1>3. q = p BY <1>2, SMT
<1> QED BY <1>3, SMT

(* The cells of a square grid have as many rows as columns.                 *)
LEMMA Quotient ==
    ASSUME NEW b \in Nat \ {0}, NEW a \in 0..(b * b - 1)
    PROVE  a \div b \in 0..(b - 1)
<1> DEFINE q == a \div b
           r == a % b
<1>1. q \in Int /\ r \in 0..(b - 1) /\ a = b * q + r
  BY DivMod, SMT
<1> HIDE DEF q, r
<1>2. q < b
  <2>1. SUFFICES ASSUME q >= b PROVE FALSE BY <1>1, SMT
  <2>2. b * q >= b * b BY <1>1, <2>1, SMT
  <2> QED BY <1>1, <2>2, SMT
<1>3. q >= 0
  <2>1. SUFFICES ASSUME q =< -1 PROVE FALSE BY <1>1, SMT
  <2>2. b * q =< -b BY <1>1, <2>1, SMT
  <2> QED BY <1>1, <2>2, SMT
<1> QED BY <1>1, <1>2, <1>3 DEF q

(* Rounding toward zero and correcting is rounding down: the Swift port     *)
(* computes Math.floorMod and Math.floorDiv.                                *)
LEMMA SwiftFloors ==
    ASSUME NEW a \in Int, NEW b \in Nat \ {0}
    PROVE  SwiftFloorMod(a, b) = FloorMod(a, b) /\ SwiftFloorDiv(a, b) = FloorDiv(a, b)
<1>1. CASE a >= 0
  BY <1>1, DivMod, SMT DEF SwiftFloorMod, FloorMod, TruncatedMod, SwiftFloorDiv, FloorDiv, TruncatedDiv
<1>2. CASE a < 0
  <2> DEFINE q == (-a) \div b
             r == (-a) % b
  <2>1. q \in Int /\ r \in 0..(b - 1) /\ -a = b * q + r
    <3>1. -a \in Int BY SMT
    <3> QED BY <3>1, DivMod
  <2>2. a \div b \in Int /\ a % b \in 0..(b - 1) /\ a = b * (a \div b) + (a % b)
    BY DivMod
  <2>3. SwiftFloorMod(a, b) = IF r # 0 THEN b - r ELSE 0
    BY <1>2, <2>1, SMT DEF SwiftFloorMod, TruncatedMod
  <2>4. SwiftFloorDiv(a, b) = IF r # 0 THEN (-q) - 1 ELSE -q
    BY <1>2, <2>1, SMT DEF SwiftFloorDiv, TruncatedMod, TruncatedDiv
  <2> HIDE DEF q, r
  <2>5. CASE r = 0
    <3>1. b * (-q) + 0 = b * (a \div b) + (a % b) BY <2>1, <2>2, <2>5, SMT
    <3>2. -q = a \div b /\ 0 = a % b
       <4> -q \in Int /\ 0 \in 0..(b-1) BY <2>1, SMT
       <4> QED BY <3>1, <2>2, Unique
    <3> QED BY <2>3, <2>4, <2>5, <3>2 DEF FloorMod, FloorDiv
  <2>6. CASE r # 0
    <3>1. b * ((-q) - 1) + (b - r) = b * (a \div b) + (a % b) BY <2>1, <2>2, SMT
    <3>2. (-q) - 1 = a \div b /\ b - r = a % b
       <4> (-q) - 1 \in Int /\ b - r \in 0..(b-1) BY <2>1, <2>6, SMT
       <4> QED BY <3>1, <2>2, Unique
    <3> QED BY <2>1, <2>3, <2>4, <2>6, <3>2, SMT DEF FloorMod, FloorDiv
  <2> QED BY <2>5, <2>6
<1> QED BY <1>1, <1>2, SMT

-----------------------------------------------------------------------------
(* The scan.                                                                *)

(* A cell of the cycle is a position of the grid.                           *)
LEMMA CellInGrid ==
    ASSUME NEW bound \in 0..BoundPx, NEW cell \in 0..(CycleMinutes(bound) - 1)
    PROVE  /\ CellOffset(cell, bound).x \in -bound..bound
           /\ CellOffset(cell, bound).y \in -bound..bound
<1> DEFINE span == Span(bound)
           row == cell \div span
           col == cell % span
<1>1. span \in Nat \ {0} /\ span = 2 * bound + 1 BY SMT DEF Span, BoundPx
<1>2. cell \in 0..(span * span - 1) BY DEF CycleMinutes
<1>3. row \in 0..(span - 1) BY <1>1, <1>2, Quotient
<1>4. cell \in Int BY <1>1, <1>2, SMT
<1>5. col \in 0..(span - 1) BY <1>1, <1>4, DivMod
<1>6. CellOffset(cell, bound) =
        [x |-> (IF row % 2 = 0 THEN col ELSE span - 1 - col) - bound, y |-> row - bound]
  BY DEF CellOffset
<1> HIDE DEF span, row, col
<1> QED BY <1>1, <1>3, <1>5, <1>6, SMT DEF BoundPx

(* No two cells of the cycle have the same position.                        *)
LEMMA ScanInjective ==
    ASSUME NEW bound \in 0..BoundPx,
           NEW k \in 0..(CycleMinutes(bound) - 1), NEW l \in 0..(CycleMinutes(bound) - 1),
           CellOffset(k, bound) = CellOffset(l, bound)
    PROVE  k = l
<1> DEFINE span == Span(bound)
           Col(c) == IF (c \div span) % 2 = 0 THEN c % span ELSE span - 1 - (c % span)
<1>1. span \in Nat \ {0} /\ bound \in Int BY SMT DEF Span, BoundPx
<1>2. k \in Int /\ l \in Int BY <1>1, SMT DEF CycleMinutes
<1>3. /\ CellOffset(k, bound).y = (k \div span) - bound
      /\ CellOffset(l, bound).y = (l \div span) - bound
      /\ CellOffset(k, bound).x = Col(k) - bound
      /\ CellOffset(l, bound).x = Col(l) - bound
  BY DEF CellOffset
<1>4. /\ k \div span \in Int /\ k % span \in 0..(span - 1)
      /\ k = span * (k \div span) + (k % span)
  BY <1>1, <1>2, DivMod
<1>5. /\ l \div span \in Int /\ l % span \in 0..(span - 1)
      /\ l = span * (l \div span) + (l % span)
  BY <1>1, <1>2, DivMod
<1>6. k \div span = l \div span
  <2>1. (k \div span) - bound = (l \div span) - bound BY <1>3
  <2> HIDE DEF span
  <2> QED BY <1>1, <1>4, <1>5, <2>1, SMT
<1>7. Col(k) = Col(l)
  <2>1. Col(k) - bound = Col(l) - bound BY <1>3
  <2>2. Col(k) \in Int /\ Col(l) \in Int
    <3> HIDE DEF span
    <3> QED BY <1>1, <1>4, <1>5, SMT
  <2> HIDE DEF Col
  <2> QED BY <1>1, <2>1, <2>2, SMT
<1>8. k % span = l % span
  <2> HIDE DEF span
  <2> QED BY <1>1, <1>4, <1>5, <1>6, <1>7, SMT
<1> QED BY <1>4, <1>5, <1>6, <1>8

(* A step of a minute: the next cell of the row, the first one the scan     *)
(* meets in the next row, or back to the start.                             *)
LEMMA NextCell ==
    ASSUME NEW bound \in 1..BoundPx, NEW c \in 0..(CycleMinutes(bound) - 2)
    PROVE  LET p == CellOffset(c, bound)
               q == CellOffset(c + 1, bound)
           IN  \/ q.y = p.y /\ q.x - p.x \in {-1, 1}
               \/ q.x = p.x /\ q.y - p.y = 1
<1> DEFINE span == Span(bound)
           row == c \div span
           col == c % span
           nextrow == (c + 1) \div span
           nextcol == (c + 1) % span
<1>1. span \in Nat \ {0} /\ span >= 3 /\ bound \in Int BY SMT DEF Span, BoundPx
<1>2. c \in Int /\ c + 1 \in Int BY <1>1, SMT DEF CycleMinutes
<1>3. row \in Int /\ col \in 0..(span - 1) /\ c = span * row + col
  BY <1>1, <1>2, DivMod
<1>4. nextrow \in Int /\ nextcol \in 0..(span - 1) /\ c + 1 = span * nextrow + nextcol
  BY <1>1, <1>2, DivMod
<1>5. /\ CellOffset(c, bound) =
          [x |-> (IF row % 2 = 0 THEN col ELSE span - 1 - col) - bound, y |-> row - bound]
      /\ CellOffset(c + 1, bound) =
          [x |-> (IF nextrow % 2 = 0 THEN nextcol ELSE span - 1 - nextcol) - bound,
           y |-> nextrow - bound]
  BY DEF CellOffset
<1> HIDE DEF span, row, col, nextrow, nextcol
<1>6. CASE col < span - 1
  <2>1. span * row + (col + 1) = span * nextrow + nextcol BY <1>1, <1>3, <1>4, SMT
  <2>2. col + 1 \in 0..(span - 1) BY <1>1, <1>3, <1>6, SMT
  <2>3. nextrow = row /\ nextcol = col + 1
    BY <1>1, <1>3, <1>4, <2>1, <2>2, Unique
  <2> QED BY <1>1, <1>3, <1>5, <2>3, SMT
<1>7. CASE col = span - 1
  <2>1. span * (row + 1) + 0 = span * nextrow + nextcol BY <1>1, <1>3, <1>4, <1>7, SMT
  <2>2. row + 1 \in Int /\ 0 \in 0..(span - 1) BY <1>1, <1>3, SMT
  <2>3. nextrow = row + 1 /\ nextcol = 0
    BY <1>1, <1>4, <2>1, <2>2, Unique
  <2> QED BY <1>1, <1>3, <1>5, <1>7, <2>3, SMT
<1> QED BY <1>1, <1>3, <1>6, <1>7, SMT

(* The first and the last position of the cycle.                            *)
LEMMA Corners ==
    ASSUME NEW bound \in 0..BoundPx
    PROVE  /\ CellOffset(0, bound) = [x |-> -bound, y |-> -bound]
           /\ CellOffset(CycleMinutes(bound) - 1, bound) = [x |-> bound, y |-> bound]
<1> DEFINE span == Span(bound)
           last == CycleMinutes(bound) - 1
<1>1. span \in Nat \ {0} /\ span = 2 * bound + 1 BY SMT DEF Span, BoundPx
<1>2. 0 \div span = 0 /\ 0 % span = 0
  <2>1. 0 \div span \in Int /\ 0 % span \in 0..(span - 1)
        /\ 0 = span * (0 \div span) + (0 % span)
    <3>1. 0 \in Int BY SMT
    <3> HIDE DEF span
    <3> QED BY <1>1, <3>1, DivMod
  <2>2. 0 \in Int /\ 0 \in 0..(span - 1) /\ span * 0 + 0 = 0 BY <1>1, SMT
  <2> QED BY <1>1, <2>1, <2>2, Unique
<1>3. last \div span = span - 1 /\ last % span = span - 1
  <2> DEFINE q == last \div span
             r == last % span
             t == span - 1
  <2>1. last \in Int /\ last = span * t + t
    BY <1>1, SMT DEF CycleMinutes
  <2>2. q \in Int /\ r \in 0..(span - 1) /\ last = span * q + r
    BY <1>1, <2>1, DivMod
  <2>3. t \in Int /\ t \in 0..(span - 1) BY <1>1, SMT
  <2> HIDE DEF span, last, q, r, t
  <2>4. q = t /\ r = t BY <1>1, <2>1, <2>2, <2>3, Unique
  <2> QED BY <2>4 DEF q, r, t
<1>4. /\ CellOffset(0, bound) =
          [x |-> (IF (0 \div span) % 2 = 0 THEN 0 % span ELSE span - 1 - (0 % span)) - bound,
           y |-> (0 \div span) - bound]
      /\ CellOffset(last, bound) =
          [x |-> (IF (last \div span) % 2 = 0 THEN last % span
                  ELSE span - 1 - (last % span)) - bound,
           y |-> (last \div span) - bound]
  BY DEF CellOffset
<1> HIDE DEF span, last
<1>5. (span - 1) % 2 = 0
  <2>1. bound \in Int BY SMT DEF BoundPx
  <2> QED BY <1>1, <2>1, SMT
<1>6. CellOffset(0, bound) = [x |-> 0 - bound, y |-> 0 - bound]
  <2>1. 0 % 2 = 0 BY SMT
  <2> QED BY <1>2, <1>4, <2>1
<1>7. CellOffset(last, bound) = [x |-> span - 1 - bound, y |-> span - 1 - bound]
  BY <1>3, <1>4, <1>5
<1>8. 0 - bound = -bound /\ span - 1 - bound = bound BY <1>1, SMT DEF BoundPx
<1> QED BY <1>6, <1>7, <1>8 DEF last

-----------------------------------------------------------------------------
(* The schedule.                                                            *)

(* Every minute has a cell.                                                 *)
LEMMA CellOfMinute ==
    ASSUME NEW bound \in 0..BoundPx, NEW m \in Int
    PROVE  /\ CycleMinutes(bound) \in Nat \ {0}
           /\ FloorMod(m, CycleMinutes(bound)) \in 0..(CycleMinutes(bound) - 1)
<1>1. CycleMinutes(bound) \in Nat \ {0}
  <2>1. Span(bound) \in Nat \ {0} BY SMT DEF Span, BoundPx
  <2> QED BY <2>1, SMT DEF CycleMinutes
<1> QED BY <1>1, DivMod DEF FloorMod

(* The lengths of the cycles that a picture in motion can have.             *)
LEMMA Cycles ==
    ASSUME NEW bound \in 1..BoundPx
    PROVE  CycleMinutes(bound) \in {9, 25, 49, 81, 121, 169, 225, 289}
<1>1. bound \in {1, 2, 3, 4, 5, 6, 7, 8} BY SMT DEF BoundPx
<1> QED BY <1>1, SMT DEF CycleMinutes, Span

(* A minute later, and at a change of the zone's offset, the cell is        *)
(* another.                                                                 *)
LEMMA AnotherCell ==
    ASSUME NEW cycle \in {9, 25, 49, 81, 121, 169, 225, 289}, NEW m \in Int,
           NEW step \in {1, -59, -29, 31, 61}
    PROVE  FloorMod(m + step, cycle) # FloorMod(m, cycle)
<1>1. CASE step = 1 BY <1>1, SMT DEF FloorMod
<1>2. CASE step = -59 BY <1>2, SMT DEF FloorMod
<1>3. CASE step = -29 BY <1>3, SMT DEF FloorMod
<1>4. CASE step = 31 BY <1>4, SMT DEF FloorMod
<1>5. CASE step = 61 BY <1>5, SMT DEF FloorMod
<1> QED BY <1>1, <1>2, <1>3, <1>4, <1>5

(* The next minute has the next cell, or the first one.                     *)
LEMMA CellAfter ==
    ASSUME NEW cycle \in Nat \ {0}, NEW m \in Int
    PROVE  \/ FloorMod(m, cycle) = cycle - 1 /\ FloorMod(m + 1, cycle) = 0
           \/ /\ FloorMod(m, cycle) \in 0..(cycle - 2)
              /\ FloorMod(m + 1, cycle) = FloorMod(m, cycle) + 1
<1> DEFINE q == m \div cycle
           r == m % cycle
           p == (m + 1) \div cycle
           s == (m + 1) % cycle
<1>1. q \in Int /\ r \in 0..(cycle - 1) /\ m = cycle * q + r BY DivMod
<1>2. m + 1 \in Int BY SMT
<1>3. p \in Int /\ s \in 0..(cycle - 1) /\ m + 1 = cycle * p + s BY <1>2, DivMod
<1>4. FloorMod(m, cycle) = r /\ FloorMod(m + 1, cycle) = s BY DEF FloorMod
<1> HIDE DEF q, r, p, s
<1>5. CASE r = cycle - 1
  <2>1. cycle * (q + 1) + 0 = cycle * p + s BY <1>1, <1>3, <1>5, SMT
  <2>2. q + 1 \in Int /\ 0 \in 0..(cycle - 1) BY <1>1, SMT
  <2>3. s = 0 BY <1>3, <2>1, <2>2, Unique
  <2> QED BY <1>4, <1>5, <2>3
<1>6. CASE r # cycle - 1
  <2>1. cycle * q + (r + 1) = cycle * p + s BY <1>1, <1>3, SMT
  <2>2. r + 1 \in 0..(cycle - 1) /\ r \in 0..(cycle - 2) BY <1>1, <1>6, SMT
  <2>3. s = r + 1 BY <1>1, <1>3, <2>1, <2>2, Unique
  <2> QED BY <1>4, <2>2, <2>3
<1> QED BY <1>5, <1>6

(* The shift of any minute lies in the configured amplitude.                *)
LEMMA OffsetInGrid ==
    ASSUME NEW bound \in 0..BoundPx, NEW m \in Int
    PROVE  /\ ForMinuteIndex(m, bound).x \in -bound..bound
           /\ ForMinuteIndex(m, bound).y \in -bound..bound
           /\ ForMinuteIndex(m, bound) =
                [x |-> ForMinuteIndex(m, bound).x, y |-> ForMinuteIndex(m, bound).y]
<1> DEFINE cell == FloorMod(m, CycleMinutes(bound))
<1>1. cell \in 0..(CycleMinutes(bound) - 1) BY CellOfMinute
<1>2. ForMinuteIndex(m, bound) = CellOffset(cell, bound) BY DEF ForMinuteIndex
<1>3. CellOffset(cell, bound) =
        [x |-> CellOffset(cell, bound).x, y |-> CellOffset(cell, bound).y]
  BY DEF CellOffset
<1> HIDE DEF cell
<1> QED BY <1>1, <1>2, <1>3, CellInGrid

(* The minute after, and one that the zone's clock jumps to, has another    *)
(* shift unless the amplitude is 0.                                         *)
LEMMA MinutesDiffer ==
    ASSUME NEW bound \in 1..BoundPx, NEW m \in Int, NEW step \in {1, -59, -29, 31, 61}
    PROVE  ForMinuteIndex(m + step, bound) # ForMinuteIndex(m, bound)
<1> DEFINE cycle == CycleMinutes(bound)
           k == FloorMod(m + step, cycle)
           l == FloorMod(m, cycle)
<1>1. bound \in 0..BoundPx /\ m + step \in Int BY SMT DEF BoundPx
<1>2. k \in 0..(cycle - 1) /\ l \in 0..(cycle - 1) BY <1>1, CellOfMinute
<1>3. k # l BY Cycles, AnotherCell
<1>4. /\ ForMinuteIndex(m + step, bound) = CellOffset(k, bound)
      /\ ForMinuteIndex(m, bound) = CellOffset(l, bound)
  BY DEF ForMinuteIndex
<1> HIDE DEF k, l
<1> QED BY <1>1, <1>2, <1>3, <1>4, ScanInjective

(* The scan reaches every position of the grid ...                          *)
LEMMA ScanReaches ==
    ASSUME NEW bound \in 0..BoundPx, NEW x \in -bound..bound, NEW y \in -bound..bound
    PROVE  \E cell \in 0..(CycleMinutes(bound) - 1) : CellOffset(cell, bound) = [x |-> x, y |-> y]
<1> DEFINE span == Span(bound)
           row == y + bound
           col == IF row % 2 = 0 THEN x + bound ELSE span - 1 - (x + bound)
           cell == span * row + col
<1>1. /\ bound \in Int /\ x \in Int /\ y \in Int
      /\ span \in Nat \ {0} /\ span = 2 * bound + 1
  BY SMT DEF Span, BoundPx
<1>2. row \in 0..(span - 1) BY <1>1, SMT
<1>3. col \in 0..(span - 1) BY <1>1, SMT
<1>4. cell \in Int /\ 0 =< cell /\ cell =< span * span - 1
  <2> HIDE DEF span, row, col
  <2>1. span * row >= 0 /\ span * row =< span * (span - 1) BY <1>1, <1>2, SMT
  <2> QED BY <1>1, <1>2, <1>3, <2>1, SMT
<1>5. cell \in 0..(CycleMinutes(bound) - 1)
  <2> HIDE DEF cell
  <2> QED BY <1>1, <1>4, SMT DEF CycleMinutes
<1>6. cell \div span = row /\ cell % span = col
  <2>1. /\ cell \div span \in Int /\ cell % span \in 0..(span - 1)
        /\ cell = span * (cell \div span) + (cell % span)
    <3> HIDE DEF cell, span
    <3> QED BY <1>1, <1>4, DivMod
  <2>2. row \in Int BY <1>1
  <2> HIDE DEF row, col, span
  <2> QED BY <1>1, <1>3, <2>1, <2>2, Unique
<1>7. CellOffset(cell, bound) =
        [x |-> (IF row % 2 = 0 THEN col ELSE span - 1 - col) - bound, y |-> row - bound]
  BY <1>6 DEF CellOffset
<1>8. /\ (IF row % 2 = 0 THEN col ELSE span - 1 - col) - bound = x
      /\ row - bound = y
  BY <1>1, SMT
<1> QED BY <1>5, <1>7, <1>8

(* ... and the schedule reaches every cell within a cycle of any minute.    *)
LEMMA CycleReaches ==
    ASSUME NEW cycle \in Nat \ {0}, NEW m \in Int, NEW cell \in 0..(cycle - 1)
    PROVE  \E n \in m..(m + cycle - 1) : FloorMod(n, cycle) = cell
<1> DEFINE q == (cell - m) \div cycle
           e == (cell - m) % cycle
           n == m + e
<1>1. cell - m \in Int BY SMT
<1>2. q \in Int /\ e \in 0..(cycle - 1) /\ cell - m = cycle * q + e
  BY <1>1, DivMod
<1> HIDE DEF q, e
<1>3. n \in m..(m + cycle - 1) /\ n \in Int BY <1>2, SMT
<1>4. n \div cycle \in Int /\ n % cycle \in 0..(cycle - 1) /\ n = cycle * (n \div cycle) + (n % cycle)
  BY <1>3, DivMod
<1>5. cycle * (-q) + cell = cycle * (n \div cycle) + (n % cycle)
  <2>1. cycle * (-q) + cell = n BY <1>2, SMT
  <2> QED BY <1>4, <2>1
<1>6. -q \in Int BY <1>2, SMT
<1>7. n % cycle = cell
  <2> HIDE DEF n
  <2> QED BY <1>4, <1>5, <1>6, Unique
<1> QED BY <1>3, <1>7 DEF FloorMod

-----------------------------------------------------------------------------
(* The machine.                                                             *)

(* A frame is the shift of its second and its config.                       *)
IInv ==
    /\ second \in First..Last
    /\ config \in Configs
    /\ drawn = Translation(config, second)

(* Inductive: every action draws.                                           *)
LEMMA Drawn == Spec => []IInv
<1> USE BurnInAssumption
<1>1. Init => IInv BY SMT DEF Init, IInv, Configs
<1>2. IInv /\ [Next]_vars => IInv'
  <2> SUFFICES ASSUME IInv, [Next]_vars PROVE IInv' OBVIOUS
  <2>1. CASE Later BY <2>1, SMT DEF IInv, Later, Frame, HalfMinute
  <2>2. CASE Shifted BY <2>2 DEF IInv, Shifted, Frame
  <2>3. CASE Apply BY <2>3 DEF IInv, Apply, Frame
  <2>4. CASE UNCHANGED vars BY <2>4 DEF IInv, vars
  <2> QED BY <2>1, <2>2, <2>3, <2>4 DEF Next
<1> QED BY <1>1, <1>2, PTL DEF Spec

(* What a frame of the machine is.                                          *)
LEMMA FrameShape ==
    ASSUME IInv
    PROVE  /\ second \in Int /\ MinuteIndex(second) \in Int
           /\ config.enabled \in BOOLEAN /\ config.bound \in 0..BoundPx
           /\ config.enabled /\ config.bound # 0 =>
                drawn = ForMinuteIndex(MinuteIndex(second), config.bound)
           /\ ~(config.enabled /\ config.bound # 0) => drawn = [x |-> 0, y |-> 0]
<1> USE BurnInAssumption
<1>1. second \in Int BY SMT DEF IInv
<1>2. MinuteIndex(second) \in Int
  <2>1. CadenceSeconds \in Nat \ {0} BY SMT DEF CadenceSeconds
  <2> QED BY <1>1, <2>1, DivMod DEF MinuteIndex, FloorDiv
<1>3. config.enabled \in BOOLEAN /\ config.bound \in 0..BoundPx BY DEF IInv, Configs
<1> QED BY <1>1, <1>2, <1>3 DEF IInv, Translation

(* Neither axis leaves the configured amplitude, whatever the wall clock    *)
(* says, before the epoch too; and the frame is of its type                 *)
(* (burnInTranslation, BurnInOffset.forMinuteIndex).                        *)
THEOREM AmplitudeKept == Spec => [](TypeOK /\ WithinAmplitude)
<1>1. IInv => TypeOK /\ WithinAmplitude
  <2> SUFFICES ASSUME IInv PROVE TypeOK /\ WithinAmplitude OBVIOUS
  <2> DEFINE b == config.bound
             m == MinuteIndex(second)
  <2>1. b \in 0..BoundPx /\ m \in Int BY FrameShape
  <2>2. /\ drawn.x \in -b..b /\ drawn.y \in -b..b
        /\ drawn = [x |-> drawn.x, y |-> drawn.y]
    <3>1. CASE config.enabled /\ b # 0 BY <2>1, <3>1, FrameShape, OffsetInGrid
    <3>2. CASE ~(config.enabled /\ b # 0)
      <4>1. drawn = [x |-> 0, y |-> 0] BY <3>2, FrameShape
      <4>2. 0 \in -b..b
        <5> HIDE DEF b
        <5> QED BY <2>1, SMT DEF BoundPx
      <4> QED BY <4>1, <4>2
    <3> QED BY <3>1, <3>2
  <2>3. drawn.x \in -BoundPx..BoundPx /\ drawn.y \in -BoundPx..BoundPx
    <3>1. drawn.x \in -b..b /\ drawn.y \in -b..b BY <2>2
    <3> HIDE DEF b
    <3> QED BY <2>1, <3>1, SMT DEF BoundPx
  <2>4. drawn \in [x : -BoundPx..BoundPx, y : -BoundPx..BoundPx] BY <2>2, <2>3
  <2> QED BY <2>2, <2>4 DEF TypeOK, WithinAmplitude, IInv
<1> QED BY <1>1, Drawn, PTL

(* The second, the config and the frame are of their types.                 *)
THEOREM TypeCorrect == Spec => []TypeOK
<1> QED BY AmplitudeKept, PTL

(* The Swift port draws what the Java code draws, at every second of every  *)
(* wall clock.                                                              *)
THEOREM PortsAgree == Spec => []TwinsAgree
<1>1. IInv => TwinsAgree
  <2> SUFFICES ASSUME IInv, config.enabled
               PROVE  drawn = SwiftOffset(second, config.bound)
    BY DEF TwinsAgree
  <2> DEFINE b == config.bound
             m == MinuteIndex(second)
  <2>1. second \in Int /\ b \in 0..BoundPx /\ m \in Int BY FrameShape
  <2>2. SwiftFloorDiv(second, CadenceSeconds) = m
    <3>1. CadenceSeconds \in Nat \ {0} BY SMT DEF CadenceSeconds
    <3> QED BY <2>1, <3>1, SwiftFloors DEF MinuteIndex
  <2>3. SwiftFloorMod(m, CycleMinutes(b)) = FloorMod(m, CycleMinutes(b))
    BY <2>1, CellOfMinute, SwiftFloors
  <2>4. SwiftOffset(second, b) = ForMinuteIndex(m, b)
    BY <2>2, <2>3 DEF SwiftOffset, ForMinuteIndex
  <2>5. CASE b # 0 BY <2>4, <2>5, FrameShape
  <2>6. CASE b = 0
    <3> DEFINE f == ForMinuteIndex(m, b)
    <3>1. f.x \in -b..b /\ f.y \in -b..b /\ f = [x |-> f.x, y |-> f.y]
      BY <2>1, OffsetInGrid
    <3>2. f.x = 0 /\ f.y = 0
      <4> HIDE DEF f, b
      <4> QED BY <2>6, <3>1, SMT
    <3>3. drawn = [x |-> 0, y |-> 0] BY <2>6, FrameShape
    <3> QED BY <2>4, <3>1, <3>2, <3>3
  <2> QED BY <2>5, <2>6
<1> QED BY <1>1, Drawn, PTL

(* Half a minute is no minute or one; a jump of the zone's clock is one of  *)
(* four numbers of minutes.                                                 *)
LEMMA Minutes ==
    ASSUME NEW s \in Int
    PROVE  /\ \/ MinuteIndex(s + HalfMinute) = MinuteIndex(s)
              \/ MinuteIndex(s + HalfMinute) = MinuteIndex(s) + 1
           /\ s % 3600 = 3600 - HalfMinute =>
                \A shift \in Shifts : \E step \in {-59, -29, 31, 61} :
                    MinuteIndex(s + HalfMinute + shift) = MinuteIndex(s) + step
<1>1. \/ MinuteIndex(s + HalfMinute) = MinuteIndex(s)
      \/ MinuteIndex(s + HalfMinute) = MinuteIndex(s) + 1
  BY SMT DEF MinuteIndex, FloorDiv, CadenceSeconds, HalfMinute
<1>2. ASSUME s % 3600 = 3600 - HalfMinute, NEW shift \in Shifts
      PROVE  \E step \in {-59, -29, 31, 61} :
                MinuteIndex(s + HalfMinute + shift) = MinuteIndex(s) + step
  <2>1. CASE shift = -3600
    <3>1. MinuteIndex(s + HalfMinute + shift) = MinuteIndex(s) + (-59)
      BY <1>2, <2>1, SMT DEF MinuteIndex, FloorDiv, CadenceSeconds, HalfMinute
    <3> QED BY <3>1
  <2>2. CASE shift = -1800
    <3>1. MinuteIndex(s + HalfMinute + shift) = MinuteIndex(s) + (-29)
      BY <1>2, <2>2, SMT DEF MinuteIndex, FloorDiv, CadenceSeconds, HalfMinute
    <3> QED BY <3>1
  <2>3. CASE shift = 1800
    <3>1. MinuteIndex(s + HalfMinute + shift) = MinuteIndex(s) + 31
      BY <1>2, <2>3, SMT DEF MinuteIndex, FloorDiv, CadenceSeconds, HalfMinute
    <3> QED BY <3>1
  <2>4. CASE shift = 3600
    <3>1. MinuteIndex(s + HalfMinute + shift) = MinuteIndex(s) + 61
      BY <1>2, <2>4, SMT DEF MinuteIndex, FloorDiv, CadenceSeconds, HalfMinute
    <3> QED BY <3>1
  <2> QED BY <1>2, <2>1, <2>2, <2>3, <2>4 DEF Shifts
<1> QED BY <1>1, <1>2

(* The next minute's frame is elsewhere, at the end of a cycle and over a   *)
(* change of the zone's offset too: the "guaranteed change" of              *)
(* BurnInOffset.java, for every amplitude but 0.                            *)
THEOREM NeverStandsStill == Spec => MovesEveryMinute
<1>1. IInv /\ IInv' /\ [Next]_vars =>
        [ /\ config' = config /\ config.enabled /\ config.bound > 0
          /\ MinuteIndex(second') # MinuteIndex(second)
          => drawn' # drawn ]_vars
  <2> SUFFICES ASSUME IInv, IInv', Next, config' = config, config.enabled,
                      config.bound > 0, MinuteIndex(second') # MinuteIndex(second)
               PROVE  drawn' # drawn
    OBVIOUS
  <2> DEFINE b == config.bound
             m == MinuteIndex(second)
  <2>1. second \in Int /\ m \in Int /\ b \in 0..BoundPx BY FrameShape
  <2>2. b # 0 /\ b \in 1..BoundPx
    <3>1. b > 0 OBVIOUS
    <3> HIDE DEF b
    <3> QED BY <2>1, <3>1, SMT DEF BoundPx
  <2>3. drawn = ForMinuteIndex(m, b) BY <2>2, FrameShape
  <2>4. drawn' = ForMinuteIndex(MinuteIndex(second'), b)
    BY <2>2 DEF IInv, Translation
  <2>5. \E step \in {1, -59, -29, 31, 61} : MinuteIndex(second') = m + step
    <3>1. CASE Later
      <4>1. second' = second + HalfMinute BY <3>1 DEF Later, Frame
      <4> QED BY <2>1, <4>1, Minutes
    <3>2. CASE Shifted
      <4>1. PICK shift \in Shifts :
                /\ second % 3600 = 3600 - HalfMinute
                /\ second' = second + HalfMinute + shift
        BY <3>2 DEF Shifted, Frame
      <4> QED BY <2>1, <4>1, Minutes
    <3>3. CASE Apply BY <3>3 DEF Apply, Frame
    <3> QED BY <3>1, <3>2, <3>3 DEF Next
  <2> QED BY <2>1, <2>2, <2>3, <2>4, <2>5, MinutesDiffer
<1> QED BY <1>1, Drawn, PTL DEF Spec, MovesEveryMinute

(* While the clock runs on, the picture moves by one pixel on one axis or   *)
(* wraps from the last corner to the first: the serpentine of               *)
(* BurnInOffset.java.                                                       *)
THEOREM OnePixelAtATime == Spec => StepIsOnePixel
<1> DEFINE Step == \/ drawn' = drawn
                   \/ /\ drawn = [x |-> config.bound, y |-> config.bound]
                      /\ drawn' = [x |-> -config.bound, y |-> -config.bound]
                   \/ /\ drawn'.y = drawn.y /\ drawn'.x - drawn.x \in {-1, 1}
                   \/ /\ drawn'.x = drawn.x /\ drawn'.y - drawn.y = 1
<1>1. IInv /\ IInv' /\ [Next]_vars =>
        [ config' = config /\ config.enabled /\ second' = second + HalfMinute => Step ]_vars
  <2> SUFFICES ASSUME IInv, IInv', config' = config, config.enabled,
                      second' = second + HalfMinute
               PROVE  Step
    OBVIOUS
  <2> DEFINE b == config.bound
             m == MinuteIndex(second)
             cycle == CycleMinutes(b)
             c == FloorMod(m, cycle)
             d == FloorMod(m + 1, cycle)
  <2>1. second \in Int /\ m \in Int /\ b \in 0..BoundPx BY FrameShape
  <2>2. CASE b = 0 BY <2>2 DEF IInv, Translation
  <2>3. CASE b # 0 /\ MinuteIndex(second') = m BY <2>3 DEF IInv, Translation
  <2>4. CASE b # 0 /\ MinuteIndex(second') = m + 1
    <3>1. b \in 1..BoundPx
      <4> HIDE DEF b
      <4> QED BY <2>1, <2>4, SMT DEF BoundPx
    <3>2. drawn = CellOffset(c, b) BY <2>4, FrameShape DEF ForMinuteIndex
    <3>3. drawn' = CellOffset(d, b)
      BY <2>4 DEF IInv, Translation, ForMinuteIndex
    <3>4. cycle \in Nat \ {0} BY <2>1, CellOfMinute
    <3>5. \/ c = cycle - 1 /\ d = 0
          \/ c \in 0..(cycle - 2) /\ d = c + 1
      BY <2>1, <3>4, CellAfter
    <3>6. CASE c = cycle - 1 /\ d = 0
      BY <2>1, <3>2, <3>3, <3>6, Corners
    <3>7. CASE c \in 0..(cycle - 2) /\ d = c + 1
      <4> HIDE DEF c, d
      <4> QED BY <3>1, <3>2, <3>3, <3>7, NextCell
    <3> QED BY <3>5, <3>6, <3>7
  <2> QED BY <2>1, <2>2, <2>3, <2>4, Minutes
<1> QED BY <1>1, Drawn, PTL DEF Spec, StepIsOnePixel

(* In every cycle of minutes, from whichever minute on, the picture is once *)
(* at each position of the grid: BurnInOffset.java's promise that no pixel  *)
(* ages faster than another, for every amplitude.                           *)
THEOREM EveryPositionVisited == Spec => []UniformCoverage
<1>1. IInv => UniformCoverage
  <2> SUFFICES ASSUME IInv PROVE UniformCoverage OBVIOUS
  <2> DEFINE b == config.bound
             m == MinuteIndex(second)
             cycle == CycleMinutes(b)
             visited == {ForMinuteIndex(n, b) : n \in m..(m + cycle - 1)}
             grid == [x : -b..b, y : -b..b]
  <2>1. b \in 0..BoundPx /\ m \in Int BY FrameShape
  <2>2. cycle \in Nat \ {0} BY <2>1, CellOfMinute
  <2>3. ASSUME NEW n \in m..(m + cycle - 1) PROVE ForMinuteIndex(n, b) \in grid
    <3>1. n \in Int BY <2>1, <2>2, SMT
    <3> HIDE DEF b
    <3> QED BY <2>1, <3>1, OffsetInGrid
  <2>4. ASSUME NEW p \in grid PROVE p \in visited
    <3>1. p.x \in -b..b /\ p.y \in -b..b /\ p = [x |-> p.x, y |-> p.y] OBVIOUS
    <3>2. PICK cell \in 0..(cycle - 1) : CellOffset(cell, b) = p
      BY <2>1, <3>1, ScanReaches
    <3>3. PICK n \in m..(m + cycle - 1) : FloorMod(n, cycle) = cell
      BY <2>1, <2>2, CycleReaches
    <3> QED BY <3>2, <3>3 DEF ForMinuteIndex
  <2>5. visited = grid BY <2>3, <2>4
  <2> QED BY <2>5 DEF UniformCoverage
<1> QED BY <1>1, Drawn, PTL
=============================================================================
