------------------------------- MODULE BurnIn -------------------------------
(* Burn-in protection: the whole picture is shifted by some pixels, which   *)
(* follow from the minute of the local wall clock (BurnInOffset.java, its   *)
(* twin BurnInOffset.swift) and from the accepted config                    *)
(* (burnInTranslation in ClockView.java and Main.java).  The machine draws  *)
(* one frame after another while the wall clock advances, jumps by an hour  *)
(* in spring and autumn, and other configs are applied.                     *)
EXTENDS Integers

CONSTANTS
    First, Last,   \* bounds: seconds of the wall clock since the local epoch
    Bounds         \* the values of burnInMaxShiftPx that configs have

BoundPx == 8
CadenceSeconds == 60

ASSUME BurnInAssumption ==
    /\ First \in Int /\ Last \in Int /\ First =< Last
    /\ Bounds \subseteq 0..BoundPx

VARIABLES
    second,    \* of the local wall clock
    config,    \* burnInEnabled, burnInMaxShiftPx
    drawn      \* the shift of the last frame

vars == <<second, config, drawn>>
-----------------------------------------------------------------------------
(* Java's % and Swift's / and % round toward zero.                          *)
TruncatedMod(a, b) == IF a < 0 THEN -((-a) % b) ELSE a % b
TruncatedDiv(a, b) == IF a < 0 THEN -((-a) \div b) ELSE a \div b

(* Math.floorMod and Math.floorDiv; b is positive.                          *)
FloorMod(a, b) == a % b
FloorDiv(a, b) == a \div b

(* The twin corrects a rounded result whose signs differ.                   *)
SwiftFloorMod(a, b) ==
    LET r == TruncatedMod(a, b) IN IF r # 0 /\ a < 0 THEN r + b ELSE r
SwiftFloorDiv(a, b) ==
    LET q == TruncatedDiv(a, b)
    IN  IF TruncatedMod(a, b) # 0 /\ a < 0 THEN q - 1 ELSE q

Span(bound) == 2 * bound + 1

(* Mutant: the corner that ends the cycle is left out.                      *)
CycleShort(bound) == Span(bound) * Span(bound) - 1

CycleMinutes(bound) == Span(bound) * Span(bound)

(* Mutant: every row is scanned from left to right.                         *)
RasterCell(cell, bound) ==
    [x |-> (cell % Span(bound)) - bound, y |-> (cell \div Span(bound)) - bound]

(* The serpentine scan of the grid: even rows from left to right, odd rows  *)
(* back.                                                                    *)
CellOffset(cell, bound) ==
    LET row == cell \div Span(bound)
        col == cell % Span(bound)
    IN  [x |-> (IF row % 2 = 0 THEN col ELSE Span(bound) - 1 - col) - bound,
         y |-> row - bound]

MinuteIndex(s) == FloorDiv(s, CadenceSeconds)

(* Mutant: the position on the widest grid, clamped to the bound.           *)
ForMinuteIndexClamped(minute, bound) ==
    LET Clamp(v) == IF v < -bound THEN -bound ELSE IF v > bound THEN bound ELSE v
        widest == CellOffset(FloorMod(minute, CycleMinutes(BoundPx)), BoundPx)
    IN  [x |-> Clamp(widest.x), y |-> Clamp(widest.y)]

ForMinuteIndex(minute, bound) ==
    CellOffset(FloorMod(minute, CycleMinutes(bound)), bound)

SwiftOffset(s, bound) ==
    CellOffset(SwiftFloorMod(SwiftFloorDiv(s, CadenceSeconds), CycleMinutes(bound)),
               bound)

(* Mutant: the bound of the config is forgotten.                            *)
TranslationAtWidest(c, s) ==
    IF ~c.enabled \/ c.bound = 0 THEN [x |-> 0, y |-> 0]
    ELSE ForMinuteIndex(MinuteIndex(s), BoundPx)

(* burnInTranslation                                                        *)
Translation(c, s) ==
    IF ~c.enabled \/ c.bound = 0 THEN [x |-> 0, y |-> 0]
    ELSE ForMinuteIndex(MinuteIndex(s), c.bound)
-----------------------------------------------------------------------------
Configs == [enabled : BOOLEAN, bound : Bounds]

Init ==
    /\ second = First
    /\ config \in Configs
    /\ drawn = Translation(config, second)

(* A frame is drawn at another time of the wall clock, or with another      *)
(* config (onDraw runs again and again).                                    *)
Frame(s, c) ==
    /\ second' = s /\ config' = c
    /\ drawn' = Translation(c, s)

HalfMinute == 30

Later == second + HalfMinute =< Last /\ Frame(second + HalfMinute, config)

(* The clock of the zone is put forward or back by half an hour or an hour. *)
Shifts == {-3600, -1800, 1800, 3600}

Shifted ==
    \E shift \in Shifts :
        /\ second % 3600 = 3600 - HalfMinute
        /\ second + HalfMinute + shift \in First..Last
        /\ Frame(second + HalfMinute + shift, config)

Apply == \E c \in Configs : Frame(second, c)

Next == Later \/ Shifted \/ Apply

Spec == Init /\ [][Next]_vars
-----------------------------------------------------------------------------
(* Properties.                                                              *)

(* The second of the wall clock, the config and the frame are of their      *)
(* types: a shift has whole pixels within the contract's bound.             *)
TypeOK ==
    /\ second \in First..Last
    /\ config \in Configs
    /\ drawn \in [x : -BoundPx..BoundPx, y : -BoundPx..BoundPx]

(* Neither axis ever leaves the configured amplitude, before the epoch and  *)
(* at the edges of the cycle as well (docs/external-config.md).             *)
WithinAmplitude ==
    /\ drawn.x \in -config.bound..config.bound
    /\ drawn.y \in -config.bound..config.bound

(* The picture never stays where it was for a second minute: with any       *)
(* amplitude but 0 the next minute's frame is elsewhere, at the end of the  *)
(* cycle and where the zone changes its offset too.                         *)
MovesEveryMinute ==
    [][ /\ config' = config /\ config.enabled /\ config.bound > 0
        /\ MinuteIndex(second') # MinuteIndex(second)
        => drawn' # drawn ]_vars

(* While the clock runs on, one step is one pixel on one axis; only the     *)
(* wrap jumps, from the last corner to the first.                           *)
StepIsOnePixel ==
    [][ /\ config' = config /\ config.enabled /\ second' = second + HalfMinute
        => \/ drawn' = drawn
           \/ /\ drawn = [x |-> config.bound, y |-> config.bound]
              /\ drawn' = [x |-> -config.bound, y |-> -config.bound]
           \/ /\ drawn'.y = drawn.y /\ drawn'.x - drawn.x \in {-1, 1}
           \/ /\ drawn'.x = drawn.x /\ drawn'.y - drawn.y = 1 ]_vars

(* From any minute on, a cycle visits every position of the grid once: no   *)
(* pixel ages faster than another.                                          *)
UniformCoverage ==
    second % CadenceSeconds = 0 =>
        LET cycle == CycleMinutes(config.bound)
            m == MinuteIndex(second)
        IN  {ForMinuteIndex(n, config.bound) : n \in m..(m + cycle - 1)} =
                [x : -config.bound..config.bound, y : -config.bound..config.bound]

(* The Swift port, which rounds toward zero and corrects, draws the shift   *)
(* the Java code draws, before the epoch as well.                           *)
TwinsAgree ==
    config.enabled => drawn = SwiftOffset(second, config.bound)
=============================================================================
