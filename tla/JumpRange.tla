------------------------------ MODULE JumpRange ------------------------------
(***************************************************************************)
(* Jump ranges over the map of a build: the range of a hull, distances,    *)
(* the radius query of the spatial index and the rounding of the answers.  *)
(* Pure operators over a graph of GraphData.                               *)
(*                                                                         *)
(* Coordinates and base ranges are in hundredths of a light-year, what the *)
(* wire shows, and squares of distances are exact.  A bonus is a whole     *)
(* percentage, so a range is a number of ten-thousandths; the f64 product  *)
(* of the code, which is not rounded, may miss it by a hair (3.0 LY at     *)
(* level 2 is 4.199999999999999), and a hair is one ten-thousandth here.   *)
(***************************************************************************)
EXTENDS GraphData

CONSTANTS
    FallsShort,   \* <<base_ly, bonus_per_level, jdc_level>> whose f64 product
    Exceeds       \* is below the exact one, or above it

\* Rounding never turns a range of nothing negative.
ASSUME RoundingAssumption == \A t \in FallsShort : t[1] > 0

\* effective_ly, in ten-thousandths of a light-year.
EffectiveLy(base_ly, bonus_per_level, jdc_level) ==
    LET exact == base_ly * (100 + bonus_per_level * jdc_level)
        t     == <<base_ly, bonus_per_level, jdc_level>>
    IN  IF t \in FallsShort THEN exact - 1
        ELSE IF t \in Exceeds THEN exact + 1
        ELSE exact

\* ly_between, squared: it is only compared and rounded.
Distance2(g, m, n) ==
    LET a    == SystemAt(g, m).coords
        b    == SystemAt(g, n).coords
        d(i) == a[i] - b[i]
    IN  d(1) * d(1) + d(2) * d(2) + d(3) * d(3)

\* A distance, squared, is less than a range, or more, by over a hair.
Inside(square, range) ==
    range > 0 /\ 10000 * square < (range - 1) * (range - 1)

Outside(square, range) == 10000 * square > (range + 1) * (range + 1)

\* What within_unsorted may return around n: everything inside the range and
\* nothing outside, and between them, where rounding decides, any part.
Hits(g, n, range) ==
    LET sure   == {m \in g.spatial_index : Inside(Distance2(g, m, n), range)}
        border == {m \in g.spatial_index \ sure :
                      ~Outside(Distance2(g, m, n), range)}
    IN  {sure \cup some : some \in SUBSET border}

\* round2 of a distance that is given squared: the nearest hundredth.
Round2(square) ==
    CHOOSE r \in 0..square : /\ 4 * square >= (2 * r - 1) * (2 * r - 1) \/ r = 0
                             /\ 4 * square < (2 * r + 1) * (2 * r + 1)
=============================================================================
