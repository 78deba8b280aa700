----------------------------- MODULE MCSdeCache -----------------------------
(***************************************************************************)
(* Instances of SdeCache: two files stand for the four; builds 1 and 3 are *)
(* good, 2 has a file that does not parse, 4 is published without a file.  *)
(***************************************************************************)
EXTENDS SdeCache

CONSTANTS f1, f2

MCFiles  == {f1, f2}
MCBroken == {2}

\* Enough for every order of good and broken builds.
ThreeBuilds  == 1..3
ThreeShipped == [b \in ThreeBuilds |-> MCFiles]

\* The same, and a publication that lacks a needed file.
FourBuilds  == 1..4
FourShipped == [b \in FourBuilds |-> IF b = 4 THEN {f1} ELSE MCFiles]
=============================================================================
