--------------------------- MODULE MCBinanceSync ----------------------------
(***************************************************************************)
(* BinanceSync with two levels, which are interchangeable.                 *)
(***************************************************************************)
EXTENDS BinanceSync, TLC

CONSTANTS p1, p2

MCLevels   == {p1, p2}
MCSymmetry == Permutations(MCLevels)

==============================================================================
