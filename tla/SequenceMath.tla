---------------------------- MODULE SequenceMath ----------------------------
(***************************************************************************)
(* The capacity arithmetic of badSQL::Sequence (Sequence.h) and the        *)
(* comparison helpers of bad_utility.h it uses.  Sizes are counted in      *)
(* elements.  The C++ growth expression is evaluated in float; for seeds   *)
(* below 2^23 every intermediate value is a multiple of 1/2 that a float   *)
(* represents exactly, so truncation is the floor written here.            *)
(***************************************************************************)
EXTENDS Integers

\* core_min: the smaller of two values.
core_min(x, y) == IF x < y THEN x ELSE y

\* (mutant) the additive is left out.
growthFactorPure(seed, additive) == seed + (seed \div 2)

\* growthFactor: the capacity emplace_back asks for when the block is full.
growthFactor(seed, additive) == seed + (seed \div 2) + additive

=============================================================================
