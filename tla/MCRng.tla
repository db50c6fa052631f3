------------------------------- MODULE MCRng -------------------------------
(* For TLC: a generator of four words of four bits.                        *)
EXTENDS Rng

SmallShifts  == <<2, 1, 3>>
SmallFactors == <<11, 5>>
=============================================================================
