------------------------------- MODULE MCSlots -------------------------------
(***************************************************************************)
(* Several components, each in a world of its own, for one run of TLC.  A  *)
(* behaviour stays in the world it begins in, so its component's variables *)
(* can take the slots s1, s2, ... in the order the component declares      *)
(* them; the slots behind them stay 0.                                     *)
(***************************************************************************)
EXTENDS Integers, Sequences, FiniteSets, TLC

CONSTANT Worlds   \* the worlds to check

VARIABLES world, s1, s2, s3, s4, s5, s6, s7, s8, s9, s10, s11, s12, s13

slots == <<s1, s2, s3, s4, s5, s6, s7, s8, s9, s10, s11, s12, s13>>
all == <<world, slots>>

\* The slots behind the n variables of a world's component, at first and in
\* every step.
Blank(n) ==
    /\ IF n < 4 THEN s4 = 0 ELSE TRUE
    /\ IF n < 5 THEN s5 = 0 ELSE TRUE
    /\ IF n < 6 THEN s6 = 0 ELSE TRUE
    /\ IF n < 7 THEN s7 = 0 ELSE TRUE
    /\ IF n < 8 THEN s8 = 0 ELSE TRUE
    /\ IF n < 9 THEN s9 = 0 ELSE TRUE
    /\ IF n < 10 THEN s10 = 0 ELSE TRUE
    /\ IF n < 11 THEN s11 = 0 ELSE TRUE
    /\ IF n < 12 THEN s12 = 0 ELSE TRUE
    /\ IF n < 13 THEN s13 = 0 ELSE TRUE
Keep(n) ==
    /\ UNCHANGED world
    /\ IF n < 4 THEN s4' = s4 ELSE TRUE
    /\ IF n < 5 THEN s5' = s5 ELSE TRUE
    /\ IF n < 6 THEN s6' = s6 ELSE TRUE
    /\ IF n < 7 THEN s7' = s7 ELSE TRUE
    /\ IF n < 8 THEN s8' = s8 ELSE TRUE
    /\ IF n < 9 THEN s9' = s9 ELSE TRUE
    /\ IF n < 10 THEN s10' = s10 ELSE TRUE
    /\ IF n < 11 THEN s11' = s11 ELSE TRUE
    /\ IF n < 12 THEN s12' = s12 ELSE TRUE
    /\ IF n < 13 THEN s13' = s13 ELSE TRUE
=============================================================================
