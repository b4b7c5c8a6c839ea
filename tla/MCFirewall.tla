------------------------------ MODULE MCFirewall ------------------------------
(***************************************************************************)
(* Instances of Firewall for TLC.                                          *)
(***************************************************************************)
EXTENDS Firewall, TLC

CONSTANTS a1, a2, gw, m1, t1, t2

\* Callers are interchangeable.
MCSymmetry == Permutations(Threads)
===============================================================================
