--------------------------- MODULE MCRooRealMPFE ---------------------------
(* RooRealMPFE for TLC: the second partition logs an error where the first *)
(* parameter is 2, and is worth nothing where it is 1.                     *)
EXTENDS RooRealMPFE

MCBad(i, at) == i = 2 /\ at[1] = 2
MCZero(i, here) == i = 2 /\ here.at[1] = 1
=============================================================================
