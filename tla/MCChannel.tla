----------------------------- MODULE MCChannel -----------------------------
(* Channel for TLC: the master sends the most, the worker only waits. *)
EXTENDS Channel

CONSTANTS M, Q, W

MCMaxFrames == (M :> 2) @@ (Q :> 1) @@ (W :> 0)
=============================================================================
