------------------------------ MODULE MCQueue ------------------------------
(* Two producers, a consumer, and items that can be told apart.            *)
EXTENDS Queue, TLC

CONSTANTS pa, pb, ca, xa, xb
=============================================================================
