------------------------------ MODULE MCClient ------------------------------
(* Two workers of which none, one or both are hosts; fresh or imported.    *)
EXTENDS MCRunStep, Client

HostSetsMC == SUBSET Workers
=============================================================================
