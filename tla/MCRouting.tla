----------------------------- MODULE MCRouting -----------------------------
(***************************************************************************)
(* Routing with one stream beside plain requests, over a primary and a     *)
(* backup route.                                                           *)
(***************************************************************************)
EXTENDS Routing

CONSTANTS r1, r2, r3
=============================================================================
