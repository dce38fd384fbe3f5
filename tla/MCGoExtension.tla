----------------------------- MODULE MCGoExtension -----------------------------
(* An instance of GoExtension for TLC.                                     *)
EXTENDS GoExtension

(* Requests are 1, 2, 3 in the order in which they arrive: their names     *)
(* mean nothing, and a symmetry set would not be sound for the liveness in *)
(* ImplementsService.                                                      *)
arriveInOrder ==
  \A r \in Requests : asked[r] = None /\ asked'[r] # None =>
    \A q \in 1 .. r - 1 : asked[q] # None

MCExtensionNext == ExtensionNext /\ arriveInOrder

MCExtensionSpec ==
  New /\ [][MCExtensionNext]_extensionVars /\ GoFairness
=============================================================================
