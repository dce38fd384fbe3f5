------------------------- MODULE MCPrivateFXRPVault -------------------------
(***************************************************************************)
(* PrivateFXRPVault with two accounts that start with three and two        *)
(* tokens, one policy, a small and a larger pass, prices 0 and 3 over a    *)
(* unit of 2 (so the division rounds), and a word in which the value of    *)
(* four tokens overflows.                                                  *)
(***************************************************************************)
EXTENDS PrivateFXRPVault

CONSTANTS alice, bob

mcPasses == {[limitUsd |-> 1, expiresAt |-> 2, nonce |-> 1],
             [limitUsd |-> 3, expiresAt |-> 1, nonce |-> 2]}

mcInitialBalance == [a \in Holders |-> IF a = alice THEN 3 ELSE 2]
=============================================================================
