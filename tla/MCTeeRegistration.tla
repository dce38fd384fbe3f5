-------------------------- MODULE MCTeeRegistration --------------------------
(***************************************************************************)
(* TeeRegistration with two TEE keys and a few mishaps.                    *)
(***************************************************************************)
EXTENDS TeeRegistration
=============================================================================
