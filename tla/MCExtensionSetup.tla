---------------------------- MODULE MCExtensionSetup ----------------------------
(* Instances of ExtensionSetup for TLC.                                    *)
EXTENDS ExtensionSetup
=============================================================================
