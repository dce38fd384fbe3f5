----------------------------- MODULE MCVerifyDeploy -----------------------------
(* Instances of VerifyDeploy for TLC: settings that reach every verdict,   *)
(* and files that are stale, incomplete or malformed.                      *)
EXTENDS VerifyDeploy

LocalSetting ==
  [localMode |-> "", deployKey |-> FALSE, ownerKey |-> FALSE,
   proxyKey |-> FALSE, simulated |-> TRUE, extProxyUrl |-> FALSE,
   normalProxyUrl |-> FALSE, manager |-> "contract", funded |-> TRUE,
   local |-> TRUE]

TestnetSetting ==
  [localMode |-> "false", deployKey |-> TRUE, ownerKey |-> FALSE,
   proxyKey |-> TRUE, simulated |-> FALSE, extProxyUrl |-> TRUE,
   normalProxyUrl |-> TRUE, manager |-> "contract", funded |-> TRUE,
   local |-> FALSE]

BareSetting ==
  [TestnetSetting EXCEPT !.deployKey = FALSE, !.proxyKey = FALSE,
                         !.simulated = TRUE, !.manager = "zero",
                         !.funded = FALSE]

MCSettings == {LocalSetting, BareSetting}

MCFiles == {[id |-> 2, sender |-> 1], [id |-> 0, sender |-> 1],
            [id |-> 1, sender |-> Malformed]}
=============================================================================
