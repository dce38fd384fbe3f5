----------------------- MODULE DeploymentPipelineProofs -----------------------
(***************************************************************************)
(* Proofs about DeploymentPipeline for any number of deployments, runs,    *)
(* extensions, TEE keys and mishaps.                                       *)
(***************************************************************************)
EXTENDS DeploymentPipeline, WellFoundedInduction, TLAPS

(* A machine the finalizer takes for the signer of a deployment, at the    *)
(* URL it expects.                                                         *)
Vetted(d, t) ==
  /\ bound[d] = ExpectedExtensionId
  /\ production[t] = ExpectedExtensionId
  /\ t \in atProxyUrl

(* A deployment trusts machines only, and maybe the key it was given.      *)
SignersFrom(d, given) == \A t \in signers[d] : t = given \/ Vetted(d, t)

(* What the finalizer sends.                                               *)
Txs == [op: {"setExtensionId", "setTeeSigner"}, of: Deployments,
        signer: 0 .. MaxTees]

(* A signer on its way to the chain has been vetted.                       *)
TxFits(tx) ==
  tx.op = "setTeeSigner" => tx.signer \in Tees /\ Vetted(tx.of, tx.signer)

MempoolFits ==
  /\ mempool \in Seq(Txs)
  /\ \A i \in 1 .. Len(mempool) : TxFits(mempool[i])

(* What the deployment script has made when it comes to a step.            *)
madeBefore(step) ==
  CASE step = "policyRegistry" -> {}
    [] step = "accessRegistry" -> {"policyRegistry"}
    [] step = "oracle" -> {"policyRegistry", "accessRegistry"}
    [] step = "sender" -> {"policyRegistry", "accessRegistry", "oracle"}
    [] step = "policy" -> {"policyRegistry", "accessRegistry", "oracle",
                           "sender"}
    [] step \in {"signer", "vault"} ->
         {"policyRegistry", "accessRegistry", "oracle", "sender", "policy"}
    [] step = "writeDeployment" -> DeploySteps

(* The steps of the two scripts.                                           *)
Deploying == DeploySteps \cup {"signer", "writeDeployment"}
Finalizing == {"readExtension", "validate", "setTeeSigner",
               "writeFinalization"}

(* The deployment that a run of the deployment script is about is its own. *)
DeployFits ==
  run.step \in Deploying =>
    /\ run.of \in Deployments
    /\ made[run.of] = madeBefore(run.step)
    /\ SignersFrom(run.of, run.signer)
    /\ run.step \in {"vault", "writeDeployment"} =>
         run.signer = 0 \/ run.signer \in signers[run.of]

(* A run of the finalizer is about the manifest that is there, and it has  *)
(* asked for what it is about to write.                                    *)
FinalizeFits ==
  run.step \in Finalizing =>
    /\ manifest # noManifest /\ run.of = manifest.of /\ run.fcc = manifest.fcc
    /\ run.step # "readExtension" => run.id = bound[run.of] /\ run.id # 0
    /\ run.step \in {"setTeeSigner", "writeFinalization"} =>
         /\ run.signer \in Tees
         /\ Vetted(run.of, run.signer)
         /\ run.fcc.teeSigner \in {0, run.signer}
    /\ run.step = "writeFinalization" => run.signer \in signers[run.of]

(* What the manifest says, and which signers its deployment can have.      *)
ManifestFits ==
  manifest # noManifest =>
    /\ manifest = [of |-> manifest.of, fcc |-> manifest.fcc]
    /\ manifest.of \in Deployments
    /\ made[manifest.of] = DeploySteps
    /\ manifest.fcc.extensionId \in Nat
    /\ manifest.fcc.teeSigner \in 0 .. MaxTees
    /\ manifest.fcc.teeSigner # 0 =>
         manifest.fcc.teeSigner \in signers[manifest.of]
    /\ manifest.fcc.extensionId = 0 =>
         /\ "status" \notin DOMAIN manifest.fcc
         /\ SignersFrom(manifest.of, manifest.fcc.teeSigner)
    /\ manifest.fcc.extensionId # 0 =>
         /\ manifest.fcc.teeSigner # 0
         /\ bound[manifest.of] = manifest.fcc.extensionId
         /\ SignersFrom(manifest.of, 0)

(* Nobody has given a signer to a deployment that was not begun.           *)
FreshIsClean == \A d \in Deployments : made[d] = {} => SignersFrom(d, 0)

(* What the site was configured with is still on chain.                    *)
WebFits ==
  web.result = "written" =>
    /\ web.of \in Deployments
    /\ web.id # 0 /\ bound[web.of] = web.id
    /\ web.signer \in signers[web.of]

(* Types that PipelineTypeOK leaves out.                                   *)
Shapes ==
  /\ extensions \in Seq(0 .. MaxDeployments)
  /\ tee \in Tees
  /\ DOMAIN run = {"step", "of", "fcc", "id", "signer", "waiting"}
  /\ run.step \in Deploying \cup Finalizing \cup {"idle"}
  /\ run.signer \in 0 .. MaxTees

(* The inductive invariant.                                                *)
DInv ==
  /\ PipelineTypeOK
  /\ Shapes
  /\ MempoolFits
  /\ DeployFits
  /\ FinalizeFits
  /\ ManifestFits
  /\ FreshIsClean
  /\ WebFits

(* Before the first deployment.                                            *)
LEMMA DInvInit == PipelineInit => DInv
<1> SUFFICES ASSUME PipelineInit PROVE DInv
  OBVIOUS
<1> USE PipelineAssumption DEF PipelineInit, noManifest, noRun
<1>1. PipelineTypeOK
  BY DEF PipelineTypeOK, Deployments, Tees
<1>2. Shapes
  BY DEF Shapes, Tees
<1>3. MempoolFits
  BY DEF MempoolFits
<1>4. DeployFits /\ FinalizeFits /\ ManifestFits /\ FreshIsClean /\ WebFits
  BY DEF DeployFits, FinalizeFits, ManifestFits, FreshIsClean, WebFits,
         SignersFrom, Deploying, DeploySteps, Finalizing
<1> QED
  BY <1>1, <1>2, <1>3, <1>4 DEF DInv

(* 0 is no TEE: as a signer it stands for none.                            *)
LEMMA TypeFacts ==
  DInv => /\ \A d \in Deployments : signers[d] \subseteq Tees /\ 0 \notin signers[d]
          /\ Deployments \subseteq 0 .. MaxDeployments
          /\ Tees \subseteq 0 .. MaxTees /\ 0 \notin Tees
<1> SUFFICES ASSUME DInv
             PROVE  /\ \A d \in Deployments : signers[d] \subseteq Tees
                    /\ Deployments \subseteq 0 .. MaxDeployments
                    /\ Tees \subseteq 0 .. MaxTees /\ 0 \notin Tees
  OBVIOUS
<1> QED
  BY PipelineAssumption DEF DInv, PipelineTypeOK, Deployments, Tees

(* A script that ends or stops, here without another effect, may do so     *)
(* anywhere.                                                               *)
LEMMA RunEnds ==
  DInv /\ run' = noRun /\ UNCHANGED <<chainVars, mempool, manifest, web>>
       /\ mishaps' \in 0 .. MaxMishaps
    => DInv'
<1> SUFFICES ASSUME DInv, run' = noRun, mishaps' \in 0 .. MaxMishaps,
                    UNCHANGED <<chainVars, mempool, manifest, web>>
             PROVE  DInv'
  OBVIOUS
<1> USE DEF DInv, chainVars
<1>1. run'.step = "idle" /\ run'.signer = 0
  BY DEF noRun
<1>2. PipelineTypeOK'
  BY DEF PipelineTypeOK
<1>3. Shapes'
  BY <1>1, PipelineAssumption DEF Shapes, noRun
<1>4. MempoolFits'
  BY DEF MempoolFits, TxFits, Vetted
<1>5. DeployFits' /\ FinalizeFits'
  BY <1>1 DEF DeployFits, FinalizeFits, Deploying, DeploySteps, Finalizing
<1>6. ManifestFits' /\ FreshIsClean' /\ WebFits'
  BY DEF ManifestFits, FreshIsClean, WebFits, SignersFrom, Vetted
<1> QED
  BY <1>2, <1>3, <1>4, <1>5, <1>6

(* The finalizer sends a transaction and waits, or ends where gas cannot   *)
(* be estimated.                                                           *)
LEMMA SendStep ==
  ASSUME DInv, NEW op \in {"setExtensionId", "setTeeSigner"}, send(op),
         run.step \in Finalizing,
         op = "setTeeSigner" => run.step = "setTeeSigner",
         UNCHANGED <<chainVars, manifest, web, mishaps>>
  PROVE  DInv'
<1> DEFINE tx == [op |-> op, of |-> run.of, signer |-> run.signer]
<1>1. \/ mempool' = Append(mempool, tx) /\ run' = [run EXCEPT !.waiting = TRUE]
      \/ mempool' = mempool /\ run' = noRun
  BY DEF send
<1>2. CASE mempool' = mempool /\ run' = noRun
  BY <1>2, RunEnds DEF DInv, PipelineTypeOK
<1>3. CASE mempool' = Append(mempool, tx) /\ run' = [run EXCEPT !.waiting = TRUE]
  <2> USE DEF DInv, chainVars
  <2>1. /\ DOMAIN run' = DOMAIN run
        /\ run'.step = run.step /\ run'.of = run.of /\ run'.fcc = run.fcc
        /\ run'.id = run.id /\ run'.signer = run.signer
    BY <1>3 DEF Shapes
  <2>2. run.of \in Deployments /\ run.signer \in 0 .. MaxTees
    BY DEF FinalizeFits, ManifestFits, Shapes
  <2>3. tx \in Txs
    BY <2>2 DEF Txs
  <2>4. TxFits(tx)
    BY DEF TxFits, FinalizeFits
  <2> HIDE DEF tx
  <2>5. MempoolFits'
    <3>1. /\ mempool' \in Seq(Txs) /\ Len(mempool') = Len(mempool) + 1
          /\ \A i \in 1 .. Len(mempool) : mempool'[i] = mempool[i]
          /\ mempool'[Len(mempool) + 1] = tx
      BY <1>3, <2>3 DEF MempoolFits
    <3>2. Len(mempool) \in Nat
      BY DEF MempoolFits
    <3>3. \A i \in 1 .. Len(mempool') : TxFits(mempool'[i])
      BY <2>4, <3>1, <3>2 DEF MempoolFits
    <3> QED
      BY <3>1, <3>3 DEF MempoolFits, TxFits, Vetted
  <2>6. PipelineTypeOK'
    BY DEF PipelineTypeOK
  <2>7. Shapes'
    BY <2>1 DEF Shapes
  <2>8. DeployFits'
    BY <2>1 DEF DeployFits, SignersFrom, Vetted
  <2>9. FinalizeFits'
    BY <2>1 DEF FinalizeFits, Vetted
  <2>10. ManifestFits' /\ FreshIsClean' /\ WebFits'
    BY DEF ManifestFits, FreshIsClean, WebFits, SignersFrom, Vetted
  <2> QED
    BY <2>5, <2>6, <2>7, <2>8, <2>9, <2>10
<1> QED
  BY <1>1, <1>2, <1>3

(* There is a first extension of a sender that has any.                    *)
LEMMA LeastExists ==
  ASSUME NEW S, S # {}, S \subseteq Nat
  PROVE  (CHOOSE i \in S : \A j \in S : i <= j) \in S
<1> DEFINE Less == OpToRel(<, Nat)
<1>1. IsWellFoundedOn(Less, Nat)
  BY NatLessThanWellFounded
<1>2. \A j, k \in Nat : j < k => <<j, k>> \in Less
  BY DEF OpToRel
<1> HIDE DEF Less
<1>3. PICK i \in S : \A j \in S : <<j, i>> \notin Less
  BY <1>1, WFMin
<1>4. \A j \in S : i <= j
  <2> TAKE j \in S
  <2>1. i \in Nat /\ j \in Nat /\ <<j, i>> \notin Less
    BY <1>3
  <2>2. ~ (j < i)
    BY <1>2, <2>1
  <2> QED
    BY <2>1, <2>2
<1> QED
  BY <1>4

(* A sender is bound once, and a TEE goes to production once.              *)
LEMMA VettedStays ==
  DInv /\ (teeToProduction \/ mine) =>
    \A d \in Deployments, t \in Tees : Vetted(d, t) => Vetted(d, t)'
<1> SUFFICES ASSUME DInv, teeToProduction \/ mine,
                    NEW d \in Deployments, NEW t \in Tees, Vetted(d, t)
             PROVE  Vetted(d, t)'
  OBVIOUS
<1> USE PipelineAssumption DEF DInv, PipelineTypeOK, Vetted
<1>1. CASE teeToProduction
  BY <1>1 DEF teeToProduction
<1>2. CASE mine
  <2>1. production' = production /\ atProxyUrl' = atProxyUrl
    BY <1>2 DEF mine
  <2>2. bound'[d] = bound[d]
    BY <1>2 DEF mine, accepts
  <2> QED
    BY <2>1, <2>2
<1> QED
  BY <1>1, <1>2

(* The invariant after each step: a deployment begins with fresh           *)
(* contracts,                                                              *)
LEMMA DeployStep == DInv /\ deploy => DInv'
<1> SUFFICES ASSUME DInv, deploy PROVE DInv'
  OBVIOUS
<1> USE PipelineAssumption DEF DInv, deploy, chainVars
<1>1. PipelineTypeOK'
  BY DEF PipelineTypeOK, Deployments, Tees, DeploySteps
<1>2. Shapes'
  BY DEF Shapes, Deploying, DeploySteps, Finalizing, noRun, Tees
<1>3. MempoolFits'
  BY DEF TxFits, Vetted, MempoolFits
<1>4. DeployFits'
  <2>1. PICK d \in Deployments, signer \in {0, tee} :
          /\ made[d] = {}
          /\ run' = [noRun EXCEPT !.step = "policyRegistry", !.of = d,
                                  !.signer = signer]
    BY DEF fresh
  <2>2. run'.step = "policyRegistry" /\ run'.of = d
    BY <2>1 DEF noRun
  <2>3. \A t \in signers[d] : Vetted(d, t)
    BY <2>1, TypeFacts DEF FreshIsClean, SignersFrom
  <2> QED
    BY <2>1, <2>2, <2>3 DEF DeployFits, SignersFrom, Vetted, madeBefore
<1>5. FinalizeFits'
  BY DEF FinalizeFits, Vetted, Shapes, Deploying, DeploySteps, Finalizing,
         noRun
<1>6. ManifestFits'
  BY DEF SignersFrom, Vetted, ManifestFits
<1>7. FreshIsClean'
  BY DEF FreshIsClean, SignersFrom, Vetted
<1>8. WebFits'
  BY DEF WebFits
<1> QED
  BY <1>1, <1>2, <1>3, <1>4, <1>5, <1>6, <1>7, <1>8

(* makes the next contract,                                                *)
LEMMA DeployNextStep == DInv /\ deployNext => DInv'
<1> SUFFICES ASSUME DInv, deployNext PROVE DInv'
  OBVIOUS
<1> USE PipelineAssumption DEF DInv, deployNext, goTo, nextDeployment, chainVars
<1>1. PipelineTypeOK'
  BY DEF PipelineTypeOK, Deployments, Tees, DeploySteps
<1>2. Shapes'
  BY DEF Shapes, Deploying, DeploySteps, Finalizing
<1>3. MempoolFits'
  BY DEF TxFits, Vetted, MempoolFits
<1>4. DeployFits'
  <2>1. /\ run.of \in Deployments /\ made[run.of] = madeBefore(run.step)
        /\ SignersFrom(run.of, run.signer)
        /\ run.step = "vault" => run.signer = 0 \/ run.signer \in signers[run.of]
    BY DEF DeployFits, Deploying
  <2>2. /\ run'.step = nextDeployment(run.step)
        /\ run'.of = run.of /\ run'.signer = run.signer
    BY DEF Shapes
  <2>3. made'[run.of] = made[run.of] \cup {run.step}
    BY <2>1 DEF PipelineTypeOK
  <2>4. /\ madeBefore(nextDeployment(run.step))
              = madeBefore(run.step) \cup {run.step}
        /\ nextDeployment(run.step) \in {"vault", "writeDeployment"} =>
             run.step = "vault"
    BY DEF madeBefore, DeploySteps
  <2> QED
    BY <2>1, <2>2, <2>3, <2>4 DEF DeployFits, SignersFrom, Vetted
<1>5. FinalizeFits'
  BY DEF FinalizeFits, Vetted, Shapes, Deploying, DeploySteps, Finalizing
<1>6. ManifestFits'
  BY DEF SignersFrom, Vetted, ManifestFits
<1>7. FreshIsClean'
  <2>1. \A d \in Deployments : made'[d] = {} => made[d] = {}
    OBVIOUS
  <2> QED
    BY <2>1 DEF FreshIsClean, SignersFrom, Vetted
<1>8. WebFits'
  BY DEF WebFits
<1> QED
  BY <1>1, <1>2, <1>3, <1>4, <1>5, <1>6, <1>7, <1>8

(* registers the signer it was given,                                      *)
LEMMA DeploySignerStep == DInv /\ deploySigner => DInv'
<1> SUFFICES ASSUME DInv, deploySigner PROVE DInv'
  OBVIOUS
<1> USE PipelineAssumption DEF DInv, deploySigner, goTo, at, nextDeployment, chainVars
<1>1. PipelineTypeOK'
  <2>1. run.signer # 0 => run.signer \in Tees
    BY DEF Shapes, Tees
  <2>2. signers' \in [Deployments -> SUBSET Tees]
    <3> HIDE DEF Tees
    <3> QED
      BY <2>1 DEF PipelineTypeOK
  <2> QED
    BY <2>2 DEF PipelineTypeOK
<1>2. Shapes'
  BY DEF Shapes, Deploying, DeploySteps, Finalizing
<1>3. MempoolFits'
  BY DEF TxFits, Vetted, MempoolFits
<1>4. DeployFits'
  BY DEF DeployFits, SignersFrom, Vetted, madeBefore, Shapes, PipelineTypeOK,
         Deploying, DeploySteps
<1>5. FinalizeFits'
  BY DEF FinalizeFits, Vetted, Shapes, Deploying, DeploySteps, Finalizing
<1>6. ManifestFits'
  <2>1. ASSUME manifest # noManifest
        PROVE  signers'[manifest.of] = signers[manifest.of]
    <3>1. made[manifest.of] = DeploySteps /\ manifest.of \in Deployments
      BY <2>1 DEF ManifestFits
    <3>2. made[run.of] = madeBefore("signer")
      BY DEF DeployFits, Deploying
    <3>3. made[run.of] # DeploySteps
      <4>1. "vault" \notin madeBefore("signer") /\ "vault" \in DeploySteps
        BY DEF madeBefore, DeploySteps
      <4> QED
        BY <3>2, <4>1
    <3> QED
      BY <3>1, <3>3
  <2> QED
    BY <2>1 DEF ManifestFits, SignersFrom, Vetted
<1>7. FreshIsClean'
  <2>1. made[run.of] # {}
    BY DEF DeployFits, madeBefore, Deploying
  <2>2. \A d \in Deployments : made[d] = {} => signers'[d] = signers[d]
    BY <2>1
  <2> QED
    BY <2>2 DEF FreshIsClean, SignersFrom, Vetted
<1>8. WebFits'
  BY DEF WebFits
<1> QED
  BY <1>1, <1>2, <1>3, <1>4, <1>5, <1>6, <1>7, <1>8

(* and writes a manifest that replaces the one of before.                  *)
LEMMA WriteDeploymentStep == DInv /\ writeDeployment => DInv'
<1> SUFFICES ASSUME DInv, writeDeployment PROVE DInv'
  OBVIOUS
<1> USE PipelineAssumption DEF DInv, writeDeployment, at, deploymentFcc, chainVars
<1>1. PipelineTypeOK'
  <2>1. run.of \in Deployments
    BY DEF DeployFits, Deploying
  <2>2. /\ manifest'.of = run.of
        /\ {"extensionId", "teeSigner"} \subseteq DOMAIN manifest'.fcc
    OBVIOUS
  <2> QED
    BY <2>1, <2>2 DEF PipelineTypeOK, Deployments, noManifest, noRun
<1>2. Shapes'
  BY DEF Shapes, Deploying, DeploySteps, Finalizing, noRun
<1>3. MempoolFits'
  BY DEF TxFits, Vetted, MempoolFits
<1>4. DeployFits'
  BY DEF DeployFits, SignersFrom, Vetted, Shapes, Deploying, DeploySteps,
         Finalizing, noRun
<1>5. FinalizeFits'
  BY DEF FinalizeFits, Vetted, Shapes, Deploying, DeploySteps, Finalizing,
         noRun
<1>6. ManifestFits'
  <2>1. /\ run.of \in Deployments /\ made[run.of] = DeploySteps
        /\ SignersFrom(run.of, run.signer)
        /\ run.signer = 0 \/ run.signer \in signers[run.of]
    BY DEF DeployFits, madeBefore, Deploying
  <2>2. /\ manifest' = [of |-> run.of, fcc |-> deploymentFcc]
        /\ manifest'.of = run.of /\ manifest'.fcc = deploymentFcc
        /\ deploymentFcc.extensionId = 0
        /\ deploymentFcc.teeSigner = run.signer
        /\ "status" \notin DOMAIN deploymentFcc
    OBVIOUS
  <2> HIDE DEF deploymentFcc
  <2> QED
    BY <2>1, <2>2
    DEF ManifestFits, SignersFrom, Vetted, Deployments, Tees, Shapes
<1>7. FreshIsClean'
  BY DEF FreshIsClean, SignersFrom, Vetted
<1>8. WebFits'
  BY DEF WebFits
<1> QED
  BY <1>1, <1>2, <1>3, <1>4, <1>5, <1>6, <1>7, <1>8

(* An extension is registered, for this sender or another.                 *)
LEMMA RegisterExtensionStep == DInv /\ registerExtension => DInv'
<1> SUFFICES ASSUME DInv, registerExtension PROVE DInv'
  OBVIOUS
<1> USE PipelineAssumption DEF DInv, registerExtension, mishap, idsOf, chainVars
<1>1. PipelineTypeOK'
  <2>1. PICK d \in 0 .. MaxDeployments : extensions' = Append(extensions, d)
    <3>1. manifest # noManifest => manifest.of \in 0 .. MaxDeployments
      BY DEF ManifestFits, Deployments
    <3>2. 0 \in 0 .. MaxDeployments
      OBVIOUS
    <3> QED
      BY <3>1, <3>2
  <2>2. /\ extensions' \in Seq(0 .. MaxDeployments)
        /\ Len(extensions') = Len(extensions) + 1
    BY <2>1 DEF Shapes

  <2>3. /\ bound' \in [Deployments -> 0 .. Len(extensions')]
        /\ production' \in [Tees -> 0 .. Len(extensions')]
    BY <2>2 DEF PipelineTypeOK
  <2>4. \A i \in 1 .. Len(extensions') : extensions'[i] \in 0 .. MaxDeployments
    BY <2>2
  <2>5. mishaps' \in 0 .. MaxMishaps
    BY DEF PipelineTypeOK
  <2> QED
    BY <2>3, <2>4, <2>5 DEF PipelineTypeOK
<1>2. Shapes'
  <2>1. PICK d \in 0 .. MaxDeployments : extensions' = Append(extensions, d)
    <3>1. manifest # noManifest => manifest.of \in 0 .. MaxDeployments
      BY DEF ManifestFits, Deployments
    <3>2. 0 \in 0 .. MaxDeployments
      OBVIOUS
    <3> QED
      BY <3>1, <3>2
  <2>2. /\ extensions' \in Seq(0 .. MaxDeployments)
        /\ Len(extensions') = Len(extensions) + 1
    BY <2>1 DEF Shapes

  <2> QED
    BY <2>2 DEF Shapes
<1>3. MempoolFits'
  BY DEF TxFits, Vetted, MempoolFits
<1>4. DeployFits'
  BY DEF DeployFits, SignersFrom, Vetted
<1>5. FinalizeFits'
  BY DEF FinalizeFits, Vetted
<1>6. ManifestFits'
  BY DEF SignersFrom, Vetted, ManifestFits
<1>7. FreshIsClean'
  BY DEF FreshIsClean, SignersFrom, Vetted
<1>8. WebFits'
  BY DEF WebFits
<1> QED
  BY <1>1, <1>2, <1>3, <1>4, <1>5, <1>6, <1>7, <1>8

(* The TEE goes to production.                                             *)
LEMMA TeeToProductionStep == DInv /\ teeToProduction => DInv'
<1> SUFFICES ASSUME DInv, teeToProduction PROVE DInv'
  OBVIOUS
<1> USE PipelineAssumption DEF DInv, teeToProduction, idsOf, chainVars
<1>1. PipelineTypeOK'
  <2>1. production' \in [Tees -> 0 .. Len(extensions)] /\ atProxyUrl' \subseteq Tees
    BY DEF PipelineTypeOK, Shapes, Tees
  <2> QED
    BY <2>1 DEF PipelineTypeOK
<1>2. Shapes'
  BY DEF Shapes
<1>3. MempoolFits'
  <2>1. \A d \in Deployments, t \in Tees : Vetted(d, t) => Vetted(d, t)'
    BY VettedStays

  <2>2. \A i \in 1 .. Len(mempool) : mempool[i] \in Txs /\ TxFits(mempool[i])
    BY DEF MempoolFits
  <2>3. \A i \in 1 .. Len(mempool') : TxFits(mempool[i])'
    BY <2>1, <2>2 DEF TxFits, Txs
  <2> QED
    BY <2>3 DEF MempoolFits
<1>4. DeployFits'
  BY DEF DeployFits, SignersFrom, Vetted
<1>5. FinalizeFits'
  BY DEF FinalizeFits, Vetted
<1>6. ManifestFits'
  <2>1. \A d \in Deployments, t \in Tees : Vetted(d, t) => Vetted(d, t)'
    BY VettedStays

  <2>2. \A d \in Deployments : signers[d] \subseteq Tees
    BY DEF PipelineTypeOK
  <2> QED
    BY <2>1, <2>2 DEF ManifestFits, SignersFrom
<1>7. FreshIsClean'
  <2>1. \A d \in Deployments, t \in Tees : Vetted(d, t) => Vetted(d, t)'
    BY VettedStays

  <2>2. \A d \in Deployments : signers[d] \subseteq Tees
    BY DEF PipelineTypeOK
  <2> QED
    BY <2>1, <2>2 DEF FreshIsClean, SignersFrom
<1>8. WebFits'
  BY DEF WebFits
<1> QED
  BY <1>1, <1>2, <1>3, <1>4, <1>5, <1>6, <1>7, <1>8

(* It comes up with another key.                                           *)
LEMMA TeeRestartsStep == DInv /\ teeRestarts => DInv'
<1> SUFFICES ASSUME DInv, teeRestarts PROVE DInv'
  OBVIOUS
<1> USE PipelineAssumption DEF DInv, teeRestarts, mishap, chainVars
<1>1. PipelineTypeOK'
  <2>1. mishaps' \in 0 .. MaxMishaps
    BY DEF PipelineTypeOK
  <2> QED
    BY <2>1 DEF PipelineTypeOK
<1>2. Shapes'
  BY DEF Shapes, Tees
<1>3. MempoolFits'
  BY DEF TxFits, Vetted, MempoolFits
<1>4. DeployFits'
  BY DEF DeployFits, SignersFrom, Vetted
<1>5. FinalizeFits'
  BY DEF FinalizeFits, Vetted
<1>6. ManifestFits'
  BY DEF SignersFrom, Vetted, ManifestFits
<1>7. FreshIsClean'
  BY DEF FreshIsClean, SignersFrom, Vetted
<1>8. WebFits'
  BY DEF WebFits
<1> QED
  BY <1>1, <1>2, <1>3, <1>4, <1>5, <1>6, <1>7, <1>8

(* The finalizer takes the manifest that is there,                         *)
LEMMA FinalizeStep == DInv /\ finalize => DInv'
<1> SUFFICES ASSUME DInv, finalize PROVE DInv'
  OBVIOUS
<1> USE PipelineAssumption DEF DInv, finalize, chainVars
<1>1. PipelineTypeOK'
  BY DEF PipelineTypeOK, Deployments, Tees, DeploySteps
<1>2. Shapes'
  BY DEF Shapes, Deploying, DeploySteps, Finalizing, noRun
<1>3. MempoolFits'
  BY DEF TxFits, Vetted, MempoolFits
<1>4. DeployFits'
  BY DEF DeployFits, SignersFrom, Vetted, Shapes, Deploying, DeploySteps,
         Finalizing, noRun
<1>5. FinalizeFits'
  BY DEF FinalizeFits, Vetted, Shapes, Deploying, DeploySteps, Finalizing,
         noRun
<1>6. ManifestFits'
  BY DEF SignersFrom, Vetted, ManifestFits
<1>7. FreshIsClean'
  BY DEF FreshIsClean, SignersFrom, Vetted
<1>8. WebFits'
  BY DEF WebFits
<1> QED
  BY <1>1, <1>2, <1>3, <1>4, <1>5, <1>6, <1>7, <1>8

(* also one that was finalized.                                            *)
LEMMA FinalizeAgainStep == DInv /\ finalizeAgain => DInv'
<1> SUFFICES ASSUME DInv, finalizeAgain PROVE DInv'
  OBVIOUS
<1> USE PipelineAssumption DEF DInv, finalizeAgain, mishap, chainVars
<1>1. PipelineTypeOK'
  BY DEF PipelineTypeOK, Deployments, Tees, DeploySteps
<1>2. Shapes'
  BY DEF Shapes, Deploying, DeploySteps, Finalizing, noRun
<1>3. MempoolFits'
  BY DEF TxFits, Vetted, MempoolFits
<1>4. DeployFits'
  BY DEF DeployFits, SignersFrom, Vetted, Shapes, Deploying, DeploySteps,
         Finalizing, noRun
<1>5. FinalizeFits'
  <2>1. manifest # noManifest
    BY DEF noManifest
  <2>2. /\ run'.step = "readExtension"
        /\ run'.of = manifest.of /\ run'.fcc = manifest.fcc
    OBVIOUS
  <2> QED
    BY <2>1, <2>2 DEF FinalizeFits
<1>6. ManifestFits'
  BY DEF SignersFrom, Vetted, ManifestFits
<1>7. FreshIsClean'
  BY DEF FreshIsClean, SignersFrom, Vetted
<1>8. WebFits'
  BY DEF WebFits
<1> QED
  BY <1>1, <1>2, <1>3, <1>4, <1>5, <1>6, <1>7, <1>8

(* The export is written only from a manifest with a live proof, which is  *)
(* one that was finalized.                                                 *)
LEMMA ExportWebConfigStep == DInv /\ exportWebConfig => DInv'
<1> SUFFICES ASSUME DInv, exportWebConfig PROVE DInv'
  OBVIOUS
<1> USE PipelineAssumption DEF DInv, exportWebConfig, isExportable, chainVars
<1>1. PipelineTypeOK'
  BY DEF PipelineTypeOK, Deployments, Tees
<1>2. Shapes'
  BY DEF Shapes
<1>3. MempoolFits'
  BY DEF TxFits, Vetted, MempoolFits
<1>4. DeployFits'
  BY DEF DeployFits, SignersFrom, Vetted
<1>5. FinalizeFits'
  BY DEF FinalizeFits, Vetted
<1>6. ManifestFits'
  BY DEF SignersFrom, Vetted, ManifestFits
<1>7. FreshIsClean'
  BY DEF FreshIsClean, SignersFrom, Vetted
<1>8. WebFits'
  BY DEF WebFits, ManifestFits
<1> QED
  BY <1>1, <1>2, <1>3, <1>4, <1>5, <1>6, <1>7, <1>8

(* A script stops.                                                         *)
LEMMA ScriptStopsStep == DInv /\ scriptStops => DInv'
<1> SUFFICES ASSUME DInv, scriptStops PROVE DInv'
  OBVIOUS
<1>1. mishaps' \in 0 .. MaxMishaps
  BY PipelineAssumption DEF scriptStops, mishap, DInv, PipelineTypeOK
<1> QED
  BY <1>1, RunEnds DEF scriptStops

(* The finalizer reads the extension id the sender is bound to, or binds   *)
(* it.                                                                     *)
LEMMA ReadExtensionStep == DInv /\ readExtension => DInv'
<1> SUFFICES ASSUME DInv, readExtension PROVE DInv'
  OBVIOUS
<1>1. run.step = "readExtension" /\ UNCHANGED <<chainVars, manifest, web, mishaps>>
  BY DEF readExtension, at
<1>2. CASE send("setExtensionId")
  BY <1>1, <1>2, SendStep DEF Finalizing
<1>3. CASE isBound /\ mempool' = mempool
           /\ run' = [run EXCEPT !.step = "validate", !.id = bound[run.of]]
  <2> USE <1>1, <1>3 DEF DInv, chainVars
  <2>1. /\ DOMAIN run' = DOMAIN run
        /\ run'.step = "validate" /\ run'.of = run.of /\ run'.fcc = run.fcc
        /\ run'.id = bound[run.of] /\ run'.signer = run.signer
    BY DEF Shapes
  <2>2. bound[run.of] # 0
    BY DEF isBound
  <2>3. PipelineTypeOK'
    BY DEF PipelineTypeOK
  <2>4. Shapes'
    BY <2>1 DEF Shapes, Finalizing
  <2>5. MempoolFits'
    BY DEF MempoolFits, TxFits, Vetted
  <2>6. DeployFits'
    BY <2>1 DEF DeployFits, Deploying, DeploySteps
  <2>7. FinalizeFits'
    BY <2>1, <2>2 DEF FinalizeFits, Finalizing
  <2>8. ManifestFits' /\ FreshIsClean' /\ WebFits'
    BY DEF ManifestFits, FreshIsClean, WebFits, SignersFrom, Vetted
  <2> QED
    BY <2>3, <2>4, <2>5, <2>6, <2>7, <2>8
<1> QED
  BY <1>2, <1>3 DEF readExtension

(* Only a vetted signer passes.                                            *)
LEMMA ValidateStep == DInv /\ validate => DInv'
<1> SUFFICES ASSUME DInv, validate PROVE DInv'
  OBVIOUS
<1>1. /\ run.step = "validate"
      /\ UNCHANGED <<chainVars, mempool, manifest, web, mishaps>>
  BY DEF validate, at
<1>2. PICK signer \in Tees :
        run' = IF isValid(signer)
                 THEN [run EXCEPT !.step = "setTeeSigner", !.signer = signer]
                 ELSE noRun
  BY DEF validate
<1>3. CASE ~ isValid(signer)
  BY <1>1, <1>2, <1>3, RunEnds DEF DInv, PipelineTypeOK
<1>4. CASE isValid(signer)
  <2> USE <1>1 DEF DInv, chainVars
  <2>1. /\ DOMAIN run' = DOMAIN run
        /\ run'.step = "setTeeSigner" /\ run'.of = run.of /\ run'.fcc = run.fcc
        /\ run'.id = run.id /\ run'.signer = signer
    BY <1>2, <1>4 DEF Shapes
  <2>2. Vetted(run.of, signer) /\ run.fcc.teeSigner \in {0, signer}
    BY <1>4 DEF isValid, Vetted, FinalizeFits, Finalizing
  <2>3. PipelineTypeOK'
    BY DEF PipelineTypeOK
  <2>4. Shapes'
    BY <2>1, TypeFacts DEF Shapes, Finalizing
  <2>5. MempoolFits'
    BY DEF MempoolFits, TxFits, Vetted
  <2>6. DeployFits'
    BY <2>1 DEF DeployFits, Deploying, DeploySteps
  <2>7. FinalizeFits'
    BY <2>1, <2>2 DEF FinalizeFits, Finalizing, Vetted
  <2>8. ManifestFits' /\ FreshIsClean' /\ WebFits'
    BY DEF ManifestFits, FreshIsClean, WebFits, SignersFrom, Vetted
  <2> QED
    BY <2>3, <2>4, <2>5, <2>6, <2>7, <2>8
<1> QED
  BY <1>3, <1>4

(* It is registered, unless it is already.                                 *)
LEMMA SetTeeSignerStep == DInv /\ setTeeSigner => DInv'
<1> SUFFICES ASSUME DInv, setTeeSigner PROVE DInv'
  OBVIOUS
<1>1. run.step = "setTeeSigner" /\ UNCHANGED <<chainVars, manifest, web, mishaps>>
  BY DEF setTeeSigner, at
<1>2. CASE send("setTeeSigner")
  BY <1>1, <1>2, SendStep DEF Finalizing
<1>3. CASE /\ run.signer \in signers[run.of] /\ goTo("writeFinalization")
           /\ mempool' = mempool
  <2> USE <1>1, <1>3 DEF DInv, chainVars
  <2>1. /\ DOMAIN run' = DOMAIN run
        /\ run'.step = "writeFinalization" /\ run'.of = run.of
        /\ run'.fcc = run.fcc /\ run'.id = run.id /\ run'.signer = run.signer
    BY DEF Shapes, goTo
  <2>3. PipelineTypeOK'
    BY DEF PipelineTypeOK
  <2>4. Shapes'
    BY <2>1 DEF Shapes, Finalizing
  <2>5. MempoolFits'
    BY DEF MempoolFits, TxFits, Vetted
  <2>6. DeployFits'
    BY <2>1 DEF DeployFits, Deploying, DeploySteps
  <2>7. FinalizeFits'
    BY <2>1 DEF FinalizeFits, Finalizing, Vetted
  <2>8. ManifestFits' /\ FreshIsClean' /\ WebFits'
    BY DEF ManifestFits, FreshIsClean, WebFits, SignersFrom, Vetted
  <2> QED
    BY <2>3, <2>4, <2>5, <2>6, <2>7, <2>8
<1> QED
  BY <1>2, <1>3 DEF setTeeSigner

(* The signer of the deployment, when it had one, is the vetted one; all   *)
(* the others were vetted when they were sent.                             *)
LEMMA WriteFinalizationStep == DInv /\ writeFinalization => DInv'
<1> SUFFICES ASSUME DInv, writeFinalization PROVE DInv'
  OBVIOUS
<1> DEFINE fcc == [extensionRegistration |-> "registered",
                   extensionId |-> run.id, teeSigner |-> run.signer,
                   teeMachineStatus |-> "PRODUCTION"]
<1>1. /\ run.step = "writeFinalization"
      /\ UNCHANGED <<chainVars, mempool, web, mishaps>>
      /\ manifest' = [of |-> run.of, fcc |-> fcc] /\ run' = noRun
  BY DEF writeFinalization, at
<1>2. /\ fcc.extensionId = run.id /\ fcc.teeSigner = run.signer
      /\ {"extensionId", "teeSigner"} \subseteq DOMAIN fcc
  OBVIOUS
<1> HIDE DEF fcc
<1>3. manifest'.of = run.of /\ manifest'.fcc = fcc
  BY <1>1
<1> USE DEF DInv, chainVars
<1>4. /\ run.of = manifest.of /\ run.fcc = manifest.fcc /\ manifest # noManifest
      /\ run.id = bound[run.of] /\ run.id # 0
      /\ run.signer \in Tees /\ run.signer \in signers[run.of]
      /\ Vetted(run.of, run.signer) /\ run.fcc.teeSigner \in {0, run.signer}
  BY <1>1 DEF FinalizeFits, Finalizing
<1>5. /\ run.of \in Deployments /\ made[run.of] = DeploySteps
      /\ run.id \in Nat /\ run.signer # 0
      /\ \A t \in signers[run.of] : t # 0
  BY <1>4, TypeFacts DEF ManifestFits, PipelineTypeOK
<1>6. SignersFrom(run.of, 0)
  BY <1>4, <1>5 DEF ManifestFits, SignersFrom
<1>7. ManifestFits'
  BY <1>1, <1>2, <1>3, <1>4, <1>5, <1>6, TypeFacts
  DEF ManifestFits, SignersFrom, Vetted
<1>8. PipelineTypeOK'
  BY <1>1, <1>2, <1>3, <1>5, TypeFacts DEF PipelineTypeOK
<1>9. Shapes'
  BY <1>1, PipelineAssumption DEF Shapes, noRun
<1>10. MempoolFits' /\ FreshIsClean' /\ WebFits'
  BY <1>1 DEF MempoolFits, TxFits, Vetted, FreshIsClean, SignersFrom, WebFits
<1>11. DeployFits' /\ FinalizeFits'
  BY <1>1
  DEF DeployFits, FinalizeFits, Deploying, DeploySteps, Finalizing, noRun
<1> QED
  BY <1>7, <1>8, <1>9, <1>10, <1>11

(* The live proof keeps extension id and signer.                           *)
LEMMA RecordLiveProofStep == DInv /\ recordLiveProof => DInv'
<1> SUFFICES ASSUME DInv, recordLiveProof PROVE DInv'
  OBVIOUS
<1> DEFINE fcc == [extensionId |-> manifest.fcc.extensionId,
                   teeSigner |-> manifest.fcc.teeSigner,
                   status |-> "PRODUCTION", liveProof |-> TRUE]
<1> USE DEF DInv, chainVars
<1>1. manifest # noManifest /\ manifest.fcc.extensionId # 0
  BY DEF recordLiveProof, noManifest
<1>2. manifest' = [of |-> manifest.of, fcc |-> fcc]
  <2>1. manifest = [of |-> manifest.of, fcc |-> manifest.fcc]
    BY <1>1 DEF ManifestFits
  <2>2. manifest' = [manifest EXCEPT !.fcc = fcc]
    BY DEF recordLiveProof
  <2> HIDE DEF fcc
  <2> QED
    BY <2>1, <2>2
<1>3. /\ fcc.extensionId = manifest.fcc.extensionId
      /\ fcc.teeSigner = manifest.fcc.teeSigner
      /\ {"extensionId", "teeSigner"} \subseteq DOMAIN fcc
  OBVIOUS
<1> HIDE DEF fcc
<1>4. manifest'.of = manifest.of /\ manifest'.fcc = fcc
  BY <1>2
<1>5. UNCHANGED <<chainVars, mempool, run, web, mishaps>> /\ run = noRun
  BY DEF recordLiveProof
<1>6. ManifestFits'
  BY <1>1, <1>2, <1>3, <1>4, <1>5 DEF ManifestFits, SignersFrom, Vetted
<1>7. PipelineTypeOK'
  BY <1>3, <1>4, <1>5 DEF PipelineTypeOK
<1>8. Shapes' /\ MempoolFits' /\ FreshIsClean' /\ WebFits'
  BY <1>5 DEF Shapes, MempoolFits, TxFits, Vetted, FreshIsClean, SignersFrom,
              WebFits
<1>9. DeployFits' /\ FinalizeFits'
  BY <1>5
  DEF DeployFits, FinalizeFits, Deploying, DeploySteps, Finalizing, noRun
<1> QED
  BY <1>6, <1>7, <1>8, <1>9

(* A transaction is mined, whoever waits for it: it binds a sender that    *)
(* is not bound, or registers a signer that is vetted.                     *)
LEMMA MineStep == DInv /\ mine => DInv'
<1> SUFFICES ASSUME DInv, mine PROVE DInv'
  OBVIOUS
<1> USE DEF DInv, chainVars
<1> DEFINE tx == Head(mempool)
<1>1. /\ mempool' = Tail(mempool) /\ mempool # <<>>
      /\ UNCHANGED <<made, extensions, production, atProxyUrl, tee, manifest,
                     web, mishaps>>
  BY DEF mine
<1>2. tx \in Txs /\ TxFits(tx)
  BY <1>1 DEF MempoolFits
<1>3. /\ DOMAIN run' = DOMAIN run
      /\ \/ /\ run'.step = run.step /\ run'.of = run.of /\ run'.fcc = run.fcc
            /\ run'.id = run.id /\ run'.signer = run.signer
         \/ run' = noRun
  BY DEF mine, Shapes, noRun
<1>4. /\ bound' \in [Deployments -> 0 .. Len(extensions)]
      /\ \A d \in Deployments : bound[d] # 0 => bound'[d] = bound[d]
  <2>1. CASE tx.op = "setExtensionId" /\ accepts(tx)
    <3> DEFINE least == CHOOSE i \in idsOf(tx.of) : \A j \in idsOf(tx.of) : i <= j
    <3>1. bound' = [bound EXCEPT ![tx.of] = least]
      BY <2>1 DEF mine
    <3>2. bound[tx.of] = 0 /\ idsOf(tx.of) # {} /\ idsOf(tx.of) \subseteq Nat
      <4>1. idsOf(tx.of) \subseteq Nat
        BY DEF idsOf
      <4> HIDE DEF tx
      <4>2. bound[tx.of] = 0 /\ idsOf(tx.of) # {}
        BY <2>1 DEF accepts
      <4> QED
        BY <4>1, <4>2
    <3>3. least \in idsOf(tx.of)
      BY <3>2, LeastExists
    <3>4. idsOf(tx.of) \subseteq 0 .. Len(extensions)
      BY DEF idsOf
    <3> HIDE DEF least, tx
    <3> QED
      BY <3>1, <3>2, <3>3, <3>4 DEF PipelineTypeOK
  <2>2. CASE ~ (tx.op = "setExtensionId" /\ accepts(tx))
    BY <2>2 DEF mine, PipelineTypeOK
  <2> QED
    BY <2>1, <2>2
<1>5. /\ signers' \in [Deployments -> SUBSET Tees]
      /\ \A d \in Deployments : signers[d] \subseteq signers'[d]
      /\ \A d \in Deployments : \A t \in signers'[d] \ signers[d] : Vetted(d, t)
  <2>1. CASE tx.op = "setTeeSigner"
    <3>1. signers' = [signers EXCEPT ![tx.of] = @ \cup {tx.signer}]
      BY <2>1 DEF mine
    <3>2. tx.of \in Deployments /\ tx.signer \in Tees /\ Vetted(tx.of, tx.signer)
      BY <1>2, <2>1 DEF TxFits, Txs
    <3> HIDE DEF tx
    <3> QED
      BY <3>1, <3>2 DEF PipelineTypeOK
  <2>2. CASE tx.op # "setTeeSigner"
    BY <2>2 DEF mine, PipelineTypeOK
  <2> QED
    BY <2>1, <2>2
<1>6. \A d \in Deployments, t \in Tees : Vetted(d, t) => Vetted(d, t)'
  BY VettedStays
<1>7. \A d \in Deployments : \A given :
        SignersFrom(d, given) => SignersFrom(d, given)'
  <2> SUFFICES ASSUME NEW d \in Deployments, NEW given, SignersFrom(d, given),
                      NEW t \in signers'[d]
               PROVE  t = given \/ Vetted(d, t)'
    BY DEF SignersFrom
  <2>1. t \in Tees
    BY <1>5
  <2> QED
    BY <1>5, <1>6, <2>1 DEF SignersFrom
<1> HIDE DEF tx
<1>8. PipelineTypeOK'
  BY <1>1, <1>4, <1>5 DEF PipelineTypeOK
<1>9. Shapes'
  BY <1>1, <1>3, PipelineAssumption DEF Shapes, noRun
<1>10. MempoolFits'
  <2>1. /\ mempool' \in Seq(Txs) /\ Len(mempool') = Len(mempool) - 1
        /\ \A i \in 1 .. Len(mempool') :
             mempool'[i] = mempool[i + 1] /\ i + 1 \in 1 .. Len(mempool)
    BY <1>1 DEF MempoolFits
  <2>2. \A i \in 1 .. Len(mempool) : mempool[i] \in Txs /\ TxFits(mempool[i])
    BY DEF MempoolFits
  <2>3. \A x \in Txs : TxFits(x) => TxFits(x)'
    BY <1>6 DEF TxFits, Txs
  <2>4. \A i \in 1 .. Len(mempool') : TxFits(mempool[i])'
    <3> SUFFICES ASSUME NEW i \in 1 .. Len(mempool')
                 PROVE  TxFits(mempool[i])'
      OBVIOUS
    <3>1. PICK x \in Txs : mempool'[i] = x /\ TxFits(x)
      BY <2>1, <2>2
    <3> QED
      BY <2>3, <3>1 DEF TxFits, Vetted
  <2> QED
    BY <2>1, <2>4 DEF MempoolFits
<1>11. DeployFits'
  <2>1. CASE run' = noRun
    BY <2>1 DEF DeployFits, noRun, Deploying, DeploySteps
  <2>2. CASE run' # noRun
    BY <1>1, <1>3, <1>5, <1>7, <2>2 DEF DeployFits
  <2> QED
    BY <2>1, <2>2
<1>12. FinalizeFits'
  <2>1. CASE run' = noRun
    BY <2>1 DEF FinalizeFits, noRun, Finalizing
  <2>2. CASE run' # noRun /\ run.step \in Finalizing
    <3>1. run.of \in Deployments
      BY <2>2 DEF FinalizeFits, ManifestFits
    <3>2. run.step # "readExtension" => bound'[run.of] = bound[run.of]
      BY <1>4, <2>2, <3>1 DEF FinalizeFits
    <3>3. \A t \in Tees : Vetted(run.of, t) => Vetted(run.of, t)'
      BY <1>1, <1>3, <1>6, <2>2, <3>1 DEF Vetted
    <3> QED
      BY <1>1, <1>3, <1>5, <2>2, <3>1, <3>2, <3>3 DEF FinalizeFits, Vetted
  <2> QED
    BY <1>3, <2>1, <2>2 DEF FinalizeFits
<1>13. ManifestFits'
  BY <1>1, <1>4, <1>5, <1>7 DEF ManifestFits
<1>14. FreshIsClean'
  BY <1>1, <1>7 DEF FreshIsClean
<1>15. WebFits'
  BY <1>1, <1>4, <1>5 DEF WebFits
<1> QED
  BY <1>8, <1>9, <1>10, <1>11, <1>12, <1>13, <1>14, <1>15

(* Every step keeps the invariant.                                         *)
LEMMA DInvStep == DInv /\ [PipelineNext]_pipelineVars => DInv'
<1> SUFFICES ASSUME DInv, [PipelineNext]_pipelineVars
             PROVE  DInv'
  OBVIOUS
<1>1. CASE ScriptStep
  BY <1>1, DeployNextStep, DeploySignerStep, WriteDeploymentStep,
     ReadExtensionStep, ValidateStep, SetTeeSignerStep, WriteFinalizationStep
  DEF ScriptStep
<1>2. CASE deploy \/ finalize \/ finalizeAgain
  BY <1>2, DeployStep, FinalizeStep, FinalizeAgainStep
<1>3. CASE registerExtension \/ teeToProduction \/ teeRestarts \/ mine
  BY <1>3, RegisterExtensionStep, TeeToProductionStep, TeeRestartsStep,
     MineStep
<1>4. CASE recordLiveProof \/ exportWebConfig \/ scriptStops
  BY <1>4, RecordLiveProofStep, ExportWebConfigStep, ScriptStopsStep
<1>5. CASE UNCHANGED pipelineVars
  BY <1>5
  DEF pipelineVars, chainVars, DInv, PipelineTypeOK, Shapes, MempoolFits,
      TxFits, DeployFits, FinalizeFits, ManifestFits, FreshIsClean, WebFits,
      SignersFrom, Vetted
<1> QED
  BY <1>1, <1>2, <1>3, <1>4, <1>5 DEF PipelineNext

(* It holds always.                                                        *)
LEMMA PipelineInvariant == PipelineSpec => []DInv
  BY DInvInit, DInvStep, PTL DEF PipelineSpec

(* The types of what is on chain and in the manifest.                      *)
THEOREM PipelineTypeCorrect == PipelineSpec => []PipelineTypeOK
<1>1. DInv => PipelineTypeOK
  BY DEF DInv
<1> QED
  BY PipelineInvariant, <1>1, PTL

(* Wherever a script stops and whatever is mined late, what the manifest   *)
(* names is on chain.                                                      *)
THEOREM EvidenceIsThere == PipelineSpec => []EvidenceHolds
<1>1. DInv => EvidenceHolds
  BY DEF DInv, ManifestFits, EvidenceHolds
<1> QED
  BY PipelineInvariant, <1>1, PTL

(* A finalized deployment trusts only TEEs in production for its           *)
(* extension, at the URL the finalizer expects.                            *)
THEOREM OnlyMachinesSign == PipelineSpec => []SignersAreMachines
<1>1. DInv => SignersAreMachines
  <2> SUFFICES ASSUME DInv, manifest.fcc.extensionId # 0,
                      NEW t \in signers[manifest.of]
               PROVE  /\ production[t] = bound[manifest.of]
                      /\ production[t] # 0 /\ t \in atProxyUrl
    BY DEF SignersAreMachines
  <2>1. manifest # noManifest
    BY DEF noManifest
  <2>2. manifest.of \in Deployments /\ SignersFrom(manifest.of, 0)
    BY <2>1 DEF DInv, ManifestFits
  <2>3. t # 0
    BY <2>2, TypeFacts
  <2>4. Vetted(manifest.of, t)
    BY <2>2, <2>3 DEF SignersFrom
  <2> QED
    BY <2>4, PipelineAssumption DEF Vetted
<1> QED
  BY PipelineInvariant, <1>1, PTL

(* The site that is configured talks to one deployment.                    *)
THEOREM WebTalksToOne == PipelineSpec => []WebIsConsistent
<1>1. DInv => WebIsConsistent
  BY DEF DInv, WebFits, WebIsConsistent
<1> QED
  BY PipelineInvariant, <1>1, PTL
===============================================================================
