-------------------------- MODULE DeploymentPipeline --------------------------
(***************************************************************************)
(* scripts/deploy-coston2.js, finalize-fcc-coston2.js and                  *)
(* export-web-config.js, which hand the deployment on in one file, the     *)
(* manifest deployments/coston2.json.  The operator runs one script at a   *)
(* time and runs it again when it stops.  In between the FCC scaffold      *)
(* registers the extension and takes the TEE to production, and the        *)
(* manifest is completed by hand with the live proof.                      *)
(***************************************************************************)
EXTENDS Integers, Sequences

CONSTANTS
  ExpectedExtensionId, \* EXPECTED_EXTENSION_ID of the finalizer
  MaxDeployments,      \* bound on the runs of the deployment script
  MaxExtensions,       \* bound on the extensions registered
  MaxTees,             \* bound on the keys the TEE comes up with
  MaxMishaps           \* bound on what goes wrong

ASSUME PipelineAssumption ==
  /\ ExpectedExtensionId \in Nat \ {0}
  /\ MaxDeployments \in Nat \ {0} /\ MaxTees \in Nat \ {0}
  /\ MaxExtensions \in Nat /\ MaxMishaps \in Nat

VARIABLES
  made,       \* deployment -> what of it is on chain
  extensions, \* the registered extensions' senders, in order of their ids
  bound,      \* deployment -> extensionId of its sender
  signers,    \* deployment -> registeredTeeSigners of its AccessRegistry
  production, \* TEE -> extension it is in production for, or 0
  atProxyUrl, \* TEEs registered with the finalizer's EXPECTED_PROXY_URL
  tee,        \* the key of the TEE that is up
  mempool,    \* the finalizer's transactions that are not mined
  manifest,   \* the file, or noManifest
  run,        \* the script that runs, with the manifest it has read
  web,        \* web/.env.local: none, refused or what it was made from
  mishaps

chainVars ==
  <<made, extensions, bound, signers, production, atProxyUrl, tee>>
pipelineVars == <<chainVars, mempool, manifest, run, web, mishaps>>

Deployments == 1 .. MaxDeployments
Tees == 1 .. MaxTees

DeploySteps == {"policyRegistry", "accessRegistry", "oracle", "sender",
                "policy", "vault"}

noManifest == [of |-> 0, fcc |-> [extensionId |-> 0]]
noRun == [step |-> "idle", of |-> 0, fcc |-> noManifest.fcc, id |-> 0,
          signer |-> 0, waiting |-> FALSE]

PipelineInit ==
  /\ made = [d \in Deployments |-> {}]
  /\ extensions = <<>>
  /\ bound = [d \in Deployments |-> 0]
  /\ signers = [d \in Deployments |-> {}]
  /\ production = [t \in Tees |-> 0]
  /\ atProxyUrl = {}
  /\ tee = 1
  /\ mempool = <<>>
  /\ manifest = noManifest
  /\ run = noRun
  /\ web = [result |-> "none"]
  /\ mishaps = 0

mishap == mishaps < MaxMishaps /\ mishaps' = mishaps + 1

at(step) == run.step = step /\ ~run.waiting

goTo(step) == run' = [run EXCEPT !.step = step, !.waiting = FALSE]

idsOf(d) == {i \in 1 .. Len(extensions) : extensions[i] = d}

fresh == {d \in Deployments : made[d] = {} /\ d # run.of}

(* deploy-coston2.js, for the first time or again: each run deploys        *)
(* everything anew, with TEE_SIGNER_ADDRESS or without.                    *)
deploy ==
  /\ run = noRun
  /\ \E d \in fresh, signer \in {0, tee} :
       /\ \A e \in fresh : d <= e
       /\ run' = [noRun EXCEPT !.step = "policyRegistry", !.of = d,
                               !.signer = signer]
  /\ UNCHANGED <<chainVars, mempool, manifest, web, mishaps>>

(* Mutant: the manifest is written before the vault is deployed.           *)
nextDeploymentEarly(step) ==
  CASE step = "policyRegistry" -> "accessRegistry"
    [] step = "accessRegistry" -> "oracle"
    [] step = "oracle" -> "sender"
    [] step = "sender" -> "policy"
    [] step = "policy" -> "signer"
    [] step = "signer" -> "writeDeployment"

nextDeployment(step) ==
  CASE step = "policyRegistry" -> "accessRegistry"
    [] step = "accessRegistry" -> "oracle"
    [] step = "oracle" -> "sender"
    [] step = "sender" -> "policy"
    [] step = "policy" -> "signer"
    [] step = "signer" -> "vault"
    [] step = "vault" -> "writeDeployment"

deployNext ==
  /\ run.step \in DeploySteps
  /\ made' = [made EXCEPT ![run.of] = @ \cup {run.step}]
  /\ goTo(nextDeployment(run.step))
  /\ UNCHANGED <<extensions, bound, signers, production, atProxyUrl, tee,
                 mempool, manifest, web, mishaps>>

(* A signer that is given is registered before the vault is deployed.      *)
deploySigner ==
  /\ at("signer")
  /\ signers' = IF run.signer = 0 THEN signers
                ELSE [signers EXCEPT ![run.of] = @ \cup {run.signer}]
  /\ goTo(nextDeployment("signer"))
  /\ UNCHANGED <<made, extensions, bound, production, atProxyUrl, tee, mempool,
                 manifest, web, mishaps>>

(* Mutant: what the file held about FCC is carried over.                   *)
deploymentFccKept ==
  IF manifest = noManifest
    THEN [extensionRegistration |-> "pending", extensionId |-> 0,
          teeSigner |-> run.signer]
    ELSE manifest.fcc

(* fcc of a new manifest.                                                  *)
deploymentFcc ==
  [extensionRegistration |-> "pending", extensionId |-> 0,
   teeSigner |-> run.signer]

writeDeployment ==
  /\ at("writeDeployment")
  /\ manifest' = [of |-> run.of, fcc |-> deploymentFcc]
  /\ run' = noRun
  /\ UNCHANGED <<chainVars, mempool, web, mishaps>>

(* The FCC scaffold, with the sender of the manifest, and everybody else.  *)
registerExtension ==
  /\ Len(extensions) < MaxExtensions
  /\ \/ /\ manifest # noManifest
        /\ idsOf(manifest.of) = {}
        /\ extensions' = Append(extensions, manifest.of)
        /\ UNCHANGED mishaps
     \/ mishap /\ extensions' = Append(extensions, 0)
  /\ UNCHANGED <<made, bound, signers, production, atProxyUrl, tee, mempool,
                 manifest, run, web>>

(* The scaffold registers the machine with the URL of the proxy it is      *)
(* given: the finalizer's, or another.                                     *)
teeToProduction ==
  /\ manifest # noManifest
  /\ production[tee] = 0
  /\ \E id \in idsOf(manifest.of) : production' = [production EXCEPT ![tee] = id]
  /\ atProxyUrl' \in {atProxyUrl, atProxyUrl \cup {tee}}
  /\ UNCHANGED <<made, extensions, bound, signers, tee, mempool, manifest, run,
                 web, mishaps>>

teeRestarts ==
  /\ tee < MaxTees
  /\ mishap
  /\ tee' = tee + 1
  /\ UNCHANGED <<made, extensions, bound, signers, production, atProxyUrl,
                 mempool, manifest, run, web>>

(* finalize-fcc-coston2.js, with TEE_SIGNER_ADDRESS or without.            *)
finalize ==
  /\ run = noRun
  /\ manifest # noManifest
  /\ manifest.fcc.extensionId = 0
  /\ run' = [noRun EXCEPT !.step = "readExtension", !.of = manifest.of,
                          !.fcc = manifest.fcc]
  /\ UNCHANGED <<chainVars, mempool, manifest, web, mishaps>>

(* The same on a manifest that was finalized.                              *)
finalizeAgain ==
  /\ run = noRun
  /\ manifest.fcc.extensionId # 0
  /\ mishap
  /\ run' = [noRun EXCEPT !.step = "readExtension", !.of = manifest.of,
                          !.fcc = manifest.fcc]
  /\ UNCHANGED <<chainVars, mempool, manifest, web>>

(* What the contracts accept; gas is estimated before a call is sent.      *)
accepts(tx) ==
  CASE tx.op = "setExtensionId" -> bound[tx.of] = 0 /\ idsOf(tx.of) # {}
    [] tx.op = "setTeeSigner" -> TRUE

send(op) ==
  LET tx == [op |-> op, of |-> run.of, signer |-> run.signer]
  IN  IF accepts(tx)
        THEN /\ mempool' = Append(mempool, tx)
             /\ run' = [run EXCEPT !.waiting = TRUE]
        ELSE run' = noRun /\ UNCHANGED mempool

(* Mutant: setExtensionId is called without asking for the extension id.   *)
isBoundNever == FALSE

isBound == bound[run.of] # 0

readExtension ==
  /\ at("readExtension")
  /\ IF isBound
       THEN /\ run' = [run EXCEPT !.step = "validate", !.id = bound[run.of]]
            /\ UNCHANGED mempool
       ELSE send("setExtensionId")
  /\ UNCHANGED <<chainVars, manifest, web, mishaps>>

(* Mutant: a machine in production for any extension will do.              *)
isValidAnywhere(signer) ==
  /\ production[signer] # 0
  /\ signer \in atProxyUrl
  /\ run.fcc.teeSigner \in {0, signer}

(* validateFinalizationState: the extension is the one of the constant,    *)
(* and the signer a machine in production for it at the constant's URL.    *)
isValid(signer) ==
  /\ run.id = ExpectedExtensionId
  /\ production[signer] = ExpectedExtensionId
  /\ signer \in atProxyUrl
  /\ run.fcc.teeSigner \in {0, signer}

validate ==
  /\ at("validate")
  /\ \E signer \in {tee, run.fcc.teeSigner} \cap Tees :
       run' = IF isValid(signer)
                THEN [run EXCEPT !.step = "setTeeSigner", !.signer = signer]
                ELSE noRun
  /\ UNCHANGED <<chainVars, mempool, manifest, web, mishaps>>

setTeeSigner ==
  /\ at("setTeeSigner")
  /\ IF run.signer \in signers[run.of]
       THEN goTo("writeFinalization") /\ UNCHANGED mempool
       ELSE send("setTeeSigner")
  /\ UNCHANGED <<chainVars, manifest, web, mishaps>>

(* manifest.fcc is replaced as a whole.                                    *)
writeFinalization ==
  /\ at("writeFinalization")
  /\ manifest' = [of |-> run.of,
                  fcc |-> [extensionRegistration |-> "registered",
                           extensionId |-> run.id, teeSigner |-> run.signer,
                           teeMachineStatus |-> "PRODUCTION"]]
  /\ run' = noRun
  /\ UNCHANGED <<chainVars, mempool, web, mishaps>>

isAwaited == run.waiting /\ Len(mempool) = 1

(* The oldest transaction is mined; wait() throws when it reverted.        *)
mine ==
  /\ mempool # <<>>
  /\ mempool' = Tail(mempool)
  /\ LET tx == Head(mempool)
         ok == accepts(tx)
     IN  /\ bound' = IF ok /\ tx.op = "setExtensionId"
                       THEN [bound EXCEPT ![tx.of] =
                               CHOOSE i \in idsOf(tx.of) :
                                 \A j \in idsOf(tx.of) : i <= j]
                       ELSE bound
         /\ signers' = IF tx.op = "setTeeSigner"
                         THEN [signers EXCEPT ![tx.of] = @ \cup {tx.signer}]
                         ELSE signers
         /\ run' = IF ~isAwaited THEN run
                   ELSE IF ok THEN [run EXCEPT !.waiting = FALSE] ELSE noRun
  /\ UNCHANGED <<made, extensions, production, atProxyUrl, tee, manifest, web,
                 mishaps>>

(* By hand, after a live access: the fields the export asks for.           *)
recordLiveProof ==
  /\ run = noRun
  /\ manifest.fcc.extensionId # 0
  /\ manifest' = [manifest EXCEPT
                    !.fcc = [extensionId |-> @.extensionId,
                             teeSigner |-> @.teeSigner,
                             status |-> "PRODUCTION", liveProof |-> TRUE]]
  /\ UNCHANGED <<chainVars, mempool, run, web, mishaps>>

(* buildWebEnvironment throws when a field is not there.                   *)
isExportable == {"status", "extensionId", "liveProof"} \subseteq DOMAIN manifest.fcc

exportWebConfig ==
  /\ run = noRun
  /\ manifest # noManifest
  /\ web' = IF isExportable
              THEN [result |-> "written", of |-> manifest.of,
                    id |-> manifest.fcc.extensionId,
                    signer |-> manifest.fcc.teeSigner]
              ELSE [result |-> "refused"]
  /\ UNCHANGED <<chainVars, mempool, manifest, run, mishaps>>

scriptStops ==
  /\ run # noRun
  /\ mishap
  /\ run' = noRun
  /\ UNCHANGED <<chainVars, mempool, manifest, web>>

ScriptStep ==
  \/ deployNext
  \/ deploySigner
  \/ writeDeployment
  \/ readExtension
  \/ validate
  \/ setTeeSigner
  \/ writeFinalization

PipelineNext ==
  \/ ScriptStep
  \/ deploy
  \/ finalize
  \/ finalizeAgain
  \/ registerExtension
  \/ teeToProduction
  \/ teeRestarts
  \/ mine
  \/ recordLiveProof
  \/ exportWebConfig
  \/ scriptStops

PipelineSpec == PipelineInit /\ [][PipelineNext]_pipelineVars

(* Scripts go on, blocks are produced, and the operator follows README.md: *)
(* deploy, register, production, finalize.                                 *)
FairPipelineSpec ==
  /\ PipelineSpec
  /\ WF_pipelineVars(ScriptStep)
  /\ WF_pipelineVars(mine)
  /\ WF_pipelineVars(manifest = noManifest /\ deploy)
  /\ WF_pipelineVars(manifest # noManifest /\ registerExtension)
  /\ WF_pipelineVars(teeToProduction)
  /\ SF_pipelineVars(production[tee] # 0 /\ finalize)
-----------------------------------------------------------------------------
PipelineTypeOK ==
  /\ made \in [Deployments -> SUBSET DeploySteps]
  /\ \A i \in 1 .. Len(extensions) : extensions[i] \in 0 .. MaxDeployments
  /\ bound \in [Deployments -> 0 .. Len(extensions)]
  /\ signers \in [Deployments -> SUBSET Tees]
  /\ production \in [Tees -> 0 .. Len(extensions)]
  /\ atProxyUrl \subseteq Tees
  /\ manifest.of \in 0 .. MaxDeployments
  /\ manifest # noManifest =>
       {"extensionId", "teeSigner"} \subseteq DOMAIN manifest.fcc
  /\ mishaps \in 0 .. MaxMishaps

(* collect-coston2-evidence.js finds what it looks for whenever there is a *)
(* manifest, wherever a script was stopped: every contract has code and    *)
(* the policy is there, the extension id is the sender's, and the signer   *)
(* is registered (coston2-evidence.js 43-165).                             *)
EvidenceHolds ==
  manifest # noManifest =>
    /\ made[manifest.of] = DeploySteps
    /\ manifest.fcc.extensionId # 0 =>
         bound[manifest.of] = manifest.fcc.extensionId
    /\ manifest.fcc.teeSigner # 0 =>
         manifest.fcc.teeSigner \in signers[manifest.of]

(* Once a deployment is finalized, its AccessRegistry trusts only TEEs in  *)
(* production for the extension its sender is bound to, behind the proxy   *)
(* the finalizer expects, whether they were registered at deployment, by a *)
(* finalization that was cut off, or with another key of the TEE           *)
(* (finalize-fcc-coston2.js 66-124).                                       *)
SignersAreMachines ==
  manifest.fcc.extensionId # 0 =>
    \A t \in signers[manifest.of] :
      /\ production[t] = bound[manifest.of] /\ production[t] # 0
      /\ t \in atProxyUrl

(* The site that is configured talks to one deployment: its sender serves  *)
(* the extension it names and its registry trusts the signer it names.     *)
WebIsConsistent ==
  web.result = "written" =>
    bound[web.of] = web.id /\ web.signer \in signers[web.of]

(* The deployment that the manifest names has got the extension id that    *)
(* the finalizer insists on, a TEE whose key it will take is up, and was   *)
(* not registered with another URL than the finalizer's: such a machine is *)
(* refused at every run (fcc-finalization.js 24-26).                       *)
isFinalizable ==
  /\ manifest # noManifest
  /\ ExpectedExtensionId \in idsOf(manifest.of)
  /\ manifest.fcc.teeSigner \in {0, tee}
  /\ production[tee] # 0 => tee \in atProxyUrl

(* Repeating the finalization of such a deployment ends with a manifest    *)
(* that says so, also when it was stopped with a transaction under way     *)
(* that is mined later (finalize-fcc-coston2.js 66-139).                   *)
FinalizationCompletes ==
  <>[]isFinalizable => <>[](manifest.fcc.extensionId # 0)
=============================================================================
