---------------------------- MODULE ExtensionSetup ----------------------------
(***************************************************************************)
(* scripts/pre-build.sh with cmd/deploy-contract and                       *)
(* cmd/register-extension (SetupExtension of fccutils/extension.go), which *)
(* end by writing config/extension.env, and scripts/test.sh with           *)
(* cmd/run-test, which binds the instruction sender to its extension and   *)
(* sends it instructions.                                                  *)
(*                                                                         *)
(* Every step sends a transaction and waits for its receipt.  A mishap is  *)
(* a failed call, a process that dies, or a wait of two minutes that ends  *)
(* before the transaction is mined; the transaction stays where it is.     *)
(* Mishaps are bounded, and the operator runs the scripts again.           *)
(***************************************************************************)
EXTENDS Integers, Sequences, FiniteSets

CONSTANTS
  Reuse,             \* EXISTING_INSTRUCTION_SENDER may be set
  RejectsDuplicates, \* the registry refuses a sender it has an extension for
  MaxSenders,        \* bound on the senders deployed
  MaxExtensions,     \* bound on the public extensions
  MaxMishaps         \* bound on what goes wrong

ASSUME SetupAssumption ==
  /\ Reuse \in BOOLEAN
  /\ RejectsDuplicates \in BOOLEAN
  /\ MaxSenders \in Nat \ {0}
  /\ MaxExtensions \in Nat
  /\ MaxMishaps \in Nat

VARIABLES
  extensions, \* FlareTeeManager: the public extensions, in order of their ids
  deployed,   \* number of instruction senders deployed
  bound,      \* sender -> its extensionId, 0 when not set
  machines,   \* extensions that have a TEE in production
  mempool,    \* transactions sent and not mined, in nonce order
  run,        \* the tool that runs
  env,        \* config/extension.env
  tee,        \* the extension the started TEE serves
  tested,     \* sender the tests passed with
  mishaps

chainVars == <<extensions, deployed, bound, machines>>
setupVars == <<chainVars, mempool, run, env, tee, tested, mishaps>>

Senders == 1 .. MaxSenders
Foreign == 0                     \* the sender of somebody else's extension
Ids == 1 .. Len(extensions)

noEnv == [id |-> 0, sender |-> 0]

noRun == [step |-> "idle", wait |-> "none", result |-> 0, id |-> 0,
          sender |-> 0]

newExtension(s) ==
  [sender |-> s, machineOwner |-> FALSE, projectOwner |-> FALSE,
   keyType |-> FALSE]

SetupInit ==
  /\ extensions = <<>>
  /\ deployed = IF Reuse THEN 1 ELSE 0
  /\ bound = [s \in Senders |-> 0]
  /\ machines = {}
  /\ mempool = <<>>
  /\ run = noRun
  /\ env = noEnv
  /\ tee = 0
  /\ tested = 0
  /\ mishaps = 0

mishap == mishaps < MaxMishaps /\ mishaps' = mishaps + 1

idsOf(s) == {i \in Ids : extensions[i].sender = s}

(* Mutant: the sender of the extension is not compared.                    *)
newestId(s) == Len(extensions)

(* What setExtensionId finds, which loops up from the first public id.     *)
idFound(s) == CHOOSE i \in idsOf(s) : \A j \in idsOf(s) : i <= j

(* What the contracts accept.                                              *)
accepts(tx) ==
  CASE tx.op = "deploy" -> deployed < MaxSenders
    [] tx.op = "register" ->
         Len(extensions) < MaxExtensions
           /\ (RejectsDuplicates => idsOf(tx.sender) = {})
    [] tx.op \in {"machineOwner", "projectOwner", "keyType"} ->
         tx.id \in Ids
    [] tx.op = "setExtensionId" ->
         bound[tx.sender] = 0 /\ idsOf(tx.sender) # {}
    [] OTHER -> bound[tx.sender] \in machines

(* Their state after a transaction they accept.                            *)
execute(tx) ==
  /\ deployed' = IF tx.op = "deploy" THEN deployed + 1 ELSE deployed
  /\ extensions' =
       CASE tx.op = "register" -> Append(extensions, newExtension(tx.sender))
         [] tx.op = "machineOwner" ->
              [extensions EXCEPT ![tx.id].machineOwner = TRUE]
         [] tx.op = "projectOwner" ->
              [extensions EXCEPT ![tx.id].projectOwner = TRUE]
         [] tx.op = "keyType" -> [extensions EXCEPT ![tx.id].keyType = TRUE]
         [] OTHER -> extensions
  /\ bound' = IF tx.op = "setExtensionId"
                THEN [bound EXCEPT ![tx.sender] = idFound(tx.sender)]
                ELSE bound
  /\ UNCHANGED machines

(* Mutant: nextPublicExtensionId is read instead of the event.             *)
resultByCounter(tx) ==
  CASE tx.op = "deploy" -> deployed + 1
    [] tx.op = "register" -> Len(extensions) + 2
    [] tx.op \in {"sayHello", "sayGoodbye"} -> bound[tx.sender]
    [] OTHER -> 0

(* What the receipt and its logs tell: the contract's address, the id of   *)
(* the event, the extension an instruction went to.                        *)
resultOf(tx) ==
  CASE tx.op = "deploy" -> deployed + 1
    [] tx.op = "register" -> Len(extensions) + 1
    [] tx.op \in {"sayHello", "sayGoodbye"} -> bound[tx.sender]
    [] OTHER -> 0

(* Mutant: SetupExtension ends before it allows the project owner.         *)
nextStepShort(step) ==
  CASE step = "deploy" -> "register"
    [] step = "register" -> "machineOwner"
    [] step = "machineOwner" -> "keyType"
    [] step = "projectOwner" -> "keyType"
    [] step = "keyType" -> "write"
    [] step = "setExtensionId" -> "sayHello"
    [] step = "sayHello" -> "verifyHello"
    [] step = "verifyHello" -> "sayGoodbye"
    [] step = "sayGoodbye" -> "verifyGoodbye"

(* Mutant: pre-build.sh writes its file once the extension is registered.  *)
nextStepEarly(step) == IF step = "register" THEN "write" ELSE nextStepShort(step)

nextStep(step) ==
  CASE step = "deploy" -> "register"
    [] step = "register" -> "machineOwner"
    [] step = "machineOwner" -> "projectOwner"
    [] step = "projectOwner" -> "keyType"
    [] step = "keyType" -> "write"
    [] step = "setExtensionId" -> "sayHello"
    [] step = "sayHello" -> "verifyHello"
    [] step = "verifyHello" -> "sayGoodbye"
    [] step = "sayGoodbye" -> "verifyGoodbye"

goTo(step) == run' = [run EXCEPT !.step = step, !.wait = "none"]

at(step) == run.step = step /\ run.wait = "none"

(* Mutant: any error of setExtensionId ends the test.                      *)
toleratedNever == FALSE

(* run-test goes on when the decoded reason says "Extension ID already     *)
(* set."; both the refused estimate and the reverted receipt are decoded   *)
(* by asking the contract again.                                           *)
tolerated == run.step = "setExtensionId" /\ bound[run.sender] # 0

failed == IF tolerated THEN goTo(nextStep(run.step)) ELSE run' = noRun

(* Gas is estimated first: what would revert is not sent.                  *)
send ==
  LET tx == [op |-> run.step, sender |-> run.sender, id |-> run.id]
  IN  /\ UNCHANGED <<chainVars, env, tee, tested, mishaps>>
      /\ IF accepts(tx)
           THEN /\ mempool' = Append(mempool, tx)
                /\ run' = [run EXCEPT !.wait = "pending"]
           ELSE failed /\ UNCHANGED mempool

skip ==
  goTo(nextStep(run.step))
    /\ UNCHANGED <<chainVars, mempool, env, tee, tested, mishaps>>

(* pre-build.sh begins; to run it when the file is there already counts as *)
(* a mishap.                                                               *)
begin(step, sender) ==
  /\ run = noRun
  /\ IF env = noEnv THEN UNCHANGED mishaps ELSE mishap
  /\ run' = [noRun EXCEPT !.step = step, !.sender = sender]
  /\ UNCHANGED <<chainVars, mempool, env, tee, tested>>

(* It deploys a sender, or takes the one that the setting of this run      *)
(* names, which some earlier run deployed.                                 *)
deployAnew == begin("deploy", 0)

reuse == Reuse /\ \E s \in 1 .. deployed : begin("register", s)

preBuild == deployAnew \/ reuse

DeployInstructionSender == at("deploy") /\ send

registerExtension == at("register") /\ send

allowTeeMachineOwners ==
  /\ at("machineOwner")
  /\ IF extensions[run.id].machineOwner THEN skip ELSE send

allowTeeProjectManagerOwners ==
  /\ at("projectOwner")
  /\ IF extensions[run.id].projectOwner THEN skip ELSE send

AddSupportedKeyTypes ==
  /\ at("keyType")
  /\ IF extensions[run.id].keyType THEN skip ELSE send

writeConfig ==
  /\ at("write")
  /\ env' = [id |-> run.id, sender |-> run.sender]
  /\ run' = noRun
  /\ UNCHANGED <<chainVars, mempool, tee, tested, mishaps>>

(* start-services.sh and post-build.sh, here one step: the TEE is started  *)
(* for the extension of the file and goes to production.                   *)
startServices ==
  /\ env # noEnv
  /\ tee # env.id
  /\ tee' = env.id
  /\ machines' = machines \cup {env.id}
  /\ UNCHANGED <<extensions, deployed, bound, mempool, run, env, tested,
                 mishaps>>

runTest ==
  /\ run = noRun
  /\ env # noEnv
  /\ tee # 0
  /\ tested # env.sender
  /\ run' = [noRun EXCEPT !.step = "setExtensionId", !.sender = env.sender]
  /\ UNCHANGED <<chainVars, mempool, env, tee, tested, mishaps>>

SetExtensionId == at("setExtensionId") /\ send
SendSayHello == at("sayHello") /\ send
SendSayGoodbye == at("sayGoodbye") /\ send

(* ActionResult polls the proxy: only the TEE of the extension that the    *)
(* instruction went to answers.                                            *)
verifyHelloResult ==
  /\ at("verifyHello")
  /\ IF run.result = tee THEN goTo("sayGoodbye") ELSE run' = noRun
  /\ UNCHANGED <<chainVars, mempool, env, tee, tested, mishaps>>

verifyGoodbyeResult ==
  /\ at("verifyGoodbye")
  /\ run' = noRun
  /\ tested' = IF run.result = tee THEN run.sender ELSE tested
  /\ UNCHANGED <<chainVars, mempool, env, tee, mishaps>>

(* The oldest transaction is mined.  When it is the last one sent, it is   *)
(* the one the tool waits for.                                             *)
isAwaited == run.wait = "pending" /\ Len(mempool) = 1

mine ==
  /\ mempool # <<>>
  /\ mempool' = Tail(mempool)
  /\ LET tx == Head(mempool)
         ok == accepts(tx)
     IN  /\ IF ok THEN execute(tx) ELSE UNCHANGED chainVars
         /\ run' = IF ~isAwaited THEN run
                     ELSE IF ok THEN [run EXCEPT !.wait = "ok",
                                                 !.result = resultOf(tx)]
                                ELSE [run EXCEPT !.wait = "reverted"]
  /\ UNCHANGED <<env, tee, tested, mishaps>>

(* WaitMined returns the receipt; its status is checked.                   *)
receiptSeen ==
  /\ run.wait = "ok"
  /\ run' = [run EXCEPT
               !.step = nextStep(run.step), !.wait = "none",
               !.sender = IF run.step = "deploy" THEN run.result ELSE @,
               !.id = IF run.step = "register" THEN run.result ELSE @]
  /\ UNCHANGED <<chainVars, mempool, env, tee, tested, mishaps>>

receiptReverted ==
  /\ run.wait = "reverted"
  /\ failed
  /\ UNCHANGED <<chainVars, mempool, env, tee, tested, mishaps>>

toolStops ==
  /\ run # noRun
  /\ mishap
  /\ run' = noRun
  /\ UNCHANGED <<chainVars, mempool, env, tee, tested>>

(* Ids are shared with everybody who registers extensions.                 *)
foreignRegistration ==
  /\ Len(extensions) < MaxExtensions
  /\ mishap
  /\ extensions' = Append(extensions, newExtension(Foreign))
  /\ UNCHANGED <<deployed, bound, machines, mempool, run, env, tee, tested>>

ToolStep ==
  \/ DeployInstructionSender
  \/ registerExtension
  \/ allowTeeMachineOwners
  \/ allowTeeProjectManagerOwners
  \/ AddSupportedKeyTypes
  \/ writeConfig
  \/ SetExtensionId
  \/ SendSayHello
  \/ SendSayGoodbye
  \/ verifyHelloResult
  \/ verifyGoodbyeResult
  \/ receiptSeen
  \/ receiptReverted

SetupNext ==
  \/ ToolStep
  \/ preBuild
  \/ startServices
  \/ runTest
  \/ mine
  \/ toolStops
  \/ foreignRegistration

SetupSpec == SetupInit /\ [][SetupNext]_setupVars

(* The tools run, blocks are produced, and the operator runs the script    *)
(* that comes next until the tests pass.  While there is no file, he goes  *)
(* back to a new sender now and then: one whose registration was followed  *)
(* by a mishap is refused for ever.                                        *)
FairSetupSpec ==
  /\ SetupSpec
  /\ WF_setupVars(ToolStep)
  /\ WF_setupVars(mine)
  /\ SF_setupVars(env = noEnv /\ deployAnew)
  /\ WF_setupVars(startServices)
  /\ SF_setupVars(runTest)
-----------------------------------------------------------------------------
Steps == {"deploy", "register", "machineOwner", "projectOwner", "keyType",
          "write", "setExtensionId", "sayHello", "verifyHello", "sayGoodbye",
          "verifyGoodbye"}

SetupTypeOK ==
  /\ \A i \in Ids : extensions[i] \in
       [sender: Senders \cup {Foreign}, machineOwner: BOOLEAN,
        projectOwner: BOOLEAN, keyType: BOOLEAN]
  /\ deployed \in 0 .. MaxSenders
  /\ bound \in [Senders -> 0 .. Len(extensions)]
  /\ machines \subseteq Ids /\ tee \in {0} \cup machines
  /\ run.step \in Steps \cup {"idle"}
  /\ run.wait \in {"none", "pending", "ok", "reverted"}
  /\ run.id \in 0 .. Len(extensions) /\ run.sender \in 0 .. deployed
  /\ env \in [id: 0 .. Len(extensions), sender: 0 .. deployed]
  /\ tested \in 0 .. deployed
  /\ mishaps \in 0 .. MaxMishaps

(* config/extension.env names an extension only when everything it needs   *)
(* is on chain, wherever an earlier run was stopped and whatever of it is  *)
(* mined late (pre-build.sh 104-154, extension.go 33-86).                  *)
EnvIsComplete ==
  env # noEnv =>
    /\ env.id \in Ids
    /\ extensions[env.id] = [sender |-> env.sender, machineOwner |-> TRUE,
                             projectOwner |-> TRUE, keyType |-> TRUE]

(* The extension a sender has bound itself to, for good, is the one the    *)
(* services are started for, although the sender takes the first extension *)
(* whose sender it is (PrivateAccessInstructionSender.sol 49-64), the file *)
(* has the last one registered, and a sender that is used again is sent to *)
(* the registry again, maybe while an earlier registration is still to be  *)
(* mined.  With such senders it rests on the registry refusing the second. *)
BoundIsConfigured ==
  env # noEnv => bound[env.sender] \in {0, env.id}

(* smoketest-scenarios.md 14 ("tests should be idempotent"): whatever went *)
(* wrong before, running the scripts again ends with tests that pass, also *)
(* when an earlier test has set the extension id or still will, and when   *)
(* the sender that is given is refused because it has an extension.        *)
TestsPass == <>[](env # noEnv /\ tested = env.sender)
=============================================================================
