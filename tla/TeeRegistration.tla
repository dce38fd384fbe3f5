--------------------------- MODULE TeeRegistration ---------------------------
(***************************************************************************)
(* scripts/post-build.sh with the tools it runs: the TEE's version is      *)
(* allowed, its governance set, and cmd/register-tee registers the machine *)
(* and takes it to production (tools/pkg/fccutils/registration.go).  Each  *)
(* step sends a transaction and waits two minutes for it.  The operator    *)
(* runs the script again when it fails; with Resume, cmd/register-tee is   *)
(* then given its flag -resume, which the script itself never passes.      *)
(*                                                                         *)
(* Anything may go wrong on the way: a call fails or the process dies, a   *)
(* transaction is given up and mined later, a challenge expires, the TEE's *)
(* container restarts with a new key.  Each is a mishap, and mishaps are   *)
(* bounded: the liveness properties say what re-runs achieve once they     *)
(* end.                                                                    *)
(***************************************************************************)
EXTENDS Integers, Sequences

CONSTANTS
  Resume,      \* the operator passes -resume
  MaxTees,     \* bound on the keys the TEE's container comes up with
  MaxMishaps   \* bound on what goes wrong

ASSUME RegistrationAssumption ==
  /\ Resume \in BOOLEAN
  /\ MaxTees \in Nat \ {0}
  /\ MaxMishaps \in Nat

VARIABLES
  versionAllowed, \* FlareTeeManager: the code hash and platform are allowed
  governanceSet,  \* and the governance hash is the one the TEE signs with
  machine,        \* TEE -> none, registered or production
  attestations,   \* attestation instructions, each with its challenge
  checks,         \* availability checks requested
  mempool,        \* transactions sent and not mined, in nonce order
  tee,            \* the key of the TEE behind the extension's proxy
  run,            \* the tool that runs, and its registrationState
  file,           \* the state file; without one loadState returns noState
  lead,           \* epochs the FTDC proxy's policy is ahead of the chain's
  mishaps

chainVars == <<versionAllowed, governanceSet, machine, attestations, checks>>
vars == <<chainVars, mempool, tee, run, file, lead, mishaps>>

Tees == 1 .. MaxTees

noState == [done |-> {}, attestation |-> 0, check |-> 0]

(* Steps of post-build.sh, the letters being those of -command rRap.       *)
Steps == {"version", "governance", "start", "r", "R", "a", "p"}

noRun == [step |-> "idle", waiting |-> FALSE, tee |-> 0, fresh |-> FALSE,
          since |-> 0, state |-> noState]

RegistrationInit ==
  /\ versionAllowed = FALSE
  /\ governanceSet = FALSE
  /\ machine = [t \in Tees |-> "none"]
  /\ attestations = <<>>
  /\ checks = <<>>
  /\ mempool = <<>>
  /\ tee = 1
  /\ run = noRun
  /\ file = noState
  /\ lead = 0
  /\ mishaps = 0

mishap == mishaps < MaxMishaps /\ mishaps' = mishaps + 1

(* What the diamond accepts.  A challenge is one-shot, and expires.        *)
accepts(tx) ==
  CASE tx.op = "addTeeVersion" -> ~versionAllowed
    [] tx.op = "setNewTeeGovernance" -> TRUE
    [] tx.op = "register" ->
         versionAllowed /\ governanceSet /\ machine[tx.tee] = "none"
    [] tx.op = "requestTeeAttestation" -> machine[tx.tee] # "none"
    [] tx.op = "requestAvailabilityCheck" ->
         /\ tx.id \in 1 .. Len(attestations)
         /\ attestations[tx.id] = [tee |-> tx.tee, live |-> TRUE]
    [] tx.op = "toProduction" ->
         machine[tx.tee] = "registered" /\ checks[tx.id].answered

requestsAttestation(tx) == tx.op \in {"register", "requestTeeAttestation"}

(* The state of the diamond after a transaction it accepts.                *)
execute(tx) ==
  /\ versionAllowed' = (versionAllowed \/ tx.op = "addTeeVersion")
  /\ governanceSet' = (governanceSet \/ tx.op = "setNewTeeGovernance")
  /\ machine' =
       CASE tx.op = "register" -> [machine EXCEPT ![tx.tee] = "registered"]
         [] tx.op = "toProduction" ->
              [machine EXCEPT ![tx.tee] = "production"]
         [] OTHER -> machine
  /\ attestations' =
       IF requestsAttestation(tx)
         THEN Append(attestations, [tee |-> tx.tee, live |-> TRUE])
         ELSE IF tx.op = "requestAvailabilityCheck"
                THEN [attestations EXCEPT ![tx.id].live = FALSE]
                ELSE attestations
  /\ checks' =
       IF tx.op = "requestAvailabilityCheck"
         THEN Append(checks, [tee |-> tx.tee, attestation |-> tx.id,
                              answered |-> FALSE])
         ELSE checks

(* The tool is at a step and not waiting for a transaction.                *)
at(step) == run.step = step /\ ~run.waiting

goTo(step) == run' = [run EXCEPT !.step = step, !.waiting = FALSE]

(* A contract call estimates its gas first: what the diamond would refuse  *)
(* is never sent, and ends the tool with an error.                         *)
call(op, id) ==
  LET tx == [op |-> op, tee |-> run.tee, id |-> id]
  IN  /\ UNCHANGED <<chainVars, tee, file, lead>>
      /\ \/ /\ accepts(tx)
            /\ mempool' = Append(mempool, tx)
            /\ run' = [run EXCEPT !.waiting = TRUE]
         \/ /\ ~accepts(tx)
            /\ run' = noRun
            /\ UNCHANGED mempool

send(op, id) == call(op, id) /\ UNCHANGED mishaps

(* A step that needs no transaction.                                       *)
skip(step) ==
  goTo(step) /\ UNCHANGED <<chainVars, mempool, tee, file, lead, mishaps>>

(* The operator runs post-build.sh until the TEE is in production.         *)
postBuild ==
  /\ run = noRun
  /\ machine[tee] # "production"
  /\ run' = [noRun EXCEPT !.step = "version", !.tee = tee]
  /\ UNCHANGED <<chainVars, mempool, tee, file, lead, mishaps>>

allowTeeVersion ==
  /\ at("version")
  /\ IF versionAllowed THEN skip("governance") ELSE send("addTeeVersion", 0)

SetTeeGovernance ==
  /\ at("governance")
  /\ IF governanceSet THEN skip("start") ELSE send("setNewTeeGovernance", 0)

(* Mutant: a fresh start keeps the file.                                   *)
stateFileKept == file

stateFileAtStart == IF Resume THEN file ELSE noState

(* cmd/register-tee up to the first step of RegisterNode: it asks the      *)
(* proxy for the TEE and removes or loads the state file.  A failure to    *)
(* remove it is only a warning, and the file is loaded after all.          *)
startRegisterTee ==
  /\ at("start")
  /\ \/ file' = stateFileAtStart /\ UNCHANGED mishaps
     \/ ~Resume /\ mishap /\ UNCHANGED file
  /\ run' = [run EXCEPT !.step = "r", !.tee = tee,
                        !.fresh = ~Resume /\ mishaps' = mishaps,
                        !.since = Len(attestations), !.state = file']
  /\ UNCHANGED <<chainVars, mempool, tee, lead>>

completed(step) == step \in run.state.done

(* Mutant: the registry is not asked for the machine.                      *)
preRegisterAlways == "register"

(* A machine that is registered already gets a fresh challenge.            *)
preRegistrationCall ==
  IF machine[run.tee] = "none" THEN "register" ELSE "requestTeeAttestation"

PreRegistration ==
  /\ at("r")
  /\ IF completed("r") THEN skip("R") ELSE send(preRegistrationCall, 0)

RequestTeeAttestation ==
  /\ at("R")
  /\ IF completed("R") THEN skip("a") ELSE send("requestTeeAttestation", 0)

(* Mutant: the proxy has to be at the epoch of the chain.                  *)
policyInSyncStrict == lead = 0

(* The proxy is an epoch ahead from the initialization of a signing policy *)
(* to the start of its epoch, for two hours or for however long.           *)
policyInSync == lead \in {0, 1}

(* CheckFTDCProxyPolicyConsistency: a mismatch ends the tool, before       *)
(* anything is sent; when a lookup fails the check is skipped.             *)
RequestFTDCAvailabilityCheck ==
  /\ at("a")
  /\ IF completed("a")
       THEN skip("p")
       ELSE \/ /\ policyInSync
               /\ send("requestAvailabilityCheck", run.state.attestation)
            \/ /\ ~policyInSync
               /\ mishap
               /\ run' = noRun
               /\ UNCHANGED <<chainVars, mempool, tee, file, lead>>
            \/ /\ ~policyInSync
               /\ mishap
               /\ call("requestAvailabilityCheck", run.state.attestation)

(* GetFTDCAvailabilityCheckResult has the proof.                           *)
ToProduction ==
  /\ at("p")
  /\ checks[run.state.check].answered
  /\ send("toProduction", run.state.check)

(* Thirty seconds of polling without a proof: one that comes too late, or  *)
(* one that cannot come because the TEE is gone.                           *)
pollRunsOut ==
  /\ at("p")
  /\ ~checks[run.state.check].answered
  /\ IF checks[run.state.check].tee = tee THEN mishap ELSE UNCHANGED mishaps
  /\ run' = noRun
  /\ UNCHANGED <<chainVars, mempool, tee, file, lead>>

nextStep(step) ==
  CASE step = "version" -> "governance"
    [] step = "governance" -> "start"
    [] step = "r" -> "R"
    [] step = "R" -> "a"
    [] step = "a" -> "p"

(* Mutant: the id is taken to be the next one.                             *)
stateAfterWrongId(step) ==
  CASE step \in {"r", "R"} ->
         [run.state EXCEPT !.done = @ \cup {step},
                           !.attestation = Len(attestations') + 1]
    [] step = "a" ->
         [run.state EXCEPT !.done = @ \cup {"a"}, !.check = Len(checks')]
    [] OTHER -> run.state

(* CompletedSteps and the instruction id found in the receipt's logs.      *)
stateAfter(step) ==
  CASE step \in {"r", "R"} ->
         [run.state EXCEPT !.done = @ \cup {step},
                           !.attestation = Len(attestations')]
    [] step = "a" ->
         [run.state EXCEPT !.done = @ \cup {"a"}, !.check = Len(checks')]
    [] OTHER -> run.state

(* A failure to save is only a warning.                                    *)
save(state) ==
  IF run.step \in {"r", "R", "a"} THEN file' \in {state, file}
                                  ELSE UNCHANGED file

(* The transaction the tool waits for succeeds: it notes the step and goes *)
(* on, or is done and removes the state file.                              *)
goOn ==
  IF run.step = "p"
    THEN run' = noRun /\ file' = noState
    ELSE LET state == stateAfter(run.step)
         IN  /\ save(state)
             /\ run' = [run EXCEPT !.step = nextStep(run.step),
                                   !.waiting = FALSE, !.state = state]

(* Mutant: the status of the receipt is not looked at.                     *)
goOnThough == goOn

(* It was mined and reverted: CheckTx returns an error and the tool ends;  *)
(* only allow-tee-version forgives it, if it can read the reason.          *)
goOnReverted ==
  /\ \/ run.step = "version" /\ goTo("governance")
     \/ run' = noRun
  /\ UNCHANGED file

isOwn == run.waiting /\ Len(mempool) = 1

mine ==
  /\ mempool # <<>>
  /\ mempool' = Tail(mempool)
  /\ LET tx == Head(mempool)
     IN  \/ /\ accepts(tx)
            /\ execute(tx)
            /\ IF isOwn THEN goOn ELSE UNCHANGED <<run, file>>
         \/ /\ ~accepts(tx)
            /\ UNCHANGED chainVars
            /\ IF isOwn THEN goOnReverted ELSE UNCHANGED <<run, file>>
  /\ UNCHANGED <<tee, lead, mishaps>>

(* The TEE answers its challenge, and the data providers sign; while the   *)
(* proxy is at another policy they say 404 "no round".                     *)
answer(i) ==
  /\ checks[i].tee = tee
  /\ lead >= 0
  /\ checks' = [checks EXCEPT ![i].answered = TRUE]
  /\ UNCHANGED <<versionAllowed, governanceSet, machine, attestations,
                 mempool, tee, run, file, lead, mishaps>>

(* A call fails, the process dies, or CheckTx gives up on a transaction,   *)
(* which stays where it is.                                                *)
toolStops ==
  /\ run # noRun
  /\ mishap
  /\ run' = noRun
  /\ UNCHANGED <<chainVars, mempool, tee, file, lead>>

expire(i) ==
  /\ attestations[i].live
  /\ mishap
  /\ attestations' = [attestations EXCEPT ![i].live = FALSE]
  /\ UNCHANGED <<versionAllowed, governanceSet, machine, checks, mempool,
                 tee, run, file, lead>>

(* A restarted container has a new key: nothing is stored.                 *)
teeRestarts ==
  /\ tee < MaxTees
  /\ mishap
  /\ tee' = tee + 1
  /\ UNCHANGED <<chainVars, mempool, run, file, lead>>

(* Signing policies and reward epochs go on meanwhile.  An epoch that      *)
(* starts before the proxy has indexed its policy leaves it behind.        *)
setLead(value) ==
  /\ lead' = value
  /\ UNCHANGED <<chainVars, mempool, tee, run, file>>

policyInitialized == lead = 0 /\ setLead(1) /\ UNCHANGED mishaps
epochStarts == lead = 1 /\ setLead(0) /\ UNCHANGED mishaps
proxyFallsBehind == lead = 0 /\ setLead(-1) /\ mishap
proxyCatchesUp == lead = -1 /\ setLead(0) /\ UNCHANGED mishaps

ToolStep ==
  \/ postBuild
  \/ allowTeeVersion
  \/ SetTeeGovernance
  \/ startRegisterTee
  \/ PreRegistration
  \/ RequestTeeAttestation
  \/ RequestFTDCAvailabilityCheck
  \/ ToProduction

RegistrationNext ==
  \/ ToolStep
  \/ pollRunsOut
  \/ mine
  \/ \E i \in 1 .. Len(checks) : answer(i)
  \/ toolStops
  \/ \E i \in 1 .. Len(attestations) : expire(i)
  \/ teeRestarts
  \/ policyInitialized
  \/ epochStarts
  \/ proxyFallsBehind
  \/ proxyCatchesUp

RegistrationSpec == RegistrationInit /\ [][RegistrationNext]_vars

(* Blocks are produced, data providers answer a TEE that is up, the tool   *)
(* runs, the operator runs it again, and a proxy that is behind catches    *)
(* up.  An epoch that a policy is ready for need not start.                *)
FairRegistrationSpec ==
  /\ RegistrationSpec
  /\ WF_vars(ToolStep)
  /\ WF_vars(pollRunsOut)
  /\ WF_vars(mine)
  /\ WF_vars(\E i \in 1 .. Len(checks) : answer(i))
  /\ WF_vars(proxyCatchesUp)
-----------------------------------------------------------------------------
RegistrationStates ==
  [done: SUBSET {"r", "R", "a"}, attestation: 0 .. Len(attestations),
   check: 0 .. Len(checks)]

RegistrationTypeOK ==
  /\ versionAllowed \in BOOLEAN /\ governanceSet \in BOOLEAN
  /\ machine \in [Tees -> {"none", "registered", "production"}]
  /\ \A i \in 1 .. Len(attestations) :
       attestations[i] \in [tee: Tees, live: BOOLEAN]
  /\ \A i \in 1 .. Len(checks) :
       checks[i] \in [tee: Tees, attestation: 1 .. Len(attestations),
                      answered: BOOLEAN]
  /\ tee \in Tees /\ lead \in -1 .. 1
  /\ run.step \in Steps \cup {"idle"} /\ run.waiting \in BOOLEAN
  /\ run.tee \in 0 .. MaxTees /\ run.fresh \in BOOLEAN
  /\ run.since \in 0 .. Len(attestations)
  /\ run.state \in RegistrationStates /\ file \in RegistrationStates
  /\ mishaps \in 0 .. MaxMishaps

(* The state file never claims more than the chain has seen, wherever the  *)
(* tool was stopped and whatever was mined after it: the machine of its    *)
(* attestation is registered, and its check was requested with exactly     *)
(* that attestation (registration.go 26, 90-95).                           *)
FileIsHonest ==
  /\ file.done \cap {"r", "R"} # {} =>
       /\ file.attestation > 0
       /\ machine[attestations[file.attestation].tee] # "none"
  /\ "a" \in file.done =>
       /\ file.check > 0
       /\ checks[file.check].attestation = file.attestation

(* A run that removed the state file asks for the availability check with  *)
(* a challenge requested since it started, for the TEE it registers:       *)
(* nothing of an earlier run gets in between (register-tee/main.go 27-32). *)
ChallengeIsOwn ==
  run.fresh /\ run.step = "a" =>
    /\ run.state.attestation > run.since
    /\ attestations[run.state.attestation].tee = run.tee

(* docs/deployment-steps.md 206: with -command rRap "re-runs work".        *)
(* Whatever went wrong before, running the script again takes the TEE that *)
(* is up to production, where it stays; the gate of policy_consistency.go  *)
(* never keeps it out for good, however long the proxy is an epoch ahead.  *)
ReRunsWork == <>[](machine[tee] = "production")

(* registration.go 25-26: progress is saved so that "registration can      *)
(* resume after failures".                                                 *)
ResumeWorks == <>[](machine[tee] = "production")
=============================================================================
