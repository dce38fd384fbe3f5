# Private FXRP Access Desk: verification

TLA+ models of the access desk, the TLC runs that check them on small
instances and the theorems TLAPS proves about them. Paths below are relative
to `src/`.

The project answers one question from several sides: **can an account hold an
access pass, or a vault position, that its credential and its policy's rules do
not entitle it to, and can an entitled account be locked out of what is its
own?** And of the tools that put the system in place it asks: **whatever goes
wrong on the way, do the configuration, the reports and the manifest they leave
behind describe the chain, and does running them again complete the work?**

Contents: [inventory](#1-the-system), [modules](#2-modules-and-code),
[runs](#3-runs), [fairness](#4-fairness), [proofs](#5-proofs),
[findings](#6-findings), [hazards](#7-hazards), [plan](#8-plan),
[not modelled](#9-not-modelled).

## 1. The system

An issuer signs a credential for an account. A policy owner commits the hash of
private eligibility rules and the issuer's address to a `PolicyRegistry`. The
account's browser encrypts the credential with the rules to a TEE and sends the
ciphertext as an instruction through `PrivateAccessInstructionSender`. The TEE
decrypts, checks rules and signature and returns a decision that its node
signs. Anyone relays the signed result to `AccessRegistry`, which stores an
access pass: a limit in micro-dollars, an expiry and a nonce. The
`PrivateFXRPVault` takes deposits up to the limit of a valid pass, at a price
from FTSO, and lets owners withdraw always.

| Component | State | Operations | Interacts with | Hard behaviour | Correct when |
|---|---|---|---|---|---|
| `contracts/PolicyRegistry.sol` | policy id -> owner, issuer, rules hash, active | `createPolicy`, `setPolicyActive` | read by `AccessRegistry` | changes while results are on their way | a commitment never changes |
| `contracts/AccessRegistry.sol` | registered signers, used digests, used actions, passes | `setTeeSigner`, `submitDecision`, `submitFccDecision`, `requestAccess` (event only) | policy registry; relayed to by anyone; read by vault and clients | replays, two submission paths with separate used flags, old signers, other domains, late relays | a pass has unused, committed evidence by a registered signer; nonces grow |
| `contracts/PrivateFXRPVault.sol`, `FtsoV2XrpUsdOracle.sol` | position per account, reentrancy flag, token balances | `deposit`, `withdraw`, `currentPrice` | access registry, token, FTSO feed | the token call may call back or fail; rounding and overflow; stale feed | positions stay covered, within the limit, withdrawable |
| `contracts/fcc/PrivateAccessInstructionSender.sol` | extension id | `setExtensionId`, `requestAccess` | TEE registry and machine registry (external) | draws a TEE at random; picks the lowest matching extension | the instruction reaches a TEE that can read it |
| TypeScript extension: `fcc-extension/typescript` | promise chain, counters, open requests | `/action` (four handlers), `/state`, shutdown | tee-node: receives actions, asks it to decrypt | handlers suspend; the node may never answer; rejection, kill, SIGTERM | answers as a sequential server; every request ends |
| Go extension: `fcc-extension/go` | counters under a `RWMutex`; the process with its servers and channels | greeting, farewell, state; start, stop | tee-node | handlers run in parallel; signals and failures at start and end | answers as if requests came one after the other; stops when told, and when broken |
| Python extension: `fcc-extension/python` | counters under a lock | greeting, farewell, state | tee-node | threads | as above |
| Local policy engine: `extension/src/policy-engine.js` | none | evaluate and sign a decision | `submitDecision` | a second implementation of the decision | agrees with the TEE's |
| Web client: `web/src/App.jsx`, `web/src/lib` | wallet, chain snapshot, package, call in progress | refresh, request, poll, relay, vault and issuer forms, wallet switch | wallet, RPC, proxy | snapshot read before awaits and used after; late results; reloads | what it reports is what the chain has |
| Web proxy: `web/server` | none (rate limiter) | forwards TEE info and result queries | web client, FCC proxy | timeouts | - |
| FCC tools: `fcc-extension/tools` | registration state file, `config/extension.env`, chain | deploy, register extension and TEE, allow versions, governance, run the tests, verify | TEE, verifier, chain | resume after a crash, one-shot challenge, transactions given up and mined later | registered once, consistently |
| Coston2 scripts: `scripts/*.js` | deployment manifest | deploy, finalize, export, evidence | chain, tools' output | crash between transactions and the manifest | the manifest describes the chain |
| Live command line: `scripts/run-live-coston2-access.js` | evidence file | request, poll, relay, compare | as web client | a second client of the same account | it reports what it obtained |
| Shell, containers, preflight, demo | - | start and build processes | - | order of steps | - |

## 2. Modules and code

```
PolicyRegistry --EXTENDS--> AccessRegistry --EXTENDS--+
     AccessPassLedger <==implements== AccessRegistry  |
     AccessPassLedger --EXTENDS--> PrivateFXRPVault   +--> AccessFlow
     AtomicVault <==implements== PrivateFXRPVault     |
AccessEvaluation --EXTENDS----------------------------+
AccessEvaluation --EXTENDS--> ExtensionServer
TeeRegistration (on its own)
ExtensionSetup --EXTENDS--> VerifyDeploy
     CountingService <==implements== GoExtension
GoProcess, DeploymentPipeline (on their own)
```

| Module | Models | State and actions |
|---|---|---|
| `PolicyRegistry` | `PolicyRegistry.sol` | `policies`; `createPolicy`, `setPolicyActive` |
| `AccessRegistry` | `AccessRegistry.sol` | `registeredTeeSigners`, `usedDecisions`, `usedFccActions`, `accessPasses`, block time `now`; `setTeeSigner`, `submitDecision`, `submitFccDecision`, `tick` |
| `AccessPassLedger` | what users of the registries rely on | passes, active policies and time; a pass gives way only to a larger nonce, unexpired, on an active policy |
| `PrivateFXRPVault` | the vault and the price adapter, on top of the ledger | `positionOf`, `entered`, `balanceOf`, `feed`, the EVM stack `calls`; `deposit`, `withdraw`, `tokenReturns`, `tokenFails`, `donate`, `updateFeed` |
| `AtomicVault` | what the vault promises between transactions, on top of the ledger | passes, positions, balances, price and time; `Deposit`, `Withdraw`, `Elsewhere`, `Time`, each a whole transaction at once |
| `AccessEvaluation` | the decision of `handlers.ts` | no state: validation, rules hash, issuer recovery, eligibility, limit and expiry as operators |
| `ExtensionServer` | `server.ts`, `handlers.ts`, `node.ts`, `main.ts` | `chain` is `this.queue`, `app` the module-level counters, `stage` and `result` per request; one action per piece of code between two awaits, `lookupThrows` for a request that is never chained, plus `exit`, `kill`, `shutdown`, `stop`, `restart` |
| `AccessFlow` | `App.jsx`, `lib/action.js`, `lib/policy.js`, `lib/tee.js`, the sender, composed with the registries and the evaluation | `instructions` on chain, `results` at the proxy, and per open page `client`, `snapshot`, `refreshing`; one action per piece of code between two awaits |
| `TeeRegistration` | `post-build.sh`, `allow-tee-version`, `set-governance`, `register-tee`, `registration.go`, `CheckTx` | the diamond's state (versions, governance, machines, attestations, checks), `mempool`, the tool that runs with its `registrationState`, the state `file`; one action per step between two transactions, and what may go wrong |
| `ExtensionSetup` | `pre-build.sh`, `deploy-contract`, `register-extension` (`SetupExtension`), `test.sh`, `run-test`, `setExtensionId` of the sender | registered `extensions` with their owners and key type, `bound` ids, `mempool`, the tool that runs, `config/extension.env`; one action per transaction sent, receipt seen, file written or result verified |
| `VerifyDeploy` | `verify-deploy`, `checks.go`, `validate.go`, `report.go`, beside `ExtensionSetup` | the `report` and the tool's position, file contents and counter; one action per check that reads the chain for the extension, one per other group of checks |
| `CountingService` | what a greeting extension promises the node | counters and last texts, requests and replies; `Ask`, `Refuse`, `Greet`, `State`, each at once |
| `GoExtension` | `extension.go`, `utils.go` of the Go extension | the fields, the `RWMutex`, each goroutine's position; one action per access to a field and per call of the mutex |
| `GoProcess` | `cmd/main.go`, `cmd/docker`, `cmd/start-tee`, `pkg/server` | the main goroutine, the HTTP server, its error channel, the signal channel, the shutdown goroutine, requests in flight; the tee-node's own goroutine in the last two commands is left out |
| `DeploymentPipeline` | `deploy-coston2.js`, `finalize-fcc-coston2.js`, `export-web-config.js` | what each deployment has on chain, the registered extensions, the machines and whether they have the finalizer's proxy URL, `manifest`, the script that runs, `web/.env.local`; one action per transaction or file written |
| `AccessFlowProofs` (registries and flow), `PrivateFXRPVaultProofs`, `ExtensionServerProofs`, `GoExtensionProofs`, `GoProcessProofs`, `TeeRegistrationProofs`, `ExtensionSetupProofs` (set-up and `verify-deploy`), `DeploymentPipelineProofs` | - | theorems (section 5) |
| `MC*` | - | constants and symmetry for TLC |

Every definition that stands for code is listed with its lines in
`PROJECT.json` under `map`.

How data is abstracted:

- **Reverts.** A call that reverts is an action that is not enabled: nothing
  changes. The one place where a revert undoes more than its own call, a
  token call that fails after the vault changed its books, is `tokenFails`,
  which restores what the frame saved.
- **Hashes** are injective. A policy id is the pair (owner, salt), a decision's
  digest the tuple of its fields. The rules hash is a record in which the
  jurisdictions are a bag, because the code sorts them before hashing and does
  not remove duplicates.
- **Signatures** are what was signed and by whom. A message for another chain or
  registry recovers an address nobody has a key for.
- **Junk** stands for a JSON field of the wrong type or format that a check of the
  code refuses, in whatever way it is wrong. What the checks let pass or throw on
  themselves (a list where a string belongs, `null` for the limits) is the plaintext
  `Loose`, which throws at the first or the second half of the handler, and an op type
  or command that is neither a string nor empty is `mistyped`. Numbers are integers compared with the widths of their ABI types
  (`MaxUint8`, `MaxUint16`, `MaxUint128`, and `MaxUint` for a `uint256`), so
  out-of-range rules and overflowing products occur.
- **The vault's token** is external. While its call runs, anything may happen
  that a contract can do: ledger calls, donations, further vault calls. Blocks
  and feed updates come between transactions only.
- **The TEE machine** in `AccessFlow` evaluates any instruction it can decrypt,
  any number of times, with any value of its clock. Results, once at the proxy,
  may be relayed by anyone at any time, or never.
- **A TEE draw** is an independent choice of the key a request is encrypted to
  and the machine it is sent to. If they differ there is no decision.
- **A page reload** forgets the page's calls, its snapshot and its reads in
  flight. Transactions it sent stay.
- **The diamond** is external. It accepts a registration for an allowed version
  under the governance set, challenges once per attestation, and takes a machine
  to production with a proof of its own availability. A call it would refuse fails
  at the gas estimate and is never sent.
- **A mishap** is anything that ends a tool early (an error, a crash, `CheckTx` after
  two minutes), lets a challenge expire, a state file stay or the TEE restart.
  Transactions already sent are mined all the same.
- **The set-up's registry** accepts any sender, or with `RejectsDuplicates`
  refuses one it has an extension for, as
  `fcc-extension/tools/integration/registration_test.go:42` expects; its source is not in the
  repository, so both are checked: `setup` with the refusal, `verify` without. The
  proofs hold for either, but for `BoundIsTheConfigured`, which needs the refusal when
  senders are used again (section 5).
- **`EXISTING_INSTRUCTION_SENDER`** may be set at any run of `pre-build.sh` and then
  names a sender that some earlier run deployed (`reuse`), or not be set (`deployAnew`). Gas
  is estimated before a transaction is sent. Other deployers take ids, as mishaps.
- **The settings** that `verify-deploy` reads (`.env`, the addresses file) are
  records, and each group of checks is a function of them, of what answers and of
  the file at that moment. An id or address is well formed, malformed or absent.
- **The FTDC proxy's policy** is `lead`, its distance in epochs from the chain's.
- **Greetings** are the name they are made from. The Go refusals differ in the
  status they answer with and in where they are found; none touches a field.
- **A manifest** is which deployment it describes and its `fcc` part, whose fields
  are a record's domain because the export asks whether they are there. What the
  operator adds by hand is `recordLiveProof`.
- **A refresh** reads the pass at its start and the policy at its end.
  The code's reads run side by side, and this choice leaves the nonce the
  longest time to become stale.

## 3. Runs

| Run | Configuration | States | Checks |
|---|---|---|---|
| `registry` | `MCAccessRegistry.cfg` | 18,128 | `RegistryTypeOK`, `PassesBacked`, `ConsumedIsCovered`, `GrantsAuthorized`, `CommitmentImmutable`, `ImplementsLedger` |
| `vault` | `MCPrivateFXRPVault.cfg` | 103,038 | `VaultTypeOK`, `OthersBacked`, `ExitOpen`, `DepositWithinLimit`, `ImplementsAtomicVault` |
| `server` | `MCExtensionServer.cfg` | 600,481 | `ServerTypeOK`, `Serialized`, `AnswersFollowChain`, `LostOnlyByCrash`, `QueueDrains` under fairness |
| `server_contract` | `MCExtensionServerContract.cfg` | - | `RoutedIsAnswered`, violated: section 6 |
| `flow` | `MCAccessFlow.cfg` | 542,844 | `FlowTypeOK`, `PassesEarned`, `IssuedIsHeld`, `NoNonceGap` |
| `registration` | `MCTeeRegistration.cfg` | 102,494 | `RegistrationTypeOK`, `FileIsHonest`, `ChallengeIsOwn`, `ReRunsWork` under fairness |
| `registration_resume` | `MCTeeRegistrationResume.cfg` | - | `ResumeWorks`, violated: section 6 |
| `setup` | `MCExtensionSetup.cfg` | 119,857 | `SetupTypeOK`, `EnvIsComplete`, `BoundIsConfigured`, `TestsPass` under fairness |
| `verify` | `MCVerifyDeploy.cfg` | 4,732,605 | `CleanReportBinds`, `VerifyAfterPreBuild` |
| `go_extension` | `MCGoExtension.cfg` | 139,463 | `GoInv`, `RepliesNumbered`, `ImplementsService` under fairness |
| `go_process` | `MCGoProcess.cfg` | 533 | `StopIsNoFailure`, `SignalStops`, `FailureStops` under fairness |
| `pipeline` | `MCDeploymentPipeline.cfg` | 194,467 | `EvidenceHolds`, `SignersAreMachines`, `WebIsConsistent`, `FinalizationCompletes` under fairness |

What the properties say:

- `PassesBacked`: every pass stands on an existing policy and on consumed
  evidence with exactly its terms, which still names the policy's commitment.
- `ConsumedIsCovered`: what one submission path consumed, the nonce blocks on
  the other path, whose used flag does not know it.
- `GrantsAuthorized`: each change of a pass consumes evidence never consumed
  before, signed for this chain and registry by a signer registered *then*.
- `CommitmentImmutable`: a policy keeps owner, issuer and rules hash.
- `ImplementsLedger`: the registries implement `AccessPassLedger`.
- `OthersBacked`: even inside a token call the vault holds the positions of all
  accounts but the caller's.
- `ImplementsAtomicVault`: whatever the token calls in the midst of a deposit or
  withdrawal, and whether it succeeds, the vault implements `AtomicVault`. Seen from
  outside, each call happens at once and entirely, judged by what was true before
  it, or leaves no trace, and none hides in another.
- `DepositWithinLimit`: a deposit happens with access and a fresh price, and
  the whole position, valued without rounding, stays below the limit plus one
  micro-dollar.
- `ExitOpen`: between transactions every owner can take the whole position out,
  whatever became of pass, policy and feed.
- `Serialized`, `AnswersFollowChain`: at most one handler is under way, and every
  answer is the one a sequential server would have given.
- `LostOnlyByCrash`: a request is left without an answer only after a killed
  container, or when some request ended the process because code outside every `try`
  throws on it (`escapes`): an identifier that is no string, rules that do not encode, a
  loose plaintext. Greetings, state reports and well formed access requests never do,
  whatever the node answers, and neither does a stop through SIGTERM.
- `QueueDrains`: a request on the chain is answered or its process ends.
- `PassesEarned`: end to end, a pass exists only for an issuer-signed credential
  of that account which meets the committed rules, with their limit and no
  longer than the credential lives.
- `IssuedIsHeld`: when the page announces a pass, the session's own result was
  taken and the account's pass has that nonce or a later one.
- `NoNonceGap`: with honest sessions, nonces are granted one after another, so a
  late result never blocks the requests after it.
- `FileIsHonest`: wherever the tool stopped, the state file claims nothing the
  chain has not seen.
- `ChallengeIsOwn`: a run that removed the state file asks for the check with a
  challenge requested since it started, for its own TEE.
- `ReRunsWork`: once mishaps end, running `post-build.sh` again takes the TEE that is
  up to production, for good, also through changes of the signing policy.
- `EnvIsComplete`: the configuration file names an extension only when all it needs
  is on chain, wherever an earlier run stopped.
- `BoundIsConfigured`: a sender binds itself to the configured extension or to none,
  although it looks for the lowest id and the file has the newest, and senders are
  used again, also while an earlier registration of theirs is still to be mined.
- `TestsPass`: running the scripts again ends with tests that pass, with an id set
  already, or set while the test waits, and with a sender that is refused because it
  has an extension.
- `CleanReportBinds`: if `verify-deploy` passes R2 and R7 on the file of
  `pre-build.sh`, and no query of R7 failed, the sender can bind itself to that id only, whatever is
  registered meanwhile.
- `VerifyAfterPreBuild`: a report has no FAIL on what pre-build wrote, even while it
  is written again, but for a query that failed.
- `GoInv`: the mutex is held from the first to the last access to the fields, by one
  writer or by readers.
- `RepliesNumbered`: numbers without gap or repetition. `ImplementsService` says this
  and more, by refinement: reported states existed, and every request is served.
- `StopIsNoFailure`, `SignalStops`, `FailureStops`: signals and broken servers end the
  process, the one without and the other with a failure. The exception is `start-tee`,
  which takes signals over and then waits without a timeout for the node to take its
  proxy URL: if the node never answers, the signal is never looked at
  (`nodeNeverAnswers`, section 6).
- `EvidenceHolds`: whenever there is a manifest, what the evidence collector compares
  is true of the chain.
- `SignersAreMachines`: a finalized deployment trusts only machines in production
  for its own extension, behind the proxy the finalizer expects, with signers given at deployment and finalizations cut off.
- `WebIsConsistent`: the exported site talks to one deployment.
- `FinalizationCompletes`: if the deployment of the manifest has got the id the
  finalizer insists on, and the TEE keeps its key and is not registered with another
  proxy URL than the finalizer's, repeating the finalization ends
  with a manifest that has the id.

### Bounds

- **registry.** Two accounts (the admin and another), two issuers, two rules
  hashes, a current and a former signer, times 0 to 3. The signed messages hold
  one each of what the checks tell apart: both paths with equal and with growing
  nonces, ineligible, expired, other chain, other registry, other rules, other
  issuer, one action with two results. One account and one policy are enough for
  each property to fail, and the second of each shows what must not be touched.
- **vault.** Two holders, one whose tokens could pay the other. Amounts 0 to 2,
  prices 0 and 3, a unit of 2 so that both rounding and a remainder occur, a
  `MaxUint` of 9 so that the product overflows, feed age at most 1 with times to
  2, so that a price is fresh, too old or from the future. The stack is bounded
  by the flag, and without it (the mutant) by the amounts.
- **server.** Three requests: one suspended, one behind it, one that arrives
  while both wait. A plaintext for each place where the evaluation can end, one of them
  `Loose`, and at most two access requests of the three (`MaxAccess`): they meet at every
  pair of stages, and the third request observes them from the chain or ends the process
  under them. One kill. Requests are numbered in the order they arrive (`arriveInOrder`): their
  names mean nothing, and a symmetry set is not sound for liveness.
- **server_contract.** Two requests.
- **flow.** Two symmetric pages of one account, one read in flight and one poll per
  page, and foreign requests that each lack one thing (a credential of the account,
  the policy's issuer, the committed rules). Two instructions and a nonce up to 2:
  enough for two pages, or a page and someone else, to compete for a nonce, for one
  to be late, and for a second grant. A decision of the TEE's clock 0 expires at 1,
  the last block time, so that results are relayed in time and too late. One TEE,
  registered and removed at any moment; the theorems hold for any number.
- **registration.** Two keys for the TEE, three mishaps: enough for a transaction
  given up in one run to be mined during the next, and for a restart or an
  expiry on top. **registration_resume.**
  One key and one mishap suffice.
- **setup.** Three mishaps, five senders and five extensions: enough for a registration
  given up in one run and mined in the next, with the same sender or another, next to
  someone else's. Each run of `pre-build.sh` deploys a sender or takes an earlier one,
  and the registry refuses a sender it has. Without the refusal a sender would have two
  extensions and `BoundIsConfigured` would fail; in **verify** the registry accepts it.
- **verify.** One sender that may be registered twice, two mishaps, two settings that
  between them reach every verdict, and the files stale, incomplete and malformed.
  `FirstPublicExtensionId` keeps its value, 65536, below which the loop of R7 finds
  nothing. A query that fails is one of the mishaps.
- **go_extension.** Three goroutines (a writer inside, one that waits, a reader), in
  the order their requests arrive, and two names.
- **go_process.** All three commands, two requests.
- **pipeline.** Two deployments, of which one may be left half done, three extensions,
  two keys of the TEE, each registered with the finalizer's proxy URL or with another,
  three mishaps. The finalizer's constant is 1, so others who
  register first take it away.
- `CHECK_DEADLOCK FALSE` appears in the server configurations, because with every
  request answered and the process stopped there is nothing left to do, and in
  those of the registration, which ends with the TEE in production. The same holds
  for the set-up (tests passed), the report (done), the Go extension (all requests
  answered), the Go process (ended) and the deployment (exported, no mishaps left).
  The other systems never stop.

## 4. Fairness

In `FairServerSpec` (`ServerFairness`), weak fairness holds for the handlers, the
recovery of a signature, `send` and `exit`, because the event loop of Node runs
whatever is ready, and for `decryptTimesOut`, because `node.ts` arms a timer of
thirty seconds before the call. Nothing is assumed of the node's answer
(`decryptReturns`, `decryptRejects`), of the orchestrator (`kill`, `shutdown`,
`restart`) or of the network (`reject`, `lookupThrows`, `serialize`). `QueueDrains` fails
without the timer; its mutant shows it.

In `FairRegistrationSpec`, weak fairness holds for the tool's own steps (a program
runs), for the end of its polling (a loop of fifteen rounds), for mining, and for
the answers of the TEE and the data providers, both outside the code and both
what the script waits for. It also holds for `postBuild`: the operator
runs the script until it succeeds, which is what "re-runs" means. Mishaps have no
fairness and are bounded.

In `FairSetupSpec` and `FairPipelineSpec` it is the same: weak fairness for the
steps of the script that runs and for mining, and the operator runs the script
that comes next in the README while its result is missing. `runTest` and `finalize` have strong fairness, because
a script that is not this one may run in between and disable them for a while.
So has `deployAnew` while there is no configuration file: the operator may take an earlier sender
as often as he likes, but goes back to a new one now and then, since a sender whose run
stopped after its registration is refused ever after.
`TestsPass` and `FinalizationCompletes` are therefore claims about an operator who
tries again.

In `FairExtensionSpec` (`GoFairness`), strong fairness holds for each goroutine: the scheduler of Go
is preemptive, and `sync.Mutex`, on which `RWMutex` rests, hands itself over to a
waiter that has starved for a millisecond, so a goroutine whose lock is free again
and again gets it.

In `FairProcessSpec`, weak fairness holds for the main goroutine, the shutdown goroutine
and the one that listens: goroutines are scheduled and timers fire. Nothing is
assumed of requests, which may last for ever, of signals, or of the node's answer to
`start-tee` (`setProxyURL`): `http.Post` on the default client waits without a timeout.

The registries, the vault and the flow have no liveness property: every step
there waits for a user.

## 5. Proofs

Each theorem holds for all values of the constants under the named assumptions.

| Module | Theorem | States |
|---|---|---|
| `AccessFlowProofs` | `TypeCorrect`, `EveryPassIsBacked`, `ConsumedStaysCovered`, `EveryGrantIsAuthorized`, `CommitmentsAreImmutable` | `RegistryTypeOK`, `PassesBacked`, `ConsumedIsCovered`, `GrantsAuthorized`, `CommitmentImmutable` |
| | `RegistryImplementsLedger` | `RegistrySpec => ImplementsLedger` |
| | `FlowTypeCorrect`, `EveryPassIsEarned`, `IssuedPassIsHeld` | `FlowTypeOK`, `PassesEarned`, `IssuedIsHeld` |
| | `NoncesHaveNoGap` | `NoNonceGap`, if requests of others are first requests |
| | `FlowRefinesRegistry`, `FlowImplementsLedger` | `FlowSpec => RegistrySpec`, `FlowSpec => ImplementsLedger` |
| `PrivateFXRPVaultProofs` | `VaultTypeCorrect`, `OthersAreBacked`, `DepositsStayWithinLimit` | `VaultTypeOK`, `OthersBacked`, `DepositWithinLimit` |
| | `VaultIsAtomic`, `AtomicVaultIsSolvent` | `VaultSpec => ImplementsAtomicVault`, and that the balance of `AtomicVault` covers all positions (`PositionsCovered`) |
| | `ExitIsPaid` | `ExitGuardsHold`: all that `ExitOpen` asks for except `ENABLED` |
| `ExtensionServerProofs` | `ServerTypeCorrect`, `HandlersAreSerialized`, `AnswersAreSequential`, `OnlyCrashesLose` | `ServerTypeOK`, `Serialized`, `AnswersFollowChain`, `LostOnlyByCrash` |
| `GoExtensionProofs` | `WritersExcludeReaders`, `RepliesAreNumbered` | `GoInv`, `RepliesNumbered` |
| | `GoImplementsService`, `ServiceCounts` | the safety of `ImplementsService`, and what `CountingService` itself ensures |
| `GoProcessProofs` | `ProcessTypeCorrect`, `StopsAreNoFailures` | `ProcessTypeOK`, `StopIsNoFailure` |
| `TeeRegistrationProofs` | `RegistrationTypeCorrect`, `FileStaysHonest`, `ChallengesAreOwn` | `RegistrationTypeOK`, `FileIsHonest`, `ChallengeIsOwn` |
| `ExtensionSetupProofs` | `SetupTypeCorrect`, `EnvironmentIsComplete` | `SetupTypeOK`, `EnvIsComplete` |
| | `BoundIsTheConfigured` | `BoundIsConfigured`, if `Reuse => RejectsDuplicates` |
| | `CleanReportsBind`, `PreBuildVerifies` | `CleanReportBinds`, `VerifyAfterPreBuild` |
| `DeploymentPipelineProofs` | `PipelineTypeCorrect`, `EvidenceIsThere`, `OnlyMachinesSign`, `WebTalksToOne` | `PipelineTypeOK`, `EvidenceHolds`, `SignersAreMachines`, `WebIsConsistent` |

**Assumptions.** `AddressAssumption` and `SignerAssumption`: the admin is an
account, the zero address neither an account nor an issuer nor a signer. `SignedAssumption`: signed messages
have the fields the ABI decodes, numbers being naturals. `EvaluationAssumption`, `ServerAssumption`,
`FlowAssumption`, `RegistrationAssumption`, `SetupAssumption`, `ProcessAssumption`,
`PipelineAssumption`: bounds are numbers, commands are known, the TEEs' keys are
signers, sessions have accounts. `ResultsAssumption`: the set of signed results contains whatever the
TEEs can make of the requests; it may contain more. `VaultAssumption`: the vault is no
holder, units and scales are positive, and the holders are finitely many, as an address
is a `uint160`. `NoneAssumption`: the value for "no request" is not a request, an input
or a reply. TLC evaluates all of them.

**Hypotheses.** Two theorems have one, each because the statement is false without it.
`NoncesHaveNoGap` supposes that requests sent past the web client ask for the first
nonce (`OthersAskFirst`): whoever encrypts a request chooses its nonce, and the TEE
and the registry accept a larger one. The run `flow` has such requests.
`BoundIsTheConfigured` supposes that `EXISTING_INSTRUCTION_SENDER` is not set or the
external registry refuses a sender it has (section 6). The documented sequence
(`README.md:159`) sets it, to a sender deployed before; with the refusal the theorem
covers that, and without the setting it holds for either registry.

**Registry.** `PassesBacked` is not inductive alone: a grant needs types, and a
backing result must keep naming the commitment. `IInv` adds that an active
policy exists (`ActivePolicyExists`), so that a policy with passes can never be
created again, and `ConsumedIsCovered`. The action properties and the
refinement follow from `IInv` step by step; `NoncesGrow` and `DigestTellsTerms`
are the lemmas they share.

**Vault.** `OthersBacked` is about every moment of a call, so `VInv` says what an open
call still owes (`OpenCall`): its frame saved a covered state, the vault has at least the
balance of then, and only the caller's position has moved, by the amount of the call.
`tokenReturns` pays that difference and `tokenFails` restores the saved state. The sum
of positions is a fold over a set: the lemmas on how it changes with one
account are proved from its defining equations, by the smallest set for which they would
fail (well-founded induction on finite sets, without an operator parameter).
`DepositsStayWithinLimit` reasons about the two rounding divisions. `ExitIsPaid` states
the guards of `withdraw` and the vault's balance; that the step is `ENABLED` is `ExitOpen`,
which TLC checks.

For the refinement, the state that `AtomicVault` sees (`committed`) is the current one
between transactions and, inside a call, the one its frame saved. The call's beginning and
what the token does are then stutters, `tokenFails` too, and `tokenReturns` is the abstract
deposit or withdrawal. `AtomicInv` therefore keeps, from the call's beginning on, all that its
return will have to show (`Accounted`): a deposit was allowed by the saved state, passes
since then gave way only to larger nonces, accounts only gave tokens away, and no token was
made or lost. `MoveKeepsSupply` and `SupplyIsTotal` prove the last one over the folds.
`AtomicVaultIsSolvent` asks no more of the vault than `AtomicVault`: by
`TransactionCovers`, tokens that accounts lose are the vault's, and each account loses at
least what its position gains.

**Server.** `SInv` joins `Serialized` with `ChainInv`: the chain has no
duplicates, none of its requests is idle or lost, and it is empty while the
process is down. Without the first, a request could be on the chain twice and
have two turns; without the second, a request that arrives could already be on
it. `TInv` adds the types and what a suspended or thrown handler was asked (`AwaitsFit`): `OnlyCrashesLose` rests on it, for a
thrown request is one that `escapes`. `AInv`
adds that the module's counters are the numbers of successful turns on the
chain (`AppFollowsChain`) and that each answer was right when it was given
(`AnswerFits`): a cardinality changes only when the turn that is under way ends, and by
`Serialized` that is the last of the successful ones.

**Flow.** A pass is tied to a credential through three hops, and `FlowInv` has a
conjunct for each: `ResultsTraced` (a result is what its TEE makes of its
instruction), `CallsTraced` (the page's call, its instruction and its result
belong together) and `PassesEarned` itself; with `IInv` for the registry's part
and `FlowTyped`. Every step of the flow is a registry step or leaves the registry
alone (`RegistryStep`), so the registry's invariants are reused, not proved again.
`NonceInv` adds that whatever a page has read is a nonce the chain had (`ReadsOld`) and
that every instruction, from when it is sent, asks for the next nonce at most
(`AsksNext`). Passes' nonces only grow, so neither is ever outrun, and the guard of
`grant` leaves one nonce.

**Go extension.** `GInv` adds to `GoInv` what each goroutine has read or is about to
reply: a reader's fields are current because no writer holds the mutex (`ReadsCurrent`),
a writer's counter has not moved since it incremented it (`LocalFits`). The
refinement maps a greeting to the moment its text is in place and a state to its last
read; every other step is a stutter. `RepliesNumbered` is then proved of `CountingService`, where
a greeting is one step (`ServiceCounts`), and carried back through the mapping. The
fairness half of `ImplementsService` stays with TLC.

**Go process.** `StopIsNoFailure` speaks of the process's end, which reads where
`main` is and what the error channel holds. `PInv` says that an error in the channel
comes from a failed server (`ErrorsAreReal`), that `main` is only at places of its own
command (`PlacesFit`: only start-tee can fail over the owner's key or the proxy URL), and
that no server runs before it is started (`EarlyIsQuiet`). `ProcessTypeOK` is proved only; no run
repeats it.

**TEE registration.** `RegInv` has three parts beyond types. What the tool waits for is
the last transaction of the pool, the call of its step, with the attestation of its state
(`AwaitsOwn`), although transactions of runs that were given up lie before it. A state,
in the file or in the tool, lists steps in their order and names a registered machine's
attestation and a check of it (`StateHonest`); what the diamond has only grows (`Grows`),
so this survives everything that is mined late. And a run that removed the file has nothing
done until its first step, and then an attestation after its start (`FreshFits`).

**Set-up and verify-deploy.** In `SetupInv`, too, what is awaited is the last of the pool
(`RunFits`), an id bound by a sender is one of its own (`BoundIsOwn`), and a sender is
registered by one run only, a late transaction included (`SentOnce`, `OneEach`): two
extensions of one sender would make the lowest id differ from the configured one.
`VerifyInv` adds that a bound id is the sender's first (`BoundIsFirst`), that the parsed
file was complete and the counter was read after the file (`ParsedFits`), hence counts its
id, and what each result in the report stands for on a chain that grows
(`ReportFits`). When R7 has seen every id below the counter, a second one of the sender
would have been found, so the file's id is the first.

**Pipeline.** `DInv` follows the scripts: what is made when a run comes to a step
(`DeployFits`), what the finalizer has asked the chain before it writes
(`FinalizeFits`), what a manifest says (`ManifestFits`) and the site (`WebFits`). Signers
are the subtle part: a transaction on its way carries a vetted machine, in production
and with the expected URL (`Vetted`, `MempoolFits`), and a deployment trusts vetted machines and at most the key it was given
(`SignersFrom`), until a finalization accepts the manifest only if that key is vetted too.

**Model-checked only.** `QueueDrains`, `ReRunsWork`, `TestsPass`, `SignalStops`,
`FailureStops`, `FinalizationCompletes` and the fairness in `ImplementsService` are
liveness; `ExitOpen` is about `ENABLED`. The two violations of section 6 are runs. Every
other property of a passing run is the statement of a theorem. The
rules hash and the limit are functions of the data that `AccessEvaluation` defines
without recursion, and what `EveryPassIsEarned` needs of them is proved
(`DecisionEntitles`).

## 6. Findings

`server_contract` checks a sentence of the wire contract,
`fcc-extension/docs/extension-contract.md:33`: a routed action gets an
`ActionResult` with status 200 "including when the handler fails".
`handleEvaluateAccess` hashes the rules outside its `try` blocks
(`handlers.ts:133`), and rules with a number outside its ABI type, which
validation accepts, make the encoder throw. The handler's promise rejects,
`serve()` is not awaited by anyone, and Node ends the process on the unhandled
rejection: the request, and those behind it, get no answer. The lookup of the handler
(`server.ts:133`) is outside every `try` as well, and `normalize` (`types.ts:122`) throws
on an op type or command that is neither a string nor empty; as such a request is never
routed, the sentence does not speak of it, and the run supposes there is none, but those
it takes with it are lost all the same. `LostOnlyByCrash` and
`QueueDrains` are stated so as to say what holds in spite of it.

`registration_resume` checks the comment on the state file,
`fcc-extension/tools/pkg/fccutils/registration.go:26`: it is saved "so registration
can resume after failures". A resumed run skips `r` and `R` and asks for the
availability check with the attestation in the file. If its challenge has expired
meanwhile, or was used by a check that was mined after the tool gave up on it,
the request reverts, the file stays as it is, and every resumed run after it
fails in the same way.
Without `-resume` the registration recovers: `ReRunsWork`.

Other disagreements of code and documents that the models made plain, and which the
properties are stated around:

- `SetupExtension` registers first and asks nothing (`extension.go:35`), although
  `fcc-extension/docs/testing.md:82` says a second run "detects the existing
  registration". If the registry refuses duplicates, a run with
  `EXISTING_INSTRUCTION_SENDER` that stopped after its registration cannot be finished;
  if it accepts them, each run leaves one more extension, and the sender binds itself
  to the oldest. `BoundIsConfigured` is checked with that setting and a registry that
  refuses duplicates; with one that accepts them it is false.
- R7 passes over an id whose query fails (`checks.go:477`) and reports that the "sender
  is unique across registered extensions" (`:498`). `CleanReportBinds` therefore asks
  that no query of R7 failed.
- Without `--config` everything about the configuration is skipped and `verify-deploy`
  exits with 0, where `testing/shared/scenarios/edgecase-scenarios.md:43` expects
  "appropriate FAILs for missing config".
- `ListenAndServe` returns the moment `Shutdown` is called, `main` returns after it and
  takes the process with it (`go/cmd/main.go:34`), so the "Graceful shutdown." of line
  20 loses requests in flight. No property of `GoProcess` says they are answered.
- "Finalization resolves the registered extension ID onchain" (`README.md:168`), and
  then compares it with a constant (`finalize-fcc-coston2.js:9`), so a deployment
  registered under any other id cannot be finalized. The proxy URL is a constant too
  (line 10), and a machine registered with another one is refused at every run
  (`scripts/lib/fcc-finalization.js:24`). Both are premises of `FinalizationCompletes`.
- `start-tee` asks for SIGTERM and interrupts first (`go/cmd/start-tee/main.go:52`) and reads them
  last (line 64). In between it posts its proxy URL to the node on a client without a
  timeout (line 119): while the node does not answer, the process does not react to
  signals. It is the exception that `SignalStops` makes.
- The export wants `fcc.status`, a numeric `extensionId` and `fcc.liveProof`, which no
  script writes; `README.md:143` says to run it "after deployment". In the model
  they are added by hand (`recordLiveProof`).

## 7. Hazards

`PROJECT.json` lists every hazard with its line and the properties that cover it.
Covered: replays across the two paths, out-of-order relays, removed signers,
mismatched commitments, recreated policies, other domains; reentry, failing
tokens, rounding, stale prices, exits; suspended handlers, rejections, silent
nodes, SIGTERM; stale nonces, competing pages, late results; resumed
registrations, transactions mined late, a file that was not removed, a policy proxy out
of step; half-made extensions, ids taken by others, reports read piece by piece;
torn states, lost numbers, signals and failures at every moment; manifests written
late or not at all, second deployments. Each hazard without a property has a note:
a page that retries with an old nonce or shows another account's pass, which nothing
in the repository makes a claim about, and a choice of a TEE at random. Smaller ones
that are not listed: `start-tee` runs on when its server fails late, the finalizer
overwrites a manifest written while it ran, the tests wait without a timeout for a
transaction that was dropped, and the live command line takes another's grant for a
failure of its own.

## 8. Plan

What is left, in order of importance:

1. An abstract registration tool, to say what a resumed run owes to the one before it; as
   yet the runs speak of the file's honesty and of what is reached in the end.
2. A wallet switch and a disconnect against refreshes in flight, once it is stated
   somewhere what the page should show; the command line as a second kind of
   client of `AccessFlow`.
3. The Python extension as another implementation of `CountingService`.

## 9. Not modelled

`audit-deploy`, which prints what it reads, the layout of reports, preflight and readiness
scripts, generated bindings, mocks, fixtures, landing page and styling: no state of
their own. `start-services.sh` and the Dockerfiles are one external step of
`ExtensionSetup`, and the builds of the three languages are left out. The Python
extension takes one lock around each handler, which makes its schedules some of
those of `GoExtension`. The local policy engine is a pure function in the shape of
`AccessEvaluation`. The live command line is linear and does what a page of
`AccessFlow` does. The page's wallet switch, issuer and vault forms are left out:
what they display is not stated anywhere. The web proxy keeps nothing between
requests; its timeouts and errors are `pollFails` in `AccessFlow`. The tee-node,
the FCC proxy, FTSO, the token and the wallet are outside the repository and
appear as what the code must be ready for. `requestAccess` of `AccessRegistry`
emits an event and changes no state.
