----------------------------- MODULE AccessFlow -----------------------------
(***************************************************************************)
(* An access request from the browser to the pass: web/src/App.jsx reads   *)
(* the account's pass, encrypts a request with the next nonce to the TEE   *)
(* it knows of, sends it through fcc/PrivateAccessInstructionSender.sol to *)
(* a TEE drawn at random, polls the proxy for the signed result and relays *)
(* it to AccessRegistry.  Several sessions may serve one account, others   *)
(* may send requests and relay results of their own, and the registries    *)
(* change in between.                                                      *)
(*                                                                         *)
(* The TEEs evaluate as AccessEvaluation says; how one of them serves its  *)
(* requests is ExtensionServer.  No TEE signs for submitDecision.          *)
(***************************************************************************)
EXTENDS AccessRegistry, AccessEvaluation

CONSTANTS
  Tees,            \* signing keys of the extension's TEE machines
  Sessions,        \* open pages of the web client
  AccountOf,       \* session -> the connected wallet
  ThePolicy,       \* config.policyId
  PolicyRules,     \* config.policyRules
  Packages,        \* credential packages a user may load
  OtherRequests,   \* requests sent by anyone but the web client
  Clocks,          \* what a TEE's clock may show
  MaxNonce,        \* Number.MAX_SAFE_INTEGER
  MaxInstructions, \* bound on instructions
  MaxAttempts,     \* polls before the window closes
  MaxRefreshes     \* bound on reads of one session in flight

VARIABLES
  instructions,    \* on chain: to which TEE, for which key, what
  results,         \* signed results with status 1, at the proxy
  client,          \* session -> its requestAccess call
  snapshot,        \* session -> what the page last read from the chain
  refreshing       \* session -> nonces read by refreshes in flight

clientVars == <<client, snapshot, refreshing>>
flowVars == <<registryVars, instructions, results, clientVars>>

(* Every request buildAccessRequest can make.                              *)
SessionRequests ==
  [registry: {ThisRegistry},
   account: Accounts,
   policyId: {ThePolicy},
   rulesHash: RulesHashes \cup {NoRules},
   issuer: Issuers \cup {ZeroAddress},
   credential: {package.credential : package \in Packages},
   issuerSignature: {package.issuerSignature : package \in Packages},
   policy: {PolicyRules},
   nonce: 1 .. MaxNonce]

(* The node signs the decision with the action it belongs to.              *)
signedResult(id, tee, request, clock) ==
  LET d == decisionOf(request, clock)
  IN  [actionId |-> id, status |-> 1, signer |-> tee, chain |-> ThisChain,
       targetRegistry |-> d.targetRegistry, account |-> d.account,
       policyId |-> d.policyId, rulesHash |-> d.rulesHash,
       credentialIssuer |-> d.credentialIssuer, eligible |-> d.eligible,
       limitUsd |-> d.limitUsd, expiresAt |-> d.expiresAt,
       nonce |-> d.nonce]

ASSUME FlowAssumption ==
  /\ Tees \subseteq Signers
  /\ AccountOf \in [Sessions -> Accounts]
  /\ ThePolicy \in PolicyIds
  /\ Clocks \subseteq Nat
  /\ {MaxNonce, MaxInstructions, MaxAttempts, MaxRefreshes} \subseteq Nat

(* The results that exist are those the TEEs can make of the requests.     *)
ASSUME ResultsAssumption ==
  \A request \in SessionRequests \cup OtherRequests :
    decides(request) =>
      \A id \in 1 .. MaxInstructions, tee \in Tees, clock \in Clocks :
        signedResult(id, tee, request, clock) \in SignedFccResults

emptySnapshot == [policy |-> NoPolicy, nonce |-> 0]

Phases == {"idle", "signing", "polling", "relaying", "confirmed", "issued"}

(* No call is running: readyForRequest asks for ~busy.                     *)
Quiet == {"idle", "issued"}

noCall == [phase |-> "idle", request |-> Junk, instruction |-> 0,
           attempts |-> 0, action |-> Junk]

FlowInit ==
  /\ RegistryInit
  /\ instructions = <<>>
  /\ results = {}
  /\ client = [s \in Sessions |-> noCall]
  /\ snapshot = [s \in Sessions |-> emptySnapshot]
  /\ refreshing = [s \in Sessions |-> {}]

chainNonce(s) == getAccess(AccountOf[s], ThePolicy).nonce

(* refresh() reads the chain and sets the snapshot when the reads are      *)
(* back.  Nothing stops a second one from starting, or from ending first.  *)
(* The reads of one refresh run side by side: the pass is read at its      *)
(* start and the policy at its end, which leaves the nonce the longest     *)
(* time to go stale.                                                       *)
startRefresh(s) ==
  /\ Cardinality(refreshing[s]) < MaxRefreshes
  /\ refreshing' = [refreshing EXCEPT ![s] = @ \cup {chainNonce(s)}]
  /\ UNCHANGED <<registryVars, instructions, results, client, snapshot>>

endRefresh(s) ==
  \E nonce \in refreshing[s] :
    /\ snapshot' = [snapshot EXCEPT ![s] =
                      [policy |-> policies[ThePolicy], nonce |-> nonce]]
    /\ refreshing' = [refreshing EXCEPT ![s] = @ \ {nonce}]
    /\ UNCHANGED <<registryVars, instructions, results, client>>

failRefresh(s) ==
  \E nonce \in refreshing[s] :
    /\ refreshing' = [refreshing EXCEPT ![s] = @ \ {nonce}]
    /\ UNCHANGED <<registryVars, instructions, results, client, snapshot>>

(* policyMatches, credentialMatches, issuerMatches and an active policy.   *)
readyForRequest(s, package) ==
  /\ client[s].phase \in Quiet
  /\ snapshot[s].policy.active
  /\ computePolicyRulesHash(PolicyRules) = snapshot[s].policy.rulesHash
  /\ package.credential.account = AccountOf[s]
  /\ package.issuerSignature =
       [issuer |-> snapshot[s].policy.credentialIssuer,
        credential |-> package.credential]

(* Mutant: the next nonce leaves one out.                                  *)
nextNonceSkipping(s) == snapshot[s].nonce + 2

nextNonce(s) == snapshot[s].nonce + 1

buildAccessRequest(s, package) ==
  [registry |-> ThisRegistry,
   account |-> AccountOf[s],
   policyId |-> ThePolicy,
   rulesHash |-> snapshot[s].policy.rulesHash,
   issuer |-> snapshot[s].policy.credentialIssuer,
   credential |-> package.credential,
   issuerSignature |-> package.issuerSignature,
   policy |-> PolicyRules,
   nonce |-> nextNonce(s)]

setCall(s, call) ==
  /\ client' = [client EXCEPT ![s] = call]
  /\ UNCHANGED <<snapshot, refreshing>>

(* A caught error: the call is over, and the snapshot stays as it is.      *)
stopCall(s) == setCall(s, noCall)

(* The button is pressed: the request is built from the snapshot.          *)
requestAccess(s, package) ==
  /\ readyForRequest(s, package)
  /\ nextNonce(s) <= MaxNonce
  /\ setCall(s, [noCall EXCEPT !.phase = "signing",
                               !.request = buildAccessRequest(s, package)])
  /\ UNCHANGED <<registryVars, instructions, results>>

(* The sender's requestAccess: getRandomTeeIds picks the TEE, whichever    *)
(* key the request was encrypted to.                                       *)
sendInstruction(request) ==
  /\ Len(instructions) < MaxInstructions
  /\ \E key \in Tees, tee \in Tees :
       instructions' = Append(instructions,
                              [tee |-> tee, key |-> key, request |-> request])
  /\ UNCHANGED <<registryVars, results>>

(* No TEE info, a rejected or reverted transaction, or no instruction id   *)
(* in its receipt.  A transaction mined after the page stopped waiting for *)
(* it is instructionMined with pollFails or reload right after it.         *)
requestFails(s) ==
  /\ client[s].phase = "signing"
  /\ stopCall(s)
  /\ UNCHANGED <<registryVars, instructions, results>>

instructionMined(s) ==
  /\ client[s].phase = "signing"
  /\ sendInstruction(client[s].request)
  /\ setCall(s, [client[s] EXCEPT !.phase = "polling",
                                  !.instruction = Len(instructions) + 1])

otherInstruction(request) == sendInstruction(request) /\ UNCHANGED clientVars

(* The TEE evaluates the instruction, for each of its submission tags, and *)
(* its node signs what it returned.  A result with status 0 is what a poll *)
(* that fails may have found.                                              *)
evaluate(id) ==
  LET ins == instructions[id]
  IN  /\ ins.tee = ins.key
      /\ decides(ins.request)
      /\ \E clock \in Clocks :
           results' = results \cup
                        {signedResult(id, ins.tee, ins.request, clock)}
      /\ UNCHANGED <<registryVars, instructions, clientVars>>

(* Mutant: the loop has no end.                                            *)
pollsLeftAlways(s) == TRUE

pollsLeft(s) == client[s].attempts < MaxAttempts

(* The proxy has a result with status 1.                                   *)
pollFinds(s) ==
  /\ client[s].phase = "polling"
  /\ pollsLeft(s)
  /\ \E r \in results :
       /\ r.actionId = client[s].instruction
       /\ setCall(s, [client[s] EXCEPT !.phase = "relaying", !.action = r])
  /\ UNCHANGED <<registryVars, instructions, results>>

(* The proxy answers that there is nothing yet.                            *)
pollAgain(s) ==
  /\ client[s].phase = "polling"
  /\ pollsLeft(s)
  /\ setCall(s, [client[s] EXCEPT !.attempts = @ + 1])
  /\ UNCHANGED <<registryVars, instructions, results>>

(* The window closed, the proxy failed, or the action did.                 *)
pollFails(s) ==
  /\ client[s].phase = "polling"
  /\ stopCall(s)
  /\ UNCHANGED <<registryVars, instructions, results>>

(* Mutant: the transaction is sent and not waited for.                     *)
relayUnwaited(s) ==
  /\ client[s].phase = "relaying"
  /\ setCall(s, [client[s] EXCEPT !.phase = "confirmed"])
  /\ UNCHANGED <<registryVars, instructions, results>>

relay(s) ==
  /\ client[s].phase = "relaying"
  /\ submitFccDecision(client[s].action)
  /\ setCall(s, [client[s] EXCEPT !.phase = "confirmed"])
  /\ UNCHANGED <<instructions, results>>

relayReverts(s) ==
  /\ client[s].phase = "relaying"
  /\ stopCall(s)
  /\ UNCHANGED <<registryVars, instructions, results>>

(* The refresh awaited after a relay, and the notice of success.           *)
finish(s) ==
  /\ client[s].phase = "confirmed"
  /\ snapshot' = [snapshot EXCEPT ![s] =
                    [policy |-> policies[ThePolicy], nonce |-> chainNonce(s)]]
  /\ client' = [client EXCEPT ![s].phase = "issued"]
  /\ UNCHANGED <<registryVars, instructions, results, refreshing>>

(* The page is closed or reloaded: whatever it waited for is forgotten.    *)
reload(s) ==
  /\ client' = [client EXCEPT ![s] = noCall]
  /\ snapshot' = [snapshot EXCEPT ![s] = emptySnapshot]
  /\ refreshing' = [refreshing EXCEPT ![s] = {}]
  /\ UNCHANGED <<registryVars, instructions, results>>

(* submitFccDecision is open to everyone, and so are the proxy's results.  *)
otherRelay(r) ==
  submitFccDecision(r) /\ UNCHANGED <<instructions, results, clientVars>>

RegistryCall ==
  /\ \/ PolicyCall
     \/ \E sender \in Accounts, signer \in Signers, registered \in BOOLEAN :
          setTeeSigner(sender, signer, registered)
     \/ tick
  /\ UNCHANGED <<instructions, results, clientVars>>

SessionStep(s) ==
  \/ startRefresh(s) \/ endRefresh(s) \/ failRefresh(s)
  \/ \E package \in Packages : requestAccess(s, package)
  \/ requestFails(s) \/ instructionMined(s)
  \/ pollFinds(s) \/ pollAgain(s) \/ pollFails(s)
  \/ relay(s) \/ relayReverts(s) \/ finish(s)
  \/ reload(s)

FlowNext ==
  \/ \E s \in Sessions : SessionStep(s)
  \/ \E request \in OtherRequests : otherInstruction(request)
  \/ \E id \in 1 .. Len(instructions) : evaluate(id)
  \/ \E r \in results : otherRelay(r)
  \/ RegistryCall

FlowSpec == FlowInit /\ [][FlowNext]_flowVars
-----------------------------------------------------------------------------
FlowTypeOK ==
  /\ \A s \in Sessions :
       /\ client[s].phase \in Phases
       /\ client[s].attempts \in 0 .. MaxAttempts
       /\ client[s].instruction \in 0 .. Len(instructions)
       /\ client[s].phase \in {"relaying", "confirmed", "issued"} =>
            client[s].action \in results
  /\ \A r \in results : r.actionId \in 1 .. Len(instructions)

(* The evidence a pass should stand for: a credential its policy's issuer  *)
(* signed over the pass's own account, and rules that hash to the policy's *)
(* commitment and that the credential meets.                               *)
Entitles(request, account, policyId) ==
  LET credential == request.credential
      rules == request.policy
      pass == getAccess(account, policyId)
  IN  /\ request.issuerSignature.issuer = policies[policyId].credentialIssuer
      /\ request.issuerSignature.credential = credential
      /\ credential.account = account
      /\ computePolicyRulesHash(rules) = policies[policyId].rulesHash
      /\ \E i \in 1 .. Len(rules.allowedJurisdictions) :
           rules.allowedJurisdictions[i] = credential.jurisdiction
      /\ credential.investorCategory >= rules.minimumInvestorCategory
      /\ credential.riskScore <= rules.maximumRiskScore
      /\ pass.limitUsd = rules.limitByCategory[credential.investorCategory]
      /\ 0 < pass.limitUsd
      /\ pass.expiresAt <= credential.expiresAt

(* End to end: whoever sent the request and relayed the result, whichever  *)
(* clocks the TEEs had and however signers and policies were changed in    *)
(* between, a pass exists only for a credential that entitles its account  *)
(* under the rules its policy is committed to, with the limit those rules  *)
(* give and no longer than the credential lives.                           *)
PassesEarned ==
  \A a \in Accounts, p \in PolicyIds :
    getAccess(a, p).nonce > 0 =>
      \E i \in 1 .. Len(instructions) :
        Entitles(instructions[i].request, a, p)

(* When the page says that the pass was issued, the registry has taken     *)
(* the session's own result, and the account's pass has its nonce or a     *)
(* later one.                                                              *)
IssuedIsHeld ==
  \A s \in Sessions : client[s].phase = "issued" =>
    /\ client[s].instruction \in usedFccActions
    /\ chainNonce(s) >= client[s].request.nonce

(* Nonces are used without gaps: sessions only ever know a nonce the chain *)
(* had, so of requests that compete for one nonce a single one is granted, *)
(* and a late result never blocks the requests after it.                   *)
NoNonceGap ==
  [][\A a \in Accounts, p \in PolicyIds :
       accessPasses'[a][p] # accessPasses[a][p] =>
         accessPasses'[a][p].nonce = accessPasses[a][p].nonce + 1]_flowVars
=============================================================================
