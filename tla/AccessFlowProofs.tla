-------------------------- MODULE AccessFlowProofs --------------------------
(***************************************************************************)
(* Proofs about the registries and about AccessFlow, which contains them.  *)
(*                                                                         *)
(* First AccessRegistry for every set of accounts, policies, signers and   *)
(* signed messages.  Then AccessFlow for every set of sessions, TEEs,      *)
(* packages, foreign requests, clocks and bounds: the registries inside    *)
(* the flow behave as RegistrySpec says, every pass is earned by a         *)
(* credential, and a pass a page reports is held.                          *)
(***************************************************************************)
EXTENDS AccessFlow, TLAPS

(***************************************************************************)
(* The registries.                                                         *)
(***************************************************************************)

(* No policy is active before it was created.                              *)
ActivePolicyExists ==
  \A p \in PolicyIds : isPolicyActive(p) => policyExists(p)

(* The inductive invariant.                                                *)
IInv ==
  /\ RegistryTypeOK
  /\ ActivePolicyExists
  /\ PassesBacked
  /\ ConsumedIsCovered

(***************************************************************************)
(* Facts about single steps.                                               *)
(***************************************************************************)

(* A signature that recovers a registered signer was made by that signer   *)
(* for this chain and, on the direct path, for this registry: any other    *)
(* one recovers the zero address, which is never registered.               *)
LEMMA RecoveredHere ==
  ASSUME RegistryTypeOK, NEW m
  PROVE  /\ _recover(m) \in registeredTeeSigners =>
              /\ m.chain = ThisChain /\ m.verifyingContract = ThisRegistry
              /\ m.signer \in registeredTeeSigners
         /\ _recoverFccSigner(m) \in registeredTeeSigners =>
              m.chain = ThisChain /\ m.signer \in registeredTeeSigners
  BY SignerAssumption DEF RegistryTypeOK, _recover, _recoverFccSigner

(* grant writes exactly one pass, with a larger nonce than it had.         *)
LEMMA GrantWrites ==
  ASSUME RegistryTypeOK, NEW m, DecisionFields(m), grant(m)
  PROVE  /\ accessPasses' \in [Accounts -> [PolicyIds -> Passes]]
         /\ accessPasses'[m.account][m.policyId] = passOf(m)
         /\ m.nonce > accessPasses[m.account][m.policyId].nonce
         /\ \A a \in Accounts, p \in PolicyIds :
              ~GrantedTo(m, a, p) =>
                accessPasses'[a][p] = accessPasses[a][p]
  <1>1. passOf(m) \in Passes
    BY DEF DecisionFields, passOf, Passes
  <1>2. QED
    BY <1>1 DEF RegistryTypeOK, grant, getAccess, GrantedTo, DecisionFields

(* Whatever the policy registry does, a policy that exists keeps its       *)
(* owner, its issuer and its rules hash.                                   *)
LEMMA PolicyStep ==
  ASSUME RegistryTypeOK, ActivePolicyExists, PolicyCall
  PROVE  /\ PolicyTypeOK'
         /\ ActivePolicyExists'
         /\ \A id \in PolicyIds : policyExists(id) =>
              policies'[id] =
                [policies[id] EXCEPT !.active = policies'[id].active]
  <1> USE AddressAssumption
  <1>1. CASE \E sender \in Accounts, salt \in Salts,
                issuer \in Issuers \cup {ZeroAddress},
                rulesHash \in RulesHashes :
                  createPolicy(sender, salt, issuer, rulesHash)
    <2>1. PICK sender \in Accounts, salt \in Salts,
               issuer \in Issuers \cup {ZeroAddress},
               rulesHash \in RulesHashes :
                 createPolicy(sender, salt, issuer, rulesHash)
      BY <1>1
    <2> DEFINE id == <<sender, salt>>
               new == [owner |-> sender, credentialIssuer |-> issuer,
                       rulesHash |-> rulesHash, active |-> TRUE]
    <2>2. id \in PolicyIds /\ ~policyExists(id)
          /\ policies' = [policies EXCEPT ![id] = new]
      BY <2>1 DEF createPolicy, computePolicyId, PolicyIds
    <2>3. new \in Policies
      BY <2>1 DEF Policies
    <2>4. PolicyTypeOK'
      BY <2>2, <2>3 DEF RegistryTypeOK, PolicyTypeOK
    <2>5. ASSUME NEW i \in PolicyIds
          PROVE  /\ policyExists(i) => i # id /\ policies'[i] = policies[i]
                 /\ isPolicyActive(i)' => policyExists(i)'
      BY <2>2 DEF RegistryTypeOK, PolicyTypeOK, ActivePolicyExists,
                  policyExists, isPolicyActive
    <2>6. ASSUME NEW i \in PolicyIds, policyExists(i)
          PROVE  policies'[i] =
                   [policies[i] EXCEPT !.active = policies'[i].active]
      BY <2>5, <2>6 DEF RegistryTypeOK, PolicyTypeOK, Policies
    <2> QED
      BY <2>4, <2>5, <2>6 DEF ActivePolicyExists
  <1>2. CASE \E sender \in Accounts, id \in PolicyIds, active \in BOOLEAN :
               setPolicyActive(sender, id, active)
    <2>1. PICK sender \in Accounts, id \in PolicyIds, active \in BOOLEAN :
               setPolicyActive(sender, id, active)
      BY <1>2
    <2>2. /\ policyExists(id)
          /\ policies' = [policies EXCEPT ![id] =
                            [policies[id] EXCEPT !.active = active]]
      BY <2>1 DEF setPolicyActive
    <2>3. [policies[id] EXCEPT !.active = active] \in Policies
      BY <2>1 DEF RegistryTypeOK, PolicyTypeOK, Policies
    <2>4. PolicyTypeOK'
      BY <2>2, <2>3 DEF RegistryTypeOK, PolicyTypeOK
    <2>5. ASSUME NEW i \in PolicyIds
          PROVE  /\ policies'[i].owner = policies[i].owner
                 /\ i # id => policies'[i] = policies[i]
                 /\ policies'[id].active = active
      BY <2>2 DEF RegistryTypeOK, PolicyTypeOK, Policies
    <2>6. ActivePolicyExists'
      BY <2>2, <2>5
      DEF ActivePolicyExists, policyExists, isPolicyActive
    <2>7. ASSUME NEW i \in PolicyIds, policyExists(i)
          PROVE  policies'[i] =
                   [policies[i] EXCEPT !.active = policies'[i].active]
      BY <2>2, <2>5 DEF RegistryTypeOK, PolicyTypeOK, Policies
    <2> QED
      BY <2>4, <2>6, <2>7
  <1> QED
    BY <1>1, <1>2 DEF PolicyCall

(* A grant keeps what it does not touch covered, and covers what it        *)
(* consumed: nonces of passes never fall.                                  *)
LEMMA NoncesGrow ==
  ASSUME RegistryTypeOK, NEW m, DecisionFields(m), grant(m),
         NEW k, DecisionFields(k),
         k.nonce <= accessPasses[k.account][k.policyId].nonce
  PROVE  k.nonce <= accessPasses'[k.account][k.policyId].nonce
  <1>1. CASE GrantedTo(m, k.account, k.policyId)
    <2>1. k.account = m.account /\ k.policyId = m.policyId
      BY <1>1 DEF GrantedTo
    <2>2. accessPasses'[m.account][m.policyId].nonce = m.nonce
      <3>1. accessPasses'[m.account][m.policyId] = passOf(m)
        BY GrantWrites
      <3> QED
        BY <3>1 DEF passOf
    <2>3. m.nonce > accessPasses[m.account][m.policyId].nonce
      BY GrantWrites
    <2>4. accessPasses[m.account][m.policyId].nonce \in Nat
      BY DEF RegistryTypeOK, DecisionFields, Passes
    <2> QED
      BY <2>1, <2>2, <2>3, <2>4 DEF DecisionFields
  <1>2. CASE ~GrantedTo(m, k.account, k.policyId)
    BY <1>2, GrantWrites DEF DecisionFields
  <1> QED
    BY <1>1, <1>2

(* A used digest, whoever signed it, tells the nonce it covers.            *)
LEMMA DigestTellsTerms ==
  ASSUME NEW m, NEW k, decisionDigest(m) = decisionDigest(k)
  PROVE  /\ m.account = k.account /\ m.policyId = k.policyId
         /\ passOf(m) = passOf(k) /\ m.nonce = k.nonce
         /\ m.eligible = k.eligible
  BY DEF decisionDigest, passOf

(***************************************************************************)
(* One lemma per action: each keeps the inductive invariant.               *)
(***************************************************************************)
LEMMA PolicyCallKeeps == IInv /\ PolicyCall => IInv'
  <1> SUFFICES ASSUME IInv, PolicyCall
               PROVE  IInv'
    OBVIOUS
  <1>1. /\ PolicyTypeOK' /\ ActivePolicyExists'
        /\ \A id \in PolicyIds : policyExists(id) =>
             policies'[id] =
               [policies[id] EXCEPT !.active = policies'[id].active]
    BY PolicyStep DEF IInv
  <1>2. UNCHANGED <<registeredTeeSigners, usedDecisions, usedFccActions,
                    accessPasses, now>>
    BY DEF PolicyCall
  <1>3. RegistryTypeOK'
    BY <1>1, <1>2 DEF IInv, RegistryTypeOK
  <1>4. \A id \in PolicyIds : policyExists(id) =>
          /\ policyExists(id)'
          /\ policies'[id].rulesHash = policies[id].rulesHash
          /\ policies'[id].credentialIssuer = policies[id].credentialIssuer
    <2> TAKE id \in PolicyIds
    <2> HAVE policyExists(id)
    <2>1. policies[id] \in Policies
      BY DEF IInv, RegistryTypeOK, PolicyTypeOK
    <2> QED
      BY <1>1, <2>1 DEF policyExists, Policies
  <1>5. PassesBacked'
    <2> SUFFICES ASSUME NEW a \in Accounts, NEW p \in PolicyIds,
                        getAccess(a, p)'.nonce > 0
                 PROVE  /\ policyExists(p)'
                        /\ BackedByDecision(a, p)' \/ BackedByResult(a, p)'
      BY DEF PassesBacked
    <2>1. /\ policyExists(p)
          /\ BackedByDecision(a, p) \/ BackedByResult(a, p)
      BY <1>2 DEF IInv, PassesBacked, getAccess
    <2>2. ASSUME NEW r \in SignedFccResults, GrantedTo(r, a, p),
                 CommittedResult(r)
          PROVE  CommittedResult(r)'
      BY <2>1, <2>2, <1>4 DEF CommittedResult, GrantedTo
    <2>3. BackedByDecision(a, p) => BackedByDecision(a, p)'
      BY <1>2 DEF BackedByDecision, getAccess, GrantedTo, SignedForHere,
                  passOf, decisionDigest
    <2>4. BackedByResult(a, p) => BackedByResult(a, p)'
      BY <1>2, <2>2 DEF BackedByResult, getAccess, GrantedTo, passOf
    <2> QED
      BY <2>1, <2>3, <2>4, <1>4
  <1>6. ConsumedIsCovered'
    BY <1>2 DEF IInv, ConsumedIsCovered, getAccess, decisionDigest
  <1> QED
    BY <1>1, <1>3, <1>5, <1>6 DEF IInv

(* The invariant speaks of policies, passes and consumed evidence only.    *)
LEMMA UntouchedKeeps ==
  ASSUME IInv,
         UNCHANGED <<policies, usedDecisions, usedFccActions, accessPasses>>
  PROVE  ActivePolicyExists' /\ PassesBacked' /\ ConsumedIsCovered'
  <1>1. ActivePolicyExists'
    BY DEF IInv, ActivePolicyExists, isPolicyActive, policyExists
  <1>2. ConsumedIsCovered'
    BY DEF IInv, ConsumedIsCovered, getAccess, decisionDigest
  <1>3. ASSUME NEW a \in Accounts, NEW p \in PolicyIds
        PROVE  /\ BackedByDecision(a, p) => BackedByDecision(a, p)'
               /\ BackedByResult(a, p) => BackedByResult(a, p)'
    BY DEF BackedByDecision, BackedByResult, GrantedTo, SignedForHere,
           CommittedResult, getAccess, passOf, decisionDigest
  <1>4. PassesBacked'
    BY <1>3 DEF IInv, PassesBacked, getAccess, policyExists
  <1> QED
    BY <1>1, <1>2, <1>4

(* Registering or removing a signer never takes a pass's backing away.     *)
LEMMA SetTeeSignerKeeps ==
  ASSUME IInv, NEW sender \in Accounts,
         NEW signer \in Signers \cup {ZeroAddress},
         NEW registered \in BOOLEAN, setTeeSigner(sender, signer, registered)
  PROVE  IInv'
  <1>1. UNCHANGED <<policies, usedDecisions, usedFccActions, accessPasses,
                    now>>
    BY DEF setTeeSigner
  <1>2. registeredTeeSigners' \subseteq Signers
    BY DEF setTeeSigner, IInv, RegistryTypeOK
  <1>3. RegistryTypeOK'
    BY <1>1, <1>2 DEF IInv, RegistryTypeOK, PolicyTypeOK
  <1> QED
    BY <1>1, <1>3, UntouchedKeeps DEF IInv

(* Time goes on.                                                           *)
LEMMA TickKeeps ==
  ASSUME IInv, tick
  PROVE  IInv'
  <1>1. RegistryTypeOK'
    BY SignerAssumption DEF IInv, tick, RegistryTypeOK, PolicyTypeOK
  <1> QED
    BY <1>1, UntouchedKeeps DEF IInv, tick

(* The direct path: a decision that a signer has signed.                   *)
LEMMA SubmitDecisionKeeps ==
  ASSUME IInv, NEW m \in SignedDecisions, submitDecision(m)
  PROVE  IInv'
  <1>1. RegistryTypeOK /\ DecisionFields(m) /\ grant(m)
    BY SignedAssumption DEF IInv, submitDecision
  <1>2. /\ UNCHANGED <<policies, registeredTeeSigners, usedFccActions, now>>
        /\ usedDecisions' = usedDecisions \cup {decisionDigest(m)}
    BY DEF submitDecision
  <1>3. /\ accessPasses' \in [Accounts -> [PolicyIds -> Passes]]
        /\ accessPasses'[m.account][m.policyId] = passOf(m)
        /\ \A a \in Accounts, p \in PolicyIds :
             ~GrantedTo(m, a, p) => accessPasses'[a][p] = accessPasses[a][p]
    BY <1>1, GrantWrites
  <1>4. RegistryTypeOK'
    BY <1>1, <1>2, <1>3 DEF RegistryTypeOK, PolicyTypeOK
  <1>5. SignedForHere(m) /\ policyExists(m.policyId)
    BY <1>1, RecoveredHere
    DEF submitDecision, SignedForHere, IInv, ActivePolicyExists,
        DecisionFields
  <1>6. PassesBacked'
    <2> SUFFICES ASSUME NEW a \in Accounts, NEW p \in PolicyIds,
                        getAccess(a, p)'.nonce > 0
                 PROVE  /\ policyExists(p)'
                        /\ BackedByDecision(a, p)' \/ BackedByResult(a, p)'
      BY DEF PassesBacked
    <2>1. CASE GrantedTo(m, a, p)
      <3>1. policyExists(p)'
        BY <2>1, <1>2, <1>5 DEF GrantedTo, policyExists
      <3>2. BackedByDecision(a, p)'
        BY <2>1, <1>2, <1>3, <1>5
        DEF BackedByDecision, GrantedTo, getAccess, SignedForHere,
            decisionDigest, passOf
      <3> QED
        BY <3>1, <3>2
    <2>2. CASE ~GrantedTo(m, a, p)
      <3>1. getAccess(a, p)' = getAccess(a, p)
        BY <2>2, <1>3 DEF getAccess
      <3>2. /\ policyExists(p)
            /\ BackedByDecision(a, p) \/ BackedByResult(a, p)
        BY <3>1 DEF IInv, PassesBacked
      <3>3. BackedByDecision(a, p) => BackedByDecision(a, p)'
        BY <1>2, <3>1
        DEF BackedByDecision, GrantedTo, SignedForHere, passOf, decisionDigest
      <3>4. BackedByResult(a, p) => BackedByResult(a, p)'
        BY <1>2, <3>1 DEF BackedByResult, GrantedTo, CommittedResult, passOf
      <3> QED
        BY <1>2, <3>2, <3>3, <3>4 DEF policyExists
    <2> QED
      BY <2>1, <2>2
  <1>7. ConsumedIsCovered'
    <2>1. ASSUME NEW k \in SignedDecisions,
                 decisionDigest(k) \in usedDecisions'
          PROVE  k.nonce <= accessPasses'[k.account][k.policyId].nonce
      <3>1. CASE decisionDigest(k) = decisionDigest(m)
        <4>1. /\ k.account = m.account /\ k.policyId = m.policyId
              /\ k.nonce = m.nonce
          BY ONLY <3>1, DigestTellsTerms
        <4>2. accessPasses'[m.account][m.policyId].nonce = m.nonce
          BY <1>3 DEF passOf
        <4> QED
          BY <4>1, <4>2, <1>1 DEF DecisionFields
      <3>2. CASE decisionDigest(k) \in usedDecisions
        <4>1. DecisionFields(k)
          BY SignedAssumption
        <4>2. k.nonce <= accessPasses[k.account][k.policyId].nonce
          BY <3>2 DEF IInv, ConsumedIsCovered, getAccess
        <4> QED
          BY <4>1, <4>2, <1>1, NoncesGrow
      <3> QED
        BY <3>1, <3>2, <2>1, <1>2
    <2>2. ASSUME NEW id \in usedFccActions
          PROVE  \E r \in SignedFccResults :
                   /\ r.actionId = id
                   /\ r.nonce <= accessPasses'[r.account][r.policyId].nonce
      <3>1. PICK r \in SignedFccResults :
              /\ r.actionId = id
              /\ r.nonce <= accessPasses[r.account][r.policyId].nonce
        BY DEF IInv, ConsumedIsCovered, getAccess
      <3>2. DecisionFields(r)
        BY SignedAssumption
      <3> QED
        BY <3>1, <3>2, <1>1, NoncesGrow
    <2> QED
      BY <2>1, <2>2, <1>2 DEF ConsumedIsCovered, getAccess, decisionDigest
  <1> QED
    BY <1>2, <1>4, <1>6, <1>7
    DEF IInv, ActivePolicyExists, isPolicyActive, policyExists

(* The path of a TEE's result, with its own used flags.                    *)
LEMMA SubmitFccDecisionKeeps ==
  ASSUME IInv, NEW r \in SignedFccResults, submitFccDecision(r)
  PROVE  IInv'
  <1>1. RegistryTypeOK /\ DecisionFields(r) /\ grant(r)
    BY SignedAssumption DEF IInv, submitFccDecision
  <1>2. /\ UNCHANGED <<policies, registeredTeeSigners, usedDecisions, now>>
        /\ usedFccActions' = usedFccActions \cup {r.actionId}
    BY DEF submitFccDecision
  <1>3. /\ accessPasses' \in [Accounts -> [PolicyIds -> Passes]]
        /\ accessPasses'[r.account][r.policyId] = passOf(r)
        /\ \A a \in Accounts, p \in PolicyIds :
             ~GrantedTo(r, a, p) => accessPasses'[a][p] = accessPasses[a][p]
    BY <1>1, GrantWrites
  <1>4. RegistryTypeOK'
    BY <1>1, <1>2, <1>3 DEF RegistryTypeOK, PolicyTypeOK
  <1>5. CommittedResult(r) /\ policyExists(r.policyId)
    BY <1>1, RecoveredHere
    DEF submitFccDecision, matchesPolicy, CommittedResult
  <1>6. PassesBacked'
    <2> SUFFICES ASSUME NEW a \in Accounts, NEW p \in PolicyIds,
                        getAccess(a, p)'.nonce > 0
                 PROVE  /\ policyExists(p)'
                        /\ BackedByDecision(a, p)' \/ BackedByResult(a, p)'
      BY DEF PassesBacked
    <2>1. CASE GrantedTo(r, a, p)
      <3>1. policyExists(p)'
        BY <2>1, <1>2, <1>5 DEF GrantedTo, policyExists
      <3>2. BackedByResult(a, p)'
        BY <2>1, <1>2, <1>3, <1>5
        DEF BackedByResult, GrantedTo, getAccess, CommittedResult, passOf
      <3> QED
        BY <3>1, <3>2
    <2>2. CASE ~GrantedTo(r, a, p)
      <3>1. getAccess(a, p)' = getAccess(a, p)
        BY <2>2, <1>3 DEF getAccess
      <3>2. /\ policyExists(p)
            /\ BackedByDecision(a, p) \/ BackedByResult(a, p)
        BY <3>1 DEF IInv, PassesBacked
      <3>3. BackedByDecision(a, p) => BackedByDecision(a, p)'
        BY <1>2, <3>1
        DEF BackedByDecision, GrantedTo, SignedForHere, passOf, decisionDigest
      <3>4. BackedByResult(a, p) => BackedByResult(a, p)'
        BY <1>2, <3>1 DEF BackedByResult, GrantedTo, CommittedResult, passOf
      <3> QED
        BY <1>2, <3>2, <3>3, <3>4 DEF policyExists
    <2> QED
      BY <2>1, <2>2
  <1>7. ConsumedIsCovered'
    <2>1. ASSUME NEW k \in SignedDecisions,
                 decisionDigest(k) \in usedDecisions
          PROVE  k.nonce <= accessPasses'[k.account][k.policyId].nonce
      <3>1. DecisionFields(k)
        BY SignedAssumption
      <3>2. k.nonce <= accessPasses[k.account][k.policyId].nonce
        BY <2>1 DEF IInv, ConsumedIsCovered, getAccess
      <3> QED
        BY <3>1, <3>2, <1>1, NoncesGrow
    <2>2. ASSUME NEW id \in usedFccActions'
          PROVE  \E k \in SignedFccResults :
                   /\ k.actionId = id
                   /\ k.nonce <= accessPasses'[k.account][k.policyId].nonce
      <3>1. CASE id = r.actionId
        <4>1. accessPasses'[r.account][r.policyId].nonce = r.nonce
          BY <1>3 DEF passOf
        <4>2. r.nonce <= r.nonce
          BY <1>1 DEF DecisionFields
        <4> QED
          BY <3>1, <4>1, <4>2
      <3>2. CASE id \in usedFccActions
        <4>1. PICK k \in SignedFccResults :
                /\ k.actionId = id
                /\ k.nonce <= accessPasses[k.account][k.policyId].nonce
          BY <3>2 DEF IInv, ConsumedIsCovered, getAccess
        <4>2. DecisionFields(k)
          BY SignedAssumption
        <4> QED
          BY <4>1, <4>2, <1>1, NoncesGrow
      <3> QED
        BY <3>1, <3>2, <2>2, <1>2
    <2> QED
      BY <2>1, <2>2, <1>2 DEF ConsumedIsCovered, getAccess, decisionDigest
  <1> QED
    BY <1>2, <1>4, <1>6, <1>7
    DEF IInv, ActivePolicyExists, isPolicyActive, policyExists

(* The new registries.                                                     *)
LEMMA InitEstablishes == RegistryInit => IInv
  <1> SUFFICES ASSUME RegistryInit
               PROVE  IInv
    OBVIOUS
  <1>1. RegistryTypeOK
    BY AddressAssumption
    DEF RegistryInit, RegistryTypeOK, PolicyInit, PolicyTypeOK, NoPolicy,
        Policies, NoPass, Passes
  <1>2. ActivePolicyExists
    BY DEF RegistryInit, PolicyInit, NoPolicy, ActivePolicyExists,
           isPolicyActive, policyExists
  <1>3. PassesBacked
    BY DEF RegistryInit, NoPass, PassesBacked, getAccess
  <1>4. ConsumedIsCovered
    BY DEF RegistryInit, ConsumedIsCovered
  <1> QED
    BY <1>1, <1>2, <1>3, <1>4 DEF IInv

(* Every call keeps the invariant.                                         *)
LEMMA StepKeeps == IInv /\ [RegistryNext]_registryVars => IInv'
  <1> SUFFICES ASSUME IInv, [RegistryNext]_registryVars
               PROVE  IInv'
    OBVIOUS
  <1>1. CASE PolicyCall
    BY <1>1, PolicyCallKeeps
  <1>2. CASE \E sender \in Accounts, signer \in Signers \cup {ZeroAddress},
                registered \in BOOLEAN :
                  setTeeSigner(sender, signer, registered)
    BY <1>2, SetTeeSignerKeeps
  <1>3. CASE \E m \in SignedDecisions : submitDecision(m)
    BY <1>3, SubmitDecisionKeeps
  <1>4. CASE \E r \in SignedFccResults : submitFccDecision(r)
    BY <1>4, SubmitFccDecisionKeeps
  <1>5. CASE tick
    BY <1>5, TickKeeps
  <1>6. CASE UNCHANGED registryVars
    <2>1. RegistryTypeOK'
      BY <1>6 DEF IInv, registryVars, RegistryTypeOK, PolicyTypeOK
    <2> QED
      BY <1>6, <2>1, UntouchedKeeps DEF IInv, registryVars
  <1> QED
    BY <1>1, <1>2, <1>3, <1>4, <1>5, <1>6 DEF RegistryNext

(***************************************************************************)
(* The theorems.                                                           *)
(***************************************************************************)

(* IInv holds of every behaviour: everything below follows from it.        *)
THEOREM Invariance == RegistrySpec => []IInv
  BY InitEstablishes, StepKeeps, PTL DEF RegistrySpec

(* The registries' state keeps its types; no signer outside Signers, the   *)
(* zero address least of all, is ever registered.                          *)
THEOREM TypeCorrect == RegistrySpec => []RegistryTypeOK
  <1>1. IInv => RegistryTypeOK
    BY DEF IInv
  <1> QED
    BY <1>1, Invariance, PTL

(* Every pass is backed by consumed evidence that still matches the        *)
(* commitment of its policy.                                               *)
THEOREM EveryPassIsBacked == RegistrySpec => []PassesBacked
  <1>1. IInv => PassesBacked
    BY DEF IInv
  <1> QED
    BY <1>1, Invariance, PTL

(* What was consumed on either path is below the nonce guard of both.      *)
THEOREM ConsumedStaysCovered == RegistrySpec => []ConsumedIsCovered
  <1>1. IInv => ConsumedIsCovered
    BY DEF IInv
  <1> QED
    BY <1>1, Invariance, PTL

(* One step of the registry that changes a pass consumes fresh evidence    *)
(* of a registered signer.                                                 *)
LEMMA GrantStep ==
  ASSUME IInv, RegistryNext, accessPasses' # accessPasses
  PROVE  \/ \E m \in SignedDecisions :
              /\ passOf(m) = accessPasses'[m.account][m.policyId]
              /\ SignedForHere(m)
              /\ m.signer \in registeredTeeSigners
              /\ decisionDigest(m) \in usedDecisions' \ usedDecisions
         \/ \E r \in SignedFccResults :
              /\ passOf(r) = accessPasses'[r.account][r.policyId]
              /\ CommittedResult(r)
              /\ r.signer \in registeredTeeSigners
              /\ r.actionId \in usedFccActions' \ usedFccActions
  <1>1. \/ \E m \in SignedDecisions : submitDecision(m)
        \/ \E r \in SignedFccResults : submitFccDecision(r)
    BY DEF RegistryNext, PolicyCall, setTeeSigner, tick
  <1>2. ASSUME NEW m \in SignedDecisions, submitDecision(m)
        PROVE  /\ passOf(m) = accessPasses'[m.account][m.policyId]
               /\ SignedForHere(m)
               /\ m.signer \in registeredTeeSigners
               /\ decisionDigest(m) \in usedDecisions' \ usedDecisions
    <2>1. RegistryTypeOK /\ DecisionFields(m) /\ grant(m)
      BY <1>2, SignedAssumption DEF IInv, submitDecision
    <2>2. accessPasses'[m.account][m.policyId] = passOf(m)
      BY <2>1, GrantWrites
    <2>3. _recover(m) \in registeredTeeSigners
      BY <1>2 DEF submitDecision
    <2>4. SignedForHere(m) /\ m.signer \in registeredTeeSigners
      BY <1>2, <2>1, <2>3, RecoveredHere DEF submitDecision, SignedForHere
    <2> QED
      BY <1>2, <2>2, <2>4 DEF submitDecision
  <1>3. ASSUME NEW r \in SignedFccResults, submitFccDecision(r)
        PROVE  /\ passOf(r) = accessPasses'[r.account][r.policyId]
               /\ CommittedResult(r)
               /\ r.signer \in registeredTeeSigners
               /\ r.actionId \in usedFccActions' \ usedFccActions
    <2>1. RegistryTypeOK /\ DecisionFields(r) /\ grant(r)
      BY <1>3, SignedAssumption DEF IInv, submitFccDecision
    <2>2. accessPasses'[r.account][r.policyId] = passOf(r)
      BY <2>1, GrantWrites
    <2>3. _recoverFccSigner(r) \in registeredTeeSigners
      BY <1>3 DEF submitFccDecision
    <2>4. r.chain = ThisChain /\ r.signer \in registeredTeeSigners
      BY <2>1, <2>3, RecoveredHere
    <2>5. CommittedResult(r)
      BY <1>3, <2>4 DEF submitFccDecision, matchesPolicy, CommittedResult
    <2> QED
      BY <1>3, <2>2, <2>4, <2>5 DEF submitFccDecision
  <1> QED
    BY <1>1, <1>2, <1>3

(* Each grant, on either path, consumes evidence never consumed before and *)
(* signed for this chain and registry by a signer registered at the time.  *)
THEOREM EveryGrantIsAuthorized == RegistrySpec => GrantsAuthorized
  <1>1. IInv /\ [RegistryNext]_registryVars =>
          [accessPasses' # accessPasses =>
            \/ \E m \in SignedDecisions :
                 /\ passOf(m) = accessPasses'[m.account][m.policyId]
                 /\ SignedForHere(m)
                 /\ m.signer \in registeredTeeSigners
                 /\ decisionDigest(m) \in usedDecisions' \ usedDecisions
            \/ \E r \in SignedFccResults :
                 /\ passOf(r) = accessPasses'[r.account][r.policyId]
                 /\ CommittedResult(r)
                 /\ r.signer \in registeredTeeSigners
                 /\ r.actionId \in usedFccActions' \ usedFccActions
          ]_registryVars
    BY GrantStep
  <1> QED
    BY <1>1, Invariance, PTL DEF RegistrySpec, GrantsAuthorized

(* A policy's owner, issuer and rules hash never change once it exists.    *)
THEOREM CommitmentsAreImmutable == RegistrySpec => CommitmentImmutable
  <1>1. IInv /\ [RegistryNext]_registryVars =>
          [\A id \in PolicyIds : policyExists(id) =>
             policies'[id] =
               [policies[id] EXCEPT !.active = policies'[id].active]
          ]_registryVars
    <2> SUFFICES ASSUME IInv, RegistryNext,
                        NEW id \in PolicyIds, policyExists(id)
                 PROVE  policies'[id] =
                          [policies[id] EXCEPT !.active = policies'[id].active]
      OBVIOUS
    <2>1. CASE PolicyCall
      BY <2>1, PolicyStep DEF IInv
    <2>2. CASE ~PolicyCall
      <3>1. policies' = policies
        BY <2>2 DEF RegistryNext, setTeeSigner, submitDecision,
                    submitFccDecision, tick
      <3> QED
        BY <3>1 DEF IInv, RegistryTypeOK, PolicyTypeOK, Policies
    <2> QED
      BY <2>1, <2>2
  <1> QED
    BY <1>1, Invariance, PTL DEF RegistrySpec, CommitmentImmutable

(***************************************************************************)
(* Refinement.                                                             *)
(***************************************************************************)

(* The active policies, as the ledger knows them.                          *)
ActiveIds == {p \in PolicyIds : isPolicyActive(p)}

(* A submission is a Grant of the abstract ledger.                         *)
LEMMA GrantImplements ==
  ASSUME RegistryTypeOK, NEW m \in SignedDecisions \cup SignedFccResults,
         isPolicyActive(m.policyId), m.expiresAt > now, grant(m),
         UNCHANGED <<policies, now>>
  PROVE  Ledger!LedgerNext
  <1>1. DecisionFields(m)
    BY SignedAssumption
  <1>2. /\ m.account \in Accounts /\ m.policyId \in PolicyIds
        /\ passOf(m) \in {passOf(k) : k \in SignedDecisions
                                              \cup SignedFccResults}
    BY <1>1 DEF DecisionFields
  <1>3. ActiveIds' = ActiveIds
    BY DEF ActiveIds, isPolicyActive
  <1>4. Ledger!Grant(m.account, m.policyId, passOf(m))
    BY <1>2, <1>3
    DEF Ledger!Grant, Ledger!getAccess, ActiveIds, grant, getAccess, passOf
  <1> QED
    BY <1>2, <1>4 DEF Ledger!LedgerNext, Ledger!LedgerCall

(* createPolicy activates the new policy; setPolicyActive sets the flag.   *)
LEMMA PolicyCallImplements ==
  ASSUME RegistryTypeOK, PolicyCall
  PROVE  Ledger!LedgerNext
  <1>1. UNCHANGED <<accessPasses, now>>
    BY DEF PolicyCall
  <1>2. PICK id \in PolicyIds, active \in BOOLEAN :
          /\ \A p \in PolicyIds : p # id => policies'[p] = policies[p]
          /\ policies'[id].active = active
    <2>1. CASE \E sender \in Accounts, salt \in Salts,
                  issuer \in Issuers \cup {ZeroAddress},
                  rulesHash \in RulesHashes :
                    createPolicy(sender, salt, issuer, rulesHash)
      <3>1. PICK sender \in Accounts, salt \in Salts,
                 issuer \in Issuers \cup {ZeroAddress},
                 rulesHash \in RulesHashes :
                   createPolicy(sender, salt, issuer, rulesHash)
        BY <2>1
      <3>2. <<sender, salt>> \in PolicyIds
        BY DEF PolicyIds
      <3>3. /\ \A p \in PolicyIds :
                 p # <<sender, salt>> => policies'[p] = policies[p]
            /\ policies'[<<sender, salt>>].active = TRUE
        BY <3>1, <3>2
        DEF createPolicy, computePolicyId, RegistryTypeOK, PolicyTypeOK
      <3> QED
        BY <3>2, <3>3
    <2>2. CASE \E sender \in Accounts, id \in PolicyIds, active \in BOOLEAN :
                 setPolicyActive(sender, id, active)
      BY <2>2 DEF setPolicyActive, RegistryTypeOK, PolicyTypeOK, Policies
    <2> QED
      BY <2>1, <2>2 DEF PolicyCall
  <1>3. ActiveIds' = IF active THEN ActiveIds \cup {id} ELSE ActiveIds \ {id}
    BY <1>2 DEF ActiveIds, isPolicyActive
  <1>4. Ledger!SetActive(id, active)
    BY <1>1, <1>3 DEF Ledger!SetActive, ActiveIds
  <1> QED
    BY <1>4 DEF Ledger!LedgerNext, Ledger!LedgerCall

(* Every step of the registries is a step of the ledger, or leaves it be.  *)
LEMMA StepImplements ==
  ASSUME RegistryTypeOK, [RegistryNext]_registryVars
  PROVE  [Ledger!LedgerNext]_Ledger!ledgerVars
  <1>1. CASE PolicyCall
    BY <1>1, PolicyCallImplements
  <1>2. CASE \E sender \in Accounts, signer \in Signers \cup {ZeroAddress},
                registered \in BOOLEAN :
                  setTeeSigner(sender, signer, registered)
    BY <1>2 DEF setTeeSigner, Ledger!ledgerVars, isPolicyActive
  <1>3. CASE \E m \in SignedDecisions : submitDecision(m)
    BY <1>3, GrantImplements DEF submitDecision
  <1>4. CASE \E r \in SignedFccResults : submitFccDecision(r)
    BY <1>4, GrantImplements DEF submitFccDecision, matchesPolicy
  <1>5. CASE tick
    <2>1. ActiveIds' = ActiveIds
      BY <1>5 DEF tick, ActiveIds, isPolicyActive
    <2> QED
      BY <1>5, <2>1
      DEF tick, Ledger!LedgerNext, Ledger!Tick, ActiveIds
  <1>6. CASE UNCHANGED registryVars
    BY <1>6 DEF registryVars, Ledger!ledgerVars, isPolicyActive
  <1> QED
    BY <1>1, <1>2, <1>3, <1>4, <1>5, <1>6 DEF RegistryNext

(* The two registries implement the abstract ledger of access passes.      *)
THEOREM RegistryImplementsLedger == RegistrySpec => ImplementsLedger
  <1>1. RegistryInit => Ledger!LedgerInit
    BY DEF RegistryInit, PolicyInit, NoPolicy, NoPass, isPolicyActive,
           Ledger!LedgerInit, Ledger!NoPass
  <1>2. RegistryTypeOK /\ [RegistryNext]_registryVars
          => [Ledger!LedgerNext]_Ledger!ledgerVars
    BY StepImplements
  <1> QED
    BY <1>1, <1>2, TypeCorrect, PTL
    DEF RegistrySpec, ImplementsLedger, Ledger!LedgerSpec

-----------------------------------------------------------------------------
(***************************************************************************)
(* The flow.                                                               *)
(***************************************************************************)

(* What an instruction may ask: the request of a session or of somebody    *)
(* else.                                                                   *)
SentRequests == SessionRequests \cup OtherRequests

(* An instruction with the TEE it is sent to and the key it is encrypted   *)
(* to.                                                                     *)
Instructions == [tee: Tees, key: Tees, request: SentRequests]

(* What a page holds of its call.                                          *)
Calls ==
  [phase: Phases, request: SessionRequests \cup {Junk},
   instruction: Nat, attempts: 0 .. MaxAttempts,
   action: SignedFccResults \cup {Junk}]

(* The types of the flow.                                                  *)
FlowTyped ==
  /\ instructions \in Seq(Instructions)
  /\ Len(instructions) <= MaxInstructions
  /\ client \in [Sessions -> Calls]
  /\ snapshot \in [Sessions -> [policy: Policies, nonce: Nat]]
  /\ refreshing \in [Sessions -> SUBSET Nat]

(* A result was made from the instruction it names.                        *)
Traced(r) ==
  \E id \in 1 .. Len(instructions), clock \in Clocks :
    /\ decides(instructions[id].request)
    /\ r = signedResult(id, instructions[id].tee,
                        instructions[id].request, clock)

(* Every result at the proxy was.                                          *)
ResultsTraced == \A r \in results : Traced(r)

(* The phases of a call whose instruction was sent, whose result was       *)
(* found, and whose relay was mined.                                       *)
Sent == {"polling", "relaying", "confirmed", "issued"}
Answered == {"relaying", "confirmed", "issued"}
Confirmed == {"confirmed", "issued"}

(* What a running call knows: its request names its own account, its       *)
(* instruction carries that request, its action answers that instruction,  *)
(* and once its relay is mined the registry has taken it.                  *)
CallTraced(s) ==
  LET call == client[s]
  IN  /\ call.phase # "idle" =>
           /\ call.request \in SessionRequests
           /\ call.request.account = AccountOf[s]
           /\ call.request.policyId = ThePolicy
      /\ call.phase \in Sent =>
           /\ call.instruction \in 1 .. Len(instructions)
           /\ instructions[call.instruction].request = call.request
      /\ call.phase \in Answered =>
           /\ call.action \in results
           /\ call.action.actionId = call.instruction
      /\ call.phase \in Confirmed =>
           /\ call.instruction \in usedFccActions
           /\ chainNonce(s) >= call.request.nonce
      /\ call.phase \notin Sent => call.instruction = 0

(* So do those of every session.                                           *)
CallsTraced == \A s \in Sessions : CallTraced(s)

(* The inductive invariant of the flow, over that of the registries.       *)
FlowInv ==
  /\ IInv
  /\ FlowTyped
  /\ ResultsTraced
  /\ CallsTraced
  /\ PassesEarned

(***************************************************************************)
(* Facts about single operators.                                           *)
(***************************************************************************)

(* A traced result is one of the signed results the registry may be shown. *)
LEMMA TracedIsSigned ==
  ASSUME FlowTyped, NEW r, Traced(r)
  PROVE  r \in SignedFccResults
  <1>1. PICK id \in 1 .. Len(instructions), clock \in Clocks :
          /\ decides(instructions[id].request)
          /\ r = signedResult(id, instructions[id].tee,
                              instructions[id].request, clock)
    BY DEF Traced
  <1>2. instructions[id] \in Instructions /\ id \in 1 .. MaxInstructions
    BY FlowAssumption DEF FlowTyped
  <1>3. /\ instructions[id].request \in SessionRequests \cup OtherRequests
        /\ instructions[id].tee \in Tees
    BY <1>2 DEF Instructions, SentRequests
  <1> QED
    BY <1>1, <1>2, <1>3, ResultsAssumption

(* An appended instruction leaves the earlier ones where they are.         *)
LEMMA SendAppends ==
  ASSUME FlowTyped, NEW request \in SentRequests, sendInstruction(request)
  PROVE  /\ instructions' \in Seq(Instructions)
         /\ Len(instructions') = Len(instructions) + 1
         /\ Len(instructions') <= MaxInstructions
         /\ \A id \in 1 .. Len(instructions) :
              instructions'[id] = instructions[id]
         /\ instructions'[Len(instructions) + 1].request = request
  <1>1. PICK key \in Tees, tee \in Tees :
          instructions' = Append(instructions,
                            [tee |-> tee, key |-> key, request |-> request])
    BY DEF sendInstruction
  <1> DEFINE ins == [tee |-> tee, key |-> key, request |-> request]
  <1>2. ins \in Instructions /\ ins.request = request
    BY DEF Instructions
  <1>3. Len(instructions) < MaxInstructions
    BY DEF sendInstruction
  <1> HIDE DEF ins
  <1>4. instructions' = Append(instructions, ins)
    BY <1>1 DEF ins
  <1> QED
    BY <1>2, <1>3, <1>4, FlowAssumption DEF FlowTyped

(***************************************************************************)
(* What every step of the flow does to the registries.                     *)
(***************************************************************************)

(* A relayed result is one the registry's own specification allows.        *)
LEMMA RelayIsSubmission ==
  ASSUME FlowTyped, ResultsTraced, NEW r \in results, submitFccDecision(r)
  PROVE  r \in SignedFccResults /\ RegistryNext
  <1>1. r \in SignedFccResults
    BY TracedIsSigned DEF ResultsTraced
  <1> QED
    BY <1>1 DEF RegistryNext

(* A session touches the registries with its relay only.                   *)
LEMMA SessionTouches ==
  ASSUME NEW s \in Sessions, SessionStep(s)
  PROVE  relay(s) \/ UNCHANGED registryVars
  BY DEF SessionStep, startRefresh, endRefresh, failRefresh, requestAccess,
         requestFails, instructionMined, sendInstruction, pollFinds,
         pollAgain, pollFails, relayReverts, finish, reload

(* Every step of the flow is a step of the registries, or leaves them be.  *)
LEMMA RegistryStep ==
  ASSUME FlowTyped, ResultsTraced, CallsTraced, [FlowNext]_flowVars
  PROVE  [RegistryNext]_registryVars
  <1>1. ASSUME NEW s \in Sessions, SessionStep(s)
        PROVE  [RegistryNext]_registryVars
    <2>1. CASE relay(s)
      <3>1. client[s].action \in results
        BY <2>1 DEF relay, CallsTraced, CallTraced, Answered
      <3> QED
        BY <2>1, <3>1, RelayIsSubmission DEF relay
    <2> QED
      BY <1>1, <2>1, SessionTouches
  <1>2. ASSUME NEW request \in OtherRequests, otherInstruction(request)
        PROVE  UNCHANGED registryVars
    BY <1>2 DEF otherInstruction, sendInstruction
  <1>3. ASSUME NEW id \in 1 .. Len(instructions), evaluate(id)
        PROVE  UNCHANGED registryVars
    BY <1>3 DEF evaluate
  <1>4. ASSUME NEW r \in results, otherRelay(r)
        PROVE  RegistryNext
    BY <1>4, RelayIsSubmission DEF otherRelay
  <1>5. ASSUME RegistryCall
        PROVE  RegistryNext
    BY <1>5 DEF RegistryCall, RegistryNext
  <1>6. CASE UNCHANGED flowVars
    BY <1>6 DEF flowVars
  <1> QED
    BY <1>1, <1>2, <1>3, <1>4, <1>5, <1>6 DEF FlowNext

(* The registry never forgets an action and never lowers a nonce.          *)
LEMMA RegistryGrows ==
  ASSUME IInv, [RegistryNext]_registryVars
  PROVE  /\ usedFccActions \subseteq usedFccActions'
         /\ \A a \in Accounts, p \in PolicyIds :
              /\ getAccess(a, p).nonce \in Nat
              /\ getAccess(a, p)'.nonce \in Nat
              /\ getAccess(a, p)'.nonce >= getAccess(a, p).nonce
  <1>1. IInv'
    BY StepKeeps
  <1>2. ASSUME NEW a \in Accounts, NEW p \in PolicyIds
        PROVE  getAccess(a, p) \in Passes /\ getAccess(a, p)' \in Passes
    BY <1>1 DEF IInv, RegistryTypeOK, getAccess
  <1>3. ASSUME NEW m \in SignedDecisions \cup SignedFccResults, grant(m),
               NEW a \in Accounts, NEW p \in PolicyIds
        PROVE  getAccess(a, p)'.nonce >= getAccess(a, p).nonce
    <2>1. RegistryTypeOK /\ DecisionFields(m)
      BY SignedAssumption DEF IInv
    <2>2. CASE GrantedTo(m, a, p)
      <3>1. /\ accessPasses'[m.account][m.policyId] = passOf(m)
            /\ m.nonce > accessPasses[m.account][m.policyId].nonce
        BY <1>3, <2>1, GrantWrites
      <3>2. passOf(m).nonce = m.nonce
        BY DEF passOf
      <3>3. /\ getAccess(a, p)'.nonce = m.nonce
            /\ m.nonce > getAccess(a, p).nonce
        BY <2>2, <3>1, <3>2 DEF GrantedTo, getAccess
      <3>4. getAccess(a, p).nonce \in Nat /\ m.nonce \in Nat
        BY <1>2, <2>1 DEF Passes, DecisionFields
      <3> QED
        BY <3>3, <3>4
    <2>3. CASE ~GrantedTo(m, a, p)
      <3>1. getAccess(a, p)' = getAccess(a, p)
        BY <1>3, <2>1, <2>3, GrantWrites DEF getAccess
      <3> QED
        BY <1>2, <3>1 DEF Passes
    <2> QED
      BY <2>2, <2>3
  <1>4. CASE accessPasses' = accessPasses
    <2>1. usedFccActions \subseteq usedFccActions'
      BY DEF RegistryNext, registryVars, PolicyCall, setTeeSigner,
             submitDecision, submitFccDecision, tick
    <2> QED
      BY <1>2, <1>4, <2>1 DEF getAccess, Passes
  <1>5. CASE accessPasses' # accessPasses
    <2>1. PICK m \in SignedDecisions \cup SignedFccResults :
            submitDecision(m) \/ submitFccDecision(m)
      BY <1>5 DEF RegistryNext, registryVars, PolicyCall, setTeeSigner, tick
    <2>2. grant(m) /\ usedFccActions \subseteq usedFccActions'
      BY <2>1 DEF submitDecision, submitFccDecision
    <2>3. \A a \in Accounts, p \in PolicyIds :
            getAccess(a, p)'.nonce >= getAccess(a, p).nonce
      BY <2>2, <1>3
    <2> QED
      BY <1>2, <2>2, <2>3 DEF Passes
  <1> QED
    BY <1>4, <1>5

(***************************************************************************)
(* What every step of the flow keeps: the instructions, the results and    *)
(* what the registry knows only ever grow.                                 *)
(***************************************************************************)
InstructionsGrow ==
  /\ Len(instructions') >= Len(instructions)
  /\ \A id \in 1 .. Len(instructions) : instructions'[id] = instructions[id]

(* Instructions keep their type and their bound; nothing is taken back.    *)
LEMMA FlowStepTyped ==
  ASSUME FlowTyped, CallsTraced, IInv, [FlowNext]_flowVars
  PROVE  /\ instructions' \in Seq(Instructions)
         /\ Len(instructions') <= MaxInstructions
         /\ InstructionsGrow
         /\ results \subseteq results'
  <1>1. ASSUME UNCHANGED instructions
        PROVE  /\ instructions' \in Seq(Instructions)
               /\ Len(instructions') <= MaxInstructions
               /\ InstructionsGrow
    BY <1>1 DEF FlowTyped, InstructionsGrow
  <1>2. ASSUME NEW request \in SentRequests, sendInstruction(request)
        PROVE  /\ instructions' \in Seq(Instructions)
               /\ Len(instructions') <= MaxInstructions
               /\ InstructionsGrow
               /\ results' = results
    <2>1. Len(instructions) \in Nat
      BY DEF FlowTyped
    <2>2. results' = results
      BY <1>2 DEF sendInstruction
    <2> QED
      BY <1>2, <2>1, <2>2, SendAppends DEF InstructionsGrow
  <1>3. ASSUME NEW s \in Sessions, SessionStep(s)
        PROVE  \/ UNCHANGED <<instructions, results>>
               \/ \E request \in SentRequests :
                    sendInstruction(request) /\ instructionMined(s)
    <2>1. CASE instructionMined(s)
      <3>1. /\ client[s].request \in SentRequests
            /\ sendInstruction(client[s].request)
        BY <2>1 DEF instructionMined, CallsTraced, CallTraced, SentRequests
      <3> QED
        BY <2>1, <3>1
    <2>2. CASE ~instructionMined(s)
      BY <1>3, <2>2
      DEF SessionStep, startRefresh, endRefresh, failRefresh, requestAccess,
          requestFails, pollFinds, pollAgain, pollFails, relay, relayReverts,
          finish, reload
    <2> QED
      BY <2>1, <2>2
  <1>4. ASSUME NEW request \in OtherRequests, otherInstruction(request)
        PROVE  request \in SentRequests /\ sendInstruction(request)
    BY <1>4 DEF otherInstruction, SentRequests
  <1>5. ASSUME NEW id \in 1 .. Len(instructions), evaluate(id)
        PROVE  UNCHANGED instructions /\ results \subseteq results'
    BY <1>5 DEF evaluate
  <1>6. ASSUME NEW r \in results, otherRelay(r)
        PROVE  UNCHANGED <<instructions, results>>
    BY <1>6 DEF otherRelay
  <1>7. ASSUME RegistryCall
        PROVE  UNCHANGED <<instructions, results>>
    BY <1>7 DEF RegistryCall
  <1>8. CASE UNCHANGED flowVars
    BY <1>1, <1>8 DEF flowVars
  <1> QED
    BY <1>1, <1>2, <1>3, <1>4, <1>5, <1>6, <1>7, <1>8 DEF FlowNext

(* A result stays traced, and the new one of an evaluation is.             *)
LEMMA FlowStepTraces ==
  ASSUME FlowTyped, ResultsTraced, InstructionsGrow, [FlowNext]_flowVars
  PROVE  ResultsTraced'
  <1>1. ASSUME NEW r, Traced(r)
        PROVE  Traced(r)'
    <2>1. PICK id \in 1 .. Len(instructions), clock \in Clocks :
            /\ decides(instructions[id].request)
            /\ r = signedResult(id, instructions[id].tee,
                                instructions[id].request, clock)
      BY <1>1 DEF Traced
    <2>2. /\ id \in 1 .. Len(instructions')
          /\ instructions'[id] = instructions[id]
      BY DEF InstructionsGrow, FlowTyped
    <2> QED
      BY <2>1, <2>2 DEF Traced
  <1>2. ASSUME NEW id \in 1 .. Len(instructions), evaluate(id)
        PROVE  \A r \in results' : Traced(r)'
    <2>1. PICK clock \in Clocks :
            /\ decides(instructions[id].request)
            /\ instructions' = instructions
            /\ results' = results \cup
                 {signedResult(id, instructions[id].tee,
                               instructions[id].request, clock)}
      BY <1>2 DEF evaluate
    <2> QED
      BY <1>1, <2>1 DEF ResultsTraced, Traced
  <1>3. CASE \E id \in 1 .. Len(instructions) : evaluate(id)
    BY <1>2, <1>3 DEF ResultsTraced
  <1>4. CASE ~\E id \in 1 .. Len(instructions) : evaluate(id)
    <2>1. results' = results
      <3>1. ASSUME NEW s \in Sessions, SessionStep(s)
            PROVE  results' = results
        BY <3>1
        DEF SessionStep, startRefresh, endRefresh, failRefresh,
            requestAccess, requestFails, instructionMined, sendInstruction,
            pollFinds, pollAgain, pollFails, relay, relayReverts, finish,
            reload
      <3> QED
        BY <1>4, <3>1
        DEF FlowNext, otherInstruction, sendInstruction, otherRelay,
            RegistryCall, flowVars
    <2> QED
      BY <1>1, <2>1 DEF ResultsTraced
  <1> QED
    BY <1>3, <1>4

(* A call that did not move stays traced.                                  *)
LEMMA CallStays ==
  ASSUME FlowTyped, NEW s \in Sessions, CallTraced(s),
         client'[s] = client[s], InstructionsGrow, results \subseteq results',
         usedFccActions \subseteq usedFccActions',
         \A a \in Accounts, p \in PolicyIds :
           /\ getAccess(a, p).nonce \in Nat
           /\ getAccess(a, p)'.nonce \in Nat
           /\ getAccess(a, p)'.nonce >= getAccess(a, p).nonce
  PROVE  CallTraced(s)'
  <1> DEFINE call == client[s]
  <1>1. /\ call.phase # "idle" =>
             /\ call.request \in SessionRequests
             /\ call.request.account = AccountOf[s]
             /\ call.request.policyId = ThePolicy
        /\ call.phase \notin Sent => call.instruction = 0
    BY DEF CallTraced
  <1>2. call.phase \in Sent =>
          /\ call.instruction \in 1 .. Len(instructions')
          /\ instructions'[call.instruction].request = call.request
    BY DEF CallTraced, InstructionsGrow, FlowTyped
  <1>3. call.phase \in Answered =>
          call.action \in results' /\ call.action.actionId = call.instruction
    BY DEF CallTraced
  <1>4. call.phase \in Confirmed =>
          /\ call.instruction \in usedFccActions'
          /\ chainNonce(s)' >= call.request.nonce
    <2> SUFFICES ASSUME call.phase \in Confirmed
                 PROVE  /\ call.instruction \in usedFccActions'
                        /\ chainNonce(s)' >= call.request.nonce
      OBVIOUS
    <2>1. /\ call.instruction \in usedFccActions
          /\ chainNonce(s) >= call.request.nonce
          /\ call.request \in SessionRequests
      BY DEF CallTraced, Confirmed
    <2>2. call.request.nonce \in Nat
      BY <2>1, FlowAssumption DEF SessionRequests
    <2>3. AccountOf[s] \in Accounts /\ ThePolicy \in PolicyIds
      BY FlowAssumption
    <2> QED
      BY <2>1, <2>2, <2>3 DEF chainNonce
  <1> QED
    BY <1>1, <1>2, <1>3, <1>4 DEF CallTraced

(***************************************************************************)
(* The steps of a session.                                                 *)
(***************************************************************************)
ClientTyped ==
  /\ client \in [Sessions -> Calls]
  /\ snapshot \in [Sessions -> [policy: Policies, nonce: Nat]]
  /\ refreshing \in [Sessions -> SUBSET Nat]

(* What the page can read from the chain.                                  *)
LEMMA ChainReads ==
  ASSUME IInv, NEW s \in Sessions
  PROVE  /\ AccountOf[s] \in Accounts /\ ThePolicy \in PolicyIds
         /\ chainNonce(s) \in Nat
         /\ policies[ThePolicy] \in Policies
  <1>1. AccountOf[s] \in Accounts /\ ThePolicy \in PolicyIds
    BY FlowAssumption
  <1> QED
    BY <1>1 DEF IInv, RegistryTypeOK, PolicyTypeOK, chainNonce, getAccess,
                Passes

(* The request the button builds is one of the session's requests.         *)
LEMMA BuiltRequest ==
  ASSUME IInv, FlowTyped, NEW s \in Sessions, NEW package \in Packages,
         nextNonce(s) <= MaxNonce
  PROVE  /\ buildAccessRequest(s, package) \in SessionRequests
         /\ buildAccessRequest(s, package).account = AccountOf[s]
         /\ buildAccessRequest(s, package).policyId = ThePolicy
  <1>1. /\ snapshot[s].policy.rulesHash \in RulesHashes \cup {NoRules}
        /\ snapshot[s].policy.credentialIssuer
             \in Issuers \cup {ZeroAddress}
        /\ snapshot[s].nonce \in Nat
    BY DEF FlowTyped, Policies
  <1>2. nextNonce(s) \in 1 .. MaxNonce
    BY <1>1, FlowAssumption DEF nextNonce
  <1> QED
    BY <1>1, <1>2, ChainReads DEF buildAccessRequest, SessionRequests

(* The record of no call is one of the calls.                              *)
LEMMA QuietCall == noCall \in Calls
  BY FlowAssumption DEF noCall, Calls, Phases

(* The fields of a call after one of them was changed.                     *)
LEMMA PhaseChanged ==
  ASSUME NEW c \in Calls, NEW phase \in Phases
  PROVE  LET d == [c EXCEPT !.phase = phase]
         IN  /\ d \in Calls /\ d.phase = phase /\ d.action = c.action
             /\ d.request = c.request /\ d.instruction = c.instruction
  BY DEF Calls

(* Setting the request of a call.                                          *)
LEMMA RequestChanged ==
  ASSUME NEW c \in Calls, NEW request \in SessionRequests
  PROVE  LET d == [c EXCEPT !.request = request]
         IN  /\ d \in Calls /\ d.phase = c.phase
             /\ d.request = request /\ d.instruction = c.instruction
  BY DEF Calls

(* Setting its instruction.                                                *)
LEMMA InstructionChanged ==
  ASSUME NEW c \in Calls, NEW n \in Nat
  PROVE  LET d == [c EXCEPT !.instruction = n]
         IN  /\ d \in Calls /\ d.phase = c.phase
             /\ d.request = c.request /\ d.instruction = n
  BY DEF Calls

(* Setting its action.                                                     *)
LEMMA ActionChanged ==
  ASSUME NEW c \in Calls, NEW r \in SignedFccResults
  PROVE  LET d == [c EXCEPT !.action = r]
         IN  /\ d \in Calls /\ d.phase = c.phase /\ d.action = r
             /\ d.request = c.request /\ d.instruction = c.instruction
  BY DEF Calls

(* Setting its attempts.                                                   *)
LEMMA AttemptsChanged ==
  ASSUME NEW c \in Calls, NEW n \in 0 .. MaxAttempts
  PROVE  LET d == [c EXCEPT !.attempts = n]
         IN  /\ d \in Calls /\ d.phase = c.phase /\ d.action = c.action
             /\ d.request = c.request /\ d.instruction = c.instruction
  BY DEF Calls

(* A session that starts, ends or drops a refresh, or forgets its call.    *)
LEMMA RefreshKeeps ==
  ASSUME IInv, FlowTyped, NEW s \in Sessions,
         startRefresh(s) \/ endRefresh(s) \/ failRefresh(s)
  PROVE  ClientTyped' /\ client' = client
  <1>1. CASE startRefresh(s)
    BY <1>1, ChainReads DEF startRefresh, FlowTyped, ClientTyped
  <1>2. CASE endRefresh(s)
    <2>1. PICK nonce \in refreshing[s] :
            /\ snapshot' = [snapshot EXCEPT ![s] =
                              [policy |-> policies[ThePolicy], nonce |-> nonce]]
            /\ refreshing' = [refreshing EXCEPT ![s] = @ \ {nonce}]
            /\ client' = client
      BY <1>2 DEF endRefresh
    <2> QED
      BY <2>1, ChainReads DEF FlowTyped, ClientTyped
  <1>3. CASE failRefresh(s)
    BY <1>3 DEF failRefresh, FlowTyped, ClientTyped
  <1> QED
    BY <1>1, <1>2, <1>3

(* A call that changes only its own record.                                *)
LEMMA SetCallKeeps ==
  ASSUME FlowTyped, NEW s \in Sessions, NEW call \in Calls, setCall(s, call)
  PROVE  /\ ClientTyped'
         /\ client'[s] = call
         /\ \A t \in Sessions : t # s => client'[t] = client[t]
  BY DEF setCall, FlowTyped, ClientTyped

(* What a session's step makes of its own call, and of the others.         *)
SessionKept(s) ==
  /\ ClientTyped'
  /\ CallTraced(s)' \/ client'[s] = client[s]
  /\ \A t \in Sessions : t # s => client'[t] = client[t]

(* A forgotten call has nothing to trace.                                  *)
LEMMA NoCallTraced ==
  ASSUME NEW s \in Sessions, client'[s] = noCall
  PROVE  CallTraced(s)'
  BY DEF CallTraced, noCall, Sent, Answered, Confirmed

(* A call that fails is forgotten.                                         *)
LEMMA StopKeeps ==
  ASSUME FlowTyped, NEW s \in Sessions, stopCall(s)
  PROVE  SessionKept(s)
  BY QuietCall, SetCallKeeps, NoCallTraced DEF stopCall, SessionKept

(* A call that starts knows its own request.                               *)
LEMMA RequestKeeps ==
  ASSUME IInv, FlowTyped, NEW s \in Sessions, NEW package \in Packages,
         requestAccess(s, package)
  PROVE  SessionKept(s)
  <1> DEFINE request == buildAccessRequest(s, package)
             signing == [noCall EXCEPT !.phase = "signing"]
             call == [signing EXCEPT !.request = request]
  <1>1. /\ request \in SessionRequests
        /\ request.account = AccountOf[s] /\ request.policyId = ThePolicy
    BY BuiltRequest DEF requestAccess
  <1> HIDE DEF request
  <1>2. setCall(s, call)
    BY DEF requestAccess, request
  <1>3. /\ call \in Calls /\ call.phase = "signing"
        /\ call.request = request /\ call.instruction = 0
    <2>1. /\ signing \in Calls /\ signing.phase = "signing"
          /\ signing.instruction = noCall.instruction
      BY QuietCall, PhaseChanged DEF Phases
    <2>2. noCall.instruction = 0
      BY DEF noCall
    <2> HIDE DEF signing
    <2> QED
      BY <1>1, <2>1, <2>2, RequestChanged
  <1>4. /\ ClientTyped'
        /\ client'[s] = call
        /\ \A t \in Sessions : t # s => client'[t] = client[t]
    <2> HIDE DEF call
    <2> QED
      BY <1>2, <1>3, SetCallKeeps
  <1>5. CallTraced(s)'
    <2>1. /\ client'[s].phase = "signing" /\ client'[s].request = request
          /\ client'[s].instruction = 0
      BY <1>3, <1>4
    <2> QED
      BY <1>1, <2>1 DEF CallTraced, Sent, Answered, Confirmed
  <1> QED
    BY <1>4, <1>5 DEF SessionKept

(* The instruction that is mined carries the request of its call.          *)
LEMMA MinedKeeps ==
  ASSUME FlowTyped, NEW s \in Sessions, CallTraced(s), instructionMined(s)
  PROVE  SessionKept(s)
  <1> DEFINE polling == [client[s] EXCEPT !.phase = "polling"]
             next == Len(instructions) + 1
             call == [polling EXCEPT !.instruction = next]
  <1>1. /\ client[s] \in Calls /\ Len(instructions) \in Nat
        /\ client[s].phase = "signing"
    BY DEF FlowTyped, instructionMined
  <1>2. /\ client[s].request \in SessionRequests
        /\ client[s].request.account = AccountOf[s]
        /\ client[s].request.policyId = ThePolicy
    BY <1>1 DEF CallTraced
  <1>3. /\ call \in Calls /\ call.phase = "polling"
        /\ call.request = client[s].request
        /\ call.instruction = next
    <2>1. /\ polling \in Calls /\ polling.phase = "polling"
          /\ polling.request = client[s].request
      BY <1>1, PhaseChanged DEF Phases
    <2>2. next \in Nat
      BY <1>1
    <2> HIDE DEF polling, next
    <2> QED
      BY <2>1, <2>2, InstructionChanged
  <1>4. setCall(s, call) /\ sendInstruction(client[s].request)
    BY DEF instructionMined
  <1> HIDE DEF call
  <1>5. /\ ClientTyped'
        /\ client'[s] = call
        /\ \A t \in Sessions : t # s => client'[t] = client[t]
    BY <1>3, <1>4, SetCallKeeps
  <1>6. client[s].request \in SentRequests
    BY <1>2 DEF SentRequests
  <1>7. /\ Len(instructions') = Len(instructions) + 1
        /\ instructions'[Len(instructions) + 1].request = client[s].request
    BY <1>4, <1>6, SendAppends
  <1>8. CallTraced(s)'
    BY <1>1, <1>2, <1>3, <1>5, <1>7 DEF CallTraced, Sent, Answered, Confirmed
  <1> QED
    BY <1>5, <1>8 DEF SessionKept

(* The action a poll finds answers the call's instruction.                 *)
LEMMA PollFindsKeeps ==
  ASSUME FlowTyped, ResultsTraced, NEW s \in Sessions, CallTraced(s),
         pollFinds(s), UNCHANGED <<instructions, results>>
  PROVE  SessionKept(s)
  <1>1. client[s] \in Calls /\ client[s].phase = "polling"
    BY DEF FlowTyped, pollFinds
  <1>2. PICK r \in results :
          /\ r.actionId = client[s].instruction
          /\ setCall(s, [client[s] EXCEPT !.phase = "relaying", !.action = r])
    BY DEF pollFinds
  <1> DEFINE relaying == [client[s] EXCEPT !.phase = "relaying"]
             call == [relaying EXCEPT !.action = r]
  <1>3. setCall(s, call)
    BY <1>2
  <1>4. r \in SignedFccResults
    BY TracedIsSigned DEF ResultsTraced
  <1>5. /\ call \in Calls /\ call.phase = "relaying" /\ call.action = r
        /\ call.request = client[s].request
        /\ call.instruction = client[s].instruction
    <2>1. /\ relaying \in Calls /\ relaying.phase = "relaying"
          /\ relaying.request = client[s].request
          /\ relaying.instruction = client[s].instruction
      BY <1>1, PhaseChanged DEF Phases
    <2> HIDE DEF relaying
    <2> QED
      BY <1>4, <2>1, ActionChanged
  <1> HIDE DEF call
  <1>6. /\ ClientTyped'
        /\ client'[s] = call
        /\ \A t \in Sessions : t # s => client'[t] = client[t]
    BY <1>3, <1>5, SetCallKeeps
  <1>7. CallTraced(s)'
    BY <1>1, <1>2, <1>5, <1>6 DEF CallTraced, Sent, Answered, Confirmed
  <1> QED
    BY <1>6, <1>7 DEF SessionKept

(* Another poll counts one attempt and nothing else.                       *)
LEMMA PollAgainKeeps ==
  ASSUME FlowTyped, NEW s \in Sessions, CallTraced(s), pollAgain(s),
         UNCHANGED <<instructions, results>>
  PROVE  SessionKept(s)
  <1> DEFINE n == client[s].attempts + 1
             call == [client[s] EXCEPT !.attempts = n]
  <1>1. /\ client[s] \in Calls /\ client[s].phase = "polling"
        /\ n \in 0 .. MaxAttempts
    BY FlowAssumption DEF FlowTyped, pollAgain, pollsLeft, Calls
  <1>2. setCall(s, call)
    BY DEF pollAgain
  <1>3. /\ call \in Calls /\ call.phase = "polling"
        /\ call.request = client[s].request
        /\ call.instruction = client[s].instruction
    <2> HIDE DEF n
    <2> QED
      BY <1>1, AttemptsChanged
  <1> HIDE DEF call
  <1>4. /\ ClientTyped'
        /\ client'[s] = call
        /\ \A t \in Sessions : t # s => client'[t] = client[t]
    BY <1>2, <1>3, SetCallKeeps
  <1>5. CallTraced(s)'
    BY <1>1, <1>3, <1>4 DEF CallTraced, Sent, Answered, Confirmed
  <1> QED
    BY <1>4, <1>5 DEF SessionKept

(* A relay that is mined leaves the account with the request's nonce.      *)
LEMMA RelayKeeps ==
  ASSUME IInv, FlowTyped, ResultsTraced, NEW s \in Sessions, CallTraced(s),
         relay(s)
  PROVE  SessionKept(s)
  <1> DEFINE r == client[s].action
             call == [client[s] EXCEPT !.phase = "confirmed"]
  <1>1. client[s] \in Calls /\ client[s].phase = "relaying"
    BY DEF FlowTyped, relay
  <1>2. /\ submitFccDecision(r) /\ setCall(s, call)
        /\ UNCHANGED <<instructions, results>>
    BY DEF relay
  <1>3. /\ call \in Calls /\ call.phase = "confirmed" /\ call.action = r
        /\ call.request = client[s].request
        /\ call.instruction = client[s].instruction
    BY <1>1, PhaseChanged DEF Phases
  <1>4. /\ client[s].request \in SessionRequests
        /\ client[s].request.account = AccountOf[s]
        /\ client[s].request.policyId = ThePolicy
        /\ client[s].instruction \in 1 .. Len(instructions)
        /\ instructions[client[s].instruction].request = client[s].request
        /\ r \in results /\ r.actionId = client[s].instruction
    BY <1>1 DEF CallTraced, Sent, Answered
  <1>5. PICK id \in 1 .. Len(instructions), clock \in Clocks :
          r = signedResult(id, instructions[id].tee,
                           instructions[id].request, clock)
    BY <1>4 DEF ResultsTraced, Traced
  <1>6. /\ id = client[s].instruction
        /\ r.account = AccountOf[s] /\ r.policyId = ThePolicy
        /\ r.nonce = client[s].request.nonce
    BY <1>4, <1>5 DEF signedResult, decisionOf
  <1>7. r \in SignedFccResults
    BY <1>4, TracedIsSigned DEF ResultsTraced
  <1>8. chainNonce(s)' = client[s].request.nonce
    <2>1. RegistryTypeOK /\ DecisionFields(r) /\ grant(r)
      BY <1>2, <1>7, SignedAssumption DEF IInv, submitFccDecision
    <2>2. accessPasses'[r.account][r.policyId] = passOf(r)
      BY <2>1, GrantWrites
    <2> QED
      BY <1>6, <2>2 DEF chainNonce, getAccess, passOf
  <1>9. client[s].instruction \in usedFccActions'
    BY <1>2, <1>4 DEF submitFccDecision
  <1>10. client[s].request.nonce \in Nat
    BY <1>4, FlowAssumption DEF SessionRequests
  <1> HIDE DEF call, r
  <1>11. /\ ClientTyped'
         /\ client'[s] = call
         /\ \A t \in Sessions : t # s => client'[t] = client[t]
    BY <1>2, <1>3, SetCallKeeps
  <1>12. CallTraced(s)'
    <2>1. /\ client'[s].phase = "confirmed"
          /\ client'[s].request = client[s].request
          /\ client'[s].instruction = client[s].instruction
          /\ client'[s].action = r
      BY <1>3, <1>11
    <2>2. chainNonce(s)' >= client'[s].request.nonce
      BY <1>8, <1>10, <2>1
    <2> QED
      BY <1>2, <1>4, <1>9, <2>1, <2>2
      DEF CallTraced, Sent, Answered, Confirmed
  <1> QED
    BY <1>11, <1>12 DEF SessionKept

(* The refresh after a relay changes what the page knows of the chain, and *)
(* the call's phase.                                                       *)
LEMMA FinishKeeps ==
  ASSUME IInv, FlowTyped, NEW s \in Sessions, CallTraced(s), finish(s)
  PROVE  SessionKept(s)
  <1> DEFINE call == [client[s] EXCEPT !.phase = "issued"]
  <1>1. /\ client[s] \in Calls /\ client[s].phase = "confirmed"
        /\ client' = [client EXCEPT ![s] = call]
        /\ UNCHANGED <<registryVars, instructions, results, refreshing>>
        /\ snapshot' = [snapshot EXCEPT ![s] =
             [policy |-> policies[ThePolicy], nonce |-> chainNonce(s)]]
    BY DEF FlowTyped, finish
  <1>2. /\ call \in Calls /\ call.phase = "issued"
        /\ call.action = client[s].action
        /\ call.request = client[s].request
        /\ call.instruction = client[s].instruction
    BY <1>1, PhaseChanged DEF Phases
  <1> HIDE DEF call
  <1>3. /\ ClientTyped'
        /\ client'[s] = call
        /\ \A t \in Sessions : t # s => client'[t] = client[t]
    BY <1>1, <1>2, ChainReads DEF FlowTyped, ClientTyped
  <1>4. chainNonce(s)' = chainNonce(s) /\ usedFccActions' = usedFccActions
    BY <1>1 DEF registryVars, chainNonce, getAccess
  <1>5. CallTraced(s)'
    BY <1>1, <1>2, <1>3, <1>4 DEF CallTraced, Sent, Answered, Confirmed
  <1> QED
    BY <1>3, <1>5 DEF SessionKept

(* A reload forgets everything a page knew.                                *)
LEMMA ReloadKeeps ==
  ASSUME FlowTyped, NEW s \in Sessions, reload(s)
  PROVE  SessionKept(s)
  <1>1. NoPolicy \in Policies
    BY DEF NoPolicy, Policies
  <1>2. emptySnapshot \in [policy: Policies, nonce: Nat]
    BY <1>1 DEF emptySnapshot
  <1>3. /\ ClientTyped'
        /\ client'[s] = noCall
        /\ \A t \in Sessions : t # s => client'[t] = client[t]
    BY <1>2, QuietCall DEF reload, FlowTyped, ClientTyped
  <1> QED
    BY <1>3, NoCallTraced DEF SessionKept

(* Every step of a session, action by action.                              *)
LEMMA SessionKeeps ==
  ASSUME IInv, FlowTyped, ResultsTraced, NEW s \in Sessions, CallTraced(s),
         SessionStep(s)
  PROVE  SessionKept(s)
  <1>1. CASE startRefresh(s) \/ endRefresh(s) \/ failRefresh(s)
    BY <1>1, RefreshKeeps DEF SessionKept
  <1>2. CASE \E package \in Packages : requestAccess(s, package)
    BY <1>2, RequestKeeps
  <1>3. CASE requestFails(s) \/ pollFails(s) \/ relayReverts(s)
    BY <1>3, StopKeeps DEF requestFails, pollFails, relayReverts
  <1>4. CASE instructionMined(s)
    BY <1>4, MinedKeeps
  <1>5. CASE pollFinds(s)
    BY <1>5, PollFindsKeeps DEF pollFinds
  <1>6. CASE pollAgain(s)
    BY <1>6, PollAgainKeeps DEF pollAgain
  <1>7. CASE relay(s)
    BY <1>7, RelayKeeps
  <1>8. CASE finish(s)
    BY <1>8, FinishKeeps
  <1>9. CASE reload(s)
    BY <1>9, ReloadKeeps
  <1> QED
    BY <1>1, <1>2, <1>3, <1>4, <1>5, <1>6, <1>7, <1>8, <1>9 DEF SessionStep

(* Whoever takes the step, the client state stays typed and every call     *)
(* traced.                                                                 *)
LEMMA ClientKeeps ==
  ASSUME IInv, FlowTyped, ResultsTraced, CallsTraced, [FlowNext]_flowVars
  PROVE  ClientTyped' /\ CallsTraced'
  <1>1. /\ InstructionsGrow /\ results \subseteq results'
        /\ usedFccActions \subseteq usedFccActions'
        /\ \A a \in Accounts, p \in PolicyIds :
             /\ getAccess(a, p).nonce \in Nat
             /\ getAccess(a, p)'.nonce \in Nat
             /\ getAccess(a, p)'.nonce >= getAccess(a, p).nonce
    BY FlowStepTyped, RegistryStep, RegistryGrows
  <1>2. ASSUME NEW t \in Sessions, client'[t] = client[t]
        PROVE  CallTraced(t)'
    BY <1>1, <1>2, CallStays DEF CallsTraced
  <1>3. ASSUME NEW s \in Sessions, SessionStep(s)
        PROVE  ClientTyped' /\ CallsTraced'
    <2>1. SessionKept(s)
      BY <1>3, SessionKeeps DEF CallsTraced
    <2>2. ASSUME NEW t \in Sessions
          PROVE  CallTraced(t)'
      <3>1. CASE t = s
        BY <2>1, <3>1, <1>2 DEF SessionKept
      <3>2. CASE t # s
        BY <2>1, <3>2, <1>2 DEF SessionKept
      <3> QED
        BY <3>1, <3>2
    <2> QED
      BY <2>1, <2>2 DEF SessionKept, CallsTraced
  <1>4. CASE UNCHANGED clientVars
    <2>1. client' = client /\ ClientTyped'
      BY <1>4 DEF clientVars, FlowTyped, ClientTyped
    <2> QED
      BY <2>1, <1>2 DEF CallsTraced
  <1>5. \/ \E s \in Sessions : SessionStep(s)
        \/ UNCHANGED clientVars
    BY DEF FlowNext, otherInstruction, evaluate, otherRelay, RegistryCall,
           flowVars
  <1> QED
    BY <1>3, <1>4, <1>5

(***************************************************************************)
(* Passes are earned.                                                      *)
(***************************************************************************)

(* What a decision says of its request, once the registry accepts it.      *)
LEMMA DecisionEntitles ==
  ASSUME NEW request, NEW clock \in Nat, decides(request),
         NEW d, d = decisionOf(request, clock), d.eligible
  PROVE  /\ request.issuerSignature.issuer = request.issuer
         /\ request.issuerSignature.credential = request.credential
         /\ request.credential.account = request.account
         /\ computePolicyRulesHash(request.policy) = request.rulesHash
         /\ \E i \in 1 .. Len(request.policy.allowedJurisdictions) :
              request.policy.allowedJurisdictions[i]
                = request.credential.jurisdiction
         /\ request.credential.investorCategory
              >= request.policy.minimumInvestorCategory
         /\ request.credential.riskScore <= request.policy.maximumRiskScore
         /\ d.limitUsd =
              request.policy.limitByCategory[
                request.credential.investorCategory]
         /\ 0 < d.limitUsd
         /\ d.expiresAt <= request.credential.expiresAt
  <1>1. /\ request.issuer \in Addresses
        /\ request.credential.expiresAt \in Int
    BY DEF decides, validateAccessRequest, validCredential
  <1>2. /\ request.issuerSignature.issuer = request.issuer
        /\ request.issuerSignature.credential = request.credential
    BY <1>1, EvaluationAssumption DEF decides, issuerMatches, recoveredIssuer
  <1>3. computePolicyRulesHash(request.policy) = request.rulesHash
    BY DEF decides, rulesMatch
  <1>4. /\ eligible(request, clock)
        /\ limitUsd(request, clock) > 0
        /\ d.limitUsd = limitUsd(request, clock)
        /\ d.expiresAt = lesser(request.credential.expiresAt, clock + Hour)
    BY DEF decisionOf
  <1>5. /\ request.credential.account = request.account
        /\ request.credential.investorCategory
             >= request.policy.minimumInvestorCategory
        /\ request.credential.riskScore <= request.policy.maximumRiskScore
        /\ request.credential.jurisdiction \in
             DOMAIN occurrences(request.policy.allowedJurisdictions)
    BY <1>4 DEF eligible
  <1>6. \E i \in 1 .. Len(request.policy.allowedJurisdictions) :
          request.policy.allowedJurisdictions[i]
            = request.credential.jurisdiction
    BY <1>5 DEF occurrences
  <1>7. /\ d.limitUsd =
             request.policy.limitByCategory[
               request.credential.investorCategory]
        /\ 0 < d.limitUsd
    BY <1>4 DEF limitUsd
  <1>8. d.expiresAt <= request.credential.expiresAt
    BY <1>1, <1>4, EvaluationAssumption DEF lesser
  <1> QED
    BY <1>2, <1>3, <1>5, <1>6, <1>7, <1>8

(* A pass that stays as it is, under a policy that keeps its commitment,   *)
(* stays earned by the same request.                                       *)
LEMMA EntitlementStays ==
  ASSUME NEW request, NEW a \in Accounts, NEW p \in PolicyIds,
         Entitles(request, a, p),
         getAccess(a, p)' = getAccess(a, p),
         policies'[p].rulesHash = policies[p].rulesHash,
         policies'[p].credentialIssuer = policies[p].credentialIssuer
  PROVE  Entitles(request, a, p)'
  BY DEF Entitles

(* A submitted result earns the pass it writes.                            *)
LEMMA RelayEarns ==
  ASSUME IInv, NEW id, NEW tee, NEW request, NEW clock \in Nat,
         decides(request), NEW r \in SignedFccResults,
         r = signedResult(id, tee, request, clock), submitFccDecision(r)
  PROVE  Entitles(request, r.account, r.policyId)'
  <1> DEFINE d == decisionOf(request, clock)
             a == r.account
             p == r.policyId
  <1>1. /\ a = request.account /\ r.rulesHash = request.rulesHash
        /\ r.credentialIssuer = request.issuer
        /\ r.eligible = d.eligible /\ r.limitUsd = d.limitUsd
        /\ r.expiresAt = d.expiresAt
    BY DEF signedResult, decisionOf
  <1>2. /\ r.rulesHash = policies[p].rulesHash
        /\ r.credentialIssuer = policies[p].credentialIssuer
        /\ r.eligible /\ grant(r)
        /\ policies' = policies
    BY DEF submitFccDecision, matchesPolicy
  <1>3. accessPasses'[a][p] = passOf(r)
    BY <1>2, SignedAssumption, GrantWrites DEF IInv
  <1>4. /\ getAccess(a, p)'.limitUsd = d.limitUsd
        /\ getAccess(a, p)'.expiresAt = d.expiresAt
    BY <1>1, <1>3 DEF getAccess, passOf
  <1>5. d.eligible
    BY <1>1, <1>2
  <1> HIDE DEF d
  <1>6. /\ request.issuerSignature.issuer = request.issuer
        /\ request.issuerSignature.credential = request.credential
        /\ request.credential.account = request.account
        /\ computePolicyRulesHash(request.policy) = request.rulesHash
        /\ \E i \in 1 .. Len(request.policy.allowedJurisdictions) :
             request.policy.allowedJurisdictions[i]
               = request.credential.jurisdiction
        /\ request.credential.investorCategory
             >= request.policy.minimumInvestorCategory
        /\ request.credential.riskScore <= request.policy.maximumRiskScore
        /\ d.limitUsd =
             request.policy.limitByCategory[
               request.credential.investorCategory]
        /\ 0 < d.limitUsd
        /\ d.expiresAt <= request.credential.expiresAt
    BY <1>5, DecisionEntitles DEF d
  <1> HIDE DEF a, p
  <1>7. Entitles(request, a, p)'
    BY <1>1, <1>2, <1>4, <1>6 DEF Entitles
  <1> QED
    BY <1>7 DEF a, p

(* No step changes the commitment of a policy that exists.                 *)
LEMMA CommitmentKept ==
  ASSUME IInv, [RegistryNext]_registryVars, NEW p \in PolicyIds,
         policyExists(p)
  PROVE  /\ policies'[p].rulesHash = policies[p].rulesHash
         /\ policies'[p].credentialIssuer = policies[p].credentialIssuer
  <1>1. policies[p] \in Policies
    BY DEF IInv, RegistryTypeOK, PolicyTypeOK
  <1>2. CASE PolicyCall
    BY <1>1, <1>2, PolicyStep DEF IInv, Policies
  <1>3. CASE ~PolicyCall
    BY <1>3 DEF RegistryNext, registryVars, setTeeSigner, submitDecision,
                submitFccDecision, tick
  <1> QED
    BY <1>2, <1>3

(* A step of the flow that changes a pass relays a traced result.          *)
LEMMA PassChangeIsRelay ==
  ASSUME FlowTyped, CallsTraced, [FlowNext]_flowVars,
         accessPasses' # accessPasses
  PROVE  \E r \in results : submitFccDecision(r)
  <1>1. ASSUME NEW s \in Sessions, SessionStep(s)
        PROVE  \E r \in results : submitFccDecision(r)
    <2>1. relay(s)
      BY <1>1, SessionTouches DEF registryVars
    <2> QED
      BY <2>1 DEF relay, CallsTraced, CallTraced, Answered
  <1>2. ~UNCHANGED registryVars
    BY DEF registryVars
  <1> QED
    BY <1>1, <1>2
    DEF FlowNext, flowVars, otherInstruction, sendInstruction, evaluate,
        otherRelay, RegistryCall, PolicyCall, setTeeSigner, tick

(* Earned passes stay earned, and a new one is.                            *)
LEMMA EarnedKeeps ==
  ASSUME IInv, FlowTyped, ResultsTraced, CallsTraced, PassesEarned,
         [FlowNext]_flowVars
  PROVE  PassesEarned'
  <1>1. InstructionsGrow /\ Len(instructions) \in Nat
        /\ Len(instructions') \in Nat
    BY FlowStepTyped DEF FlowTyped
  <1>2. [RegistryNext]_registryVars
    BY RegistryStep
  <1> SUFFICES ASSUME NEW a \in Accounts, NEW p \in PolicyIds,
                      getAccess(a, p)'.nonce > 0
               PROVE  \E i \in 1 .. Len(instructions') :
                        Entitles(instructions[i].request, a, p)'
    BY DEF PassesEarned
  <1>3. ASSUME NEW request, NEW i \in 1 .. Len(instructions),
               request = instructions[i].request, Entitles(request, a, p)'
        PROVE  \E j \in 1 .. Len(instructions') :
                 Entitles(instructions[j].request, a, p)'
    <2>1. /\ i \in 1 .. Len(instructions')
          /\ instructions'[i].request = request
      BY <1>1, <1>3 DEF InstructionsGrow
    <2> QED
      BY <1>3, <2>1 DEF Entitles
  <1>4. CASE getAccess(a, p)' = getAccess(a, p)
    <2>1. PICK i \in 1 .. Len(instructions) :
            Entitles(instructions[i].request, a, p)
      BY <1>4 DEF PassesEarned
    <2>2. policyExists(p)
      BY <1>4 DEF IInv, PassesBacked
    <2>3. /\ policies'[p].rulesHash = policies[p].rulesHash
          /\ policies'[p].credentialIssuer = policies[p].credentialIssuer
      BY <1>2, <2>2, CommitmentKept
    <2>4. PICK request : request = instructions[i].request
      OBVIOUS
    <2>5. Entitles(request, a, p)'
      BY <1>4, <2>1, <2>3, <2>4, EntitlementStays
    <2> QED
      BY <1>3, <2>4, <2>5
  <1>5. CASE getAccess(a, p)' # getAccess(a, p)
    <2>1. PICK r \in results : submitFccDecision(r)
      BY <1>5, PassChangeIsRelay DEF getAccess
    <2>2. PICK id \in 1 .. Len(instructions), clock \in Clocks :
            /\ decides(instructions[id].request)
            /\ r = signedResult(id, instructions[id].tee,
                                instructions[id].request, clock)
      BY DEF ResultsTraced, Traced
    <2>3. PICK request, tee : /\ request = instructions[id].request
                              /\ tee = instructions[id].tee
      OBVIOUS
    <2>4. r \in SignedFccResults /\ clock \in Nat
      BY TracedIsSigned, FlowAssumption DEF ResultsTraced
    <2>5. decides(request) /\ r = signedResult(id, tee, request, clock)
      BY <2>2, <2>3
    <2>6. Entitles(request, r.account, r.policyId)'
      BY <2>1, <2>4, <2>5, RelayEarns
    <2>7. r.account = a /\ r.policyId = p
      <3>1. RegistryTypeOK /\ DecisionFields(r) /\ grant(r)
        BY <2>1, <2>4, SignedAssumption DEF IInv, submitFccDecision
      <3> QED
        BY <1>5, <3>1, GrantWrites DEF getAccess, GrantedTo
    <2>8. Entitles(request, a, p)'
      BY <2>6, <2>7
    <2> QED
      BY <1>3, <2>3, <2>8
  <1> QED
    BY <1>4, <1>5

(***************************************************************************)
(* The invariant.                                                          *)
(***************************************************************************)
LEMMA FlowInitEstablishes == FlowInit => FlowInv
  <1> SUFFICES ASSUME FlowInit
               PROVE  FlowInv
    OBVIOUS
  <1>1. IInv
    BY InitEstablishes DEF FlowInit
  <1>2. FlowTyped
    <2>1. emptySnapshot \in [policy: Policies, nonce: Nat]
      BY DEF emptySnapshot, NoPolicy, Policies
    <2> QED
      BY <2>1, QuietCall, FlowAssumption DEF FlowInit, FlowTyped
  <1>3. ResultsTraced
    BY DEF FlowInit, ResultsTraced
  <1>4. CallsTraced
    BY DEF FlowInit, CallsTraced, CallTraced, noCall, Sent, Answered,
           Confirmed
  <1>5. PassesEarned
    BY DEF FlowInit, RegistryInit, NoPass, PassesEarned, getAccess
  <1> QED
    BY <1>1, <1>2, <1>3, <1>4, <1>5 DEF FlowInv

(* Every step of the flow keeps the invariant.                             *)
LEMMA FlowStepKeeps == FlowInv /\ [FlowNext]_flowVars => FlowInv'
  <1> SUFFICES ASSUME FlowInv, [FlowNext]_flowVars
               PROVE  FlowInv'
    OBVIOUS
  <1>1. IInv /\ FlowTyped /\ ResultsTraced /\ CallsTraced /\ PassesEarned
    BY DEF FlowInv
  <1>2. IInv'
    BY <1>1, RegistryStep, StepKeeps
  <1>3. /\ instructions' \in Seq(Instructions)
        /\ Len(instructions') <= MaxInstructions
        /\ InstructionsGrow
    BY <1>1, FlowStepTyped
  <1>4. ClientTyped' /\ CallsTraced'
    BY <1>1, ClientKeeps
  <1>5. FlowTyped'
    BY <1>3, <1>4 DEF FlowTyped, ClientTyped
  <1>6. ResultsTraced'
    BY <1>1, <1>3, FlowStepTraces
  <1>7. PassesEarned'
    BY <1>1, EarnedKeeps
  <1> QED
    BY <1>2, <1>4, <1>5, <1>6, <1>7 DEF FlowInv

(***************************************************************************)
(* The theorems.                                                           *)
(***************************************************************************)

(* FlowInv holds of every behaviour of the flow.                           *)
THEOREM FlowInvariance == FlowSpec => []FlowInv
  BY FlowInitEstablishes, FlowStepKeeps, PTL DEF FlowSpec

(* Inside the flow the registries behave as their own specification says,  *)
(* so every theorem about RegistrySpec holds of the flow.                  *)
THEOREM FlowRefinesRegistry == FlowSpec => RegistrySpec
  <1>1. FlowInit => RegistryInit
    BY DEF FlowInit
  <1>2. FlowInv /\ [FlowNext]_flowVars => [RegistryNext]_registryVars
    BY RegistryStep DEF FlowInv
  <1> QED
    BY <1>1, <1>2, FlowInvariance, PTL DEF FlowSpec, RegistrySpec

(* What users of passes rely on holds end to end: with pages, TEEs and     *)
(* relayers around them, the registries still implement the ledger.        *)
THEOREM FlowImplementsLedger == FlowSpec => ImplementsLedger
  BY FlowRefinesRegistry, RegistryImplementsLedger

(* The types of the flow, the bound on the polls, and the origin of every  *)
(* result and of every action a page holds.                                *)
THEOREM FlowTypeCorrect == FlowSpec => []FlowTypeOK
  <1>1. FlowInv => FlowTypeOK
    <2> SUFFICES ASSUME FlowInv
                 PROVE  FlowTypeOK
      OBVIOUS
    <2>1. Len(instructions) \in Nat
      BY DEF FlowInv, FlowTyped
    <2>2. ASSUME NEW s \in Sessions
          PROVE  /\ client[s].phase \in Phases
                 /\ client[s].attempts \in 0 .. MaxAttempts
                 /\ client[s].instruction \in 0 .. Len(instructions)
                 /\ client[s].phase \in {"relaying", "confirmed", "issued"}
                      => client[s].action \in results
      BY <2>1 DEF FlowInv, FlowTyped, CallsTraced, CallTraced, Calls, Phases,
                  Sent, Answered
    <2>3. ASSUME NEW r \in results
          PROVE  r.actionId \in 1 .. Len(instructions)
      BY DEF FlowInv, ResultsTraced, Traced, signedResult
    <2> QED
      BY <2>2, <2>3 DEF FlowTypeOK
  <1> QED
    BY <1>1, FlowInvariance, PTL

(* Every pass stands for a credential that entitles its account under the  *)
(* committed rules, however many TEEs, sessions and foreign requests there *)
(* are and whatever their clocks show.                                     *)
THEOREM EveryPassIsEarned == FlowSpec => []PassesEarned
  <1>1. FlowInv => PassesEarned
    BY DEF FlowInv
  <1> QED
    BY <1>1, FlowInvariance, PTL

(* A pass that a page reports as issued is held by its account.            *)
THEOREM IssuedPassIsHeld == FlowSpec => []IssuedIsHeld
  <1>1. FlowInv => IssuedIsHeld
    BY DEF FlowInv, CallsTraced, CallTraced, IssuedIsHeld, Confirmed
  <1> QED
    BY <1>1, FlowInvariance, PTL

(***************************************************************************)
(* Nonces have no gaps as long as nobody but the web client asks for later *)
(* ones: whoever encrypts a request chooses its nonce, and may skip some.  *)
(***************************************************************************)

(* The requests of others, if there are any, are first requests.           *)
OthersAskFirst == \A request \in OtherRequests : request.nonce = 1

(* A page knows nonces the chain had, and asks at most for the next one.   *)
ReadsOld ==
  \A s \in Sessions :
    /\ snapshot[s].nonce <= chainNonce(s)
    /\ \A nonce \in refreshing[s] : nonce <= chainNonce(s)
    /\ client[s].phase # "idle" =>
         client[s].request.nonce <= chainNonce(s) + 1

(* So does an instruction, forever after it was sent.                      *)
AsksNext ==
  \A i \in 1 .. Len(instructions), a \in Accounts, p \in PolicyIds :
    LET request == instructions[i].request
    IN  request.account = a /\ request.policyId = p =>
          request.nonce <= getAccess(a, p).nonce + 1

(* The inductive invariant for the nonces.                                 *)
NonceInv == FlowInv /\ ReadsOld /\ AsksNext

(* Where what a page holds comes from.                                     *)
HeldFrom(s) ==
  /\ snapshot'[s].nonce \in {0, chainNonce(s), snapshot[s].nonce}
                              \cup refreshing[s]
  /\ refreshing'[s] \subseteq refreshing[s] \cup {chainNonce(s)}
  /\ client'[s].phase # "idle" =>
       \/ client'[s].request.nonce = snapshot[s].nonce + 1
       \/ client[s].phase # "idle" /\ client'[s].request = client[s].request

(* A page's own steps, and those of another page.                          *)
LEMMA SessionHolds ==
  ASSUME FlowTyped, NEW t \in Sessions, SessionStep(t), NEW s \in Sessions
  PROVE  HeldFrom(s)
  <1> USE DEF HeldFrom
  <1>1. CASE startRefresh(t)
    BY <1>1 DEF startRefresh, FlowTyped
  <1>2. CASE endRefresh(t)
    <2>1. PICK nonce \in refreshing[t] :
            /\ snapshot' = [snapshot EXCEPT ![t] =
                              [policy |-> policies[ThePolicy], nonce |-> nonce]]
            /\ refreshing' = [refreshing EXCEPT ![t] = @ \ {nonce}]
            /\ client' = client
      BY <1>2 DEF endRefresh
    <2> QED
      BY <2>1 DEF FlowTyped
  <1>3. CASE failRefresh(t)
    BY <1>3 DEF failRefresh, FlowTyped
  <1>4. ASSUME NEW package \in Packages, requestAccess(t, package)
        PROVE  HeldFrom(s)
    <2>1. /\ client' = [client EXCEPT ![t] =
                [noCall EXCEPT !.phase = "signing",
                               !.request = buildAccessRequest(t, package)]]
          /\ UNCHANGED <<snapshot, refreshing>>
      BY <1>4 DEF requestAccess, setCall
    <2>2. buildAccessRequest(t, package).nonce = snapshot[t].nonce + 1
      BY DEF buildAccessRequest, nextNonce
    <2>3. client'[t].request = buildAccessRequest(t, package)
      BY <2>1 DEF FlowTyped, noCall
    <2> QED
      BY <2>1, <2>2, <2>3 DEF FlowTyped
  <1>5. CASE \/ requestFails(t) \/ pollFails(t) \/ relayReverts(t)
    <2>1. /\ client' = [client EXCEPT ![t] = noCall]
          /\ UNCHANGED <<snapshot, refreshing>>
      BY <1>5 DEF requestFails, pollFails, relayReverts, stopCall, setCall
    <2>2. noCall.phase = "idle"
      BY DEF noCall
    <2>3. client'[s] \in {noCall, client[s]}
      BY <2>1 DEF FlowTyped
    <2> QED
      BY <2>1, <2>2, <2>3
  <1>6. CASE instructionMined(t) \/ pollFinds(t) \/ pollAgain(t) \/ relay(t)
    <2>1. /\ client[t].phase # "idle"
          /\ client'[t].request = client[t].request
          /\ \A u \in Sessions : u # t => client'[u] = client[u]
          /\ UNCHANGED <<snapshot, refreshing>>
      BY <1>6
      DEF instructionMined, pollFinds, pollAgain, relay, setCall, FlowTyped,
          Calls
    <2> QED
      BY <2>1
  <1>7. CASE finish(t)
    BY <1>7 DEF finish, FlowTyped, Calls
  <1>8. CASE reload(t)
    BY <1>8 DEF reload, noCall, emptySnapshot, FlowTyped
  <1> QED
    BY <1>1, <1>2, <1>3, <1>4, <1>5, <1>6, <1>7, <1>8 DEF SessionStep

(* Every step of the flow.                                                 *)
LEMMA StepHolds ==
  ASSUME FlowTyped, [FlowNext]_flowVars, NEW s \in Sessions
  PROVE  HeldFrom(s)
  <1>1. ASSUME UNCHANGED clientVars
        PROVE  HeldFrom(s)
    BY <1>1 DEF clientVars, HeldFrom
  <1>2. ASSUME NEW t \in Sessions, SessionStep(t)
        PROVE  HeldFrom(s)
    BY <1>2, SessionHolds
  <1> QED
    BY <1>1, <1>2
    DEF FlowNext, flowVars, otherInstruction, evaluate, otherRelay,
        RegistryCall

(* The passes' nonces, as far as these proofs need them.                   *)
LEMMA NoncesStay ==
  ASSUME FlowInv, [FlowNext]_flowVars
  PROVE  \A a \in Accounts, p \in PolicyIds :
           /\ getAccess(a, p).nonce \in Nat
           /\ getAccess(a, p)'.nonce \in Nat
           /\ getAccess(a, p)'.nonce >= getAccess(a, p).nonce
  BY RegistryStep, RegistryGrows DEF FlowInv

(* What pages know stays old.                                              *)
LEMMA ReadsOldKeeps ==
  ASSUME NonceInv, [FlowNext]_flowVars
  PROVE  ReadsOld'
  <1> SUFFICES ASSUME NEW s \in Sessions
               PROVE  /\ snapshot'[s].nonce <= chainNonce(s)'
                      /\ \A nonce \in refreshing'[s] : nonce <= chainNonce(s)'
                      /\ client'[s].phase # "idle" =>
                           client'[s].request.nonce <= chainNonce(s)' + 1
    BY DEF ReadsOld
  <1>1. /\ chainNonce(s) \in Nat /\ chainNonce(s)' \in Nat
        /\ chainNonce(s)' >= chainNonce(s)
    BY NoncesStay, FlowAssumption DEF NonceInv, chainNonce
  <1>2. HeldFrom(s)
    BY StepHolds DEF NonceInv, FlowInv
  <1>3. /\ snapshot[s].nonce \in Nat /\ refreshing[s] \subseteq Nat
        /\ client[s].phase # "idle" => client[s].request.nonce \in Nat
    BY FlowAssumption
    DEF NonceInv, FlowInv, FlowTyped, CallsTraced, CallTraced,
        SessionRequests
  <1>4. /\ snapshot[s].nonce <= chainNonce(s)
        /\ \A nonce \in refreshing[s] : nonce <= chainNonce(s)
        /\ client[s].phase # "idle" =>
             client[s].request.nonce <= chainNonce(s) + 1
    BY DEF NonceInv, ReadsOld
  <1>5. snapshot'[s].nonce <= chainNonce(s)'
    BY <1>1, <1>2, <1>3, <1>4 DEF HeldFrom
  <1>6. ASSUME NEW nonce \in refreshing'[s]
        PROVE  nonce <= chainNonce(s)'
    BY <1>1, <1>2, <1>3, <1>4, <1>6 DEF HeldFrom
  <1>7. client'[s].phase # "idle" =>
          client'[s].request.nonce <= chainNonce(s)' + 1
    BY <1>1, <1>2, <1>3, <1>4 DEF HeldFrom
  <1> QED
    BY <1>5, <1>6, <1>7

(* What an instruction's request may name as its nonce.                    *)
Fits(request) ==
  \A a \in Accounts, p \in PolicyIds :
    request.account = a /\ request.policyId = p =>
      request.nonce \in Nat /\ request.nonce <= getAccess(a, p).nonce + 1

(* What it may name after the step.                                        *)
FitsNext(request) ==
  \A a \in Accounts, p \in PolicyIds :
    request.account = a /\ request.policyId = p =>
      request.nonce \in Nat /\ request.nonce <= getAccess(a, p)'.nonce + 1

(* A page's request fits when it is sent.                                  *)
LEMMA SessionAsksNext ==
  ASSUME NonceInv, NEW s \in Sessions, client[s].phase # "idle"
  PROVE  Fits(client[s].request)
  <1>1. /\ client[s].request \in SessionRequests
        /\ client[s].request.account = AccountOf[s]
        /\ client[s].request.policyId = ThePolicy
        /\ client[s].request.nonce <= chainNonce(s) + 1
    BY DEF NonceInv, FlowInv, CallsTraced, CallTraced, ReadsOld
  <1>2. client[s].request.nonce \in Nat
    BY <1>1, FlowAssumption DEF SessionRequests
  <1> QED
    BY <1>1, <1>2 DEF Fits, chainNonce

(* And one that fits goes on fitting.                                      *)
LEMMA FitsStays ==
  ASSUME FlowInv, [FlowNext]_flowVars, NEW request, Fits(request)
  PROVE  FitsNext(request)
  <1> SUFFICES ASSUME NEW a \in Accounts, NEW p \in PolicyIds,
                      request.account = a, request.policyId = p
               PROVE  /\ request.nonce \in Nat
                      /\ request.nonce <= getAccess(a, p)'.nonce + 1
    BY DEF FitsNext
  <1>1. /\ getAccess(a, p).nonce \in Nat /\ getAccess(a, p)'.nonce \in Nat
        /\ getAccess(a, p)'.nonce >= getAccess(a, p).nonce
    BY NoncesStay
  <1>2. request.nonce \in Nat /\ request.nonce <= getAccess(a, p).nonce + 1
    BY DEF Fits
  <1> QED
    BY <1>1, <1>2

(* Every request that was or can be sent has a nonce.                      *)
LEMMA RequestNonce ==
  ASSUME OthersAskFirst, NEW request \in SentRequests
  PROVE  request.nonce \in Nat
  BY FlowAssumption DEF OthersAskFirst, SentRequests, SessionRequests

(* Instructions go on asking for the next nonce at most.                   *)
LEMMA AsksNextKeeps ==
  ASSUME OthersAskFirst, NonceInv, [FlowNext]_flowVars
  PROVE  AsksNext'
  <1>1. /\ FlowInv /\ FlowTyped /\ CallsTraced /\ IInv /\ InstructionsGrow
        /\ Len(instructions) \in Nat
    <2>1. FlowInv /\ FlowTyped /\ CallsTraced /\ IInv
      BY DEF NonceInv, FlowInv
    <2> QED
      BY <2>1, FlowStepTyped DEF FlowTyped
  <1>2. ASSUME NEW i \in 1 .. Len(instructions)
        PROVE  Fits(instructions[i].request)
    <2>1. instructions[i].request \in SentRequests
      <3>1. instructions[i] \in Instructions
        BY <1>1 DEF FlowTyped
      <3> QED
        BY <3>1 DEF Instructions
    <2> QED
      BY <2>1, RequestNonce DEF Fits, NonceInv, AsksNext
  <1>3. ASSUME NEW request \in SentRequests, sendInstruction(request),
               Fits(request)
        PROVE  \A i \in 1 .. Len(instructions') :
                 FitsNext(instructions'[i].request)
    <2> SUFFICES ASSUME NEW i \in 1 .. Len(instructions')
                 PROVE  FitsNext(instructions'[i].request)
      OBVIOUS
    <2>1. /\ Len(instructions') = Len(instructions) + 1
          /\ \A id \in 1 .. Len(instructions) :
               instructions'[id] = instructions[id]
          /\ instructions'[Len(instructions) + 1].request = request
      BY <1>1, <1>3, SendAppends
    <2>2. i \in 1 .. Len(instructions) \/ i = Len(instructions) + 1
      BY <1>1, <2>1
    <2>3. Fits(instructions'[i].request)
      BY <1>2, <1>3, <2>1, <2>2
    <2> QED
      BY <1>1, <2>3, FitsStays
  <1>4. ASSUME UNCHANGED instructions
        PROVE  \A i \in 1 .. Len(instructions') :
                 FitsNext(instructions'[i].request)
    BY <1>1, <1>2, <1>4, FitsStays
  <1>5. \A i \in 1 .. Len(instructions') : FitsNext(instructions'[i].request)
    <2>1. ASSUME NEW s \in Sessions, SessionStep(s)
          PROVE  \A i \in 1 .. Len(instructions') :
                   FitsNext(instructions'[i].request)
      <3>1. CASE instructionMined(s)
        <4>1. client[s].phase # "idle" /\ sendInstruction(client[s].request)
          BY <3>1 DEF instructionMined
        <4>2. client[s].request \in SentRequests
          BY <1>1, <4>1 DEF CallsTraced, CallTraced, SentRequests
        <4> QED
          BY <1>3, <4>1, <4>2, SessionAsksNext
      <3>2. CASE ~instructionMined(s)
        BY <1>4, <2>1, <3>2
        DEF SessionStep, startRefresh, endRefresh, failRefresh,
            requestAccess, requestFails, pollFinds, pollAgain, pollFails,
            relay, relayReverts, finish, reload
      <3> QED
        BY <3>1, <3>2
    <2>2. ASSUME NEW request \in OtherRequests, otherInstruction(request)
          PROVE  \A i \in 1 .. Len(instructions') :
                   FitsNext(instructions'[i].request)
      <3>1. request.nonce = 1
        BY DEF OthersAskFirst
      <3>2. Fits(request)
        BY <1>1, <3>1, NoncesStay DEF Fits
      <3> QED
        BY <1>3, <2>2, <3>2 DEF otherInstruction, SentRequests
    <2>3. CASE UNCHANGED instructions
      BY <1>4, <2>3
    <2> QED
      BY <2>1, <2>2, <2>3
      DEF FlowNext, flowVars, evaluate, otherRelay, RegistryCall
  <1> QED
    BY <1>5 DEF FitsNext, AsksNext

(* A grant is one of a result that answers an instruction, and its nonce   *)
(* is the next.                                                            *)
LEMMA GrantIsNext ==
  ASSUME OthersAskFirst, NonceInv, [FlowNext]_flowVars,
         NEW a \in Accounts, NEW p \in PolicyIds,
         accessPasses'[a][p] # accessPasses[a][p]
  PROVE  accessPasses'[a][p].nonce = accessPasses[a][p].nonce + 1
  <1>1. FlowInv /\ FlowTyped /\ ResultsTraced /\ CallsTraced /\ IInv
    BY DEF NonceInv, FlowInv
  <1>2. PICK r \in results : submitFccDecision(r)
    BY <1>1, PassChangeIsRelay
  <1>3. PICK id \in 1 .. Len(instructions), clock \in Clocks :
          r = signedResult(id, instructions[id].tee,
                           instructions[id].request, clock)
    BY <1>1 DEF ResultsTraced, Traced
  <1> DEFINE request == instructions[id].request
  <1>4. /\ r.account = request.account /\ r.policyId = request.policyId
        /\ r.nonce = request.nonce
    BY <1>3 DEF signedResult, decisionOf
  <1>5. r \in SignedFccResults /\ DecisionFields(r) /\ grant(r)
    BY <1>1, <1>2, TracedIsSigned, SignedAssumption
    DEF ResultsTraced, submitFccDecision
  <1>6. /\ accessPasses'[r.account][r.policyId] = passOf(r)
        /\ r.nonce > accessPasses[r.account][r.policyId].nonce
        /\ ~GrantedTo(r, a, p) => accessPasses'[a][p] = accessPasses[a][p]
    BY <1>1, <1>5, GrantWrites DEF IInv
  <1>7. r.account = a /\ r.policyId = p
    BY <1>6 DEF GrantedTo
  <1>8. request.nonce <= getAccess(a, p).nonce + 1
    BY <1>4, <1>7 DEF NonceInv, AsksNext
  <1>9. r.nonce \in Nat /\ accessPasses[a][p].nonce \in Nat
    BY <1>1, <1>5 DEF DecisionFields, IInv, RegistryTypeOK, Passes
  <1>10. accessPasses'[a][p].nonce = r.nonce
    BY <1>6, <1>7 DEF passOf
  <1> QED
    BY <1>4, <1>6, <1>7, <1>8, <1>9, <1>10 DEF getAccess

(* With web clients only, or with others that only make first requests:    *)
(* whatever is read late, reloaded or relayed by others, each change of a  *)
(* pass takes the nonce right after the one it had (App.jsx builds each    *)
(* request with the nonce it has read plus one).                           *)
THEOREM NoncesHaveNoGap == OthersAskFirst => (FlowSpec => NoNonceGap)
  <1> SUFFICES ASSUME OthersAskFirst
               PROVE  FlowSpec => NoNonceGap
    OBVIOUS
  <1>1. FlowInit => NonceInv
    <2> SUFFICES ASSUME FlowInit PROVE ReadsOld /\ AsksNext
      BY FlowInitEstablishes DEF NonceInv
    <2>1. FlowInv
      BY FlowInitEstablishes
    <2>2. \A s \in Sessions : chainNonce(s) \in Nat
      BY <2>1, ChainReads DEF FlowInv
    <2>3. ReadsOld
      BY <2>2 DEF FlowInit, ReadsOld, emptySnapshot, noCall
    <2>4. AsksNext
      BY DEF FlowInit, AsksNext
    <2> QED
      BY <2>3, <2>4
  <1>2. NonceInv /\ [FlowNext]_flowVars => NonceInv'
    BY FlowStepKeeps, ReadsOldKeeps, AsksNextKeeps DEF NonceInv
  <1>3. NonceInv /\ [FlowNext]_flowVars =>
          [\A a \in Accounts, p \in PolicyIds :
             accessPasses'[a][p] # accessPasses[a][p] =>
               accessPasses'[a][p].nonce
                 = accessPasses[a][p].nonce + 1]_flowVars
    BY GrantIsNext
  <1> QED
    BY <1>1, <1>2, <1>3, PTL DEF FlowSpec, NoNonceGap
=============================================================================
