---------------------------- MODULE MCAccessFlow ----------------------------
(***************************************************************************)
(* AccessFlow with two pages of one account, a TEE that may be registered  *)
(* late or removed, decisions that may expire on their way, and requests   *)
(* of others that each lack one thing: the account's own credential, the   *)
(* issuer the policy names, the committed rules.                           *)
(***************************************************************************)
EXTENDS AccessFlow, TLC

CONSTANTS alice, bob, issuer, rogueIssuer, zero, salt, noRules, here, chain,
          tee, tee2, junk

rules ==
  [allowedJurisdictions |-> <<"US">>, minimumInvestorCategory |-> 1,
   maximumRiskScore |-> 1, limitByCategory |-> [c \in {1} |-> 1]]

laxRules == [rules EXCEPT !.maximumRiskScore = 3]

credentialOf(account, riskScore) ==
  [account |-> account, jurisdiction |-> "US", investorCategory |-> 1,
   riskScore |-> riskScore, expiresAt |-> 1]

packageOf(credential) ==
  [credential |-> credential,
   issuerSignature |-> [issuer |-> issuer, credential |-> credential]]

mcPackages == {packageOf(credentialOf(alice, 0))}

requestOf(package, policy, nonce) ==
  [registry |-> here, account |-> alice, policyId |-> <<alice, salt>>,
   rulesHash |-> computePolicyRulesHash(policy), issuer |-> issuer,
   credential |-> package.credential,
   issuerSignature |-> package.issuerSignature,
   policy |-> policy, nonce |-> nonce]

mcOtherRequests ==
  {requestOf(packageOf(credentialOf(bob, 0)), rules, 1),
   requestOf(packageOf(credentialOf(alice, 2)), laxRules, 1),
   [requestOf(packageOf(credentialOf(alice, 0)), rules, 1) EXCEPT
      !.issuer = rogueIssuer, !.issuerSignature.issuer = rogueIssuer]}

mcPolicy == <<alice, salt>>

mcHashes == {computePolicyRulesHash(policy) : policy \in {rules, laxRules}}

mcAccountOf == [s \in Sessions |-> alice]

mcAddresses == {alice, bob, issuer, rogueIssuer, here}

mcResults ==
  {signedResult(id, t, request, clock) :
     id \in 1 .. MaxInstructions, t \in Tees, clock \in Clocks,
     request \in mcOtherRequests \cup
       {requestOf(package, rules, nonce) :
          package \in mcPackages, nonce \in 1 .. MaxNonce}}

symmetry == Permutations(Sessions)
=============================================================================
