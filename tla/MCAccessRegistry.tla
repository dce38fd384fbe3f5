-------------------------- MODULE MCAccessRegistry --------------------------
(***************************************************************************)
(* AccessRegistry with two accounts, the policies each may create, an old  *)
(* deployment on the same chain, and a signed message of every kind:       *)
(* acceptable ones with nonces and expiries that overtake one another, and *)
(* one of each way to be unacceptable.                                     *)
(***************************************************************************)
EXTENDS AccessRegistry

CONSTANTS admin, alice, issuer, rogueIssuer, zero, salt, rules, otherRules,
          noRules, tee, oldTee, here, oldRegistry, chain, otherChain

thePolicy == <<admin, salt>>

decision(expiresAt, nonce) ==
  [account |-> alice, policyId |-> thePolicy, eligible |-> TRUE,
   limitUsd |-> nonce, expiresAt |-> expiresAt, nonce |-> nonce,
   signer |-> tee, chain |-> chain, verifyingContract |-> here]

good == decision(2, 2)

mcSignedDecisions ==
  {decision(2, 1), good,
   [good EXCEPT !.signer = oldTee],
   [good EXCEPT !.eligible = FALSE, !.nonce = 3],
   [good EXCEPT !.chain = otherChain, !.nonce = 3],
   [good EXCEPT !.verifyingContract = oldRegistry, !.nonce = 3]}

result(id, expiresAt, nonce) ==
  [actionId |-> id, status |-> 1, account |-> alice,
   policyId |-> thePolicy, eligible |-> TRUE, limitUsd |-> 1,
   expiresAt |-> expiresAt, nonce |-> nonce, signer |-> tee,
   chain |-> chain, targetRegistry |-> here, rulesHash |-> rules,
   credentialIssuer |-> issuer]

mcSignedFccResults ==
  {result(1, 2, 1), result(1, 3, 2), result(2, 3, 2), result(3, 1, 3),
   [result(3, 3, 3) EXCEPT !.signer = oldTee],
   [result(4, 3, 4) EXCEPT !.status = 0],
   [result(4, 3, 4) EXCEPT !.status = 2],
   [result(4, 3, 4) EXCEPT !.eligible = FALSE],
   [result(4, 3, 4) EXCEPT !.chain = otherChain],
   [result(4, 3, 4) EXCEPT !.targetRegistry = oldRegistry],
   [result(4, 3, 4) EXCEPT !.rulesHash = otherRules],
   [result(4, 3, 4) EXCEPT !.credentialIssuer = rogueIssuer],
   [result(5, 3, 1) EXCEPT !.policyId = <<alice, salt>>]}
=============================================================================
