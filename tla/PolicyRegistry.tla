--------------------------- MODULE PolicyRegistry ---------------------------
(***************************************************************************)
(* contracts/PolicyRegistry.sol: the on-chain register of access policies. *)
(*                                                                         *)
(* A policy commits its owner to a credential issuer and to the hash of    *)
(* the rules the TEE evaluates; only its `active` flag may ever change.    *)
(* A call that reverts changes nothing, so a revert is a false guard.      *)
(***************************************************************************)
EXTENDS Naturals

CONSTANTS
  Accounts,       \* addresses that call the contracts, the admin among them
  Admin,          \* the immutable admin, set to the deployer
  Issuers,        \* addresses that sign credentials
  ZeroAddress,    \* address(0)
  Salts,          \* salts a creator may pick
  RulesHashes,    \* hashes of evaluation rules
  NoRules         \* bytes32(0), which a mapping returns for no policy

ASSUME AddressAssumption ==
  /\ Admin \in Accounts
  /\ ZeroAddress \notin Accounts \cup Issuers

VARIABLE policies \* policyId -> the stored Policy struct

(* keccak256(owner, salt) is collision-free: the id is the pair it hashes. *)
computePolicyId(owner, salt) == <<owner, salt>>

PolicyIds == Accounts \X Salts

(* The struct a Solidity mapping returns for a key never written.          *)
NoPolicy ==
  [owner |-> ZeroAddress, credentialIssuer |-> ZeroAddress,
   rulesHash |-> NoRules, active |-> FALSE]

Policies ==
  [owner: Accounts \cup {ZeroAddress},
   credentialIssuer: Issuers \cup {ZeroAddress},
   rulesHash: RulesHashes \cup {NoRules}, active: BOOLEAN]

policyExists(id) == policies[id].owner # ZeroAddress

isPolicyActive(id) == policies[id].active

PolicyInit == policies = [id \in PolicyIds |-> NoPolicy]

(* Mutant: the PolicyAlreadyExists check is missing.                       *)
createPolicyOverwriting(sender, salt, issuer, rulesHash) ==
  /\ issuer # ZeroAddress
  /\ policies' = [policies EXCEPT ![computePolicyId(sender, salt)] =
        [owner |-> sender, credentialIssuer |-> issuer,
         rulesHash |-> rulesHash, active |-> TRUE]]

createPolicy(sender, salt, issuer, rulesHash) ==
  LET id == computePolicyId(sender, salt)
  IN  /\ issuer # ZeroAddress
      /\ ~policyExists(id)
      /\ policies' = [policies EXCEPT ![id] =
            [owner |-> sender, credentialIssuer |-> issuer,
             rulesHash |-> rulesHash, active |-> TRUE]]

setPolicyActive(sender, id, active) ==
  /\ policyExists(id)
  /\ sender \in {policies[id].owner, Admin}
  /\ policies' = [policies EXCEPT ![id].active = active]

PolicyTypeOK == policies \in [PolicyIds -> Policies]
=============================================================================
