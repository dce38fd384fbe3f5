-------------------------- MODULE AccessPassLedger --------------------------
(***************************************************************************)
(* What the two registries promise the contracts that read them, the vault *)
(* first: an account holds at most one pass per policy, a pass is replaced *)
(* only by one with a larger nonce, which is unexpired when it is granted  *)
(* under an active policy, and access is an unexpired pass on an active    *)
(* policy.  Who may grant, and on what evidence, is left open here;        *)
(* AccessRegistry answers it and implements this specification.            *)
(***************************************************************************)
EXTENDS Naturals

CONSTANTS
  Holders,        \* the addresses that can hold a pass
  PolicyIds,      \* the policies
  Passes,         \* the passes that may be granted
  MaxTime         \* bound on block.timestamp

ASSUME PassesAssumption ==
  /\ Passes \subseteq [limitUsd: Nat, expiresAt: Nat, nonce: Nat]
  /\ MaxTime \in Nat

VARIABLES
  accessPasses,   \* holder -> policyId -> pass
  activePolicies, \* the policies isPolicyActive answers true for
  now             \* block.timestamp

ledgerVars == <<accessPasses, activePolicies, now>>

(* The zero struct: a pass never granted.                                  *)
NoPass == [limitUsd |-> 0, expiresAt |-> 0, nonce |-> 0]

getAccess(account, policyId) == accessPasses[account][policyId]

canAccess(account, policyId) ==
  /\ policyId \in activePolicies
  /\ getAccess(account, policyId).expiresAt > now

LedgerInit ==
  /\ accessPasses = [a \in Holders |-> [p \in PolicyIds |-> NoPass]]
  /\ activePolicies = {}
  /\ now = 0

Grant(account, policyId, pass) ==
  /\ policyId \in activePolicies
  /\ pass.expiresAt > now
  /\ pass.nonce > getAccess(account, policyId).nonce
  /\ accessPasses' = [accessPasses EXCEPT ![account][policyId] = pass]
  /\ UNCHANGED <<activePolicies, now>>

SetActive(policyId, active) ==
  /\ activePolicies' = IF active THEN activePolicies \cup {policyId}
                                 ELSE activePolicies \ {policyId}
  /\ UNCHANGED <<accessPasses, now>>

(* Blocks are mined whatever the contracts do.                             *)
Tick ==
  /\ now < MaxTime
  /\ now' = now + 1
  /\ UNCHANGED <<accessPasses, activePolicies>>

(* The calls any transaction can make to the registries.                   *)
LedgerCall ==
  \/ \E a \in Holders, p \in PolicyIds, pass \in Passes : Grant(a, p, pass)
  \/ \E p \in PolicyIds, active \in BOOLEAN : SetActive(p, active)

LedgerNext == LedgerCall \/ Tick

LedgerSpec == LedgerInit /\ [][LedgerNext]_ledgerVars
=============================================================================
