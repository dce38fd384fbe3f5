----------------------------- MODULE AtomicVault -----------------------------
(***************************************************************************)
(* What PrivateFXRPVault promises to whoever looks at it between           *)
(* transactions: a deposit or a withdrawal happens at once, or not at all. *)
(* It is judged by the pass, the policy and the price of before it began,  *)
(* it moves the position and the tokens together, and it contains no other *)
(* vault call.  What else its token call did shows as registry calls and   *)
(* gifts to the vault of the same transaction.                             *)
(***************************************************************************)
EXTENDS AccessPassLedger, Integers, FiniteSetsExt

CONSTANTS
  Vault, VaultPolicy, Amounts, Prices, MaxAge, LimitScale, FxrpUnit,
  PriceScale, InitialBalance   \* as in PrivateFXRPVault

VARIABLES positionOf, balanceOf, feed

atomicVars == <<ledgerVars, positionOf, balanceOf, feed>>

Addresses == Holders \cup {Vault}

AtomicInit ==
  /\ LedgerInit
  /\ positionOf = [a \in Holders |-> 0]
  /\ balanceOf = [x \in Addresses |-> IF x = Vault THEN 0 ELSE InitialBalance[x]]
  /\ feed \in [value: Prices, timestamp: {0}]

(* Any number of registry calls: a pass gave way to one of a larger nonce. *)
RegistryCalls ==
  /\ activePolicies' \subseteq PolicyIds
  /\ accessPasses' \in [Holders -> [PolicyIds -> Passes \cup {NoPass}]]
  /\ \A a \in Holders, p \in PolicyIds :
       accessPasses'[a][p] # getAccess(a, p) =>
         /\ accessPasses'[a][p].expiresAt > now
         /\ accessPasses'[a][p].nonce > getAccess(a, p).nonce

supply == MapThenSumSet(LAMBDA x : balanceOf[x], Addresses)

(* One transaction, in which the vault takes paid[a] from every account a; *)
(* whatever more an account is left without is now the vault's.            *)
Transaction(paid) ==
  /\ RegistryCalls
  /\ balanceOf' \in [Addresses -> Nat]
  /\ \A a \in Holders : balanceOf'[a] <= balanceOf[a] - paid[a]
  /\ supply' = supply
  /\ UNCHANGED <<now, feed>>

only(account, amount) ==
  [a \in Holders |-> IF a = account THEN amount ELSE 0]

(* The whole position, valued without rounding, is below the limit plus    *)
(* one micro-dollar, at a price that is not zero, early or stale.          *)
Deposit(account, amount) ==
  LET nextPosition == positionOf[account] + amount
  IN  /\ amount # 0
      /\ canAccess(account, VaultPolicy)
      /\ feed.value # 0 /\ feed.timestamp \in (now - MaxAge) .. now
      /\ nextPosition * feed.value * LimitScale
           < (getAccess(account, VaultPolicy).limitUsd + 1)
               * FxrpUnit * PriceScale
      /\ positionOf' = [positionOf EXCEPT ![account] = nextPosition]
      /\ Transaction(only(account, amount))

(* Asks for the position only: neither pass nor price.                     *)
Withdraw(account, amount) ==
  /\ amount # 0
  /\ amount <= positionOf[account]
  /\ positionOf' = [positionOf EXCEPT ![account] = @ - amount]
  /\ Transaction(only(account, 0 - amount))

(* A transaction with no vault call, or whose vault call was undone.       *)
Elsewhere ==
  /\ UNCHANGED positionOf
  /\ Transaction([a \in Holders |-> 0])

(* Between transactions: a block, or an update of the price.               *)
Time ==
  /\ \/ Tick /\ UNCHANGED feed
     \/ /\ \E value \in Prices, timestamp \in now .. now + 1 :
             feed' = [value |-> value, timestamp |-> timestamp]
        /\ UNCHANGED ledgerVars
  /\ UNCHANGED <<positionOf, balanceOf>>

AtomicNext ==
  \/ \E a \in Holders, amount \in Amounts : Deposit(a, amount)
  \/ \E a \in Holders, amount \in Amounts : Withdraw(a, amount)
  \/ Elsewhere
  \/ Time

AtomicSpec == AtomicInit /\ [][AtomicNext]_atomicVars
=============================================================================
