-------------------------- MODULE PrivateFXRPVault --------------------------
(***************************************************************************)
(* contracts/PrivateFXRPVault.sol with contracts/FtsoV2XrpUsdOracle.sol,   *)
(* over the ledger of access passes.  Both vault operations write the      *)
(* position first and call the token last, so each is two steps: the body  *)
(* up to the token call, and the return of that call.  Between the two the *)
(* token may run anything a contract can call, the vault itself included.  *)
(* A call that fails undoes everything since it began; `calls` is the EVM  *)
(* call stack with what each frame would restore.                          *)
(***************************************************************************)
EXTENDS AccessPassLedger, Sequences, FiniteSetsExt

CONSTANTS
  Vault,          \* address(this), a token holder like the accounts
  VaultPolicy,    \* the immutable policyId
  Amounts,        \* amounts a caller may pass, 0 among them
  Prices,         \* values the FTSO feed may take, in wei
  MaxAge,         \* the oracle's maxAge
  LimitScale,     \* 1e6: access limits have six decimals
  FxrpUnit,       \* 10 ** decimals of the token
  PriceScale,     \* 1e18: feed prices have eighteen decimals
  MaxUint,        \* type(uint256).max, where checked arithmetic reverts
  InitialBalance  \* tokens each account starts with

ASSUME VaultAssumption ==
  /\ Vault \notin Holders
  /\ IsFiniteSet(Holders)      \* an address is a uint160
  /\ VaultPolicy \in PolicyIds
  /\ Amounts \subseteq Nat /\ Prices \subseteq Nat
  /\ FxrpUnit \in Nat \ {0} /\ PriceScale \in Nat \ {0}
  /\ LimitScale \in Nat \ {0}
  /\ MaxAge \in Nat \ {0} /\ MaxUint \in Nat
  /\ InitialBalance \in [Holders -> Nat]

VARIABLES
  positionOf,     \* account -> FXRP it deposited
  entered,        \* the reentrancy flag: 1 outside, 2 inside
  balanceOf,      \* the token: address -> balance
  feed,           \* the FTSO feed: its value and its timestamp
  calls           \* stack of vault calls waiting for the token

vaultVars == <<positionOf, entered, balanceOf, calls>>
vars == <<ledgerVars, vaultVars, feed>>

Frames ==
  [op: {"deposit", "withdraw"}, account: Holders, amount: Amounts,
   saved: [accessPasses: [Holders -> [PolicyIds -> Passes \cup {NoPass}]],
           activePolicies: SUBSET PolicyIds,
           positionOf: [Holders -> Nat],
           balanceOf: [Holders \cup {Vault} -> Nat]]]

VaultTypeOK ==
  /\ accessPasses \in [Holders -> [PolicyIds -> Passes \cup {NoPass}]]
  /\ activePolicies \subseteq PolicyIds
  /\ now \in Nat
  /\ positionOf \in [Holders -> Nat]
  /\ entered \in {1, 2}
  /\ balanceOf \in [Holders \cup {Vault} -> Nat]
  /\ feed \in [value: Prices, timestamp: Nat]
  /\ calls \in Seq(Frames)

VaultInit ==
  /\ LedgerInit
  /\ positionOf = [a \in Holders |-> 0]
  /\ entered = 1
  /\ balanceOf = [a \in Holders \cup {Vault} |->
                    IF a = Vault THEN 0 ELSE InitialBalance[a]]
  /\ feed \in [value: Prices, timestamp: {0}]
  /\ calls = <<>>

snapshot ==
  [accessPasses |-> accessPasses, activePolicies |-> activePolicies,
   positionOf |-> positionOf, balanceOf |-> balanceOf]

(* currentPrice returns instead of reverting: a non-zero price that is     *)
(* neither from the future nor older than maxAge.                          *)
currentPriceReturns ==
  /\ feed.value # 0
  /\ feed.timestamp <= now
  /\ now - feed.timestamp <= MaxAge

(* The products of _usdValue: checked arithmetic reverts when one exceeds  *)
(* a uint256.                                                              *)
usdValueFits(amount, price) == amount * price * LimitScale <= MaxUint

(* Mutant: the unit is divided out before the price is multiplied in.      *)
_usdValueTruncated(amount, price) ==
  ((amount \div FxrpUnit) * price * LimitScale) \div PriceScale

(* Both divisions round down.                                              *)
_usdValue(amount, price) ==
  ((amount * price * LimitScale) \div FxrpUnit) \div PriceScale

(* Mutant: the modifier does not look at the flag.                         *)
nonReentrantUnchecked == TRUE

nonReentrant == entered = 1

(* The external call to the token that ends a body: the flag is set and    *)
(* the frame waits.                                                        *)
callToken(op, account, amount) ==
  /\ entered' = 2
  /\ calls' = Append(calls, [op |-> op, account |-> account,
                             amount |-> amount, saved |-> snapshot])
  /\ UNCHANGED <<ledgerVars, balanceOf, feed>>

deposit(account, amount) ==
  LET nextPosition == positionOf[account] + amount
  IN  /\ nonReentrant
      /\ amount # 0
      /\ canAccess(account, VaultPolicy)
      /\ currentPriceReturns
      /\ nextPosition <= MaxUint
      /\ usdValueFits(nextPosition, feed.value)
      /\ _usdValue(nextPosition, feed.value)
           <= getAccess(account, VaultPolicy).limitUsd
      /\ positionOf' = [positionOf EXCEPT ![account] = nextPosition]
      /\ callToken("deposit", account, amount)

(* Mutant: withdraw asks for access, like deposit.                         *)
mayWithdrawWithAccess(account, amount) ==
  amount <= positionOf[account] /\ canAccess(account, VaultPolicy)

(* Mutant: an amount above the position is accepted.                       *)
mayWithdrawAnything(account, amount) == TRUE

mayWithdraw(account, amount) == amount <= positionOf[account]

withdraw(account, amount) ==
  /\ nonReentrant
  /\ amount # 0
  /\ mayWithdraw(account, amount)
  /\ positionOf' = [positionOf EXCEPT ![account] = @ - amount]
  /\ callToken("withdraw", account, amount)

(* The token moves `amount`, as MockERC20 and any standard token do.       *)
move(from, to, amount) ==
  /\ balanceOf[from] >= amount
  /\ balanceOf' = [balanceOf EXCEPT ![from] = @ - amount, ![to] = @ + amount]

top == calls[Len(calls)]

pop == calls' = SubSeq(calls, 1, Len(calls) - 1)

(* The token call succeeds and the vault call returns.                     *)
tokenReturns ==
  /\ calls # <<>>
  /\ IF top.op = "deposit" THEN move(top.account, Vault, top.amount)
                           ELSE move(Vault, top.account, top.amount)
  /\ entered' = 1
  /\ pop
  /\ UNCHANGED <<ledgerVars, positionOf, feed>>

(* Mutant: what the token call returned is not looked at.                  *)
tokenFailsUnseen ==
  calls # <<>> /\ entered' = 1 /\ pop
    /\ UNCHANGED <<ledgerVars, positionOf, balanceOf, feed>>

(* The token call reverts or returns false, for want of balance or         *)
(* allowance or for a reason of its own: TokenTransferFailed undoes the    *)
(* vault call and whatever ran inside it.                                  *)
tokenFails ==
  /\ calls # <<>>
  /\ accessPasses' = top.saved.accessPasses
  /\ activePolicies' = top.saved.activePolicies
  /\ positionOf' = top.saved.positionOf
  /\ balanceOf' = top.saved.balanceOf
  /\ entered' = 1
  /\ pop
  /\ UNCHANGED <<now, feed>>

(* Tokens sent to the vault outside deposit.                               *)
donate(account, amount) ==
  /\ amount # 0
  /\ move(account, Vault, amount)
  /\ UNCHANGED <<ledgerVars, positionOf, entered, feed, calls>>

(* Between transactions blocks pass and the feed is updated.               *)
vaultTick ==
  /\ calls = <<>>
  /\ Tick
  /\ UNCHANGED <<vaultVars, feed>>

updateFeed ==
  /\ calls = <<>>
  /\ \E value \in Prices, timestamp \in now .. now + 1 :
       feed' = [value |-> value, timestamp |-> timestamp]
  /\ UNCHANGED <<ledgerVars, vaultVars>>

VaultNext ==
  \/ \E a \in Holders, amount \in Amounts : deposit(a, amount)
  \/ \E a \in Holders, amount \in Amounts : withdraw(a, amount)
  \/ \E a \in Holders, amount \in Amounts : donate(a, amount)
  \/ tokenReturns
  \/ tokenFails
  \/ LedgerCall /\ UNCHANGED <<vaultVars, feed>>
  \/ vaultTick
  \/ updateFeed

VaultSpec == VaultInit /\ [][VaultNext]_vars
-----------------------------------------------------------------------------
InCall == {calls[i].account : i \in 1 .. Len(calls)}

(* At every moment, inside a token call too, the vault holds at least the  *)
(* positions of all accounts but the one whose call is open; between       *)
(* transactions that is all of them.  An account can therefore never be    *)
(* paid with the tokens of another, even from inside a transfer            *)
(* (PrivateFXRPVault.sol 80-120).                                          *)
OthersBacked ==
  balanceOf[Vault] >= MapThenSumSet(LAMBDA a : positionOf[a], Holders \ InCall)

(* A position grows only while its account has access, at a price that is  *)
(* fresh, and the whole position, valued without rounding, is then worth   *)
(* less than the limit plus one micro-dollar: rounding down does not add   *)
(* up over many small deposits, and no product wrapped around.             *)
DepositWithinLimit ==
  [][\A a \in Holders :
       positionOf'[a] > positionOf[a] /\ Len(calls') > Len(calls) =>
         /\ canAccess(a, VaultPolicy)
         /\ feed.value # 0 /\ feed.timestamp \in (now - MaxAge) .. now
         /\ positionOf'[a] * feed.value * LimitScale
              < (getAccess(a, VaultPolicy).limitUsd + 1)
                  * FxrpUnit * PriceScale]_vars

(* Whatever became of its pass, its policy or the feed, an account can     *)
(* take out its whole position between transactions, and the tokens are    *)
(* there: withdrawals do not depend on continued eligibility (README).     *)
ExitOpen ==
  calls = <<>> =>
    \A a \in Holders : positionOf[a] > 0 =>
      /\ ENABLED withdraw(a, positionOf[a])
      /\ balanceOf[Vault] >= positionOf[a]

(* What was there before the outermost call began, which is what others    *)
(* see: whatever happens inside a transaction is not theirs until its end. *)
committed == IF calls = <<>> THEN snapshot ELSE calls[1].saved

Promise == INSTANCE AtomicVault
  WITH accessPasses <- committed.accessPasses,
       activePolicies <- committed.activePolicies,
       positionOf <- committed.positionOf,
       balanceOf <- committed.balanceOf

(* Deposits and withdrawals are atomic although the token runs in their    *)
(* midst and may call anything: seen from outside, each happens at once    *)
(* and entirely, judged by what was true before it, or leaves no trace,    *)
(* and none hides in another (PrivateFXRPVault.sol 80-120, 130-151).       *)
ImplementsAtomicVault == Promise!AtomicSpec
=============================================================================
