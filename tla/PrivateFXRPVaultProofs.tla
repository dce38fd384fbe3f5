------------------------ MODULE PrivateFXRPVaultProofs ------------------------
(***************************************************************************)
(* Proofs about PrivateFXRPVault for any number of accounts, amounts and   *)
(* prices, and whatever the token does while it is called.                 *)
(***************************************************************************)
EXTENDS PrivateFXRPVault, FiniteSetTheorems, SequenceTheorems, TLAPS

(***************************************************************************)
(* Induction, with a set in the place of a predicate.                      *)
(***************************************************************************)

(* Induction over the naturals, with a set for the predicate: a smallest    *)
(* number that is not in the set cannot exist.                             *)
LEMMA CountUp ==
  ASSUME NEW Good, 0 \in Good, \A n \in Nat : n \in Good => n + 1 \in Good
  PROVE  \A n \in Nat : n \in Good
<1> DEFINE Bad == {n \in Nat : n \notin Good}
           Less == OpToRel(<, Nat)
<1>1. SUFFICES ASSUME Bad # {} PROVE FALSE
  OBVIOUS
<1>2. IsWellFoundedOn(Less, Nat)
  BY NatLessThanWellFounded
<1>3. \A m, k \in Nat : m < k => <<m, k>> \in Less
  BY DEF OpToRel
<1> HIDE DEF Less
<1>4. PICK n \in Bad : \A m \in Bad : <<m, n>> \notin Less
  <2> Bad \subseteq Nat
    OBVIOUS
  <2> HIDE DEF Bad
  <2> QED
    BY <1>1, <1>2, WFMin
<1>5. n \in Nat \ {0} /\ n - 1 \in Nat /\ n - 1 < n
  BY <1>4
<1>6. n - 1 \in Good
  BY <1>3, <1>4, <1>5
<1>7. (n - 1) + 1 \in Good
  BY <1>5, <1>6
<1> QED
  BY <1>4, <1>5, <1>7

(***************************************************************************)
(* The sum of a function over a finite set, as MapThenSumSet computes it:  *)
(* it takes out elements in an order that nobody knows.                    *)
(***************************************************************************)
chosen(s) == CHOOSE x \in s : TRUE

entry(f, g, s) == IF s = {} THEN 0 ELSE f[chosen(s)] + g[s \ {chosen(s)}]

IsTotalOn(f, g, D) == g = [s \in D |-> entry(f, g, s)]

total(f, S) == MapThenSumSet(LAMBDA a : f[a], S)

(* The community module computes the sum with a function over the          *)
(* subsets, each of whose entries takes out one element.                   *)
LEMMA TotalDef ==
  ASSUME NEW f, NEW S
  PROVE  total(f, S) = (CHOOSE g : IsTotalOn(f, g, SUBSET S))[S]
  BY DEF total, MapThenSumSet, MapThenFoldSet, IsTotalOn, entry, chosen

(* The element that is taken out is one of the set.                        *)
LEMMA ChosenIn == \A s : s # {} => chosen(s) \in s
  BY DEF chosen

(* The subsets that have at most n elements.                               *)
UpTo(S, n) == {s \in SUBSET S : Cardinality(s) <= n}

(* There is such a function for a finite set: it is built for the subsets  *)
(* of at most n elements, for one n after the other.                       *)
LEMMA TotalExists ==
  ASSUME NEW S, IsFiniteSet(S), NEW f
  PROVE  \E g : IsTotalOn(f, g, SUBSET S)
<1> DEFINE Good == {n \in Nat : \E g : IsTotalOn(f, g, UpTo(S, n))}
<1>1. \A s \in SUBSET S : /\ IsFiniteSet(s) /\ Cardinality(s) \in Nat
                          /\ Cardinality(s) <= Cardinality(S)
                          /\ s # {} => Cardinality(s) > 0
                          /\ \A x \in s : Cardinality(s \ {x}) = Cardinality(s) - 1
  BY FS_Subset, FS_CardinalityType, FS_RemoveElement, FS_EmptySet
<1>2. 0 \in Good
  <2>1. UpTo(S, 0) = {{}}
    BY <1>1, FS_EmptySet DEF UpTo
  <2>2. IsTotalOn(f, [s \in {{}} |-> 0], {{}})
    BY DEF IsTotalOn, entry
  <2> QED
    BY <2>1, <2>2
<1>3. ASSUME NEW n \in Nat, n \in Good
      PROVE  n + 1 \in Good
  <2>1. PICK g : IsTotalOn(f, g, UpTo(S, n))
    BY <1>3
  <2> DEFINE h == [s \in UpTo(S, n + 1) |-> entry(f, g, s)]
  <2>2. \A s \in UpTo(S, n) : h[s] = g[s]
    <3>1. \A s \in UpTo(S, n) : s \in UpTo(S, n + 1)
      BY <1>1 DEF UpTo
    <3> HIDE DEF UpTo
    <3> QED
      BY <2>1, <3>1 DEF IsTotalOn
  <2>3. \A s \in UpTo(S, n + 1) : entry(f, g, s) = entry(f, h, s)
    <3> TAKE s \in UpTo(S, n + 1)
    <3>1. CASE s = {}
      BY <3>1 DEF entry
    <3>2. CASE s # {}
      <4>1. s \ {chosen(s)} \in UpTo(S, n)
        BY <3>2, ChosenIn, <1>1 DEF UpTo
      <4> HIDE DEF h
      <4> QED
        BY <3>2, <4>1, <2>2 DEF entry
    <3> QED
      BY <3>1, <3>2
  <2>4. IsTotalOn(f, h, UpTo(S, n + 1))
    BY <2>3 DEF IsTotalOn
  <2> QED
    BY <2>4
<1>4. Cardinality(S) \in Nat /\ UpTo(S, Cardinality(S)) = SUBSET S
  BY <1>1, FS_CardinalityType DEF UpTo
<1>5. Cardinality(S) \in Good
  <2> HIDE DEF Good
  <2> QED
    BY <1>2, <1>3, <1>4, CountUp
<1> QED
  BY <1>4, <1>5

(* Induction over the subsets of a finite set: a smallest one that is not  *)
(* in Good cannot exist.                                                   *)
LEMMA SmallestSet ==
  ASSUME NEW S, IsFiniteSet(S), NEW Good,
         \A T \in SUBSET S :
           (\A U \in SUBSET T : U # T => U \in Good) => T \in Good
  PROVE  \A T \in SUBSET S : T \in Good
<1> DEFINE Bad == {T \in SUBSET S : T \notin Good}
<1>1. SUFFICES ASSUME Bad # {} PROVE FALSE
  OBVIOUS
<1>2. Bad \subseteq FiniteSubsetsOf(S)
  BY FS_Subset DEF FiniteSubsetsOf
<1>3. PICK T \in Bad : \A U \in Bad : <<U, T>> \notin StrictSubsetOrdering(S)
  <2> HIDE DEF Bad
  <2> QED
    BY <1>1, <1>2, WFMin, FS_StrictSubsetOrderingWellFounded
<1>4. ASSUME NEW U \in SUBSET T, U # T
      PROVE  U \in Good
  BY <1>3, <1>4 DEF StrictSubsetOrdering
<1> QED
  BY <1>3, <1>4

(* The function that adds up f over each subset of S.                      *)
IsTotal(f, g, S) == IsTotalOn(f, g, SUBSET S)

(* It is the only one, whichever set it was made for.                      *)
LEMMA TotalsAgree ==
  ASSUME NEW S, IsFiniteSet(S), NEW T, S \subseteq T,
         NEW f, NEW g, IsTotal(f, g, S),
         NEW h, IsTotal(f, h, T)
  PROVE  \A U \in SUBSET S : g[U] = h[U]
<1> DEFINE Good == {U \in SUBSET S : g[U] = h[U]}
<1>1. ASSUME NEW U \in SUBSET S, \A V \in SUBSET U : V # U => V \in Good
      PROVE  U \in Good
  <2>1. g[U] = entry(f, g, U) /\ h[U] = entry(f, h, U)
    BY DEF IsTotal, IsTotalOn
  <2>2. CASE U = {}
    BY <2>1, <2>2 DEF entry
  <2>3. CASE U # {}
    <3>1. chosen(U) \in U
      BY <2>3, ChosenIn
    <3>2. U \ {chosen(U)} \in Good
      BY <1>1, <3>1
    <3> QED
      BY <2>1, <2>3, <3>1, <3>2 DEF entry
  <2> QED
    BY <2>2, <2>3
<1> HIDE DEF Good
<1>2. \A U \in SUBSET S : U \in Good
  BY <1>1, SmallestSet
<1> QED
  BY <1>2 DEF Good

(* Equal terms have equal sums.                                            *)
LEMMA TotalCongruence ==
  ASSUME NEW S, IsFiniteSet(S), NEW f, NEW e, \A x \in S : f[x] = e[x]
  PROVE  total(f, S) = total(e, S)
<1> DEFINE g == CHOOSE m : IsTotal(f, m, S)
           h == CHOOSE m : IsTotal(e, m, S)
<1>1. IsTotal(f, g, S) /\ IsTotal(e, h, S)
  BY TotalExists DEF IsTotal
<1> HIDE DEF g, h
<1>2. \A s \in SUBSET S : entry(f, g, s) = entry(e, g, s)
  BY ChosenIn DEF entry
<1>3. IsTotal(e, g, S)
  BY <1>1, <1>2 DEF IsTotal, IsTotalOn
<1>4. g[S] = h[S]
  BY <1>1, <1>3, TotalsAgree
<1> QED
  BY <1>4, TotalDef DEF IsTotal, g, h

(* What the sum computes: one term, and the sum of the others.             *)
LEMMA TotalChosen ==
  ASSUME NEW S, IsFiniteSet(S), NEW f
  PROVE  total(f, S) = IF S = {} THEN 0
                     ELSE f[chosen(S)] + total(f, S \ {chosen(S)})
<1> DEFINE R == S \ {chosen(S)}
           g == CHOOSE m : IsTotal(f, m, S)
           h == CHOOSE m : IsTotal(f, m, R)
<1>1. IsFiniteSet(R) /\ R \subseteq S
  BY FS_Subset
<1>2. IsTotal(f, g, S) /\ IsTotal(f, h, R)
  BY <1>1, TotalExists DEF IsTotal
<1>3. total(f, S) = g[S] /\ total(f, R) = h[R]
  BY TotalDef DEF IsTotal
<1> HIDE DEF g, h
<1>4. h[R] = g[R]
  <2> HIDE DEF R
  <2> QED
    BY <1>1, <1>2, TotalsAgree
<1>5. g[S] = entry(f, g, S)
  BY <1>2 DEF IsTotal, IsTotalOn
<1> QED
  BY <1>3, <1>4, <1>5 DEF entry

(* A sum of naturals is one.                                               *)
LEMMA TotalNat ==
  ASSUME NEW S, IsFiniteSet(S), NEW f, \A x \in S : f[x] \in Nat
  PROVE  total(f, S) \in Nat
<1> DEFINE Good == {U \in SUBSET S : total(f, U) \in Nat}
<1>1. ASSUME NEW U \in SUBSET S, \A V \in SUBSET U : V # U => V \in Good
      PROVE  U \in Good
  <2>1. total(f, U) = IF U = {} THEN 0
                    ELSE f[chosen(U)] + total(f, U \ {chosen(U)})
    BY TotalChosen, FS_Subset
  <2>2. CASE U = {}
    BY <2>1, <2>2
  <2>3. CASE U # {}
    <3>1. chosen(U) \in U /\ U \ {chosen(U)} \in Good
      BY <1>1, <2>3, ChosenIn
    <3> QED
      BY <2>1, <2>3, <3>1
  <2> QED
    BY <2>2, <2>3
<1> HIDE DEF Good
<1>2. \A U \in SUBSET S : U \in Good
  BY <1>1, SmallestSet
<1> QED
  BY <1>2 DEF Good

(* Any term may be taken out, not only the one that is chosen.             *)
LEMMA TotalTakeOut ==
  ASSUME NEW S, IsFiniteSet(S), NEW f, \A x \in S : f[x] \in Nat
  PROVE  \A x \in S : total(f, S) = f[x] + total(f, S \ {x})
<1> DEFINE Good == {U \in SUBSET S :
                      \A x \in U : total(f, U) = f[x] + total(f, U \ {x})}
<1>1. ASSUME NEW U \in SUBSET S, \A V \in SUBSET U : V # U => V \in Good
      PROVE  U \in Good
  <2> SUFFICES ASSUME NEW x \in U
               PROVE  total(f, U) = f[x] + total(f, U \ {x})
    OBVIOUS
  <2> DEFINE c == chosen(U)
  <2>1. c \in U
    BY ChosenIn
  <2>2. total(f, U) = f[c] + total(f, U \ {c})
    BY TotalChosen, FS_Subset, <2>1
  <2> HIDE DEF c
  <2>3. CASE x = c
    BY <2>2, <2>3
  <2>4. CASE x # c
    <3>1. total(f, U \ {c}) = f[x] + total(f, (U \ {c}) \ {x})
      <4>1. U \ {c} \in Good /\ x \in U \ {c}
        BY <1>1, <2>1, <2>4
      <4> QED
        BY <4>1
    <3>2. total(f, U \ {x}) = f[c] + total(f, (U \ {x}) \ {c})
      <4>1. U \ {x} \in Good /\ c \in U \ {x}
        BY <1>1, <2>1, <2>4
      <4> QED
        BY <4>1
    <3>3. (U \ {x}) \ {c} = (U \ {c}) \ {x}
      OBVIOUS
    <3>4. f[x] \in Nat /\ f[c] \in Nat /\ total(f, (U \ {c}) \ {x}) \in Nat
      <4>1. IsFiniteSet((U \ {c}) \ {x}) /\ (U \ {c}) \ {x} \subseteq S
        BY FS_Subset
      <4> QED
        BY <4>1, <2>1, TotalNat
    <3>5. total(f, U \ {x}) = f[c] + total(f, (U \ {c}) \ {x})
      BY <3>2, <3>3
    <3> DEFINE rest == total(f, (U \ {c}) \ {x})
               restX == total(f, U \ {x})
               restC == total(f, U \ {c})
    <3> HIDE DEF rest, restX, restC
    <3>6. restC = f[x] + rest /\ restX = f[c] + rest /\ rest \in Nat
      BY <3>1, <3>4, <3>5 DEF rest, restX, restC
    <3>7. total(f, U) = f[c] + restC
      BY <2>2 DEF restC
    <3>8. total(f, U) = f[x] + restX
      BY <3>4, <3>6, <3>7
    <3> QED
      BY <3>8 DEF restX
  <2> QED
    BY <2>3, <2>4
<1> HIDE DEF Good
<1>2. S \in Good
  BY <1>1, SmallestSet
<1> QED
  BY <1>2 DEF Good

(* A sum of zeros is zero.                                                 *)
LEMMA TotalZero ==
  ASSUME NEW S, IsFiniteSet(S), NEW f, \A x \in S : f[x] = 0
  PROVE  total(f, S) = 0
<1> DEFINE Good == {U \in SUBSET S : total(f, U) = 0}
<1>1. ASSUME NEW U \in SUBSET S, \A V \in SUBSET U : V # U => V \in Good
      PROVE  U \in Good
  <2>1. total(f, U) = IF U = {} THEN 0
                      ELSE f[chosen(U)] + total(f, U \ {chosen(U)})
    BY TotalChosen, FS_Subset
  <2>2. U # {} => chosen(U) \in U /\ U \ {chosen(U)} \in Good
    BY <1>1, ChosenIn
  <2> QED
    BY <2>1, <2>2
<1> HIDE DEF Good
<1>2. \A U \in SUBSET S : U \in Good
  BY <1>1, SmallestSet
<1> QED
  BY <1>2 DEF Good

(* One term of a sum changes.                                              *)
LEMMA TotalUpdate ==
  ASSUME NEW S, IsFiniteSet(S), NEW a \in S,
         NEW f, \A x \in S : f[x] \in Nat,
         NEW e, \A x \in S : e[x] \in Nat,
         \A x \in S \ {a} : f[x] = e[x]
  PROVE  /\ total(f, S) \in Nat /\ total(e, S) \in Nat
         /\ total(f, S) + e[a] = total(e, S) + f[a]
<1>1. IsFiniteSet(S \ {a})
  BY FS_RemoveElement
<1>2. total(f, S \ {a}) = total(e, S \ {a})
  BY <1>1, TotalCongruence
<1>3. total(f, S \ {a}) \in Nat
  BY <1>1, TotalNat
<1>4. total(f, S) = f[a] + total(f, S \ {a})
  BY TotalTakeOut
<1>5. total(e, S) = e[a] + total(e, S \ {a})
  BY TotalTakeOut
<1> DEFINE rest == total(f, S \ {a})
<1> HIDE DEF rest
<1>6. /\ rest \in Nat /\ f[a] \in Nat /\ e[a] \in Nat
      /\ total(f, S) = f[a] + rest
      /\ total(e, S) = e[a] + rest
  BY <1>2, <1>3, <1>4, <1>5 DEF rest
<1> QED
  BY <1>6

(* Larger terms have a larger sum.                                         *)
LEMMA TotalMonotone ==
  ASSUME NEW S, IsFiniteSet(S), NEW f, NEW g,
         \A x \in S : f[x] \in Nat /\ g[x] \in Nat /\ f[x] <= g[x]
  PROVE  total(f, S) <= total(g, S)
<1> DEFINE Good == {U \in SUBSET S : total(f, U) <= total(g, U)}
<1>1. ASSUME NEW U \in SUBSET S, \A V \in SUBSET U : V # U => V \in Good
      PROVE  U \in Good
  <2> DEFINE c == chosen(U)
             F == total(f, U \ {c})
             G == total(g, U \ {c})
  <2>1. IsFiniteSet(U) /\ IsFiniteSet(U \ {c}) /\ U \ {c} \subseteq S
    BY FS_Subset
  <2>2. /\ total(f, U) = IF U = {} THEN 0 ELSE f[c] + F
        /\ total(g, U) = IF U = {} THEN 0 ELSE g[c] + G
    BY <2>1, TotalChosen
  <2>3. F \in Nat /\ G \in Nat
    BY <2>1, TotalNat
  <2>4. U # {} => c \in U /\ F <= G
    BY <1>1, ChosenIn
  <2> HIDE DEF c, F, G
  <2>5. total(f, U) <= total(g, U)
    BY <2>2, <2>3, <2>4
  <2> QED
    BY <2>5
<1> HIDE DEF Good
<1>2. S \in Good
  BY <1>1, SmallestSet
<1> QED
  BY <1>2 DEF Good

-----------------------------------------------------------------------------
(* The vault's tokens cover every position.                                *)
covers(balances, positions) == balances[Vault] >= total(positions, Holders)

(* What an open call has done so far and would restore: the vault was      *)
(* covered when it began, the call's own position is the only one that     *)
(* differs, by the amount whose transfer is still to come, and the vault's *)
(* balance can only have grown by donations.                               *)
OpenCall(c) ==
  /\ covers(c.saved.balanceOf, c.saved.positionOf)
  /\ balanceOf[Vault] >= c.saved.balanceOf[Vault]
  /\ \A a \in Holders \ {c.account} : positionOf[a] = c.saved.positionOf[a]
  /\ positionOf[c.account] =
       IF c.op = "deposit" THEN c.saved.positionOf[c.account] + c.amount
                           ELSE c.saved.positionOf[c.account] - c.amount

(* The reentrancy flag is set exactly while a vault call is open, and      *)
(* there is never a second one.                                            *)
FlagMatchesCall ==
  /\ entered = 1 <=> calls = <<>>
  /\ Len(calls) <= 1

(* The inductive invariant.                                                *)
VInv ==
  /\ VaultTypeOK
  /\ FlagMatchesCall
  /\ calls = <<>> => covers(balanceOf, positionOf)
  /\ calls # <<>> => OpenCall(calls[1])

(* A pass that the ledger grants keeps its types.                          *)
LEMMA LedgerTypes ==
  ASSUME VaultTypeOK, LedgerCall
  PROVE  /\ accessPasses' \in [Holders -> [PolicyIds -> Passes \cup {NoPass}]]
         /\ activePolicies' \subseteq PolicyIds
         /\ now' = now
<1>1. CASE \E a \in Holders, p \in PolicyIds, pass \in Passes : Grant(a, p, pass)
  <2>1. PICK a \in Holders, p \in PolicyIds, pass \in Passes : Grant(a, p, pass)
    BY <1>1
  <2>2. accessPasses' = [accessPasses EXCEPT ![a][p] = pass]
    BY <2>1 DEF Grant
  <2>3. accessPasses' \in [Holders -> [PolicyIds -> Passes \cup {NoPass}]]
    BY <2>2 DEF VaultTypeOK
  <2> QED
    BY <2>1, <2>3 DEF VaultTypeOK, Grant
<1>2. CASE \E p \in PolicyIds, active \in BOOLEAN : SetActive(p, active)
  BY <1>2 DEF VaultTypeOK, SetActive
<1> QED
  BY <1>1, <1>2 DEF LedgerCall

(* The call stack: at most one frame, which is the first and the top.      *)
LEMMA StackOfOne ==
  ASSUME VaultTypeOK, FlagMatchesCall
  PROVE  /\ calls # <<>> =>
              /\ Len(calls) = 1 /\ top = calls[1] /\ top \in Frames
              /\ SubSeq(calls, 1, Len(calls) - 1) = <<>>
         /\ calls = <<>> => Len(calls) = 0
<1>1. calls \in Seq(Frames)
  BY DEF VaultTypeOK
<1>2. CASE calls # <<>>
  <2>1. Len(calls) = 1
    <3>1. Len(calls) \in Nat \ {0}
      BY <1>1, <1>2, EmptySeq
    <3>2. Len(calls) <= 1
      BY DEF FlagMatchesCall
    <3> DEFINE n == Len(calls)
    <3> HIDE DEF n
    <3>3. n \in Nat \ {0} /\ n <= 1 => n = 1
      OBVIOUS
    <3> QED
      BY <3>1, <3>2, <3>3 DEF n
  <2>2. SubSeq(calls, 1, Len(calls) - 1) = <<>>
    BY <2>1
  <2>3. calls[1] \in Frames
    BY <1>1, <2>1, ElementOfSeq
  <2> QED
    BY <1>2, <2>1, <2>2, <2>3 DEF top
<1> QED
  BY <1>2

(* The new vault.                                                          *)
LEMMA VInvInit == VaultInit => VInv
<1> SUFFICES ASSUME VaultInit PROVE VInv
  OBVIOUS
<1> USE VaultAssumption
<1>1. calls = <<>> /\ calls \in Seq(Frames) /\ Len(calls) = 0
  BY EmptySeq DEF VaultInit
<1>2. VaultTypeOK
  <2>1. accessPasses \in [Holders -> [PolicyIds -> Passes \cup {NoPass}]]
    BY DEF VaultInit, LedgerInit
  <2>2. feed \in [value: Prices, timestamp: Nat]
    BY DEF VaultInit
  <2>3. positionOf \in [Holders -> Nat] /\ entered \in {1, 2}
    BY DEF VaultInit
  <2>4. balanceOf \in [Holders \cup {Vault} -> Nat]
    BY DEF VaultInit
  <2>5. activePolicies \subseteq PolicyIds /\ now \in Nat
    BY DEF VaultInit, LedgerInit
  <2> QED
    BY <1>1, <2>1, <2>2, <2>3, <2>4, <2>5 DEF VaultTypeOK
<1>3. FlagMatchesCall
  BY <1>1 DEF FlagMatchesCall, VaultInit
<1>4. covers(balanceOf, positionOf)
  <2>1. total(positionOf, Holders) = 0
    BY TotalZero DEF VaultInit
  <2>2. balanceOf[Vault] = 0
    BY DEF VaultInit
  <2> QED
    BY <2>1, <2>2 DEF covers
<1> QED
  BY <1>1, <1>2, <1>3, <1>4 DEF VInv

(* Both operations of the vault begin their call in the same way.          *)
LEMMA CallBegins ==
  ASSUME VInv, nonReentrant,
         NEW op \in {"deposit", "withdraw"}, NEW a \in Holders,
         NEW amount \in Amounts, callToken(op, a, amount),
         positionOf' = [positionOf EXCEPT ![a] =
                          IF op = "deposit" THEN @ + amount ELSE @ - amount],
         op = "withdraw" => amount <= positionOf[a]
  PROVE  VInv'
<1> USE VaultAssumption
<1> DEFINE frame == [op |-> op, account |-> a, amount |-> amount,
                     saved |-> snapshot]
<1>1. VaultTypeOK /\ calls = <<>> /\ covers(balanceOf, positionOf)
  BY DEF VInv, FlagMatchesCall, nonReentrant
<1>2. snapshot \in
        [accessPasses: [Holders -> [PolicyIds -> Passes \cup {NoPass}]],
         activePolicies: SUBSET PolicyIds,
         positionOf: [Holders -> Nat],
         balanceOf: [Holders \cup {Vault} -> Nat]]
  BY <1>1 DEF VaultTypeOK, snapshot
<1>3. frame \in Frames
  BY <1>2 DEF Frames
<1>4. /\ frame.op = op /\ frame.account = a /\ frame.amount = amount
      /\ frame.saved.positionOf = positionOf
      /\ frame.saved.balanceOf = balanceOf
  BY DEF snapshot
<1>5. calls' = Append(calls, frame) /\ entered' = 2 /\ balanceOf' = balanceOf
  BY DEF callToken
<1> HIDE DEF frame
<1>6. /\ calls' \in Seq(Frames) /\ calls' # <<>>
      /\ Len(calls') = 1 /\ calls'[1] = frame
  <2>1. Append(<<>>, frame) = <<frame>>
    OBVIOUS
  <2>2. calls' = <<frame>>
    BY <1>1, <1>5, <2>1
  <2> QED
    BY <1>3, <2>2
<1>7. positionOf' \in [Holders -> Nat]
  BY <1>1 DEF VaultTypeOK
<1>8. VaultTypeOK'
  BY <1>1, <1>5, <1>6, <1>7 DEF VaultTypeOK, callToken, ledgerVars
<1>9. FlagMatchesCall'
  BY <1>5, <1>6 DEF FlagMatchesCall
<1>10. OpenCall(calls[1])'
  <2>1. balanceOf'[Vault] >= balanceOf[Vault]
    BY <1>1, <1>5 DEF VaultTypeOK
  <2>2. \A x \in Holders \ {a} : positionOf'[x] = positionOf[x]
    BY <1>1 DEF VaultTypeOK
  <2>3. positionOf'[a] = IF op = "deposit" THEN positionOf[a] + amount
                                           ELSE positionOf[a] - amount
    BY <1>1 DEF VaultTypeOK
  <2> QED
    BY <1>1, <1>4, <1>6, <2>1, <2>2, <2>3 DEF OpenCall
<1> QED
  BY <1>6, <1>8, <1>9, <1>10 DEF VInv

(* Tokens move between an account and the vault.                           *)
LEMMA MoveProperties ==
  ASSUME VaultTypeOK, NEW a \in Holders, NEW amount \in Amounts
  PROVE  /\ move(a, Vault, amount) =>
              /\ balanceOf' \in [Holders \cup {Vault} -> Nat]
              /\ balanceOf'[Vault] = balanceOf[Vault] + amount
         /\ move(Vault, a, amount) =>
              /\ balanceOf' \in [Holders \cup {Vault} -> Nat]
              /\ balanceOf'[Vault] = balanceOf[Vault] - amount
<1> USE VaultAssumption
<1>1. balanceOf \in [Holders \cup {Vault} -> Nat] /\ amount \in Nat
  BY DEF VaultTypeOK
<1>2. ASSUME NEW from \in Holders \cup {Vault}, NEW to \in Holders \cup {Vault},
             from # to, move(from, to, amount)
      PROVE  /\ balanceOf' \in [Holders \cup {Vault} -> Nat]
             /\ balanceOf'[to] = balanceOf[to] + amount
             /\ balanceOf'[from] = balanceOf[from] - amount
  <2>1. /\ balanceOf[from] \in Nat /\ balanceOf[to] \in Nat
        /\ balanceOf[from] - amount \in Nat /\ balanceOf[to] + amount \in Nat
    BY <1>1, <1>2 DEF move
  <2>2. balanceOf' = [balanceOf EXCEPT ![from] = balanceOf[from] - amount,
                                       ![to] = balanceOf[to] + amount]
    BY <1>1, <1>2 DEF move
  <2> QED
    BY <1>1, <1>2, <2>1, <2>2
<1>3. a # Vault
  OBVIOUS
<1> QED
  BY <1>2, <1>3

(* Tokens that come from outside only add to the balance.                  *)
LEMMA DonateStep ==
  ASSUME VInv, NEW a \in Holders, NEW amount \in Amounts, donate(a, amount)
  PROVE  VInv'
<1> USE VaultAssumption
<1>1. VaultTypeOK /\ FlagMatchesCall
  BY DEF VInv
<1>2. /\ balanceOf' \in [Holders \cup {Vault} -> Nat]
      /\ balanceOf'[Vault] = balanceOf[Vault] + amount
  BY <1>1, MoveProperties DEF donate
<1>3. /\ UNCHANGED <<accessPasses, activePolicies, now, positionOf, entered,
                     feed, calls>>
  BY DEF donate, ledgerVars
<1>4. VaultTypeOK'
  BY <1>1, <1>2, <1>3 DEF VaultTypeOK
<1>5. FlagMatchesCall'
  BY <1>1, <1>3 DEF FlagMatchesCall
<1>6. balanceOf[Vault] \in Nat /\ balanceOf'[Vault] \in Nat
        /\ balanceOf'[Vault] >= balanceOf[Vault]
  BY <1>1, <1>2 DEF VaultTypeOK
<1>7. ASSUME calls = <<>>
      PROVE  covers(balanceOf, positionOf)'
  <2>1. total(positionOf, Holders) \in Nat
    BY <1>1, TotalNat DEF VaultTypeOK
  <2>2. balanceOf[Vault] >= total(positionOf, Holders)
    BY <1>7 DEF VInv, covers
  <2>3. total(positionOf, Holders)' = total(positionOf, Holders)
    BY <1>3
  <2> QED
    BY <1>6, <2>1, <2>2, <2>3 DEF covers
<1>8. ASSUME calls # <<>>
      PROVE  OpenCall(calls[1])'
  <2>1. OpenCall(calls[1])
    BY <1>8 DEF VInv
  <2>2. calls[1].saved.balanceOf[Vault] \in Nat
    BY <1>1, <1>8, StackOfOne DEF Frames
  <2> QED
    BY <1>3, <1>6, <2>1, <2>2 DEF OpenCall
<1> QED
  BY <1>3, <1>4, <1>5, <1>7, <1>8 DEF VInv

(* Once the tokens have moved the vault is covered: the position changed   *)
(* by as much when the call began.                                         *)
LEMMA TokenReturnsStep == VInv /\ tokenReturns => VInv'
<1> SUFFICES ASSUME VInv, tokenReturns PROVE VInv'
  OBVIOUS
<1> USE VaultAssumption
<1> DEFINE c == calls[1]
           a == c.account
           before == c.saved.positionOf
<1>1. VaultTypeOK /\ FlagMatchesCall /\ calls # <<>> /\ OpenCall(c)
  BY DEF VInv, tokenReturns
<1>2. c \in Frames /\ top = c /\ SubSeq(calls, 1, Len(calls) - 1) = <<>>
  BY <1>1, StackOfOne
<1>3. /\ c.op \in {"deposit", "withdraw"} /\ a \in Holders
      /\ c.amount \in Amounts /\ c.amount \in Nat
      /\ before \in [Holders -> Nat] /\ c.saved.balanceOf[Vault] \in Nat
  BY <1>2 DEF Frames
<1>4. /\ calls' = <<>> /\ calls' \in Seq(Frames) /\ Len(calls') = 0
      /\ entered' = 1
      /\ UNCHANGED <<accessPasses, activePolicies, now, positionOf, feed>>
  BY <1>2, EmptySeq DEF tokenReturns, pop, ledgerVars
<1>5. /\ balanceOf' \in [Holders \cup {Vault} -> Nat]
      /\ balanceOf'[Vault] = IF c.op = "deposit"
                               THEN balanceOf[Vault] + c.amount
                               ELSE balanceOf[Vault] - c.amount
  <2> HIDE DEF c, a
  <2>1. CASE c.op = "deposit"
    BY <2>1, <1>1, <1>2, <1>3, MoveProperties DEF tokenReturns, a
  <2>2. CASE c.op = "withdraw"
    BY <2>2, <1>1, <1>2, <1>3, MoveProperties DEF tokenReturns, a
  <2> QED
    BY <1>3, <2>1, <2>2
<1>6. VaultTypeOK'
  BY <1>1, <1>4, <1>5 DEF VaultTypeOK
<1>7. FlagMatchesCall'
  BY <1>4 DEF FlagMatchesCall
<1>8. covers(balanceOf, positionOf)'
  <2>1. \A x \in Holders \ {a} : before[x] = positionOf[x]
    BY <1>1 DEF OpenCall
  <2>2. /\ total(before, Holders) \in Nat /\ total(positionOf, Holders) \in Nat
        /\ total(before, Holders) + positionOf[a]
              = total(positionOf, Holders) + before[a]
    <3>1. \A x \in Holders : before[x] \in Nat /\ positionOf[x] \in Nat
      BY <1>1, <1>3 DEF VaultTypeOK
    <3> HIDE DEF a, before
    <3> QED
      BY <1>3, <2>1, <3>1, TotalUpdate
  <2>3. /\ c.saved.balanceOf[Vault] >= total(before, Holders)
        /\ balanceOf[Vault] >= c.saved.balanceOf[Vault]
        /\ positionOf[a] = IF c.op = "deposit" THEN before[a] + c.amount
                                               ELSE before[a] - c.amount
    BY <1>1 DEF OpenCall, covers
  <2>4. /\ balanceOf[Vault] \in Nat /\ before[a] \in Nat
        /\ positionOf[a] \in Nat
    BY <1>1, <1>3 DEF VaultTypeOK
  <2> DEFINE old == total(before, Holders)
             new == total(positionOf, Holders)
             held == c.saved.balanceOf[Vault]
  <2>5. new' = new
    BY <1>4
  <2>6. balanceOf'[Vault] >= new
    <3> HIDE DEF c, a, before, old, new
    <3>1. old \in Nat /\ new \in Nat /\ old + positionOf[a] = new + before[a]
            /\ held >= old
      BY <2>2, <2>3 DEF old, new
    <3>2. CASE c.op = "deposit"
      BY <1>3, <1>5, <2>3, <2>4, <3>1, <3>2
    <3>3. CASE c.op = "withdraw"
      BY <1>3, <1>5, <2>3, <2>4, <3>1, <3>3
    <3> QED
      BY <1>3, <3>2, <3>3
  <2> QED
    BY <2>5, <2>6 DEF covers
<1> QED
  BY <1>4, <1>6, <1>7, <1>8 DEF VInv

(* A token that fails or reverts leaves the ledger as before the call.     *)
LEMMA TokenFailsStep == VInv /\ tokenFails => VInv'
<1> SUFFICES ASSUME VInv, tokenFails PROVE VInv'
  OBVIOUS
<1> DEFINE c == calls[1]
<1>1. VaultTypeOK /\ FlagMatchesCall /\ calls # <<>> /\ OpenCall(c)
  BY DEF VInv, tokenFails
<1>2. c \in Frames /\ top = c /\ SubSeq(calls, 1, Len(calls) - 1) = <<>>
  BY <1>1, StackOfOne
<1>3. /\ calls' = <<>> /\ calls' \in Seq(Frames) /\ Len(calls') = 0
      /\ entered' = 1
      /\ accessPasses' = c.saved.accessPasses
      /\ activePolicies' = c.saved.activePolicies
      /\ positionOf' = c.saved.positionOf
      /\ balanceOf' = c.saved.balanceOf
      /\ UNCHANGED <<now, feed>>
  BY <1>2, EmptySeq DEF tokenFails, pop
<1>4. VaultTypeOK'
  BY <1>1, <1>2, <1>3 DEF VaultTypeOK, Frames
<1>5. FlagMatchesCall'
  BY <1>3 DEF FlagMatchesCall
<1>6. covers(balanceOf, positionOf)'
  BY <1>1, <1>3 DEF OpenCall, covers
<1> QED
  BY <1>3, <1>4, <1>5, <1>6 DEF VInv

(* Steps of others, which touch neither positions nor balances.            *)
LEMMA OthersStep ==
  ASSUME VInv, VaultTypeOK', UNCHANGED <<positionOf, entered, balanceOf, calls>>
  PROVE  VInv'
  BY DEF VInv, FlagMatchesCall, OpenCall, covers

(* Every call, return and failure keeps the invariant.                     *)
LEMMA VInvStep == VInv /\ [VaultNext]_vars => VInv'
<1> SUFFICES ASSUME VInv, [VaultNext]_vars PROVE VInv'
  OBVIOUS
<1> USE VaultAssumption
<1>1. VaultTypeOK
  BY DEF VInv
<1>2. ASSUME NEW a \in Holders, NEW amount \in Amounts, deposit(a, amount)
      PROVE  VInv'
  <2>1. positionOf' = [positionOf EXCEPT ![a] = positionOf[a] + amount]
    BY <1>2 DEF deposit
  <2>2. nonReentrant /\ callToken("deposit", a, amount)
    BY <1>2 DEF deposit
  <2> QED
    BY <2>1, <2>2, CallBegins
<1>3. ASSUME NEW a \in Holders, NEW amount \in Amounts, withdraw(a, amount)
      PROVE  VInv'
  <2>1. positionOf' = [positionOf EXCEPT ![a] = positionOf[a] - amount]
    BY <1>3 DEF withdraw
  <2>2. /\ nonReentrant /\ amount <= positionOf[a]
        /\ callToken("withdraw", a, amount)
    BY <1>3 DEF withdraw, mayWithdraw
  <2> QED
    BY <2>1, <2>2, CallBegins
<1>4. ASSUME NEW a \in Holders, NEW amount \in Amounts, donate(a, amount)
      PROVE  VInv'
  BY <1>4, DonateStep
<1>5. CASE tokenReturns
  BY <1>5, TokenReturnsStep
<1>6. CASE tokenFails
  BY <1>6, TokenFailsStep
<1>7. CASE LedgerCall /\ UNCHANGED <<vaultVars, feed>>
  <2>1. VaultTypeOK'
    BY <1>1, <1>7, LedgerTypes DEF VaultTypeOK, vaultVars
  <2> QED
    BY <1>7, <2>1, OthersStep DEF vaultVars
<1>8. CASE vaultTick
  <2>1. VaultTypeOK'
    BY <1>1, <1>8 DEF VaultTypeOK, vaultTick, Tick, vaultVars
  <2> QED
    BY <1>8, <2>1, OthersStep DEF vaultTick, vaultVars
<1>9. CASE updateFeed
  <2>1. feed' \in [value: Prices, timestamp: Nat]
    BY <1>1, <1>9 DEF VaultTypeOK, updateFeed
  <2>2. VaultTypeOK'
    BY <1>1, <1>9, <2>1 DEF VaultTypeOK, updateFeed, vaultVars, ledgerVars
  <2> QED
    BY <1>9, <2>2, OthersStep DEF updateFeed, vaultVars
<1>10. CASE UNCHANGED vars
  <2>1. VaultTypeOK'
    BY <1>1, <1>10 DEF VaultTypeOK, vars, vaultVars, ledgerVars
  <2> QED
    BY <1>10, <2>1, OthersStep DEF vars, vaultVars
<1> QED
  BY <1>2, <1>3, <1>4, <1>5, <1>6, <1>7, <1>8, <1>9, <1>10 DEF VaultNext

(* The invariant holds always.                                             *)
LEMMA VaultInvariant == VaultSpec => []VInv
  BY VInvInit, VInvStep, PTL DEF VaultSpec
-----------------------------------------------------------------------------
(* The types of balances, limits, prices and open calls                    *)
(* (PrivateFXRPVault.sol 22-43).                                           *)
THEOREM VaultTypeCorrect == VaultSpec => []VaultTypeOK
<1>1. VInv => VaultTypeOK
  BY DEF VInv
<1> QED
  BY VaultInvariant, <1>1, PTL

(* The vault is solvent at every moment, inside a token call too: for any  *)
(* number of accounts it holds at least the positions of all of them but   *)
(* the one whose call is open.                                             *)
THEOREM OthersAreBacked == VaultSpec => []OthersBacked
<1>1. ASSUME VInv PROVE OthersBacked
  <2> USE VaultAssumption
  <2>1. VaultTypeOK /\ FlagMatchesCall
    BY <1>1 DEF VInv
  <2>2. OthersBacked <=> balanceOf[Vault] >= total(positionOf, Holders \ InCall)
    BY DEF OthersBacked, total
  <2>3. CASE calls = <<>>
    <3>1. InCall = {}
      BY <2>3, <2>1, StackOfOne DEF InCall
    <3>2. Holders \ InCall = Holders
      BY <3>1
    <3> QED
      BY <1>1, <2>2, <2>3, <3>2 DEF VInv, covers
  <2>4. CASE calls # <<>>
    <3> DEFINE c == calls[1]
               a == c.account
               before == c.saved.positionOf
               rest == Holders \ {a}
    <3>1. Len(calls) = 1 /\ c \in Frames
      BY <2>1, <2>4, StackOfOne
    <3>2. InCall = {a}
      BY <3>1 DEF InCall
    <3>3. /\ a \in Holders /\ before \in [Holders -> Nat]
          /\ c.saved.balanceOf[Vault] \in Nat
      BY <3>1 DEF Frames
    <3>4. OpenCall(c)
      BY <1>1, <2>4 DEF VInv
    <3>5. total(positionOf, rest) = total(before, rest)
      <4>1. \A x \in rest : positionOf[x] = before[x]
        BY <3>4 DEF OpenCall
      <4>2. IsFiniteSet(rest)
        BY FS_RemoveElement
      <4> HIDE DEF rest, before
      <4> QED
        BY <4>1, <4>2, TotalCongruence
    <3>6. /\ total(before, Holders) = before[a] + total(before, rest)
          /\ total(before, rest) \in Nat /\ before[a] \in Nat
      <4>1. \A x \in Holders : before[x] \in Nat
        BY <3>3
      <4>2. IsFiniteSet(rest) /\ rest \subseteq Holders
        BY FS_RemoveElement
      <4> HIDE DEF before, a
      <4>3. total(before, Holders) = before[a] + total(before, Holders \ {a})
        BY <3>3, <4>1, TotalTakeOut
      <4>4. total(before, rest) \in Nat
        <5> HIDE DEF rest
        <5> QED
          BY <4>1, <4>2, TotalNat
      <4> QED
        BY <3>3, <4>1, <4>3, <4>4
    <3>7. /\ c.saved.balanceOf[Vault] >= total(before, Holders)
          /\ balanceOf[Vault] >= c.saved.balanceOf[Vault]
          /\ balanceOf[Vault] \in Nat
      BY <2>1, <3>4 DEF OpenCall, covers, VaultTypeOK
    <3>8. balanceOf[Vault] >= total(before, rest)
      <4> HIDE DEF before, rest, a, c
      <4> QED
        BY <3>3, <3>6, <3>7
    <3> QED
      BY <2>2, <3>2, <3>5, <3>8
  <2> QED
    BY <2>3, <2>4
<1> QED
  BY VaultInvariant, <1>1, PTL

(* What ExitOpen asks of withdraw, guard by guard: between transactions an *)
(* account meets every condition of withdrawing its whole position,        *)
(* whatever became of its pass, its policy or the feed, and the vault has  *)
(* the tokens to pay for it.                                               *)
ExitGuardsHold ==
  calls = <<>> =>
    \A a \in Holders :
      /\ nonReentrant
      /\ mayWithdraw(a, positionOf[a])
      /\ balanceOf[Vault] >= positionOf[a]

(* Between calls every holder could withdraw everything: nothing in        *)
(* withdraw would refuse it and the vault has the tokens                   *)
(* (PrivateFXRPVault.sol withdraw).                                        *)
THEOREM ExitIsPaid == VaultSpec => []ExitGuardsHold
<1>1. ASSUME VInv PROVE ExitGuardsHold
  <2> USE VaultAssumption
  <2> SUFFICES ASSUME calls = <<>>, NEW a \in Holders
               PROVE  /\ nonReentrant
                      /\ mayWithdraw(a, positionOf[a])
                      /\ balanceOf[Vault] >= positionOf[a]
    BY DEF ExitGuardsHold
  <2>1. positionOf \in [Holders -> Nat] /\ balanceOf[Vault] \in Nat
    BY <1>1 DEF VInv, VaultTypeOK
  <2>2. balanceOf[Vault] >= total(positionOf, Holders)
    BY <1>1 DEF VInv, covers
  <2>3. total(positionOf, Holders)
          = positionOf[a] + total(positionOf, Holders \ {a})
    BY <2>1, TotalTakeOut
  <2>4. total(positionOf, Holders \ {a}) \in Nat
    BY <2>1, FS_RemoveElement, TotalNat
  <2>5. balanceOf[Vault] >= positionOf[a]
    BY <2>1, <2>2, <2>3, <2>4
  <2>6. entered = 1
    BY <1>1 DEF VInv, FlagMatchesCall
  <2>7. positionOf[a] <= positionOf[a]
    BY <2>1
  <2> QED
    BY <2>5, <2>6, <2>7 DEF nonReentrant, mayWithdraw
<1> QED
  BY VaultInvariant, <1>1, PTL

(* What two divisions that round down can hide.                            *)
LEMMA RoundedDown ==
  ASSUME NEW x \in Nat, NEW u \in Nat \ {0}, NEW s \in Nat \ {0},
         NEW l \in Nat, (x \div u) \div s <= l
  PROVE  x < (l + 1) * u * s
<1> DEFINE q == x \div u
<1>1. q \in Nat /\ x < (q + 1) * u
  OBVIOUS
<1> HIDE DEF q
<1>2. q < (l + 1) * s
  <2>1. q \div s \in Nat /\ q < (q \div s + 1) * s /\ q \div s <= l
    BY <1>1 DEF q
  <2>2. (q \div s + 1) * s <= (l + 1) * s
    <3> DEFINE d == q \div s
    <3> HIDE DEF d
    <3>1. d \in Nat /\ d <= l
      BY <2>1 DEF d
    <3>2. (d + 1) * s <= (l + 1) * s
      BY <3>1
    <3> QED
      BY <3>2 DEF d
  <2> QED
    BY <1>1, <2>1, <2>2
<1>3. (q + 1) * u <= ((l + 1) * s) * u
  <2> DEFINE m == (l + 1) * s
  <2>1. m \in Nat
    OBVIOUS
  <2>2. q + 1 <= m
    BY <1>1, <1>2
  <2> HIDE DEF m
  <2>3. (q + 1) * u <= m * u
    BY <1>1, <2>1, <2>2
  <2> QED
    BY <2>3 DEF m
<1>4. ((l + 1) * s) * u = (l + 1) * u * s
  OBVIOUS
<1> QED
  BY <1>1, <1>3, <1>4

(* What a deposit may be made on, given the state s of before it.          *)
MayDeposit(s, account, amount) ==
  LET nextPosition == s.positionOf[account] + amount
      pass == s.accessPasses[account][VaultPolicy]
  IN  /\ VaultPolicy \in s.activePolicies /\ pass.expiresAt > now
      /\ feed.value # 0 /\ feed.timestamp \in (now - MaxAge) .. now
      /\ nextPosition * feed.value * LimitScale
           < (pass.limitUsd + 1) * FxrpUnit * PriceScale

(* It is what deposit checks: rounding costs less than one micro-dollar.   *)
LEMMA DepositChecks ==
  ASSUME VaultTypeOK, NEW a \in Holders, NEW amount \in Amounts,
         deposit(a, amount)
  PROVE  MayDeposit(snapshot, a, amount)
<1> USE VaultAssumption
<1>1. /\ VaultPolicy \in activePolicies
      /\ accessPasses[a][VaultPolicy].expiresAt > now
      /\ currentPriceReturns
      /\ _usdValue(positionOf[a] + amount, feed.value)
           <= accessPasses[a][VaultPolicy].limitUsd
  BY DEF deposit, canAccess, getAccess
<1>2. accessPasses[a][VaultPolicy].limitUsd \in Nat
  BY PassesAssumption DEF VaultTypeOK, NoPass
<1>3. /\ feed.value \in Nat /\ feed.timestamp \in Nat /\ now \in Nat
      /\ positionOf[a] + amount \in Nat
  <2>1. positionOf[a] \in Nat /\ amount \in Nat
    BY DEF VaultTypeOK
  <2>2. feed.value \in Nat /\ feed.timestamp \in Nat /\ now \in Nat
    BY DEF VaultTypeOK
  <2> QED
    BY <2>1, <2>2
<1> DEFINE x == (positionOf[a] + amount) * feed.value * LimitScale
           l == accessPasses[a][VaultPolicy].limitUsd
<1>4. x \in Nat
  BY <1>3
<1>5. (x \div FxrpUnit) \div PriceScale <= l
  BY <1>1 DEF _usdValue
<1>6. x < (l + 1) * FxrpUnit * PriceScale
  <2>1. l \in Nat
    BY <1>2
  <2> HIDE DEF x, l
  <2> QED
    BY <1>4, <1>5, <2>1, RoundedDown
<1>7. feed.value # 0 /\ feed.timestamp \in (now - MaxAge) .. now
  BY <1>1, <1>3 DEF currentPriceReturns
<1> QED
  BY <1>1, <1>6, <1>7 DEF MayDeposit, snapshot

(* A position grows only within the limit of a live pass, at a fresh       *)
(* price, whatever was rounded off and however often.                      *)
THEOREM DepositsStayWithinLimit == VaultSpec => DepositWithinLimit
<1> DEFINE Grows(a) == positionOf'[a] > positionOf[a] /\ Len(calls') > Len(calls)
           Within(a) ==
             /\ canAccess(a, VaultPolicy)
             /\ feed.value # 0 /\ feed.timestamp \in (now - MaxAge) .. now
             /\ positionOf'[a] * feed.value * LimitScale
                  < (getAccess(a, VaultPolicy).limitUsd + 1)
                      * FxrpUnit * PriceScale
<1>1. ASSUME VInv, VaultNext, NEW a \in Holders, Grows(a)
      PROVE  Within(a)
  <2> USE VaultAssumption
  <2>1. VaultTypeOK /\ FlagMatchesCall /\ positionOf \in [Holders -> Nat]
    BY <1>1 DEF VInv, VaultTypeOK
  <2>2. ASSUME NEW b \in Holders, NEW amount \in Amounts, deposit(b, amount)
        PROVE  Within(a)
    <3>1. positionOf' = [positionOf EXCEPT ![b] = positionOf[b] + amount]
      BY <2>2 DEF deposit
    <3>2. a = b
      BY <1>1, <2>1, <3>1
    <3>3. positionOf'[a] = positionOf[a] + amount /\ positionOf'[a] \in Nat
      BY <2>1, <3>1, <3>2
    <3>4. MayDeposit(snapshot, a, amount)
      BY <2>1, <2>2, <3>2, DepositChecks
    <3>5. canAccess(a, VaultPolicy)
      BY <3>4 DEF MayDeposit, snapshot, canAccess, getAccess
    <3> QED
      BY <3>3, <3>4, <3>5 DEF MayDeposit, snapshot, getAccess
  <2>3. ASSUME NEW b \in Holders, NEW amount \in Amounts, withdraw(b, amount)
        PROVE  FALSE
    BY <1>1, <2>1, <2>3 DEF withdraw
  <2>4. CASE tokenFails
    <3>1. calls # <<>>
      BY <2>4 DEF tokenFails
    <3>2. calls' = <<>> /\ Len(calls) = 1
      BY <2>1, <2>4, <3>1, StackOfOne DEF tokenFails, pop
    <3>3. Len(calls') = 0
      BY <3>2
    <3> QED
      BY <1>1, <3>2, <3>3
  <2>5. ASSUME UNCHANGED positionOf
        PROVE  FALSE
    BY <1>1, <2>1, <2>5
  <2>6. CASE \/ \E b \in Holders, amount \in Amounts : donate(b, amount)
             \/ tokenReturns
             \/ LedgerCall /\ UNCHANGED <<vaultVars, feed>>
             \/ vaultTick
             \/ updateFeed
    BY <2>5, <2>6 DEF donate, tokenReturns, vaultTick, updateFeed, vaultVars
  <2> QED
    BY <1>1, <2>2, <2>3, <2>4, <2>6 DEF VaultNext
<1>2. VInv /\ [VaultNext]_vars => [\A a \in Holders : Grows(a) => Within(a)]_vars
  <2> HIDE DEF Grows, Within
  <2> QED
    BY <1>1
<1>3. VaultSpec => [][\A a \in Holders : Grows(a) => Within(a)]_vars
  <2> HIDE DEF Grows, Within
  <2> QED
    BY <1>2, VaultInvariant, PTL DEF VaultSpec
<1> QED
  BY <1>3 DEF DepositWithinLimit
-----------------------------------------------------------------------------
(***************************************************************************)
(* The vault implements AtomicVault.                                       *)
(***************************************************************************)
Tokens == Holders \cup {Vault}

(* Since they were `old`, passes gave way to larger nonces only.           *)
PassesMoved(old) ==
  \A a \in Holders, p \in PolicyIds :
    accessPasses[a][p] # old[a][p] =>
      accessPasses[a][p].expiresAt > now /\ accessPasses[a][p].nonce > old[a][p].nonce

(* Since they were `old`, tokens went from accounts to the vault only.     *)
TokensGiven(old) ==
  /\ \A a \in Holders : balanceOf[a] <= old[a]
  /\ total(balanceOf, Tokens) = total(old, Tokens)

(* What an open call has to show when it returns: it was allowed before it *)
(* began, it is the only one since, and the rest is registry calls and     *)
(* gifts.                                                                  *)
Accounted(c) ==
  /\ c.amount # 0
  /\ c.op = "deposit" => MayDeposit(c.saved, c.account, c.amount)
  /\ c.op = "withdraw" => c.amount <= c.saved.positionOf[c.account]
  /\ PassesMoved(c.saved.accessPasses)
  /\ TokensGiven(c.saved.balanceOf)

AtomicInv == calls # <<>> => Accounted(calls[1])

(* A transfer changes two balances and no sum.                             *)
LEMMA MoveKeepsSupply ==
  ASSUME VaultTypeOK, NEW from \in Tokens, NEW to \in Tokens, from # to,
         NEW amount \in Nat, move(from, to, amount)
  PROVE  /\ balanceOf' \in [Tokens -> Nat]
         /\ balanceOf'[from] = balanceOf[from] - amount
         /\ balanceOf'[to] = balanceOf[to] + amount
         /\ \A x \in Tokens \ {from, to} : balanceOf'[x] = balanceOf[x]
         /\ total(balanceOf, Tokens)' = total(balanceOf, Tokens)
<1> DEFINE b == balanceOf
           n == balanceOf'
           m == [balanceOf EXCEPT ![from] = balanceOf[from] - amount]
<1>1. IsFiniteSet(Tokens)
  BY VaultAssumption, FS_AddElement DEF Tokens
<1>2. b \in [Tokens -> Nat] /\ b[from] - amount \in Nat
  BY DEF VaultTypeOK, move, Tokens
<1>3. /\ m \in [Tokens -> Nat] /\ m[from] = b[from] - amount
      /\ \A x \in Tokens \ {from} : b[x] = m[x]
  BY <1>2
<1>4. /\ n \in [Tokens -> Nat]
      /\ n[from] = b[from] - amount /\ n[to] = b[to] + amount
      /\ \A x \in Tokens \ {from, to} : n[x] = b[x]
  <2>1. n = [balanceOf EXCEPT ![from] = balanceOf[from] - amount,
                              ![to] = balanceOf[to] + amount]
    BY <1>2 DEF move
  <2>2. b[to] + amount \in Nat
    BY <1>2
  <2> QED
    BY <1>2, <2>1, <2>2
<1>5. \A x \in Tokens \ {to} : m[x] = n[x]
  BY <1>3, <1>4
<1> HIDE DEF b, n, m
<1>6. total(b, Tokens) + m[from] = total(m, Tokens) + b[from]
        /\ total(b, Tokens) \in Nat /\ total(m, Tokens) \in Nat
  BY <1>1, <1>2, <1>3, TotalUpdate
<1>7. total(m, Tokens) + n[to] = total(n, Tokens) + m[to]
        /\ total(n, Tokens) \in Nat
  BY <1>1, <1>3, <1>4, <1>5, TotalUpdate
<1>8. m[to] = b[to] /\ b[to] \in Nat /\ b[from] \in Nat
  BY <1>2, <1>3
<1>9. total(n, Tokens) = total(b, Tokens)
  BY <1>3, <1>4, <1>6, <1>7, <1>8
<1>10. total(balanceOf, Tokens)' = total(n, Tokens)
  BY DEF n, Tokens
<1> QED
  BY <1>4, <1>9, <1>10 DEF b, n

(* A registry call leaves or supersedes each pass.                         *)
LEMMA CallsMovePasses ==
  ASSUME VaultTypeOK, LedgerCall
  PROVE  \A a \in Holders, p \in PolicyIds :
           accessPasses'[a][p] # accessPasses[a][p] =>
             /\ accessPasses'[a][p].expiresAt > now
             /\ accessPasses'[a][p].nonce > accessPasses[a][p].nonce
<1>1. CASE \E a \in Holders, p \in PolicyIds, pass \in Passes : Grant(a, p, pass)
  <2>1. PICK a \in Holders, p \in PolicyIds, pass \in Passes : Grant(a, p, pass)
    BY <1>1
  <2>2. /\ accessPasses' = [accessPasses EXCEPT ![a][p] = pass]
        /\ pass.expiresAt > now /\ pass.nonce > accessPasses[a][p].nonce
    BY <2>1 DEF Grant, getAccess
  <2>3. accessPasses \in [Holders -> [PolicyIds -> Passes \cup {NoPass}]]
    BY DEF VaultTypeOK
  <2> TAKE b \in Holders, q \in PolicyIds
  <2>4. accessPasses'[b][q] =
          IF b = a /\ q = p THEN pass ELSE accessPasses[b][q]
    BY <2>2, <2>3
  <2> QED
    BY <2>2, <2>4
<1>2. CASE \E p \in PolicyIds, active \in BOOLEAN : SetActive(p, active)
  BY <1>2 DEF SetActive
<1> QED
  BY <1>1, <1>2 DEF LedgerCall

(* Passes that moved and move again have moved.                            *)
LEMMA PassesMoveOn ==
  ASSUME NEW old \in [Holders -> [PolicyIds -> Passes \cup {NoPass}]],
         VaultTypeOK, PassesMoved(old), LedgerCall
  PROVE  PassesMoved(old)'
<1> SUFFICES ASSUME NEW a \in Holders, NEW p \in PolicyIds,
                    accessPasses'[a][p] # old[a][p]
             PROVE  /\ accessPasses'[a][p].expiresAt > now'
                    /\ accessPasses'[a][p].nonce > old[a][p].nonce
  BY DEF PassesMoved
<1> DEFINE was == accessPasses[a][p]
           is == accessPasses'[a][p]
<1>1. \A pass \in Passes \cup {NoPass} : pass.nonce \in Nat
  BY PassesAssumption DEF NoPass
<1>2. was.nonce \in Nat /\ is.nonce \in Nat /\ old[a][p].nonce \in Nat
  BY <1>1, LedgerTypes DEF VaultTypeOK
<1>3. now' = now
  BY LedgerTypes
<1>4. is # was => is.expiresAt > now /\ is.nonce > was.nonce
  BY CallsMovePasses
<1>5. was # old[a][p] => was.expiresAt > now /\ was.nonce > old[a][p].nonce
  BY DEF PassesMoved
<1> HIDE DEF was, is
<1>6. is # old[a][p] => is.expiresAt > now /\ is.nonce > old[a][p].nonce
  BY <1>2, <1>4, <1>5
<1> QED
  BY <1>3, <1>6 DEF is

(* An open call keeps its account while its frame stays, through steps     *)
(* that give tokens to the vault and move passes on.                       *)
LEMMA AccountedStays ==
  ASSUME VInv, calls # <<>>, Accounted(calls[1]), UNCHANGED <<now, feed, calls>>,
         \A old \in [Holders -> [PolicyIds -> Passes \cup {NoPass}]] :
           PassesMoved(old) => PassesMoved(old)',
         \A old \in [Tokens -> Nat] : TokensGiven(old) => TokensGiven(old)'
  PROVE  Accounted(calls[1])'
<1>1. PICK c : c = calls[1]
  OBVIOUS
<1>2. c = calls'[1]
  BY <1>1
<1>3. c \in Frames
  BY <1>1, StackOfOne DEF VInv
<1>4. /\ c.saved.accessPasses \in [Holders -> [PolicyIds -> Passes \cup {NoPass}]]
      /\ c.saved.balanceOf \in [Tokens -> Nat]
  BY <1>3 DEF Frames, Tokens
<1>5. Accounted(c)
  BY <1>1
<1>6. PassesMoved(c.saved.accessPasses)' /\ TokensGiven(c.saved.balanceOf)'
  BY <1>4, <1>5 DEF Accounted
<1>7. c.op = "deposit" => MayDeposit(c.saved, c.account, c.amount)'
  BY <1>5 DEF Accounted, MayDeposit
<1>8. Accounted(c)'
  BY <1>5, <1>6, <1>7 DEF Accounted
<1> QED
  BY <1>2, <1>8

(* A call that begins has nothing else to show yet.                        *)
LEMMA AccountedBegins ==
  ASSUME VInv, NEW op \in {"deposit", "withdraw"}, NEW a \in Holders,
         NEW amount \in Amounts, nonReentrant, callToken(op, a, amount),
         amount # 0,
         op = "deposit" => MayDeposit(snapshot, a, amount),
         op = "withdraw" => amount <= positionOf[a]
  PROVE  Accounted(calls[1])'
<1>1. PICK s : s = snapshot
  OBVIOUS
<1>2. s.accessPasses = accessPasses /\ s.positionOf = positionOf
        /\ s.balanceOf = balanceOf
  BY <1>1 DEF snapshot
<1>3. PICK c : c = [op |-> op, account |-> a, amount |-> amount, saved |-> s]
  OBVIOUS
<1>4. c.op = op /\ c.account = a /\ c.amount = amount /\ c.saved = s
  BY <1>3
<1>5. calls = <<>>
  BY DEF VInv, FlagMatchesCall, nonReentrant
<1>6. calls' = Append(<<>>, c)
  BY <1>1, <1>3, <1>5 DEF callToken
<1>7. c = calls'[1]
  BY <1>6
<1>8. UNCHANGED <<accessPasses, now, balanceOf, feed>>
  BY DEF callToken, ledgerVars
<1>9. PassesMoved(s.accessPasses)'
  BY <1>2, <1>8 DEF PassesMoved
<1>10. TokensGiven(s.balanceOf)'
  <2>1. \A x \in Holders : s.balanceOf[x] \in Nat
    BY <1>2 DEF VInv, VaultTypeOK
  <2>2. s.balanceOf = balanceOf'
    BY <1>2, <1>8
  <2>3. total(balanceOf, Tokens)' = total(s.balanceOf, Tokens)
    BY <2>2 DEF Tokens
  <2>4. \A x \in Holders : balanceOf'[x] <= s.balanceOf[x]
    BY <2>1, <2>2
  <2> QED
    BY <2>3, <2>4 DEF TokensGiven
<1>11. op = "deposit" => MayDeposit(s, a, amount)'
  BY <1>1, <1>8 DEF MayDeposit
<1>12. op = "withdraw" => amount <= s.positionOf[a]
  BY <1>2
<1>13. Accounted(c)'
  BY <1>4, <1>9, <1>10, <1>11, <1>12 DEF Accounted
<1> QED
  BY <1>7, <1>13

(* What a gift does to the tokens since `old`.                             *)
LEMMA GiftsAreGiven ==
  ASSUME VaultTypeOK, NEW a \in Holders, NEW amount \in Amounts,
         donate(a, amount), NEW old \in [Tokens -> Nat], TokensGiven(old)
  PROVE  TokensGiven(old)'
<1> USE VaultAssumption
<1>1. /\ \A x \in Holders : balanceOf'[x] <= balanceOf[x]
      /\ balanceOf' \in [Tokens -> Nat]
      /\ total(balanceOf, Tokens)' = total(balanceOf, Tokens)
  <2>1. move(a, Vault, amount) /\ amount \in Nat
    BY DEF donate
  <2>2. a \in Tokens /\ Vault \in Tokens /\ a # Vault
    BY DEF Tokens
  <2>3. /\ balanceOf' \in [Tokens -> Nat]
        /\ balanceOf'[a] = balanceOf[a] - amount
        /\ \A x \in Tokens \ {a, Vault} : balanceOf'[x] = balanceOf[x]
        /\ total(balanceOf, Tokens)' = total(balanceOf, Tokens)
    BY <2>1, <2>2, MoveKeepsSupply
  <2>4. \A x \in Holders : balanceOf[x] \in Nat
    BY DEF VaultTypeOK
  <2>5. \A x \in Holders : x # a => balanceOf'[x] = balanceOf[x]
    BY <2>3 DEF Tokens
  <2> QED
    BY <2>1, <2>3, <2>4, <2>5
<1>2. \A x \in Holders :
        old[x] \in Nat /\ balanceOf[x] \in Nat /\ balanceOf'[x] \in Nat
          /\ balanceOf[x] <= old[x]
  BY <1>1 DEF VaultTypeOK, TokensGiven, Tokens
<1>3. \A x \in Holders : balanceOf'[x] <= old[x]
  BY <1>1, <1>2
<1> QED
  BY <1>1, <1>3 DEF TokensGiven

(* Every step leaves the open call accounted for.                          *)
LEMMA AtomicInvStep == VInv /\ AtomicInv /\ [VaultNext]_vars => AtomicInv'
<1> SUFFICES ASSUME VInv, AtomicInv, [VaultNext]_vars PROVE AtomicInv'
  OBVIOUS
<1> USE VaultAssumption
<1>1. VaultTypeOK
  BY DEF VInv
<1>2. ASSUME NEW a \in Holders, NEW amount \in Amounts, deposit(a, amount)
      PROVE  AtomicInv'
  <2>1. MayDeposit(snapshot, a, amount)
    BY <1>1, <1>2, DepositChecks
  <2>2. nonReentrant /\ amount # 0 /\ callToken("deposit", a, amount)
    BY <1>2 DEF deposit
  <2> QED
    BY <2>1, <2>2, AccountedBegins DEF AtomicInv
<1>3. ASSUME NEW a \in Holders, NEW amount \in Amounts, withdraw(a, amount)
      PROVE  AtomicInv'
  <2>1. /\ nonReentrant /\ amount # 0 /\ amount <= positionOf[a]
        /\ callToken("withdraw", a, amount)
    BY <1>3 DEF withdraw, mayWithdraw
  <2> QED
    BY <2>1, AccountedBegins DEF AtomicInv
<1>4. ASSUME NEW a \in Holders, NEW amount \in Amounts, donate(a, amount)
      PROVE  AtomicInv'
  <2>1. UNCHANGED <<accessPasses, now, feed, calls>>
    BY <1>4 DEF donate, ledgerVars
  <2>2. \A old \in [Holders -> [PolicyIds -> Passes \cup {NoPass}]] :
          PassesMoved(old) => PassesMoved(old)'
    BY <2>1 DEF PassesMoved
  <2>3. \A old \in [Tokens -> Nat] : TokensGiven(old) => TokensGiven(old)'
    BY <1>1, <1>4, GiftsAreGiven
  <2> QED
    BY <2>1, <2>2, <2>3, AccountedStays DEF AtomicInv
<1>5. CASE tokenReturns \/ tokenFails
  <2>1. calls # <<>> /\ pop
    BY <1>5 DEF tokenReturns, tokenFails
  <2>2. calls' = <<>>
    BY <2>1, StackOfOne DEF VInv, pop
  <2> QED
    BY <2>2 DEF AtomicInv
<1>6. CASE LedgerCall /\ UNCHANGED <<vaultVars, feed>>
  <2>1. UNCHANGED <<now, balanceOf, feed, calls>>
    BY <1>1, <1>6, LedgerTypes DEF vaultVars
  <2>2. \A old \in [Holders -> [PolicyIds -> Passes \cup {NoPass}]] :
          PassesMoved(old) => PassesMoved(old)'
    BY <1>1, <1>6, PassesMoveOn
  <2>3. \A old \in [Tokens -> Nat] : TokensGiven(old) => TokensGiven(old)'
    BY <2>1 DEF TokensGiven, Tokens
  <2> QED
    BY <2>1, <2>2, <2>3, AccountedStays DEF AtomicInv
<1>7. CASE vaultTick \/ updateFeed
  <2>1. calls' = <<>>
    BY <1>7 DEF vaultTick, updateFeed, vaultVars
  <2> QED
    BY <2>1 DEF AtomicInv
<1>8. CASE UNCHANGED vars
  <2>1. UNCHANGED <<accessPasses, now, balanceOf, feed, calls>>
    BY <1>8 DEF vars, vaultVars, ledgerVars
  <2>2. \A old : PassesMoved(old) => PassesMoved(old)'
    BY <2>1 DEF PassesMoved
  <2>3. \A old : TokensGiven(old) => TokensGiven(old)'
    BY <2>1 DEF TokensGiven, Tokens
  <2> QED
    BY <2>1, <2>2, <2>3, AccountedStays DEF AtomicInv
<1> QED
  BY <1>2, <1>3, <1>4, <1>5, <1>6, <1>7, <1>8 DEF VaultNext

(* The sum of the abstract vault is the one reasoned about here.           *)
LEMMA SupplyIsTotal == Promise!supply = total(committed.balanceOf, Tokens)
  BY DEF Promise!supply, Promise!Addresses, Promise!MapThenSumSet,
         Promise!MapThenFoldSet, Tokens, total, MapThenSumSet, MapThenFoldSet

(* What a transaction of the abstract vault takes, said of the state that  *)
(* is committed before and the vault's own state after.                    *)
LEMMA IsTransaction ==
  ASSUME NEW paid, VaultTypeOK', calls' = <<>>, UNCHANGED <<now, feed>>,
         \A a \in Holders, p \in PolicyIds :
           accessPasses'[a][p] # committed.accessPasses[a][p] =>
             /\ accessPasses'[a][p].expiresAt > now
             /\ accessPasses'[a][p].nonce > committed.accessPasses[a][p].nonce,
         \A a \in Holders : balanceOf'[a] <= committed.balanceOf[a] - paid[a],
         total(balanceOf, Tokens)' = total(committed.balanceOf, Tokens)
  PROVE  Promise!Transaction(paid)
<1>1. /\ committed'.accessPasses = accessPasses'
      /\ committed'.activePolicies = activePolicies'
      /\ committed'.balanceOf = balanceOf'
  BY DEF committed, snapshot
<1>2. Promise!RegistryCalls
  <2>1. /\ accessPasses' \in [Holders -> [PolicyIds -> Passes \cup {NoPass}]]
        /\ activePolicies' \subseteq PolicyIds
    BY DEF VaultTypeOK
  <2> QED
    BY <1>1, <2>1 DEF Promise!RegistryCalls, Promise!getAccess, Promise!NoPass, NoPass
<1>3. committed'.balanceOf \in [Promise!Addresses -> Nat]
  BY <1>1 DEF VaultTypeOK, Promise!Addresses
<1>4. Promise!supply' = Promise!supply
  <2>1. Promise!supply' = total(committed.balanceOf, Tokens)'
    BY DEF Promise!supply, Promise!Addresses, Promise!MapThenSumSet,
           Promise!MapThenFoldSet, Tokens, total, MapThenSumSet, MapThenFoldSet
  <2>2. total(committed.balanceOf, Tokens)' = total(balanceOf, Tokens)'
    BY <1>1 DEF Tokens
  <2> QED
    BY <2>1, <2>2, SupplyIsTotal
<1> QED
  BY <1>1, <1>2, <1>3, <1>4 DEF Promise!Transaction

(* When the token call returns, the abstract vault makes its one step.     *)
LEMMA ReturnIsOneStep ==
  ASSUME VInv, AtomicInv, tokenReturns, VaultTypeOK'
  PROVE  Promise!AtomicNext
<1> USE VaultAssumption
<1>1. PICK c : c = calls[1]
  OBVIOUS
<1>2. /\ calls # <<>> /\ calls' = <<>> /\ top = c /\ c \in Frames
      /\ UNCHANGED <<accessPasses, activePolicies, now, positionOf, feed>>
  BY <1>1, StackOfOne DEF VInv, tokenReturns, pop, ledgerVars
<1>3. VaultTypeOK /\ OpenCall(c) /\ Accounted(c) /\ committed = c.saved
  BY <1>1, <1>2 DEF VInv, AtomicInv, committed
<1>4. PICK a, amount, s : a = c.account /\ amount = c.amount /\ s = c.saved
  OBVIOUS
<1>5. /\ a \in Holders /\ amount \in Amounts /\ amount \in Nat /\ amount # 0
      /\ s.positionOf \in [Holders -> Nat] /\ s.balanceOf \in [Tokens -> Nat]
      /\ c.op \in {"deposit", "withdraw"} /\ committed = s
  BY <1>2, <1>3, <1>4 DEF Frames, Accounted, Tokens
<1>6. /\ committed'.positionOf = positionOf /\ committed'.balanceOf = balanceOf'
  BY <1>2 DEF committed, snapshot
<1>7. positionOf = [s.positionOf EXCEPT ![a] =
                      IF c.op = "deposit" THEN @ + amount ELSE @ - amount]
  <2>1. positionOf \in [Holders -> Nat]
    BY <1>3 DEF VaultTypeOK
  <2>2. /\ \A x \in Holders \ {a} : positionOf[x] = s.positionOf[x]
        /\ positionOf[a] = IF c.op = "deposit" THEN s.positionOf[a] + amount
                                               ELSE s.positionOf[a] - amount
    BY <1>3, <1>4 DEF OpenCall
  <2> QED
    BY <1>5, <2>1, <2>2
<1>8. \A b \in Holders, p \in PolicyIds :
        accessPasses'[b][p] # committed.accessPasses[b][p] =>
          /\ accessPasses'[b][p].expiresAt > now
          /\ accessPasses'[b][p].nonce > committed.accessPasses[b][p].nonce
  BY <1>2, <1>3 DEF Accounted, PassesMoved
<1>9. /\ \A x \in Holders : balanceOf[x] <= s.balanceOf[x]
      /\ total(balanceOf, Tokens) = total(s.balanceOf, Tokens)
      /\ balanceOf \in [Tokens -> Nat]
  BY <1>3, <1>4 DEF Accounted, TokensGiven, VaultTypeOK, Tokens
<1>10. a \in Tokens /\ Vault \in Tokens /\ a # Vault
  BY <1>5 DEF Tokens
<1>11. CASE c.op = "deposit"
  <2>1. move(a, Vault, amount)
    BY <1>2, <1>4, <1>11 DEF tokenReturns
  <2>2. /\ balanceOf'[a] = balanceOf[a] - amount
        /\ \A x \in Tokens \ {a, Vault} : balanceOf'[x] = balanceOf[x]
        /\ total(balanceOf, Tokens)' = total(balanceOf, Tokens)
    BY <1>3, <1>5, <1>10, <2>1, MoveKeepsSupply
  <2>3. \A x \in Holders :
          balanceOf'[x] <= committed.balanceOf[x] - Promise!only(a, amount)[x]
    <3> TAKE x \in Holders
    <3>1. x \in Tokens /\ x # Vault /\ balanceOf[x] \in Nat /\ s.balanceOf[x] \in Nat
      BY <1>5, <1>9 DEF Tokens
    <3>2. Promise!only(a, amount)[x] = IF x = a THEN amount ELSE 0
      BY DEF Promise!only
    <3> QED
      BY <1>5, <1>9, <2>2, <3>1, <3>2
  <2>4. Promise!Transaction(Promise!only(a, amount))
    <3> DEFINE paid == Promise!only(a, amount)
    <3>1. \A x \in Holders : balanceOf'[x] <= committed.balanceOf[x] - paid[x]
      BY <2>3
    <3> HIDE DEF paid
    <3>2. Promise!Transaction(paid)
      BY <1>2, <1>5, <1>8, <1>9, <2>2, <3>1, IsTransaction
    <3> QED
      BY <3>2 DEF paid
  <2>5. MayDeposit(s, a, amount)
    BY <1>3, <1>4, <1>11 DEF Accounted
  <2>6. committed'.positionOf =
          [committed.positionOf EXCEPT ![a] = committed.positionOf[a] + amount]
    BY <1>5, <1>6, <1>7, <1>11
  <2>7. Promise!Deposit(a, amount)
    BY <1>5, <2>4, <2>5, <2>6
       DEF Promise!Deposit, Promise!canAccess, Promise!getAccess, MayDeposit
  <2> QED
    BY <1>5, <2>7 DEF Promise!AtomicNext
<1>12. CASE c.op = "withdraw"
  <2>1. move(Vault, a, amount)
    BY <1>2, <1>4, <1>12 DEF tokenReturns
  <2>2. /\ balanceOf'[a] = balanceOf[a] + amount
        /\ \A x \in Tokens \ {a, Vault} : balanceOf'[x] = balanceOf[x]
        /\ total(balanceOf, Tokens)' = total(balanceOf, Tokens)
    BY <1>3, <1>5, <1>10, <2>1, MoveKeepsSupply
  <2>3. \A x \in Holders :
          balanceOf'[x] <= committed.balanceOf[x] - Promise!only(a, 0 - amount)[x]
    <3> TAKE x \in Holders
    <3>1. x \in Tokens /\ x # Vault /\ balanceOf[x] \in Nat /\ s.balanceOf[x] \in Nat
      BY <1>5, <1>9 DEF Tokens
    <3>2. Promise!only(a, 0 - amount)[x] = IF x = a THEN 0 - amount ELSE 0
      BY DEF Promise!only
    <3> QED
      BY <1>5, <1>9, <2>2, <3>1, <3>2
  <2>4. Promise!Transaction(Promise!only(a, 0 - amount))
    <3> DEFINE paid == Promise!only(a, 0 - amount)
    <3>1. \A x \in Holders : balanceOf'[x] <= committed.balanceOf[x] - paid[x]
      BY <2>3
    <3> HIDE DEF paid
    <3>2. Promise!Transaction(paid)
      BY <1>2, <1>5, <1>8, <1>9, <2>2, <3>1, IsTransaction
    <3> QED
      BY <3>2 DEF paid
  <2>5. amount <= s.positionOf[a]
    BY <1>3, <1>4, <1>12 DEF Accounted
  <2>6. committed'.positionOf =
          [committed.positionOf EXCEPT ![a] = committed.positionOf[a] - amount]
    BY <1>5, <1>6, <1>7, <1>12
  <2>7. Promise!Withdraw(a, amount)
    BY <1>5, <2>4, <2>5, <2>6 DEF Promise!Withdraw
  <2> QED
    BY <1>5, <2>7 DEF Promise!AtomicNext
<1> QED
  BY <1>5, <1>11, <1>12

(* Outside a call the vault's own steps are the abstract vault's.          *)
LEMMA QuietIsOneStep ==
  ASSUME VaultTypeOK, VaultTypeOK', calls = <<>>,
         UNCHANGED <<now, feed, positionOf, calls>>,
         \/ LedgerCall /\ UNCHANGED balanceOf
         \/ \E a \in Holders, amount \in Amounts : donate(a, amount)
  PROVE  Promise!Elsewhere
<1> DEFINE paid == [a \in Holders |-> 0]
<1>1. committed = snapshot /\ committed' = snapshot'
  BY DEF committed
<1>2. /\ committed.accessPasses = accessPasses
      /\ committed.balanceOf = balanceOf
      /\ committed.positionOf = positionOf
      /\ committed'.positionOf = positionOf'
  BY <1>1 DEF snapshot
<1>3. \A a \in Holders, p \in PolicyIds :
        accessPasses'[a][p] # accessPasses[a][p] =>
          /\ accessPasses'[a][p].expiresAt > now
          /\ accessPasses'[a][p].nonce > accessPasses[a][p].nonce
  BY CallsMovePasses DEF donate, ledgerVars
<1>4. TokensGiven(balanceOf)
  <2>1. \A x \in Holders : balanceOf[x] \in Nat
    BY DEF VaultTypeOK
  <2> QED
    BY <2>1 DEF TokensGiven
<1>5. PICK old : old = balanceOf
  OBVIOUS
<1>6. TokensGiven(old)'
  <2>1. old \in [Tokens -> Nat] /\ TokensGiven(old)
    BY <1>4, <1>5 DEF VaultTypeOK, Tokens
  <2>2. CASE LedgerCall /\ UNCHANGED balanceOf
    BY <2>1, <2>2 DEF TokensGiven, Tokens
  <2>3. CASE \E a \in Holders, amount \in Amounts : donate(a, amount)
    BY <2>1, <2>3, GiftsAreGiven
  <2> QED
    BY <2>2, <2>3
<1>7. \A a \in Holders : balanceOf'[a] <= committed.balanceOf[a] - paid[a]
  <2>1. \A a \in Holders : balanceOf'[a] <= old[a] /\ old[a] \in Nat
    BY <1>5, <1>6 DEF TokensGiven, VaultTypeOK
  <2> QED
    BY <1>2, <1>5, <2>1
<1>8. total(balanceOf, Tokens)' = total(committed.balanceOf, Tokens)
  BY <1>2, <1>5, <1>6 DEF TokensGiven
<1> HIDE DEF paid
<1>9. Promise!Transaction(paid)
  BY <1>2, <1>3, <1>7, <1>8, IsTransaction
<1> QED
  BY <1>2, <1>9 DEF Promise!Elsewhere, paid

(* Every step of the vault is a step of the abstract one, or none.         *)
LEMMA AtomicStep ==
  VInv /\ VInv' /\ AtomicInv /\ [VaultNext]_vars
    => [Promise!AtomicNext]_(Promise!atomicVars)
<1> SUFFICES ASSUME VInv, VInv', AtomicInv, VaultNext \/ UNCHANGED vars
             PROVE  Promise!AtomicNext \/ UNCHANGED Promise!atomicVars
  OBVIOUS
<1>1. VaultTypeOK /\ VaultTypeOK'
  BY DEF VInv
<1>2. ASSUME UNCHANGED <<committed, now, feed>>
      PROVE  UNCHANGED Promise!atomicVars
  BY <1>2 DEF Promise!atomicVars, Promise!ledgerVars
<1>3. ASSUME calls # <<>>, UNCHANGED <<now, feed, calls>>
      PROVE  UNCHANGED Promise!atomicVars
  BY <1>2, <1>3 DEF committed
<1>4. ASSUME NEW op, NEW a, NEW amount, nonReentrant, callToken(op, a, amount)
      PROVE  UNCHANGED Promise!atomicVars
  <2>1. calls = <<>>
    BY <1>4 DEF VInv, FlagMatchesCall, nonReentrant
  <2>2. PICK c : c = [op |-> op, account |-> a, amount |-> amount,
                      saved |-> snapshot]
    OBVIOUS
  <2>3. calls' = Append(<<>>, c) /\ UNCHANGED <<now, feed>>
    BY <1>4, <2>1, <2>2 DEF callToken, ledgerVars
  <2>4. calls' # <<>> /\ calls'[1] = c /\ c.saved = snapshot
    BY <2>2, <2>3
  <2>5. committed' = committed
    BY <2>1, <2>4 DEF committed
  <2> QED
    BY <1>2, <2>3, <2>5
<1>5. CASE \E a \in Holders, amount \in Amounts : deposit(a, amount)
  BY <1>4, <1>5 DEF deposit
<1>6. CASE \E a \in Holders, amount \in Amounts : withdraw(a, amount)
  BY <1>4, <1>6 DEF withdraw
<1>7. CASE \E a \in Holders, amount \in Amounts : donate(a, amount)
  <2>1. UNCHANGED <<now, feed, positionOf, calls>>
    BY <1>7 DEF donate, ledgerVars
  <2> QED
    BY <1>1, <1>3, <1>7, <2>1, QuietIsOneStep DEF Promise!AtomicNext
<1>8. CASE tokenReturns
  BY <1>1, <1>8, ReturnIsOneStep
<1>9. CASE tokenFails
  <2>1. calls # <<>> /\ calls' = <<>> /\ top = calls[1] /\ UNCHANGED <<now, feed>>
    BY <1>9, StackOfOne DEF VInv, tokenFails, pop
  <2>2. committed' = snapshot' /\ committed = top.saved
    BY <2>1 DEF committed
  <2>3. top.saved \in
          [accessPasses: [Holders -> [PolicyIds -> Passes \cup {NoPass}]],
           activePolicies: SUBSET PolicyIds,
           positionOf: [Holders -> Nat],
           balanceOf: [Holders \cup {Vault} -> Nat]]
    BY <2>1, StackOfOne DEF VInv, Frames
  <2>4. snapshot' = top.saved
    BY <1>9, <2>3 DEF tokenFails, snapshot
  <2> QED
    BY <1>2, <2>1, <2>2, <2>4
<1>10. CASE LedgerCall /\ UNCHANGED <<vaultVars, feed>>
  <2>1. UNCHANGED <<now, feed, positionOf, balanceOf, calls>>
    BY <1>1, <1>10, LedgerTypes DEF vaultVars
  <2> QED
    BY <1>1, <1>3, <1>10, <2>1, QuietIsOneStep DEF Promise!AtomicNext
<1>11. CASE vaultTick
  <2>1. calls = <<>> /\ calls' = <<>> /\ Tick
        /\ UNCHANGED <<positionOf, balanceOf, feed>>
    BY <1>11 DEF vaultTick, vaultVars
  <2>2. committed' = committed
    BY <2>1 DEF committed, snapshot, Tick
  <2>3. Promise!Time
    BY <2>1, <2>2 DEF Promise!Time, Promise!Tick, Tick
  <2> QED
    BY <2>3 DEF Promise!AtomicNext
<1>12. CASE updateFeed
  <2>1. /\ calls = <<>> /\ calls' = <<>>
        /\ UNCHANGED <<ledgerVars, positionOf, balanceOf>>
    BY <1>12 DEF updateFeed, vaultVars
  <2>2. committed' = committed /\ now' = now
    BY <2>1 DEF committed, snapshot, ledgerVars
  <2>3. Promise!Time
    BY <1>12, <2>2 DEF updateFeed, Promise!Time, Promise!ledgerVars
  <2> QED
    BY <2>3 DEF Promise!AtomicNext
<1>13. CASE UNCHANGED vars
  <2>1. UNCHANGED <<calls, snapshot, now, feed>>
    BY <1>13 DEF vars, vaultVars, ledgerVars, snapshot
  <2> QED
    BY <1>2, <2>1 DEF committed
<1> QED
  BY <1>5, <1>6, <1>7, <1>8, <1>9, <1>10, <1>11, <1>12, <1>13 DEF VaultNext

(* The vault starts as the abstract one does.                              *)
LEMMA AtomicStart == VaultInit => Promise!AtomicInit
<1> SUFFICES ASSUME VaultInit PROVE Promise!AtomicInit
  OBVIOUS
<1>1. committed = snapshot
  BY DEF VaultInit, committed
<1> QED
  BY <1>1 DEF VaultInit, snapshot, LedgerInit, NoPass, Promise!AtomicInit,
              Promise!LedgerInit, Promise!NoPass, Promise!Addresses

(* For any accounts, amounts, prices and passes, and whatever the token    *)
(* calls while it is called: seen between transactions, the vault is one   *)
(* in which a deposit or a withdrawal is a single step, judged by the      *)
(* pass, policy and price before it, and a failed one no step at all.      *)
THEOREM VaultIsAtomic == VaultSpec => ImplementsAtomicVault
<1>1. VaultInit => AtomicInv
  BY DEF VaultInit, AtomicInv
<1>2. VaultSpec => [](VInv /\ AtomicInv)
  BY <1>1, VInvInit, VInvStep, AtomicInvStep, PTL DEF VaultSpec
<1>3. VaultSpec => Promise!AtomicSpec
  BY <1>2, AtomicStart, AtomicStep, PTL DEF VaultSpec, Promise!AtomicSpec
<1> QED
  BY <1>3 DEF ImplementsAtomicVault

(* The vault gains what the accounts lose, hence at least what it takes.   *)
LEMMA VaultGains ==
  ASSUME NEW old \in [Tokens -> Nat], NEW new \in [Tokens -> Nat],
         total(new, Tokens) = total(old, Tokens),
         NEW a \in Holders, NEW amount \in Int,
         \A x \in Holders :
           new[x] <= old[x] - (IF x = a THEN amount ELSE 0)
  PROVE  new[Vault] >= old[Vault] + amount
<1> USE VaultAssumption
<1> DEFINE left == [x \in Holders |-> old[x] - (IF x = a THEN amount ELSE 0)]
<1>1. IsFiniteSet(Tokens) /\ Tokens \ {Vault} = Holders /\ Vault \in Tokens
        /\ Holders \subseteq Tokens
  BY FS_AddElement DEF Tokens
<1>2. \A x \in Holders : /\ old[x] \in Nat /\ new[x] \in Nat
                         /\ left[x] \in Nat /\ new[x] <= left[x]
                         /\ x # a => old[x] = left[x]
  <2> TAKE x \in Holders
  <2>1. old[x] \in Nat /\ new[x] \in Nat
    BY <1>1
  <2>2. left[x] = old[x] - (IF x = a THEN amount ELSE 0)
    OBVIOUS
  <2>3. new[x] <= left[x]
    BY <2>2
  <2>4. left[x] \in Int
    BY <2>1, <2>2
  <2>5. x # a => left[x] = old[x]
    BY <2>1, <2>2
  <2> HIDE DEF left
  <2> QED
    BY <2>1, <2>3, <2>4, <2>5
<1>3. \A x \in Holders \ {a} : old[x] = left[x]
  BY <1>2
<1>4. left[a] = old[a] - amount
  OBVIOUS
<1> HIDE DEF left
<1>5. total(new, Holders) <= total(left, Holders)
  BY <1>2, TotalMonotone
<1>6. /\ total(old, Holders) \in Nat /\ total(left, Holders) \in Nat
      /\ total(old, Holders) + left[a] = total(left, Holders) + old[a]
  BY <1>2, <1>3, TotalUpdate
<1>7. total(new, Holders) \in Nat
  BY <1>2, TotalNat
<1>8. /\ total(old, Tokens) = old[Vault] + total(old, Holders)
      /\ total(new, Tokens) = new[Vault] + total(new, Holders)
  BY <1>1, TotalTakeOut
<1>9. old[Vault] \in Nat /\ new[Vault] \in Nat /\ old[a] \in Nat
  BY <1>1
<1> QED
  BY <1>4, <1>5, <1>6, <1>7, <1>8, <1>9

(* Seen between transactions, the vault has the tokens of all positions.   *)
PositionsCovered ==
  /\ committed.positionOf \in [Holders -> Nat]
  /\ committed.balanceOf \in [Tokens -> Nat]
  /\ covers(committed.balanceOf, committed.positionOf)

(* A transaction that takes from one account as much as its position grows *)
(* leaves the positions covered.                                           *)
LEMMA TransactionCovers ==
  ASSUME PositionsCovered, NEW a \in Holders, NEW amount \in Int,
         committed'.positionOf =
           [committed.positionOf EXCEPT ![a] = committed.positionOf[a] + amount],
         committed.positionOf[a] + amount \in Nat,
         Promise!Transaction(Promise!only(a, amount))
  PROVE  PositionsCovered'
<1> USE VaultAssumption
<1>1. PICK old, new, before, after :
        /\ old = committed.balanceOf /\ new = committed'.balanceOf
        /\ before = committed.positionOf /\ after = committed'.positionOf
  OBVIOUS
<1>2. /\ old \in [Tokens -> Nat] /\ before \in [Holders -> Nat]
      /\ old[Vault] >= total(before, Holders)
  BY <1>1 DEF PositionsCovered, covers
<1>3. new \in [Tokens -> Nat]
  BY <1>1 DEF Promise!Transaction, Promise!Addresses, Tokens
<1>4. total(new, Tokens) = total(old, Tokens)
  <2>1. Promise!supply' = Promise!supply
    BY DEF Promise!Transaction
  <2>2. Promise!supply' = total(committed.balanceOf, Tokens)'
    BY DEF Promise!supply, Promise!Addresses, Promise!MapThenSumSet,
           Promise!MapThenFoldSet, Tokens, total, MapThenSumSet, MapThenFoldSet
  <2>3. total(committed.balanceOf, Tokens)' = total(new, Tokens)
    BY <1>1 DEF Tokens
  <2> QED
    BY <1>1, <2>1, <2>2, <2>3, SupplyIsTotal
<1>5. \A x \in Holders : new[x] <= old[x] - (IF x = a THEN amount ELSE 0)
  BY <1>1 DEF Promise!Transaction, Promise!only
<1>6. new[Vault] >= old[Vault] + amount
  BY <1>2, <1>3, <1>4, <1>5, VaultGains
<1>7. after \in [Holders -> Nat] /\ after[a] = before[a] + amount
        /\ \A x \in Holders \ {a} : before[x] = after[x]
  BY <1>1, <1>2
<1>8. /\ total(before, Holders) \in Nat /\ total(after, Holders) \in Nat
      /\ total(before, Holders) + after[a] = total(after, Holders) + before[a]
  <2>1. \A x \in Holders : before[x] \in Nat /\ after[x] \in Nat
    BY <1>2, <1>7
  <2> QED
    BY <1>7, <2>1, TotalUpdate
<1>9. new[Vault] >= total(after, Holders)
  <2>1. new[Vault] \in Nat /\ old[Vault] \in Nat /\ before[a] \in Nat
    BY <1>2, <1>3 DEF Tokens
  <2> QED
    BY <1>2, <1>6, <1>7, <1>8, <2>1
<1>10. covers(committed.balanceOf, committed.positionOf)'
  BY <1>1, <1>9 DEF covers
<1> QED
  BY <1>1, <1>3, <1>7, <1>10 DEF PositionsCovered

(* AtomicVault by itself keeps a vault solvent, whoever implements it:     *)
(* each position is backed by tokens that no other position counts on.     *)
THEOREM AtomicVaultIsSolvent == Promise!AtomicSpec => []PositionsCovered
<1> USE VaultAssumption
<1>1. Promise!AtomicInit => PositionsCovered
  <2> SUFFICES ASSUME Promise!AtomicInit PROVE PositionsCovered
    OBVIOUS
  <2>1. /\ committed.positionOf = [a \in Holders |-> 0]
        /\ committed.balanceOf =
             [x \in Tokens |-> IF x = Vault THEN 0 ELSE InitialBalance[x]]
    BY DEF Promise!AtomicInit, Promise!Addresses, Tokens
  <2>2. committed.balanceOf \in [Tokens -> Nat] /\ committed.balanceOf[Vault] = 0
    BY <2>1 DEF Tokens
  <2>3. total(committed.positionOf, Holders) = 0
    BY <2>1, TotalZero
  <2> QED
    BY <2>1, <2>2, <2>3 DEF PositionsCovered, covers
<1>2. PositionsCovered /\ [Promise!AtomicNext]_(Promise!atomicVars)
        => PositionsCovered'
  <2> SUFFICES ASSUME PositionsCovered,
                      Promise!AtomicNext \/ UNCHANGED Promise!atomicVars
               PROVE  PositionsCovered'
    OBVIOUS
  <2>1. ASSUME NEW a \in Holders, NEW amount \in Amounts, Promise!Deposit(a, amount)
        PROVE  PositionsCovered'
    <3>1. committed.positionOf[a] + amount \in Nat /\ amount \in Int
      BY DEF PositionsCovered
    <3> QED
      BY <2>1, <3>1, TransactionCovers DEF Promise!Deposit
  <2>2. ASSUME NEW a \in Holders, NEW amount \in Amounts, Promise!Withdraw(a, amount)
        PROVE  PositionsCovered'
    <3> DEFINE less == 0 - amount
    <3>1. /\ committed.positionOf[a] \in Nat /\ amount \in Nat
          /\ amount <= committed.positionOf[a]
      BY <2>2 DEF PositionsCovered, Promise!Withdraw
    <3>2. less \in Int /\ committed.positionOf[a] + less \in Nat
            /\ committed.positionOf[a] - amount = committed.positionOf[a] + less
      BY <3>1
    <3>3. /\ committed'.positionOf =
               [committed.positionOf EXCEPT ![a] = committed.positionOf[a] - amount]
          /\ Promise!Transaction(Promise!only(a, less))
      BY <2>2 DEF Promise!Withdraw
    <3> HIDE DEF less
    <3> QED
      BY <3>2, <3>3, TransactionCovers
  <2>3. CASE Promise!Elsewhere
    <3>1. CASE Holders = {}
      <4>1. /\ committed'.balanceOf \in [Tokens -> Nat]
            /\ committed'.positionOf = committed.positionOf
        BY <2>3 DEF Promise!Elsewhere, Promise!Transaction, Promise!Addresses, Tokens
      <4>2. total(committed'.positionOf, Holders) = 0
        BY <3>1, TotalZero
      <4>3. covers(committed.balanceOf, committed.positionOf)'
        BY <4>1, <4>2 DEF covers, Tokens
      <4> QED
        BY <4>1, <4>3 DEF PositionsCovered
    <3>2. CASE Holders # {}
      <4>1. PICK a \in Holders : TRUE
        BY <3>2
      <4>2. committed.positionOf[a] \in Nat
        BY DEF PositionsCovered
      <4>3. committed'.positionOf =
              [committed.positionOf EXCEPT ![a] = committed.positionOf[a] + 0]
        BY <2>3, <4>2 DEF Promise!Elsewhere, PositionsCovered
      <4>4. Promise!only(a, 0) = [x \in Holders |-> 0]
        BY DEF Promise!only
      <4>5. Promise!Transaction(Promise!only(a, 0))
        BY <2>3, <4>4 DEF Promise!Elsewhere
      <4> QED
        BY <4>2, <4>3, <4>5, TransactionCovers
    <3> QED
      BY <3>1, <3>2
  <2>4. CASE Promise!Time \/ UNCHANGED Promise!atomicVars
    <3>1. /\ committed'.positionOf = committed.positionOf
          /\ committed'.balanceOf = committed.balanceOf
      BY <2>4 DEF Promise!Time, Promise!atomicVars
    <3> QED
      BY <3>1 DEF PositionsCovered, covers
  <2> QED
    BY <2>1, <2>2, <2>3, <2>4 DEF Promise!AtomicNext
<1> QED
  BY <1>1, <1>2, PTL DEF Promise!AtomicSpec
=============================================================================
