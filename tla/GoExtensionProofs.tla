--------------------------- MODULE GoExtensionProofs ---------------------------
(***************************************************************************)
(* Proofs about GoExtension for any number of requests and any names: its  *)
(* mutual exclusion, that it implements CountingService step by step, and  *)
(* what follows for the numbers and states that are reported.              *)
(***************************************************************************)
EXTENDS GoExtension, TLAPS

(* The fields, the kinds that greet, and what a field may hold.            *)
Fields == Service!Fields
Greetings == Service!Greetings
Values == Nat \cup Names \cup {None}

(* The places of a goroutine that holds Lock or waits for the readers, of  *)
(* one that holds RLock, and of one whose reply is settled.                *)
Writing == {"locking", "increment", "number", "last", "unlock"}
Reading == Fields \cup {"rUnlock"}
Settled == {"unlock", "rUnlock", "write", "done"}

(* Where a goroutine is tells what it was asked.                           *)
AskedFits ==
  \A r \in Requests :
    /\ pc[r] = "none" <=> asked[r] = None
    /\ pc[r] \in Writing => asked[r].kind \in Greetings
    /\ pc[r] \in Reading => asked[r].kind = "state"

(* The fields stateHandler has read when it comes to f.                    *)
readBefore(f) ==
  CASE f = "greetingCount" -> {}
    [] f = "lastGreeting" -> {"greetingCount"}
    [] f = "farewellCount" -> {"greetingCount", "lastGreeting"}
    [] f = "lastFarewell" -> {"greetingCount", "lastGreeting", "farewellCount"}

(* The fields a reader has read are as they were: nobody writes meanwhile. *)
ReadsCurrent ==
  \A r \in Requests : pc[r] \in Fields =>
    /\ local[r] \in [code: {200}, state: [Fields -> Values]]
    /\ \A f \in readBefore(pc[r]) : local[r].state[f] = fields[f]

(* A writer's counter has not moved since it incremented it, and a settled *)
(* reply is one.                                                           *)
LocalFits ==
  \A r \in Requests :
    /\ pc[r] \in {"number", "last"} => fields[countOf(asked[r].kind)] > 0
    /\ pc[r] = "last" =>
         local[r] = Service!greetingOf(fields[countOf(asked[r].kind)],
                                       asked[r].name)
    /\ pc[r] \in Settled => local[r] \in Service!Replies

(* Only what is written to the ResponseWriter is a reply.                  *)
ReplyFits ==
  \A r \in Requests :
    reply[r] = IF pc[r] = "done" THEN local[r] ELSE None

(* Which functions and records the variables are.                          *)
Shapes ==
  /\ fields \in [Fields -> Values]
  /\ mu \in [holder: Requests \cup {None}, readers: SUBSET Requests]
  /\ DOMAIN local = Requests /\ DOMAIN reply = Requests

(* The inductive invariant.                                                *)
GInv ==
  /\ GoInv
  /\ Shapes
  /\ AskedFits
  /\ ReadsCurrent
  /\ LocalFits
  /\ ReplyFits

(* A new extension.                                                        *)
LEMMA GInvInit == New => GInv
<1> SUFFICES ASSUME New PROVE GInv
  OBVIOUS
<1> USE DEF New
<1>1. GoTypeOK
  BY DEF GoTypeOK, Service!newFields, Service!Fields, Service!Greetings,
         countOf, lastOf, Service!countOf, Service!lastOf, newMutex
<1>2. LockHeld
  BY NoneAssumption DEF LockHeld, newMutex, Service!Fields
<1>3. Shapes
  BY DEF Shapes, Service!newFields, Fields, Service!Fields, Values, newMutex
<1>4. AskedFits
  BY DEF AskedFits, Writing, Reading, Fields, Service!Fields
<1>5. ReadsCurrent /\ LocalFits /\ ReplyFits
  BY DEF ReadsCurrent, LocalFits, ReplyFits, Fields, Service!Fields, Settled
<1> QED
  BY <1>1, <1>2, <1>3, <1>4, <1>5 DEF GInv, GoInv

(* Each kind of greeting has a counter and a text of its own.              *)
LEMMA CountsAndLasts ==
  /\ \A kind : countOf(kind) \in {"greetingCount", "farewellCount"}
              /\ lastOf(kind) \in {"lastGreeting", "lastFarewell"}
  /\ \A kind, k \in Greetings : countOf(kind) = countOf(k) <=> kind = k
  BY DEF countOf, lastOf, Service!countOf, Service!lastOf, Greetings,
         Service!Greetings

(* Greetings have a name, and what a handler answers is a reply.           *)
LEMMA InputsFit ==
  /\ \A input \in Inputs : input.kind \in Greetings => input.name \in Names
  /\ \A kind \in Service!Refusals : Service!refusalOf(kind) \in Service!Replies
  /\ \A n \in Nat, name \in Names : Service!greetingOf(n, name) \in Service!Replies
BY DEF Inputs, Service!Inputs, Greetings, Service!Greetings, Service!Refusals,
       Service!refusalOf, Service!greetingOf, Service!Replies

(* One goroutine at most is a writer, and once it is past Lock there is    *)
(* no reader.                                                              *)
LEMMA WritersAreAlone ==
  ASSUME GInv, NEW r \in Requests, pc[r] \in Writing
  PROVE  /\ \A q \in Requests : pc[q] \in Writing => q = r
         /\ pc[r] # "locking" => \A q \in Requests : pc[q] \notin Reading
BY NoneAssumption
DEF GInv, GoInv, LockHeld, Writing, Reading, Fields, Service!Fields

(* What a writer was asked, and that the counter it is at is a number.     *)
LEMMA WriterFacts ==
  ASSUME GInv, NEW r \in Requests, pc[r] \in Writing
  PROVE  LET kind == asked[r].kind
         IN  /\ kind \in Greetings /\ asked[r] \in Inputs
             /\ asked[r].name \in Names
             /\ countOf(kind) \in Fields /\ lastOf(kind) \in Fields
             /\ fields[countOf(kind)] \in Nat
<1>1. asked[r].kind \in Greetings /\ asked[r] \in Inputs
  BY DEF GInv, GoInv, AskedFits, GoTypeOK, Writing
<1>2. fields[countOf(asked[r].kind)] \in Nat
  BY <1>1 DEF GInv, GoInv, GoTypeOK, Greetings
<1> QED
  BY <1>1, <1>2, InputsFit, CountsAndLasts DEF Fields, Service!Fields

(* The invariant after each step of a goroutine: a request comes in,       *)
LEMMA ReceiveStep ==
  ASSUME GInv, NEW r \in Requests, receive(r)
  PROVE  GInv'
<1> USE DEF GInv, GoInv, receive, moves, goTo
<1>1. PICK input \in Inputs : asked' = [asked EXCEPT ![r] = input]
  OBVIOUS
<1>2. GoTypeOK'
  BY <1>1 DEF GoTypeOK
<1>3. LockHeld'
  BY <1>1 DEF LockHeld, GoTypeOK, Service!Fields
<1>4. Shapes'
  BY <1>1 DEF Shapes
<1>5. AskedFits'
  BY <1>1, NoneAssumption
  DEF AskedFits, GoTypeOK, Writing, Reading, Fields, Service!Fields
<1>6. ReadsCurrent'
  BY <1>1 DEF ReadsCurrent, GoTypeOK, Fields, Service!Fields
<1>7. LocalFits'
  BY <1>1 DEF LocalFits, GoTypeOK, Settled
<1>8. ReplyFits'
  BY <1>1 DEF ReplyFits, GoTypeOK
<1> QED
  BY <1>2, <1>3, <1>4, <1>5, <1>6, <1>7, <1>8

(* it is refused,                                                          *)
LEMMA RefuseStep ==
  ASSUME GInv, NEW r \in Requests, refuse(r)
  PROVE  GInv'
<1> USE DEF GInv, GoInv, refuse, moves, goTo
<1>1. GoTypeOK'
  BY DEF GoTypeOK
<1>2. LockHeld'
  BY DEF LockHeld, GoTypeOK, Service!Fields
<1>3. Shapes'
  BY DEF Shapes
<1>4. AskedFits'
  BY DEF AskedFits, GoTypeOK, Writing, Reading, Fields, Service!Fields
<1>5. ReadsCurrent'
  BY DEF ReadsCurrent, GoTypeOK, Shapes, Fields, Service!Fields
<1>6. LocalFits'
  BY InputsFit DEF LocalFits, GoTypeOK, Shapes, Settled
<1>7. ReplyFits'
  BY DEF ReplyFits, GoTypeOK, Shapes
<1> QED
  BY <1>1, <1>2, <1>3, <1>4, <1>5, <1>6, <1>7

(* it calls Lock,                                                          *)
LEMMA LockStep ==
  ASSUME GInv, NEW r \in Requests, lock(r)
  PROVE  GInv'
<1> USE DEF GInv, GoInv, lock, moves, goTo
<1>1. GoTypeOK'
  BY DEF GoTypeOK, Shapes
<1>2. LockHeld'
  BY NoneAssumption DEF LockHeld, GoTypeOK, Shapes, Service!Fields, isFree
<1>3. Shapes'
  BY DEF Shapes
<1>4. AskedFits'
  BY DEF AskedFits, GoTypeOK, Writing, Reading, Fields, Service!Fields,
         Greetings
<1>5. ReadsCurrent'
  BY DEF ReadsCurrent, GoTypeOK, Shapes, Fields, Service!Fields
<1>6. LocalFits'
  BY DEF LocalFits, GoTypeOK, Shapes, Settled
<1>7. ReplyFits'
  BY DEF ReplyFits, GoTypeOK
<1> QED
  BY <1>1, <1>2, <1>3, <1>4, <1>5, <1>6, <1>7

(* it gets the lock,                                                       *)
LEMMA LockedStep ==
  ASSUME GInv, NEW r \in Requests, locked(r)
  PROVE  GInv'
<1> USE DEF GInv, GoInv, locked, moves, goTo
<1>1. GoTypeOK'
  BY DEF GoTypeOK
<1>2. LockHeld'
  BY NoneAssumption DEF LockHeld, GoTypeOK, Service!Fields, noReaders
<1>3. Shapes'
  BY DEF Shapes
<1>4. AskedFits'
  BY DEF AskedFits, GoTypeOK, Writing, Reading, Fields, Service!Fields
<1>5. ReadsCurrent'
  BY DEF ReadsCurrent, GoTypeOK, Fields, Service!Fields
<1>6. LocalFits'
  BY DEF LocalFits, GoTypeOK, Settled
<1>7. ReplyFits'
  BY DEF ReplyFits, GoTypeOK
<1> QED
  BY <1>1, <1>2, <1>3, <1>4, <1>5, <1>6, <1>7

(* it increments the counter, in nobody's sight,                           *)
LEMMA IncrementStep ==
  ASSUME GInv, NEW r \in Requests, increment(r)
  PROVE  GInv'
<1> USE DEF GInv, GoInv, increment, moves, goTo
<1>1. /\ \A q \in Requests : pc[q] \in Writing => q = r
      /\ \A q \in Requests : pc[q] \notin Reading
  BY WritersAreAlone DEF Writing
<1> DEFINE kind == asked[r].kind
<1>2. /\ kind \in Greetings /\ asked[r] \in Inputs
      /\ asked[r].name \in Names
      /\ countOf(kind) \in Fields /\ lastOf(kind) \in Fields
      /\ fields[countOf(kind)] \in Nat
  BY WriterFacts DEF Writing
<1>3. GoTypeOK'
  BY <1>2, CountsAndLasts DEF GoTypeOK, Fields
<1>4. LockHeld'
  BY DEF LockHeld, GoTypeOK, Service!Fields
<1>5. Shapes'
  BY <1>2 DEF Shapes, Values
<1>6. AskedFits'
  BY DEF AskedFits, GoTypeOK, Writing, Reading, Fields, Service!Fields
<1>7. ReadsCurrent'
  BY <1>1 DEF ReadsCurrent, GoTypeOK, Reading, Fields, Service!Fields
<1>8. LocalFits'
  BY <1>1, <1>2 DEF LocalFits, GoTypeOK, Shapes, Settled, Writing
<1>9. ReplyFits'
  BY DEF ReplyFits, GoTypeOK
<1> QED
  BY <1>3, <1>4, <1>5, <1>6, <1>7, <1>8, <1>9

(* it reads the counter back,                                              *)
LEMMA TakeNumberStep ==
  ASSUME GInv, NEW r \in Requests, takeNumber(r)
  PROVE  GInv'
<1> USE DEF GInv, GoInv, takeNumber, moves, goTo
<1>1. GoTypeOK'
  BY DEF GoTypeOK
<1>2. LockHeld'
  BY DEF LockHeld, GoTypeOK, Service!Fields
<1>3. Shapes'
  BY DEF Shapes
<1>4. AskedFits'
  BY DEF AskedFits, GoTypeOK, Writing, Reading, Fields, Service!Fields
<1>5. ReadsCurrent'
  BY DEF ReadsCurrent, GoTypeOK, Shapes, Fields, Service!Fields
<1>6. LocalFits'
  BY DEF LocalFits, GoTypeOK, Shapes, Settled
<1>7. ReplyFits'
  BY DEF ReplyFits, GoTypeOK, Shapes
<1> QED
  BY <1>1, <1>2, <1>3, <1>4, <1>5, <1>6, <1>7

(* it stores the text,                                                     *)
LEMMA SetLastStep ==
  ASSUME GInv, NEW r \in Requests, setLast(r)
  PROVE  GInv'
<1> USE DEF GInv, GoInv, setLast, moves, goTo
<1>1. /\ \A q \in Requests : pc[q] \in Writing => q = r
      /\ \A q \in Requests : pc[q] \notin Reading
  BY WritersAreAlone DEF Writing
<1> DEFINE kind == asked[r].kind
<1>2. /\ kind \in Greetings /\ asked[r] \in Inputs
      /\ asked[r].name \in Names
      /\ countOf(kind) \in Fields /\ lastOf(kind) \in Fields
      /\ fields[countOf(kind)] \in Nat
  BY WriterFacts DEF Writing
<1>3. local[r].text \in Names
  <2>1. local[r] = Service!greetingOf(fields[countOf(kind)], asked[r].name)
    BY DEF LocalFits
  <2>2. local[r].text = asked[r].name
    BY <2>1 DEF Service!greetingOf
  <2> QED
    BY <1>2, <2>2
<1>4. GoTypeOK'
  <2>1. /\ DOMAIN fields' = Service!Fields
        /\ \A k \in Service!Greetings :
             /\ fields'[countOf(k)] \in Nat
             /\ fields'[lastOf(k)] \in Names \cup {None}
    BY <1>2, <1>3, CountsAndLasts DEF GoTypeOK, Fields
  <2> QED
    BY <2>1 DEF GoTypeOK
<1>5. LockHeld'
  BY DEF LockHeld, GoTypeOK, Service!Fields
<1>6. Shapes'
  BY <1>2, <1>3 DEF Shapes, Values
<1>7. AskedFits'
  BY DEF AskedFits, GoTypeOK, Writing, Reading, Fields, Service!Fields
<1>8. ReadsCurrent'
  BY <1>1 DEF ReadsCurrent, GoTypeOK, Reading, Fields, Service!Fields
<1>9. LocalFits'
  BY <1>1, <1>2, InputsFit DEF LocalFits, GoTypeOK, Settled, Writing
<1>10. ReplyFits'
  BY DEF ReplyFits, GoTypeOK
<1> QED
  BY <1>4, <1>5, <1>6, <1>7, <1>8, <1>9, <1>10

(* it unlocks,                                                             *)
LEMMA UnlockStep ==
  ASSUME GInv, NEW r \in Requests, unlock(r)
  PROVE  GInv'
<1> USE DEF GInv, GoInv, unlock, moves, goTo
<1>1. GoTypeOK'
  BY DEF GoTypeOK, Shapes
<1>2. LockHeld'
  BY NoneAssumption DEF LockHeld, GoTypeOK, Shapes, Service!Fields
<1>3. Shapes'
  BY DEF Shapes
<1>4. AskedFits'
  BY DEF AskedFits, GoTypeOK, Writing, Reading, Fields, Service!Fields
<1>5. ReadsCurrent'
  BY DEF ReadsCurrent, GoTypeOK, Fields, Service!Fields
<1>6. LocalFits'
  BY DEF LocalFits, GoTypeOK, Settled
<1>7. ReplyFits'
  BY DEF ReplyFits, GoTypeOK
<1> QED
  BY <1>1, <1>2, <1>3, <1>4, <1>5, <1>6, <1>7

(* it calls RLock and gets it,                                             *)
LEMMA RLockStep ==
  ASSUME GInv, NEW r \in Requests, rLock(r)
  PROVE  GInv'
<1> USE DEF GInv, GoInv, rLock, moves, goTo
<1>1. GoTypeOK'
  BY DEF GoTypeOK, Shapes, Service!Fields
<1>2. LockHeld'
  BY NoneAssumption DEF LockHeld, GoTypeOK, Shapes, Service!Fields, isFree
<1>3. Shapes'
  BY DEF Shapes
<1>4. AskedFits'
  BY DEF AskedFits, GoTypeOK, Writing, Reading, Fields, Service!Fields
<1>5. ReadsCurrent'
  <2>1. [code |-> 200, state |-> Service!newFields]
          \in [code: {200}, state: [Fields -> Values]]
    BY DEF Service!newFields, Fields, Service!Fields, Values
  <2>2. readBefore("greetingCount") = {}
    BY DEF readBefore
  <2>3. /\ \A q \in Requests : q # r => pc'[q] = pc[q] /\ local'[q] = local[q]
        /\ pc'[r] = "greetingCount"
        /\ local'[r] = [code |-> 200, state |-> Service!newFields]
        /\ fields' = fields
    BY DEF GoTypeOK, Shapes
  <2> HIDE DEF rLock, moves, goTo
  <2> QED
    BY <2>1, <2>2, <2>3 DEF ReadsCurrent
<1>6. LocalFits'
  BY DEF LocalFits, GoTypeOK, Shapes, Settled
<1>7. ReplyFits'
  BY DEF ReplyFits, GoTypeOK, Shapes
<1> QED
  BY <1>1, <1>2, <1>3, <1>4, <1>5, <1>6, <1>7

(* it reads a field, and what it read before is still there,               *)
LEMMA ReadFieldStep ==
  ASSUME GInv, NEW r \in Requests, readField(r)
  PROVE  GInv'
<1> DEFINE f == pc[r]
           s == local[r].state
           t == [s EXCEPT ![f] = fields[f]]
<1>1. /\ f \in Fields
      /\ pc' = [pc EXCEPT ![r] = afterRead(f)]
      /\ local' = [local EXCEPT ![r] = [local[r] EXCEPT !.state[f] = fields[f]]]
      /\ UNCHANGED <<fields, mu, asked, reply>>
  BY DEF readField, goTo, Fields
<1>2. /\ local[r] = [code |-> 200, state |-> s]
      /\ s \in [Fields -> Values]
      /\ \A g \in readBefore(f) : s[g] = fields[g]
  BY <1>1 DEF GInv, ReadsCurrent
<1>3. [local[r] EXCEPT !.state[f] = fields[f]] = [code |-> 200, state |-> t]
  BY <1>2
<1>4. local' = [local EXCEPT ![r] = [code |-> 200, state |-> t]]
  BY <1>1, <1>3
<1>5. /\ t \in [Fields -> Values]
      /\ \A g \in readBefore(f) \cup {f} : t[g] = fields[g]
  BY <1>1, <1>2 DEF GInv, Shapes, readBefore, Fields, Service!Fields
<1>6. /\ afterRead(f) \in Reading
      /\ afterRead(f) \in Fields =>
           readBefore(afterRead(f)) = readBefore(f) \cup {f}
      /\ afterRead(f) \notin Fields => afterRead(f) = "rUnlock"
  BY <1>1 DEF afterRead, readBefore, Reading, Fields, Service!Fields
<1>7. [code |-> 200, state |-> t] \in Service!Replies
  BY <1>5 DEF Service!Replies, Fields, Values
<1>8. /\ pc'[r] = afterRead(f) /\ local'[r] = [code |-> 200, state |-> t]
      /\ \A q \in Requests : q # r => pc'[q] = pc[q] /\ local'[q] = local[q]
  BY <1>1, <1>4 DEF GInv, GoInv, GoTypeOK, Shapes
<1>9. pc[r] \in Reading
  BY <1>1 DEF Reading
<1> HIDE DEF f, t, s
<1> USE DEF GInv, GoInv
<1>10. GoTypeOK'
  BY <1>1, <1>6 DEF GoTypeOK, Reading, Fields
<1>11. LockHeld'
  <2>1. r \in mu.readers /\ mu.holder # r
    BY <1>9, NoneAssumption DEF LockHeld, Reading, Fields, Service!Fields
  <2>2. mu.holder # None /\ mu.readers # {} => pc'[mu.holder] = "locking"
    BY <1>8, <2>1 DEF LockHeld, GoTypeOK
  <2>3. \A q \in Requests : pc'[q] \in Reading <=> pc[q] \in Reading
    BY <1>6, <1>8, <1>9
  <2>4. \A q \in Requests : pc'[q] \in Writing <=> pc[q] \in Writing
    BY <1>6, <1>8, <1>9 DEF Writing, Reading, Fields, Service!Fields
  <2> QED
    BY <1>1, <2>2, <2>3, <2>4 DEF LockHeld, Writing, Reading, Fields
<1>12. Shapes'
  BY <1>1, <1>4 DEF Shapes
<1>13. AskedFits'
  BY <1>1, <1>6, <1>8, <1>9
  DEF AskedFits, Reading, Writing, Fields, Service!Fields
<1>14. ReadsCurrent'
  <2>1. ASSUME NEW q \in Requests, pc'[q] \in Fields, q # r
        PROVE  /\ local'[q] \in [code: {200}, state: [Fields -> Values]]
               /\ \A g \in readBefore(pc'[q]) : local'[q].state[g] = fields'[g]
    BY <1>1, <1>8, <2>1 DEF ReadsCurrent
  <2>2. ASSUME pc'[r] \in Fields
        PROVE  /\ local'[r] \in [code: {200}, state: [Fields -> Values]]
               /\ \A g \in readBefore(pc'[r]) : local'[r].state[g] = fields'[g]
    <3>1. local'[r].state = t
      BY <1>8
    <3>2. readBefore(pc'[r]) = readBefore(f) \cup {f}
      BY <1>6, <1>8, <2>2
    <3>3. local'[r] \in [code: {200}, state: [Fields -> Values]]
      BY <1>5, <1>8
    <3>4. ASSUME NEW g \in readBefore(pc'[r])
          PROVE  local'[r].state[g] = fields'[g]
      <4>1. g \in readBefore(f) \cup {f}
        BY <3>2
      <4>2. t[g] = fields[g] /\ fields' = fields
        BY <1>1, <1>5, <4>1
      <4> QED
        BY <3>1, <4>2
    <3> QED
      BY <3>3, <3>4
  <2> QED
    BY <2>1, <2>2 DEF ReadsCurrent
<1>15. LocalFits'
  BY <1>1, <1>6, <1>7, <1>8
  DEF LocalFits, Settled, Reading, Fields, Service!Fields
<1>16. ReplyFits'
  BY <1>1, <1>6, <1>8, <1>9
  DEF ReplyFits, Reading, Fields, Service!Fields
<1> QED
  BY <1>10, <1>11, <1>12, <1>13, <1>14, <1>15, <1>16

(* it gives RLock back,                                                    *)
LEMMA RUnlockStep ==
  ASSUME GInv, NEW r \in Requests, rUnlock(r)
  PROVE  GInv'
<1> USE DEF GInv, GoInv, rUnlock, moves, goTo
<1>1. GoTypeOK'
  BY DEF GoTypeOK, Shapes
<1>2. LockHeld'
  BY NoneAssumption DEF LockHeld, GoTypeOK, Shapes, Service!Fields
<1>3. Shapes'
  BY DEF Shapes
<1>4. AskedFits'
  BY DEF AskedFits, GoTypeOK, Writing, Reading, Fields, Service!Fields
<1>5. ReadsCurrent'
  BY DEF ReadsCurrent, GoTypeOK, Fields, Service!Fields
<1>6. LocalFits'
  BY DEF LocalFits, GoTypeOK, Settled
<1>7. ReplyFits'
  BY DEF ReplyFits, GoTypeOK
<1> QED
  BY <1>1, <1>2, <1>3, <1>4, <1>5, <1>6, <1>7

(* it writes the reply.                                                    *)
LEMMA WriteStep ==
  ASSUME GInv, NEW r \in Requests, write(r)
  PROVE  GInv'
<1> USE DEF GInv, GoInv, write, moves, goTo
<1>1. GoTypeOK'
  BY DEF GoTypeOK
<1>2. LockHeld'
  BY DEF LockHeld, GoTypeOK, Service!Fields
<1>3. Shapes'
  BY DEF Shapes
<1>4. AskedFits'
  BY DEF AskedFits, GoTypeOK, Writing, Reading, Fields, Service!Fields
<1>5. ReadsCurrent'
  BY DEF ReadsCurrent, GoTypeOK, Fields, Service!Fields
<1>6. LocalFits'
  BY DEF LocalFits, GoTypeOK, Settled
<1>7. ReplyFits'
  BY DEF ReplyFits, GoTypeOK, Shapes
<1> QED
  BY <1>1, <1>2, <1>3, <1>4, <1>5, <1>6, <1>7

(* Every step of a goroutine, wherever the others are, keeps the invariant. *)
LEMMA GInvStep == GInv /\ [ExtensionNext]_extensionVars => GInv'
<1> SUFFICES ASSUME GInv, [ExtensionNext]_extensionVars
             PROVE  GInv'
  OBVIOUS
<1>1. ASSUME NEW r \in Requests, receive(r) \/ actionHandler(r) \/ stateHandler(r)
      PROVE  GInv'
  BY <1>1, ReceiveStep, RefuseStep, LockStep, LockedStep, IncrementStep,
     TakeNumberStep, SetLastStep, UnlockStep, WriteStep, RLockStep,
     ReadFieldStep, RUnlockStep
  DEF actionHandler, stateHandler
<1>2. CASE UNCHANGED extensionVars
  BY <1>2
  DEF extensionVars, GInv, GoInv, GoTypeOK, LockHeld, Shapes, AskedFits,
      ReadsCurrent, LocalFits, ReplyFits
<1> QED
  BY <1>1, <1>2 DEF ExtensionNext

(* The invariant holds always.                                             *)
LEMMA GoInvariant == ExtensionSpec => []GInv
  BY GInvInit, GInvStep, PTL DEF ExtensionSpec

(* The types, and that the writer of the fields is alone and their readers *)
(* are among themselves.                                                   *)
THEOREM WritersExcludeReaders == ExtensionSpec => []GoInv
<1>1. GInv => GoInv
  BY DEF GInv
<1> QED
  BY GoInvariant, <1>1, PTL
-----------------------------------------------------------------------------
(* The fields the service shows for goroutines at given places: outside    *)
(* and inside of the critical section of a writer.                         *)
shown(flds, places, inputs) ==
  [f \in DOMAIN flds |->
     IF \E r \in Requests : places[r] \in {"number", "last"}
          /\ f = IF inputs[r].kind = "sayHello" THEN "greetingCount"
                                                ELSE "farewellCount"
       THEN flds[f] - 1
       ELSE flds[f]]

(* While no writer is between counter and text, the fields are shown as    *)
(* they are.                                                               *)
LEMMA ShownOutside ==
  ASSUME NEW flds \in [Fields -> Values], NEW places, NEW inputs,
         \A q \in Requests : places[q] \notin {"number", "last"}
  PROVE  shown(flds, places, inputs) = flds
BY DEF shown

(* While one is, its greeting is not counted yet.                          *)
LEMMA ShownInside ==
  ASSUME NEW flds \in [Fields -> Values], NEW places, NEW inputs,
         NEW r \in Requests, places[r] \in {"number", "last"},
         \A q \in Requests : places[q] \in {"number", "last"} => q = r
  PROVE  shown(flds, places, inputs)
           = [flds EXCEPT ![countOf(inputs[r].kind)] = @ - 1]
<1>1. countOf(inputs[r].kind)
        = IF inputs[r].kind = "sayHello" THEN "greetingCount"
                                         ELSE "farewellCount"
  BY DEF countOf, Service!countOf
<1>2. \A f : (\E q \in Requests : places[q] \in {"number", "last"}
                /\ f = IF inputs[q].kind = "sayHello" THEN "greetingCount"
                                                      ELSE "farewellCount")
             <=> f = countOf(inputs[r].kind)
  BY <1>1
<1>3. shown(flds, places, inputs)
        = [f \in DOMAIN flds |-> IF f = countOf(inputs[r].kind)
                                   THEN flds[f] - 1 ELSE flds[f]]
  BY <1>2 DEF shown
<1> QED
  BY <1>3

(* The refinement mapping, before and after a step.                        *)
LEMMA VisibleIsShown ==
  /\ visible = shown(fields, pc, asked)
  /\ visible' = shown(fields', pc', asked')
BY DEF visible, shown, isBetween

(* A step that keeps the fields and who is between them shows nothing new. *)
LEMMA VisibleKept ==
  ASSUME fields' = fields,
         \A q \in Requests : isBetween(q)' <=> isBetween(q),
         \A q \in Requests : isBetween(q) => asked'[q] = asked[q]
  PROVE  visible' = visible
BY DEF visible

(* Neither does one that settles nothing.                                  *)
LEMMA SettledKept ==
  ASSUME \A q \in Requests : pc'[q] \in Settled <=> pc[q] \in Settled,
         \A q \in Requests : pc[q] \in Settled => local'[q] = local[q]
  PROVE  settled' = settled
BY DEF settled, Settled

(* A step of one request settles its reply, which was open.                *)
LEMMA SettlesOne ==
  ASSUME GInv, NEW r \in Requests, NEW x,
         pc[r] \notin Settled, pc'[r] \in Settled, local'[r] = x,
         \A q \in Requests : q # r => pc'[q] = pc[q] /\ local'[q] = local[q]
  PROVE  settled' = [settled EXCEPT ![r] = x]
BY DEF settled, Settled

(* A new extension shows a new service.                                    *)
LEMMA NewIsServiceInit == New => Service!ServiceInit
<1> SUFFICES ASSUME New PROVE Service!ServiceInit
  OBVIOUS
<1>1. visible = Service!newFields
  <2>1. \A q \in Requests : ~ isBetween(q)
    BY DEF New, isBetween
  <2> QED
    BY <2>1, GInvInit, ShownOutside, VisibleIsShown
    DEF New, GInv, Shapes, isBetween
<1>2. settled = [q \in Requests |-> None]
  BY DEF New, settled
<1> QED
  BY <1>1, <1>2 DEF New, Service!ServiceInit

(* A request that comes in is asked.                                       *)
LEMMA ReceiveAsks ==
  ASSUME GInv, NEW r \in Requests, receive(r)
  PROVE  Service!Ask(r)
<1> USE DEF receive, moves, goTo
<1>1. pc \in [Requests -> {pc[q] : q \in Requests}] /\ DOMAIN asked = Requests
  BY DEF GInv, GoInv, GoTypeOK
<1>2. asked[r] = None
  BY DEF GInv, AskedFits
<1>3. \A q \in Requests : q # r => pc'[q] = pc[q] /\ asked'[q] = asked[q]
  BY <1>1
<1>4. pc'[r] = "handle"
  BY <1>1
<1>5. visible' = visible
  BY <1>3, <1>4, VisibleKept DEF isBetween
<1>6. settled' = settled
  BY <1>3, <1>4, SettledKept DEF Settled
<1> QED
  BY <1>2, <1>5, <1>6 DEF Service!Ask, Inputs

(* A refusal is one step of the service.                                   *)
LEMMA RefuseRefuses ==
  ASSUME GInv, NEW r \in Requests, refuse(r)
  PROVE  Service!Refuse(r)
<1> DEFINE x == Service!refusalOf(asked[r].kind)
<1>1. /\ pc[r] = "handle" /\ pc'[r] = "write" /\ local'[r] = x
      /\ \A q \in Requests : q # r => pc'[q] = pc[q] /\ local'[q] = local[q]
      /\ fields' = fields /\ asked' = asked
      /\ asked[r].kind \in Service!Refusals
  BY DEF GInv, GoInv, GoTypeOK, Shapes, refuse, moves, goTo
<1>2. asked[r] # None /\ settled[r] = None
  BY <1>1 DEF GInv, AskedFits, settled
<1> HIDE DEF x
<1>3. settled' = [settled EXCEPT ![r] = x]
  BY <1>1, SettlesOne DEF Settled
<1>4. visible' = visible
  BY <1>1, VisibleKept DEF isBetween
<1> QED
  BY <1>1, <1>2, <1>3, <1>4 DEF Service!Refuse, Service!isOpen, x

(* The steps before the lock and after the unlock, and those that read,    *)
(* are no steps of the service.                                            *)
LEMMA QuietSteps ==
  ASSUME GInv, NEW r \in Requests,
         lock(r) \/ locked(r) \/ unlock(r) \/ rLock(r) \/ rUnlock(r) \/ write(r)
  PROVE  UNCHANGED <<visible, asked, settled>>
<1>1. /\ fields' = fields /\ asked' = asked
      /\ \A q \in Requests : q # r => pc'[q] = pc[q] /\ local'[q] = local[q]
      /\ pc[r] \notin {"number", "last"} /\ pc'[r] \notin {"number", "last"}
      /\ pc'[r] \in Settled <=> pc[r] \in Settled
      /\ pc[r] \in Settled => local'[r] = local[r]
  BY DEF lock, locked, unlock, rLock, rUnlock, write, moves, goTo, Settled,
         GInv, GoInv, GoTypeOK, Shapes
<1>2. visible' = visible
  BY <1>1, VisibleKept DEF isBetween
<1>3. settled' = settled
  BY <1>1, SettledKept
<1> QED
  BY <1>1, <1>2, <1>3

(* The counter that was incremented is not shown yet.                      *)
LEMMA IncrementIsHidden ==
  ASSUME GInv, NEW r \in Requests, increment(r)
  PROVE  UNCHANGED <<visible, asked, settled>>
<1> DEFINE c == countOf(asked[r].kind)
<1>1. /\ pc[r] = "increment" /\ pc'[r] = "number"
      /\ fields' = [fields EXCEPT ![c] = @ + 1]
      /\ asked' = asked /\ local' = local
      /\ \A q \in Requests : q # r => pc'[q] = pc[q]
  BY DEF increment, moves, goTo, GInv, GoInv, GoTypeOK
<1>2. c \in Fields /\ fields[c] \in Nat /\ fields \in [Fields -> Values]
  BY <1>1, WriterFacts DEF Writing, GInv, Shapes
<1>3. \A q \in Requests : q # r => pc[q] \notin {"number", "last"}
  BY <1>1, WritersAreAlone DEF Writing
<1>4. visible = fields
  BY <1>1, <1>2, <1>3, ShownOutside, VisibleIsShown
<1>5. visible' = [fields' EXCEPT ![c] = fields'[c] - 1]
  <2>1. fields' \in [Fields -> Values]
    BY IncrementStep DEF GInv, Shapes
  <2> QED
    <3>1. /\ pc'[r] \in {"number", "last"}
          /\ \A q \in Requests : pc'[q] \in {"number", "last"} => q = r
      BY <1>1, <1>3
    <3>2. shown(fields', pc', asked')
            = [fields' EXCEPT ![countOf(asked'[r].kind)] = @ - 1]
      BY <2>1, <3>1, ShownInside
    <3> QED
      BY <1>1, <3>2, VisibleIsShown
<1>6. visible' = fields
  <2> HIDE DEF c
  <2> QED
    BY <1>1, <1>2, <1>5
<1>7. settled' = settled
  BY <1>1, SettledKept DEF Settled
<1> QED
  BY <1>1, <1>4, <1>6, <1>7

(* Nor is the number that was read back.                                   *)
LEMMA TakeNumberIsHidden ==
  ASSUME GInv, NEW r \in Requests, takeNumber(r)
  PROVE  UNCHANGED <<visible, asked, settled>>
<1>1. /\ pc[r] = "number" /\ pc'[r] = "last"
      /\ fields' = fields /\ asked' = asked
      /\ \A q \in Requests : q # r => pc'[q] = pc[q] /\ local'[q] = local[q]
  BY DEF takeNumber, moves, goTo, GInv, GoInv, GoTypeOK, Shapes
<1>2. visible' = visible
  BY <1>1, VisibleKept DEF isBetween
<1>3. settled' = settled
  BY <1>1, SettledKept DEF Settled
<1> QED
  BY <1>1, <1>2, <1>3

(* Storing the text is the greeting: counter, text and reply show at       *)
(* once.                                                                   *)
LEMMA SetLastGreets ==
  ASSUME GInv, NEW r \in Requests, setLast(r)
  PROVE  Service!Greet(r)
<1>1. shown(fields, pc, asked) = [fields EXCEPT ![countOf(asked[r].kind)] = @ - 1]
  <2>1. pc[r] = "last" /\ fields \in [Fields -> Values]
    BY DEF setLast, moves, GInv, Shapes
  <2>2. \A q \in Requests : pc[q] \in {"number", "last"} => q = r
    BY <2>1, WritersAreAlone DEF Writing
  <2>3. pc[r] \in {"number", "last"}
    BY <2>1
  <2> QED
    BY <2>1, <2>2, <2>3, ShownInside
<1> DEFINE kind == asked[r].kind
           name == asked[r].name
           c == countOf(kind)
           l == lastOf(kind)
           n == fields[c]
<1>2. /\ pc[r] = "last" /\ pc'[r] = "unlock"
      /\ fields' = [fields EXCEPT ![l] = local[r].text]
      /\ asked' = asked /\ local' = local
      /\ \A q \in Requests : q # r => pc'[q] = pc[q]
  BY DEF setLast, moves, goTo, GInv, GoInv, GoTypeOK
<1>3. /\ kind \in Greetings /\ c \in Fields /\ l \in Fields /\ c # l
      /\ n \in Nat /\ fields \in [Fields -> Values]
  BY <1>2, WriterFacts, CountsAndLasts DEF Writing, GInv, Shapes
<1>4. local[r] = Service!greetingOf(n, name)
  BY <1>2 DEF GInv, LocalFits
<1>5. local[r].text = name
  BY <1>4 DEF Service!greetingOf
<1>6. \A q \in Requests : q # r => pc[q] \notin {"number", "last"}
  BY <1>2, WritersAreAlone DEF Writing
<1>7. visible = [fields EXCEPT ![c] = n - 1]
  BY <1>1, VisibleIsShown
<1>8. visible' = fields'
  <2>1. fields' \in [Fields -> Values]
    BY SetLastStep DEF GInv, Shapes
  <2> QED
    <3>1. \A q \in Requests : pc'[q] \notin {"number", "last"}
      BY <1>2, <1>6
    <3> QED
      BY <2>1, <3>1, ShownOutside, VisibleIsShown
<1>9. settled' = [settled EXCEPT ![r] = local[r]]
  BY <1>2, SettlesOne DEF Settled
<1>10. asked[r] # None /\ settled[r] = None
  BY <1>2 DEF GInv, AskedFits, settled
<1>11. /\ visible[c] + 1 = n
      /\ visible' = [visible EXCEPT ![c] = visible[c] + 1, ![l] = name]
  <2> HIDE DEF c, l, n, name, kind
  <2>1. visible[c] = n - 1
    BY <1>3, <1>7
  <2>2. fields' = [fields EXCEPT ![l] = name]
    BY <1>2, <1>5
  <2>3. [fields EXCEPT ![c] = n] = fields
    BY <1>3 DEF n
  <2> QED
    BY <1>3, <1>7, <1>8, <2>1, <2>2, <2>3
<1> QED
  BY <1>2, <1>3, <1>4, <1>9, <1>10, <1>11
  DEF Service!Greet, Service!isOpen, countOf, lastOf, Greetings

(* The last field that is read is the report of the state: the fields      *)
(* that were read before have not changed since.                           *)
LEMMA ReadFieldReports ==
  ASSUME GInv, NEW r \in Requests, readField(r)
  PROVE  Service!State(r) \/ UNCHANGED <<visible, asked, settled>>
<1> DEFINE f == pc[r]
           s == local[r].state
           t == [s EXCEPT ![f] = fields[f]]
<1>1. /\ f \in Fields
      /\ pc' = [pc EXCEPT ![r] = afterRead(f)]
      /\ local' = [local EXCEPT ![r] = [local[r] EXCEPT !.state[f] = fields[f]]]
      /\ fields' = fields /\ asked' = asked
  BY DEF readField, goTo, Fields
<1>2. /\ local[r] = [code |-> 200, state |-> s]
      /\ s \in [Fields -> Values]
      /\ \A g \in readBefore(f) : s[g] = fields[g]
  BY <1>1 DEF GInv, ReadsCurrent
<1>3. [local[r] EXCEPT !.state[f] = fields[f]] = [code |-> 200, state |-> t]
  BY <1>2
<1>4. local' = [local EXCEPT ![r] = [code |-> 200, state |-> t]]
  BY <1>1, <1>3
<1>5. /\ pc'[r] = afterRead(f) /\ local'[r] = [code |-> 200, state |-> t]
      /\ \A q \in Requests : q # r => pc'[q] = pc[q] /\ local'[q] = local[q]
  BY <1>1, <1>4 DEF GInv, GoInv, GoTypeOK, Shapes
<1>6. visible' = visible
  <2>1. afterRead(f) \notin {"number", "last"} /\ f \notin {"number", "last"}
    BY <1>1 DEF afterRead, Fields, Service!Fields
  <2> QED
    BY <1>1, <1>5, <2>1, VisibleKept DEF isBetween
<1>7. CASE f # "lastFarewell"
  <2>1. afterRead(f) \in Fields
    BY <1>1, <1>7 DEF afterRead, Fields, Service!Fields
  <2>2. settled' = settled
    BY <1>1, <1>5, <2>1, SettledKept DEF Settled, Fields, Service!Fields
  <2> QED
    BY <1>1, <1>6, <2>2
<1>8. CASE f = "lastFarewell"
  <2>1. t = fields
    BY <1>2, <1>8
    DEF readBefore, Fields, Service!Fields, GInv, Shapes
  <2>2. visible = fields
    <3>1. \A q \in Requests : pc[q] \notin {"number", "last"}
      BY <1>1, WritersAreAlone DEF Writing, Reading
    <3> QED
      BY <3>1, ShownOutside, VisibleIsShown DEF GInv, Shapes
  <2>3. afterRead(f) = "rUnlock"
    BY <1>8 DEF afterRead
  <2>4. settled' = [settled EXCEPT ![r] = [code |-> 200, state |-> visible]]
    BY <1>5, <1>8, <2>1, <2>2, <2>3, SettlesOne DEF Settled
  <2>5. asked[r] # None /\ settled[r] = None /\ asked[r].kind = "state"
    BY <1>1, <1>8 DEF GInv, AskedFits, Reading, settled
  <2> QED
    BY <1>1, <1>6, <2>4, <2>5 DEF Service!State, Service!isOpen
<1> QED
  BY <1>7, <1>8

(* Each step of the goroutines is a step of the service or none.           *)
LEMMA StepIsServiceStep ==
  GInv /\ [ExtensionNext]_extensionVars
    => [Service!ServiceNext]_(Service!serviceVars)
<1> SUFFICES ASSUME GInv, [ExtensionNext]_extensionVars
             PROVE  Service!ServiceNext \/ UNCHANGED <<visible, asked, settled>>
  BY DEF Service!serviceVars
<1>1. ASSUME NEW r \in Requests,
             receive(r) \/ actionHandler(r) \/ stateHandler(r)
      PROVE  \/ Service!Ask(r) \/ Service!Refuse(r)
             \/ Service!Greet(r) \/ Service!State(r)
             \/ UNCHANGED <<visible, asked, settled>>
  BY <1>1, ReceiveAsks, RefuseRefuses, QuietSteps, IncrementIsHidden,
     TakeNumberIsHidden, SetLastGreets, ReadFieldReports
  DEF actionHandler, stateHandler
<1>2. CASE UNCHANGED extensionVars
  BY <1>2 DEF extensionVars, visible, settled, isBetween
<1> QED
  BY <1>1, <1>2 DEF ExtensionNext, Service!ServiceNext, Service!Serve

(* The Go extension implements the counting service: whatever its          *)
(* goroutines interleave, the replies are those of a service that serves   *)
(* one request at a time (the safety part of ImplementsService).           *)
THEOREM GoImplementsService == ExtensionSpec => Service!ServiceSpec
  BY GoInvariant, NewIsServiceInit, StepIsServiceStep, PTL
  DEF ExtensionSpec, Service!ServiceSpec
-----------------------------------------------------------------------------
(* The last text is the one that went out with the highest number.         *)
LastFits ==
  \A kind \in Greetings :
    visible[countOf(kind)] > 0 =>
      \E r \in Requests : Service!isServed(r, kind)
        /\ settled[r].number = visible[countOf(kind)]
        /\ settled[r].text = visible[lastOf(kind)]

(* Types of what the service shows.                                        *)
ServiceTypes ==
  /\ visible \in [Fields -> Values]
  /\ \A kind \in Greetings : visible[countOf(kind)] \in Nat
  /\ DOMAIN asked = Requests /\ DOMAIN settled = Requests
  /\ \A r \in Requests : asked[r] = None => settled[r] = None

(* The inductive invariant of the service.                                 *)
SInv == ServiceTypes /\ LastFits /\ Service!NumbersDense /\ Service!StateExisted

(* A new service.                                                          *)
LEMMA SInvInit == Service!ServiceInit => SInv
<1> SUFFICES ASSUME Service!ServiceInit PROVE SInv
  OBVIOUS
<1>1. /\ visible = Service!newFields
      /\ asked = [r \in Requests |-> None] /\ settled = [r \in Requests |-> None]
  BY DEF Service!ServiceInit
<1>2. visible \in [Fields -> Values]
  BY <1>1 DEF Service!newFields, Fields, Service!Fields, Values
<1>3. \A kind \in Greetings : visible[countOf(kind)] = 0
  BY <1>1, CountsAndLasts DEF Service!newFields
<1>4. \A r \in Requests : \A kind : ~ Service!isServed(r, kind)
  BY <1>1 DEF Service!isServed
<1>5. ServiceTypes
  BY <1>1, <1>2, <1>3 DEF ServiceTypes
<1>6. LastFits
  BY <1>3 DEF LastFits
<1>7. Service!NumbersDense
  BY <1>3, <1>4 DEF Service!NumbersDense, Greetings, countOf
<1>8. Service!StateExisted
  BY <1>4 DEF Service!StateExisted
<1> QED
  BY <1>5, <1>6, <1>7, <1>8 DEF SInv

(* A step that keeps what is served and the fields keeps the invariant.    *)
LEMMA SInvKept ==
  ASSUME SInv, visible' = visible, settled' = settled, DOMAIN asked' = Requests,
         \A r \in Requests : asked'[r] # asked[r] => asked[r] = None
  PROVE  SInv'
<1>1. \A r \in Requests : \A kind :
        Service!isServed(r, kind)' <=> Service!isServed(r, kind)
  BY DEF SInv, ServiceTypes, Service!isServed
<1>2. ServiceTypes'
  BY DEF SInv, ServiceTypes
<1>3. LastFits'
  BY <1>1 DEF SInv, LastFits
<1>4. Service!NumbersDense'
  BY <1>1 DEF SInv, Service!NumbersDense
<1>5. Service!StateExisted'
  BY <1>1 DEF SInv, Service!StateExisted, Greetings
<1> QED
  BY <1>2, <1>3, <1>4, <1>5 DEF SInv

(* A reply adds its request to those that are served.                      *)
LEMMA ServesOne ==
  ASSUME SInv, NEW r \in Requests, NEW x, asked[r] # None, settled[r] = None,
         x \in Service!Replies, settled' = [settled EXCEPT ![r] = x],
         asked' = asked
  PROVE  /\ \A kind : /\ ~ Service!isServed(r, kind)
                      /\ Service!isServed(r, kind)' <=> asked[r].kind = kind
         /\ \A q \in Requests : q # r =>
              /\ settled'[q] = settled[q]
              /\ \A kind : Service!isServed(q, kind)' <=> Service!isServed(q, kind)
         /\ settled'[r] = x
         /\ DOMAIN asked' = Requests /\ DOMAIN settled' = Requests
         /\ \A q \in Requests : asked'[q] = None => settled'[q] = None
BY NoneAssumption DEF SInv, ServiceTypes, Service!isServed

(* A refusal serves no greeting and reports no state.                      *)
LEMMA RefuseKeepsSInv ==
  ASSUME SInv, NEW r \in Requests, Service!Refuse(r)
  PROVE  SInv'
<1> DEFINE x == Service!refusalOf(asked[r].kind)
<1>1. /\ asked[r] # None /\ settled[r] = None /\ x \in Service!Replies
      /\ settled' = [settled EXCEPT ![r] = x]
      /\ asked' = asked /\ visible' = visible
      /\ asked[r].kind \notin Greetings /\ asked[r].kind # "state"
  BY InputsFit
  DEF Service!Refuse, Service!isOpen, Service!Refusals, Greetings, Service!Greetings
<1> HIDE DEF x
<1>2. /\ \A q \in Requests, kind \in Greetings \cup {"state"} :
           Service!isServed(q, kind)' <=> Service!isServed(q, kind)
      /\ \A q \in Requests, kind \in Greetings \cup {"state"} :
           Service!isServed(q, kind) => settled'[q] = settled[q]
  BY <1>1, ServesOne
<1>3. ServiceTypes'
  BY <1>1, ServesOne DEF SInv, ServiceTypes
<1>4. LastFits'
  BY <1>1, <1>2 DEF SInv, LastFits
<1>5. Service!NumbersDense'
  BY <1>1, <1>2 DEF SInv, Service!NumbersDense, Greetings
<1>6. Service!StateExisted'
  BY <1>1, <1>2 DEF SInv, Service!StateExisted, Greetings
<1> QED
  BY <1>3, <1>4, <1>5, <1>6 DEF SInv

(* A reported state is the current one, whose texts are the last ones.     *)
LEMMA StateKeepsSInv ==
  ASSUME SInv, NEW r \in Requests, Service!State(r)
  PROVE  SInv'
<1> DEFINE x == [code |-> 200, state |-> visible]
<1>1. /\ asked[r] # None /\ settled[r] = None
      /\ settled' = [settled EXCEPT ![r] = x]
      /\ asked' = asked /\ visible' = visible /\ asked[r].kind = "state"
  BY DEF Service!State, Service!isOpen
<1>2. x \in Service!Replies
  BY DEF SInv, ServiceTypes, Service!Replies, Fields, Values
<1>3. x.state = visible
  OBVIOUS
<1> HIDE DEF x
<1>4. /\ \A q \in Requests, kind \in Greetings :
           Service!isServed(q, kind)' <=> Service!isServed(q, kind)
      /\ \A q \in Requests, kind \in Greetings :
           Service!isServed(q, kind) => settled'[q] = settled[q]
  BY <1>1, <1>2, ServesOne DEF Greetings, Service!Greetings
<1>5. ServiceTypes'
  BY <1>1, <1>2, ServesOne DEF SInv, ServiceTypes
<1>6. LastFits'
  BY <1>1, <1>4 DEF SInv, LastFits
<1>7. Service!NumbersDense'
  BY <1>1, <1>4 DEF SInv, Service!NumbersDense, Greetings
<1>8. Service!StateExisted'
  <2> SUFFICES ASSUME NEW q \in Requests, NEW kind \in Greetings,
                      Service!isServed(q, "state")',
                      settled'[q].state[countOf(kind)] > 0
               PROVE  \E p \in Requests :
                        /\ Service!isServed(p, kind)
                        /\ settled[p].number = settled'[q].state[countOf(kind)]
                        /\ settled[p].text = settled'[q].state[lastOf(kind)]
    BY <1>4 DEF Service!StateExisted, Greetings, countOf, lastOf
  <2>1. CASE q = r
    <3>1. settled'[q].state = visible
      BY <1>1, <1>2, <1>3, <2>1, ServesOne
    <3> QED
      BY <3>1 DEF SInv, LastFits
  <2>2. CASE q # r
    <3>1. settled'[q] = settled[q] /\ Service!isServed(q, "state")
      BY <1>1, <1>2, <2>2, ServesOne
    <3> QED
      BY <3>1 DEF SInv, Service!StateExisted, Greetings, countOf, lastOf
  <2> QED
    BY <2>1, <2>2
<1> QED
  BY <1>5, <1>6, <1>7, <1>8 DEF SInv

(* A greeting gets the next number, and its text is the last one.          *)
LEMMA GreetKeepsSInv ==
  ASSUME SInv, NEW r \in Requests, Service!Greet(r), asked[r].name \in Names
  PROVE  SInv'
<1> DEFINE k == asked[r].kind
           name == asked[r].name
           n == visible[countOf(k)]
           x == Service!greetingOf(n + 1, name)
<1>1. /\ asked[r] # None /\ settled[r] = None /\ k \in Greetings
      /\ visible' = [visible EXCEPT ![countOf(k)] = n + 1, ![lastOf(k)] = name]
      /\ settled' = [settled EXCEPT ![r] = x]
      /\ asked' = asked
  BY DEF Service!Greet, Service!isOpen, Greetings, countOf, lastOf
<1>2. n \in Nat /\ n + 1 \in Nat /\ name \in Names /\ name \in Values
      /\ n + 1 \in Values
  BY <1>1 DEF SInv, ServiceTypes, Values
<1>3. x \in Service!Replies /\ x.number = n + 1 /\ x.text = name
  BY <1>2, InputsFit DEF Service!greetingOf
<1> HIDE DEF x, n, k, name
<1>4. /\ \A kind : countOf(kind) \in Fields /\ lastOf(kind) \in Fields
      /\ \A kind, l : countOf(kind) # lastOf(l)
      /\ \A kind \in Greetings : kind # k =>
           countOf(kind) # countOf(k) /\ lastOf(kind) # lastOf(k)
  BY <1>1, CountsAndLasts
  DEF Fields, Service!Fields, lastOf, Service!lastOf, Greetings,
      Service!Greetings
<1>5. /\ visible' \in [Fields -> Values]
      /\ visible'[countOf(k)] = n + 1 /\ visible'[lastOf(k)] = name
      /\ \A kind \in Greetings : kind # k =>
           /\ visible'[countOf(kind)] = visible[countOf(kind)]
           /\ visible'[lastOf(kind)] = visible[lastOf(kind)]
  BY <1>1, <1>2, <1>4 DEF SInv, ServiceTypes
<1>6. /\ \A kind : /\ ~ Service!isServed(r, kind)
                   /\ Service!isServed(r, kind)' <=> k = kind
      /\ \A q \in Requests : q # r =>
           /\ settled'[q] = settled[q]
           /\ \A kind : Service!isServed(q, kind)' <=> Service!isServed(q, kind)
      /\ settled'[r] = x
      /\ DOMAIN asked' = Requests /\ DOMAIN settled' = Requests
      /\ \A q \in Requests : asked'[q] = None => settled'[q] = None
  BY <1>1, <1>3, ServesOne DEF k
<1>7. k # "state"
  BY <1>1 DEF Greetings, Service!Greetings
<1>8. ServiceTypes'
  <2>1. \A kind \in Greetings : visible'[countOf(kind)] \in Nat
    BY <1>2, <1>5 DEF SInv, ServiceTypes
  <2> QED
    BY <1>5, <1>6, <2>1 DEF ServiceTypes
<1>9. LastFits'
  <2> SUFFICES ASSUME NEW kind \in Greetings, visible'[countOf(kind)] > 0
               PROVE  \E q \in Requests :
                        /\ Service!isServed(q, kind)'
                        /\ settled'[q].number = visible'[countOf(kind)]
                        /\ settled'[q].text = visible'[lastOf(kind)]
    BY DEF LastFits
  <2>1. CASE kind = k
    BY <1>3, <1>5, <1>6, <2>1
  <2>2. CASE kind # k
    <3>1. visible[countOf(kind)] > 0
      BY <1>5, <2>2
    <3>2. PICK q \in Requests : /\ Service!isServed(q, kind)
                               /\ settled[q].number = visible[countOf(kind)]
                               /\ settled[q].text = visible[lastOf(kind)]
      BY <3>1 DEF SInv, LastFits
    <3>3. q # r
      BY <1>6, <3>2
    <3> QED
      BY <1>5, <1>6, <2>2, <3>2, <3>3
  <2> QED
    BY <2>1, <2>2
<1>10. Service!NumbersDense'
  <2>1. ASSUME NEW kind \in Greetings
        PROVE  /\ \A q \in Requests : Service!isServed(q, kind) =>
                    settled[q].number \in 1 .. visible[countOf(kind)]
               /\ \A m \in 1 .. visible[countOf(kind)] :
                    \E q \in Requests :
                      Service!isServed(q, kind) /\ settled[q].number = m
               /\ \A p, q \in Requests :
                    Service!isServed(p, kind) /\ Service!isServed(q, kind)
                      /\ settled[p].number = settled[q].number => p = q
    BY DEF SInv, Service!NumbersDense, Greetings, countOf
  <2>2. ASSUME NEW kind \in Greetings, NEW q \in Requests,
               Service!isServed(q, kind)'
        PROVE  settled'[q].number \in 1 .. visible'[countOf(kind)]
    <3>1. CASE q = r
      BY <1>2, <1>3, <1>5, <1>6, <2>2, <3>1
    <3>2. CASE q # r
      <4>1. settled'[q].number \in 1 .. visible[countOf(kind)]
        BY <1>6, <2>1, <2>2, <3>2
      <4>2. CASE kind = k
        BY <1>2, <1>5, <4>1, <4>2 DEF n
      <4>3. CASE kind # k
        BY <1>5, <4>1, <4>3
      <4> QED
        BY <4>2, <4>3
    <3> QED
      BY <3>1, <3>2
  <2>3. ASSUME NEW kind \in Greetings, NEW m \in 1 .. visible'[countOf(kind)]
        PROVE  \E q \in Requests :
                 Service!isServed(q, kind)' /\ settled'[q].number = m
    <3>1. CASE kind = k /\ m = n + 1
      BY <1>3, <1>6, <3>1
    <3>2. CASE ~ (kind = k /\ m = n + 1)
      <4>1. m \in 1 .. visible[countOf(kind)]
        <5>1. CASE kind = k
          BY <1>2, <1>5, <3>2, <5>1 DEF n
        <5>2. CASE kind # k
          BY <1>5, <5>2
        <5> QED
          BY <5>1, <5>2
      <4>2. PICK q \in Requests :
              Service!isServed(q, kind) /\ settled[q].number = m
        BY <2>1, <4>1
      <4> QED
        BY <1>6, <4>2
    <3> QED
      BY <3>1, <3>2
  <2>4. ASSUME NEW kind \in Greetings, NEW p \in Requests, NEW q \in Requests,
               Service!isServed(p, kind)', Service!isServed(q, kind)',
               settled'[p].number = settled'[q].number
        PROVE  p = q
    <3>1. ASSUME NEW o \in Requests, o # r, Service!isServed(o, k)
          PROVE  settled'[o].number # n + 1
      <4>1. settled'[o].number \in 1 .. n
        BY <1>1, <1>6, <2>1, <3>1 DEF n
      <4> QED
        BY <1>2, <4>1
    <3> QED
      BY <1>3, <1>6, <2>1, <2>4, <3>1
  <2> QED
    BY <2>2, <2>3, <2>4 DEF Service!NumbersDense, Greetings, countOf
<1>11. Service!StateExisted'
  <2> SUFFICES ASSUME NEW q \in Requests, NEW kind \in Greetings,
                      Service!isServed(q, "state")',
                      settled'[q].state[countOf(kind)] > 0
               PROVE  \E p \in Requests :
                        /\ Service!isServed(p, kind)'
                        /\ settled'[p].number = settled'[q].state[countOf(kind)]
                        /\ settled'[p].text = settled'[q].state[lastOf(kind)]
    BY DEF Service!StateExisted, Greetings, countOf, lastOf
  <2>1. q # r /\ settled'[q] = settled[q] /\ Service!isServed(q, "state")
    BY <1>6, <1>7
  <2>2. PICK p \in Requests :
          /\ Service!isServed(p, kind)
          /\ settled[p].number = settled[q].state[countOf(kind)]
          /\ settled[p].text = settled[q].state[lastOf(kind)]
    BY <2>1 DEF SInv, Service!StateExisted, Greetings, countOf, lastOf
  <2>3. p # r
    BY <1>6, <2>2
  <2> QED
    BY <1>6, <2>1, <2>2, <2>3
<1> QED
  BY <1>8, <1>9, <1>10, <1>11 DEF SInv

(* Through the refinement, each step of a goroutine keeps the invariant    *)
(* of the service.                                                         *)
LEMMA SInvStep == GInv /\ SInv /\ [ExtensionNext]_extensionVars => SInv'
<1> SUFFICES ASSUME GInv, SInv, [ExtensionNext]_extensionVars
             PROVE  SInv'
  OBVIOUS
<1>1. ASSUME NEW r \in Requests, Service!Ask(r)
      PROVE  SInv'
  <2>1. /\ visible' = visible /\ settled' = settled /\ asked[r] = None
        /\ DOMAIN asked' = Requests
        /\ \A q \in Requests : q # r => asked'[q] = asked[q]
    BY <1>1 DEF Service!Ask, SInv, ServiceTypes
  <2> QED
    BY <2>1, SInvKept
<1>2. ASSUME NEW r \in Requests, Service!Greet(r)
      PROVE  SInv'
  <2>1. asked[r].name \in Names
    BY <1>2, InputsFit
    DEF Service!Greet, Service!isOpen, GInv, GoInv, GoTypeOK, Greetings
  <2> QED
    BY <1>2, <2>1, GreetKeepsSInv
<1>3. CASE UNCHANGED <<visible, asked, settled>>
  BY <1>3, SInvKept DEF SInv, ServiceTypes
<1> QED
  BY <1>1, <1>2, <1>3, StepIsServiceStep, RefuseKeepsSInv, StateKeepsSInv
  DEF Service!ServiceNext, Service!Serve, Service!serviceVars

(* It holds always.                                                        *)
LEMMA ServiceInvariant == ExtensionSpec => []SInv
<1>1. New => SInv
  BY NewIsServiceInit, SInvInit
<1> QED
  BY <1>1, GoInvariant, SInvStep, PTL DEF ExtensionSpec

(* Settled replies number the greetings, and each state that is reported   *)
(* is one a greeting left.                                                 *)
THEOREM ServiceCounts ==
  ExtensionSpec => [](Service!NumbersDense /\ Service!StateExisted)
<1>1. SInv => Service!NumbersDense /\ Service!StateExisted
  BY DEF SInv
<1> QED
  BY ServiceInvariant, <1>1, PTL

(* What is settled is numbered without a gap, and with no greeting under   *)
(* way what is settled has been written.                                   *)
LEMMA DenseIsNumbered == GInv /\ SInv => RepliesNumbered
<1> SUFFICES ASSUME GInv, SInv, NEW kind \in Service!Greetings
             PROVE  LET inside == {r \in Requests : asked[r] # None
                                     /\ asked[r].kind = kind
                                     /\ pc[r] \in {"number", "last", "unlock",
                                                   "write"}}
                        given == {r \in Requests : reply[r] # None
                                    /\ asked[r].kind = kind}
                    IN  /\ \A r, q \in given :
                             reply[r].number = reply[q].number => r = q
                        /\ inside = {} => {reply[r].number : r \in given}
                                            = 1 .. fields[countOf(kind)]
  BY DEF RepliesNumbered
<1> DEFINE inside == {r \in Requests : asked[r] # None /\ asked[r].kind = kind
                        /\ pc[r] \in {"number", "last", "unlock", "write"}}
           given == {r \in Requests : reply[r] # None /\ asked[r].kind = kind}
<1>1. \A r \in given : /\ r \in Requests /\ reply[r] = settled[r]
                       /\ Service!isServed(r, kind)
  BY DEF GInv, ReplyFits, settled, Service!isServed
<1>2. /\ \A q \in Requests : Service!isServed(q, kind) =>
           settled[q].number \in 1 .. visible[countOf(kind)]
      /\ \A m \in 1 .. visible[countOf(kind)] :
           \E q \in Requests : Service!isServed(q, kind) /\ settled[q].number = m
      /\ \A p, q \in Requests :
           Service!isServed(p, kind) /\ Service!isServed(q, kind)
             /\ settled[p].number = settled[q].number => p = q
  BY DEF SInv, Service!NumbersDense, countOf
<1>3. \A r, q \in given : reply[r].number = reply[q].number => r = q
  <2> HIDE DEF given
  <2> QED
    BY <1>1, <1>2
<1>4. ASSUME inside = {}
      PROVE  {reply[r].number : r \in given} = 1 .. fields[countOf(kind)]
  <2>1. \A q \in Requests : asked[q].kind = kind /\ asked[q] # None =>
          pc[q] \notin {"number", "last", "unlock", "write"}
    BY <1>4
  <2>2. \A q \in Requests : pc[q] \in {"number", "last"} =>
          asked[q] # None /\ asked[q].kind \in Greetings
    BY DEF GInv, AskedFits, Writing
  <2>3. visible[countOf(kind)] = fields[countOf(kind)]
    <3>1. countOf(kind) \in DOMAIN fields
      BY CountsAndLasts DEF GInv, Shapes, Fields, Service!Fields
    <3>2. \A q \in Requests : isBetween(q) =>
            countOf(kind) # (IF asked[q].kind = "sayHello" THEN "greetingCount"
                                                     ELSE "farewellCount")
      BY <2>1, <2>2
      DEF isBetween, countOf, Service!countOf, Greetings, Service!Greetings
    <3> QED
      BY <3>1, <3>2 DEF visible
  <2>4. \A q \in Requests : Service!isServed(q, kind) => q \in given
    <3> SUFFICES ASSUME NEW q \in Requests, Service!isServed(q, kind)
                 PROVE  q \in given
      OBVIOUS
    <3>1. settled[q] # None /\ asked[q].kind = kind /\ asked[q] # None
      BY DEF Service!isServed, SInv, ServiceTypes
    <3>2. pc[q] \in {"rUnlock", "done"} /\ settled[q] = local[q]
      BY <2>1, <3>1 DEF settled
    <3>3. pc[q] # "rUnlock"
      BY <3>1 DEF GInv, AskedFits, Reading, Service!Greetings
    <3> QED
      BY <3>1, <3>2, <3>3 DEF GInv, ReplyFits
  <2> HIDE DEF given, inside
  <2>5. \A m : m \in {reply[r].number : r \in given}
                <=> m \in 1 .. visible[countOf(kind)]
    BY <1>1, <1>2, <2>4
  <2> QED
    BY <2>3, <2>5
<1> QED
  BY <1>3, <1>4

(* The replies that went out are numbered without a gap or a repetition.   *)
THEOREM RepliesAreNumbered == ExtensionSpec => []RepliesNumbered
  BY GoInvariant, ServiceInvariant, DenseIsNumbered, PTL
=============================================================================
