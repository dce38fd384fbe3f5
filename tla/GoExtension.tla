------------------------------ MODULE GoExtension ------------------------------
(***************************************************************************)
(* The Go extension (internal/extension): net/http runs a goroutine for    *)
(* every request, and a sync.RWMutex guards the counters and last texts.   *)
(* Every access to a field is a step.                                      *)
(***************************************************************************)
EXTENDS Integers, Sequences

CONSTANTS Requests, Names, None

VARIABLES
  fields,  \* the fields of Extension
  mu,      \* its RWMutex: who holds or waits for Lock, who holds RLock
  asked,   \* request -> its input
  pc,      \* request -> where its goroutine is
  local,   \* request -> number and text, or the fields read so far
  reply    \* request -> what was written to the ResponseWriter

extensionVars == <<fields, mu, asked, pc, local, reply>>

(* The promise, as of the last unlock: a greeting counts when its text is  *)
(* in place, and a reply is settled when its goroutine is past the lock.   *)
isBetween(r) == pc[r] \in {"number", "last"}

visible ==
  [f \in DOMAIN fields |->
     IF \E r \in Requests : isBetween(r)
          /\ f = IF asked[r].kind = "sayHello" THEN "greetingCount"
                                               ELSE "farewellCount"
       THEN fields[f] - 1
       ELSE fields[f]]

settled == [r \in Requests |->
              IF pc[r] \in {"unlock", "rUnlock", "write", "done"}
                THEN local[r] ELSE None]

Service == INSTANCE CountingService WITH fields <- visible, reply <- settled

Inputs == Service!Inputs

ASSUME NoneAssumption ==
  None \notin Requests /\ None \notin Inputs /\ None \notin Service!Replies

countOf(kind) == Service!countOf(kind)
lastOf(kind) == Service!lastOf(kind)

newMutex == [holder |-> None, readers |-> {}]

New ==
  /\ fields = Service!newFields
  /\ mu = newMutex
  /\ asked = [r \in Requests |-> None]
  /\ pc = [r \in Requests |-> "none"]
  /\ local = [r \in Requests |-> None]
  /\ reply = [r \in Requests |-> None]

goTo(r, label) == pc' = [pc EXCEPT ![r] = label]

(* A goroutine between two places.                                         *)
moves(r, from, to) == pc[r] = from /\ goTo(r, to)

receive(r) ==
  /\ moves(r, "none", "handle")
  /\ \E input \in Inputs : asked' = [asked EXCEPT ![r] = input]
  /\ UNCHANGED <<fields, mu, local, reply>>

(* actionHandler, processAction, processGreeting and the decoding in front *)
(* of the lock: nothing is touched when one of them refuses.               *)
refuse(r) ==
  /\ moves(r, "handle", "write")
  /\ asked[r].kind \in Service!Refusals
  /\ local' = [local EXCEPT ![r] = Service!refusalOf(asked[r].kind)]
  /\ UNCHANGED <<fields, mu, asked, reply>>

(* Mutant: Lock does not wait for another writer.                          *)
isFreeAlways == TRUE

isFree == mu.holder = None

(* Lock announces a writer, which keeps new readers out, and then waits    *)
(* for the readers that are in.                                            *)
lock(r) ==
  /\ moves(r, "handle", "locking")
  /\ asked[r].kind \in Service!Greetings
  /\ isFree
  /\ mu' = [mu EXCEPT !.holder = r]
  /\ UNCHANGED <<fields, asked, local, reply>>

(* Mutant: Lock does not wait for the readers.                             *)
noReadersAlways == TRUE

noReaders == mu.readers = {}

locked(r) ==
  /\ moves(r, "locking", "increment")
  /\ noReaders
  /\ UNCHANGED <<fields, mu, asked, local, reply>>

increment(r) ==
  /\ moves(r, "increment", "number")
  /\ fields' = [fields EXCEPT ![countOf(asked[r].kind)] = @ + 1]
  /\ UNCHANGED <<mu, asked, local, reply>>

takeNumber(r) ==
  /\ moves(r, "number", "last")
  /\ local' = [local EXCEPT ![r] =
                 Service!greetingOf(fields[countOf(asked[r].kind)],
                                    asked[r].name)]
  /\ UNCHANGED <<fields, mu, asked, reply>>

setLast(r) ==
  /\ moves(r, "last", "unlock")
  /\ fields' = [fields EXCEPT ![lastOf(asked[r].kind)] = local[r].text]
  /\ UNCHANGED <<mu, asked, local, reply>>

unlock(r) ==
  /\ moves(r, "unlock", "write")
  /\ mu' = [mu EXCEPT !.holder = None]
  /\ UNCHANGED <<fields, asked, local, reply>>

rLock(r) ==
  /\ moves(r, "handle", "greetingCount")
  /\ asked[r].kind = "state"
  /\ isFree
  /\ mu' = [mu EXCEPT !.readers = @ \cup {r}]
  /\ local' = [local EXCEPT ![r] = [code |-> 200,
                                    state |-> Service!newFields]]
  /\ UNCHANGED <<fields, asked, reply>>

(* stateHandler reads the fields in this order.                            *)
afterRead(f) ==
  CASE f = "greetingCount" -> "lastGreeting"
    [] f = "lastGreeting" -> "farewellCount"
    [] f = "farewellCount" -> "lastFarewell"
    [] f = "lastFarewell" -> "rUnlock"

readField(r) ==
  /\ pc[r] \in Service!Fields
  /\ goTo(r, afterRead(pc[r]))
  /\ local' = [local EXCEPT ![r].state[pc[r]] = fields[pc[r]]]
  /\ UNCHANGED <<fields, mu, asked, reply>>

rUnlock(r) ==
  /\ moves(r, "rUnlock", "write")
  /\ mu' = [mu EXCEPT !.readers = @ \ {r}]
  /\ UNCHANGED <<fields, asked, local, reply>>

write(r) ==
  /\ moves(r, "write", "done")
  /\ reply' = [reply EXCEPT ![r] = local[r]]
  /\ UNCHANGED <<fields, mu, asked, local>>

actionHandler(r) ==
  \/ refuse(r)
  \/ lock(r)
  \/ locked(r)
  \/ increment(r)
  \/ takeNumber(r)
  \/ setLast(r)
  \/ unlock(r)
  \/ write(r)

stateHandler(r) ==
  \/ rLock(r)
  \/ readField(r)
  \/ rUnlock(r)

ExtensionNext ==
  \E r \in Requests : receive(r) \/ actionHandler(r) \/ stateHandler(r)

ExtensionSpec == New /\ [][ExtensionNext]_extensionVars

(* Goroutines are scheduled, and a goroutine that waits for the mutex gets *)
(* it: sync.Mutex hands itself over to a waiter after a millisecond.       *)
GoFairness ==
  \A r \in Requests : SF_extensionVars(actionHandler(r) \/ stateHandler(r))

FairExtensionSpec == ExtensionSpec /\ GoFairness
-----------------------------------------------------------------------------
GoTypeOK ==
  /\ DOMAIN fields = Service!Fields
  /\ \A kind \in Service!Greetings :
       /\ fields[countOf(kind)] \in Nat
       /\ fields[lastOf(kind)] \in Names \cup {None}
  /\ mu.holder \in Requests \cup {None} /\ mu.readers \subseteq Requests
  /\ asked \in [Requests -> Inputs \cup {None}]
  /\ pc \in [Requests -> {"none", "handle", "locking", "increment", "number",
                          "last", "unlock", "rUnlock", "write", "done"}
                           \cup Service!Fields]

(* Lock is held from the first write of a field to the last, and RLock     *)
(* from the first read to the last, by nobody else of either kind.         *)
LockHeld ==
  /\ \A r \in Requests :
       /\ pc[r] \in {"locking", "increment", "number", "last", "unlock"}
            <=> mu.holder = r
       /\ pc[r] \in Service!Fields \cup {"rUnlock"} <=> r \in mu.readers
  /\ mu.holder # None /\ mu.readers # {} => pc[mu.holder] = "locking"

(* Types, and the mutual exclusion of writers and readers of the fields    *)
(* (extension.go 44-55, 119-124, 148-153).                                 *)
GoInv == GoTypeOK /\ LockHeld

(* The replies that went out are numbered without a gap or a repetition,   *)
(* except for goroutines that are still under way (extension.go 119-126).  *)
RepliesNumbered ==
  \A kind \in Service!Greetings :
    LET inside == {r \in Requests : asked[r] # None /\ asked[r].kind = kind
                     /\ pc[r] \in {"number", "last", "unlock", "write"}}
        given == {r \in Requests : reply[r] # None /\ asked[r].kind = kind}
    IN  /\ \A r, q \in given : reply[r].number = reply[q].number => r = q
        /\ inside = {} => {reply[r].number : r \in given}
                            = 1 .. fields[countOf(kind)]

(* The requests are served as if one after the other, and all are served.  *)
ImplementsService == Service!FairServiceSpec
=============================================================================
