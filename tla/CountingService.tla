---------------------------- MODULE CountingService ----------------------------
(***************************************************************************)
(* What an extension of the greeting scaffold promises to the TEE node,    *)
(* whatever runs at the same time: every request is answered once, as if   *)
(* requests were served one after the other, so the greetings are numbered *)
(* 1, 2, 3 ... and the state that is reported existed.                     *)
(***************************************************************************)
EXTENDS Integers

CONSTANTS
  Requests,  \* requests the server is sent
  Names,     \* what a greeting or farewell is made from
  None       \* no request, no input, no reply, no text

VARIABLES
  fields,    \* the counters and the last texts
  asked,     \* request -> its input
  reply      \* request -> its reply

serviceVars == <<fields, asked, reply>>

Fields == {"greetingCount", "lastGreeting", "farewellCount", "lastFarewell"}

(* Inputs that are refused, by the place that refuses them.                *)
Refusals == {"action", "dataFixed", "opType", "opCommand", "request",
             "emptyName"}

Greetings == {"sayHello", "sayGoodbye"}

Inputs ==
  [kind: Greetings, name: Names] \cup [kind: Refusals \cup {"state"}]

countOf(kind) ==
  IF kind = "sayHello" THEN "greetingCount" ELSE "farewellCount"

lastOf(kind) == IF kind = "sayHello" THEN "lastGreeting" ELSE "lastFarewell"

newFields == [greetingCount |-> 0, lastGreeting |-> None,
              farewellCount |-> 0, lastFarewell |-> None]

(* HTTP status and, with 200, the status of the ActionResult.              *)
refusalOf(kind) ==
  CASE kind \in {"action", "dataFixed"} -> [code |-> 400]
    [] kind \in {"opType", "opCommand"} -> [code |-> 501]
    [] OTHER -> [code |-> 200, status |-> 0]

greetingOf(number, name) ==
  [code |-> 200, status |-> 1, number |-> number, text |-> name]

(* Every reply there can be.                                               *)
Replies ==
  [code: {400, 501}] \cup [code: {200}, status: {0}]
    \cup [code: {200}, status: {1}, number: Nat, text: Names]
    \cup [code: {200}, state: [Fields -> Nat \cup Names \cup {None}]]

ServiceInit ==
  /\ fields = newFields
  /\ asked = [r \in Requests |-> None]
  /\ reply = [r \in Requests |-> None]

isOpen(r) == asked[r] # None /\ reply[r] = None

Ask(r) ==
  /\ asked[r] = None
  /\ \E input \in Inputs : asked' = [asked EXCEPT ![r] = input]
  /\ UNCHANGED <<fields, reply>>

Refuse(r) ==
  /\ isOpen(r)
  /\ asked[r].kind \in Refusals
  /\ reply' = [reply EXCEPT ![r] = refusalOf(asked[r].kind)]
  /\ UNCHANGED <<fields, asked>>

Greet(r) ==
  LET kind == asked[r].kind
      name == asked[r].name
  IN  /\ isOpen(r)
      /\ kind \in Greetings
      /\ fields' = [fields EXCEPT ![countOf(kind)] = @ + 1,
                                  ![lastOf(kind)] = name]
      /\ reply' = [reply EXCEPT ![r] =
                     greetingOf(fields[countOf(kind)] + 1, name)]
      /\ UNCHANGED asked

State(r) ==
  /\ isOpen(r)
  /\ asked[r].kind = "state"
  /\ reply' = [reply EXCEPT ![r] = [code |-> 200, state |-> fields]]
  /\ UNCHANGED <<fields, asked>>

Serve(r) == Refuse(r) \/ Greet(r) \/ State(r)

ServiceNext == \E r \in Requests : Ask(r) \/ Serve(r)

ServiceSpec == ServiceInit /\ [][ServiceNext]_serviceVars

FairServiceSpec ==
  ServiceSpec /\ \A r \in Requests : WF_serviceVars(Serve(r))
-----------------------------------------------------------------------------
isServed(r, kind) == reply[r] # None /\ asked[r].kind = kind

(* Every number from 1 to the counter went to exactly one request, and to  *)
(* nobody else (extension.go 119-126 and 148-155).                         *)
NumbersDense ==
  \A kind \in Greetings :
    /\ \A r \in Requests : isServed(r, kind) =>
         reply[r].number \in 1 .. fields[countOf(kind)]
    /\ \A n \in 1 .. fields[countOf(kind)] :
         \E r \in Requests : isServed(r, kind) /\ reply[r].number = n
    /\ \A r, q \in Requests :
         isServed(r, kind) /\ isServed(q, kind)
           /\ reply[r].number = reply[q].number => r = q

(* A state that was reported existed: the last text it holds is the one    *)
(* that went out with the number it holds (extension.go 44-55).            *)
StateExisted ==
  \A s \in Requests, kind \in Greetings :
    isServed(s, "state") /\ reply[s].state[countOf(kind)] > 0 =>
      \E r \in Requests :
        /\ isServed(r, kind)
        /\ reply[r].number = reply[s].state[countOf(kind)]
        /\ reply[r].text = reply[s].state[lastOf(kind)]
=============================================================================
