--------------------------- MODULE ExtensionServer ---------------------------
(***************************************************************************)
(* The TypeScript extension of the TEE: base/server.ts with the handlers   *)
(* of app/handlers.ts and the decrypt call of base/node.ts.  The tee-node  *)
(* beside it posts actions and reads the state; handlers run one after     *)
(* another on a chain of promises, and one of them suspends twice, while   *)
(* the node decrypts and while a signature is recovered.                   *)
(*                                                                         *)
(* Nothing is stored: a process that exits forgets its counters and its    *)
(* open requests, and the container's orchestrator starts a new one.       *)
(***************************************************************************)
EXTENDS AccessEvaluation

CONSTANTS
  Requests,    \* HTTP requests, each sent once
  Names,       \* names a greeting may carry
  NoName,      \* a greeting payload that does not decode to a name
  AccessRequests, \* plaintexts the node may decrypt a message to
  Loose,       \* a plaintext with a list for a string, or null for the limits
  Clocks,      \* values Date.now() may return, in seconds
  MaxKills     \* how often the container may be killed

ASSUME ServerAssumption ==
  /\ MaxKills \in Nat
  /\ NoName \notin Names
  /\ Loose # Junk
  /\ Loose \notin AccessRequests

VARIABLES
  up,       \* the process runs
  closing,  \* SIGTERM was received
  body,     \* request -> what it asks for
  stage,    \* request -> how far it got
  result,   \* request -> what its handler returned
  chain,    \* this.queue: requests in the order serialize() chained them
  app,      \* the module-level state of handlers.ts
  kills

vars == <<up, closing, body, stage, result, chain, app, kills>>

Stages == {"idle", "queued", "decrypting", "recovering",
           "settled", "thrown", "answered", "lost"}

(* The stages of a request whose handler's promise has settled.            *)
Finished == {"settled", "thrown", "answered"}

Messages == AccessRequests \cup {Loose, Junk}

NoBody == [op |-> "none"]
StateBody == [op |-> "state"]
(* A DataFixed whose op type or op command is neither a string nor empty.  *)
mistyped == [op |-> "mistyped"]
greeting(op, name) == [op |-> op, name |-> name]
evaluation(message) == [op |-> "evaluate", message |-> message]

(* The requests handleRequest routes to a handler or to reportState.       *)
Routed ==
  {StateBody}
    \cup {greeting(op, name) : op \in {"hello", "goodbye"},
                               name \in Names \cup {NoName}}
    \cup {evaluation(message) : message \in Messages}

(* resetState, and the module-level initial values.                        *)
initialApp ==
  [greetingCount |-> 0, lastGreeting |-> NoName,
   farewellCount |-> 0, lastFarewell |-> NoName,
   decisionsProcessed |-> 0, lastPolicyId |-> Junk]

ServerInit ==
  /\ up = TRUE
  /\ closing = FALSE
  /\ body = [r \in Requests |-> NoBody]
  /\ stage = [r \in Requests |-> "idle"]
  /\ result = [r \in Requests |-> NoBody]
  /\ chain = <<>>
  /\ app = initialApp
  /\ kills = 0

receiving(r) == up /\ ~closing /\ stage[r] = "idle"

(* Answered without touching the chain: an invalid body or DataFixed       *)
(* (400), an unknown path (404), the wrong method (405), or no handler for *)
(* the operation (501), which lookup finds if both identifiers are strings *)
(* or empty.                                                               *)
reject(r) ==
  /\ receiving(r)
  /\ stage' = [stage EXCEPT ![r] = "settled"]
  /\ UNCHANGED <<up, closing, body, result, chain, app, kills>>

(* normalize throws on an identifier that has no toLowerCase, outside the  *)
(* try blocks of processAction and before serialize: the request is never  *)
(* chained, and serve() rejects.                                           *)
lookupThrows(r) ==
  /\ receiving(r)
  /\ body' = [body EXCEPT ![r] = mistyped]
  /\ stage' = [stage EXCEPT ![r] = "thrown"]
  /\ UNCHANGED <<up, closing, result, chain, app, kills>>

(* processAction or processState, up to serialize.                         *)
serialize(r, b) ==
  /\ receiving(r)
  /\ body' = [body EXCEPT ![r] = b]
  /\ stage' = [stage EXCEPT ![r] = "queued"]
  /\ chain' = Append(chain, r)
  /\ UNCHANGED <<up, closing, result, app, kills>>

(* Mutant: the handler is called at once instead of after the chain.       *)
hasTurnAtOnce(r) == up /\ stage[r] = "queued"

(* queue.then(fn, fn): fn runs once the promise before it has settled,     *)
(* fulfilled or rejected.                                                  *)
hasTurn(r) ==
  /\ up /\ stage[r] = "queued"
  /\ \E i \in 1 .. Len(chain) :
       /\ chain[i] = r
       /\ i > 1 => stage[chain[i - 1]] \in Finished

settle(r, outcome) ==
  /\ stage' = [stage EXCEPT ![r] = "settled"]
  /\ result' = [result EXCEPT ![r] = outcome]
  /\ UNCHANGED <<up, closing, body, chain, kills>>

failed == [status |-> 0]

fail(r) == settle(r, failed) /\ UNCHANGED app

(* Mutant: the number is taken before it is counted up.                    *)
greetedUncounted(b) ==
  IF b.op = "hello"
    THEN [app EXCEPT !.lastGreeting = b.name]
    ELSE [app EXCEPT !.farewellCount = @ + 1, !.lastFarewell = b.name]

(* The state after a successful greeting or farewell.                      *)
greeted(b) ==
  IF b.op = "hello"
    THEN [app EXCEPT !.greetingCount = @ + 1, !.lastGreeting = b.name]
    ELSE [app EXCEPT !.farewellCount = @ + 1, !.lastFarewell = b.name]

countOf(state, op) ==
  IF op = "hello" THEN state.greetingCount ELSE state.farewellCount

handleGreeting(r) ==
  /\ hasTurn(r)
  /\ body[r].op \in {"hello", "goodbye"}
  /\ \/ body[r].name = NoName /\ fail(r)
     \/ /\ body[r].name # NoName
        /\ app' = greeted(body[r])
        /\ settle(r, [status |-> 1, name |-> body[r].name,
                      number |-> countOf(app', body[r].op)])

(* The decision counters are not part of the report.                       *)
reportState(r) ==
  /\ hasTurn(r)
  /\ body[r].op = "state"
  /\ settle(r, [greetingCount |-> app.greetingCount,
                lastGreeting |-> app.lastGreeting,
                farewellCount |-> app.farewellCount,
                lastFarewell |-> app.lastFarewell])
  /\ UNCHANGED app

moveTo(r, s) ==
  /\ stage' = [stage EXCEPT ![r] = s]
  /\ UNCHANGED <<up, closing, body, result, chain, app, kills>>

(* handleEvaluateAccess up to its first await.                             *)
handleEvaluateAccess(r) ==
  /\ hasTurn(r)
  /\ body[r].op = "evaluate"
  /\ \/ body[r].message = Junk /\ fail(r)
     \/ body[r].message # Junk /\ moveTo(r, "decrypting")

decrypting(r) == up /\ stage[r] = "decrypting"

(* The node refuses, is unreachable, or returns what is not JSON.          *)
decryptRejects(r) == decrypting(r) /\ fail(r)

(* Mutant: the request to the node carries no abort signal.                *)
neverTimesOut(r) == FALSE

(* The AbortController fires after thirty seconds.                         *)
decryptTimesOut(r) == decrypting(r) /\ fail(r)

(* The rules are hashed outside the try blocks: the handler's promise      *)
(* rejects for numbers that do not encode.                                 *)
unhashable(request) ==
  validateAccessRequest(request) /\ ~encodable(request.policy)

(* From the first await to the second.  What a loose plaintext throws on   *)
(* is here a check, the sort or the hash, if it is not the encoder below.  *)
decryptReturns(r) ==
  /\ decrypting(r)
  /\ LET request == body[r].message
     IN  \/ request = Loose /\ (moveTo(r, "thrown") \/ moveTo(r, "recovering"))
         \/ request # Loose /\ unhashable(request) /\ moveTo(r, "thrown")
         \/ /\ request # Loose /\ ~unhashable(request)
            /\ IF validateAccessRequest(request) /\ rulesMatch(request)
                 THEN moveTo(r, "recovering")
                 ELSE fail(r)

(* From the second await to the end.                                       *)
recoverReturns(r) ==
  LET request == body[r].message
  IN  /\ up /\ stage[r] = "recovering"
      /\ \/ request = Loose /\ moveTo(r, "thrown")
         \/ request # Loose /\ ~issuerMatches(request) /\ fail(r)
         \/ /\ request # Loose /\ issuerMatches(request)
            /\ app' = [app EXCEPT !.decisionsProcessed = @ + 1,
                                  !.lastPolicyId = request.policyId]
            /\ \E clock \in Clocks :
                 settle(r, [status |-> 1,
                            decision |-> decisionOf(request, clock)])

send(r) == up /\ stage[r] = "settled" /\ moveTo(r, "answered")

(* The process is gone, and with it all it held in memory.                 *)
down ==
  /\ up' = FALSE
  /\ closing' = FALSE
  /\ stage' = [r \in Requests |->
                 IF stage[r] \in {"idle", "answered"} THEN stage[r]
                                                      ELSE "lost"]
  /\ chain' = <<>>
  /\ app' = initialApp
  /\ UNCHANGED <<body, result>>

(* serve() awaits the rejected promise without a catch and nobody awaits   *)
(* serve(): Node ends the process on the unhandled rejection, once the     *)
(* promise jobs already queued have run.                                   *)
exit ==
  /\ up
  /\ \E r \in Requests : stage[r] = "thrown"
  /\ down
  /\ UNCHANGED kills

(* The container is killed, or the tee-node in it died.                    *)
kill ==
  /\ up /\ kills < MaxKills
  /\ kills' = kills + 1
  /\ down

shutdown ==
  /\ up /\ ~closing
  /\ closing' = TRUE
  /\ UNCHANGED <<up, body, stage, result, chain, app, kills>>

(* Mutant: the process does not wait for open requests.                    *)
drainedAtOnce == TRUE

(* server.close() calls back once every open request is answered.          *)
drained == \A r \in Requests : stage[r] \in {"idle", "answered", "lost"}

stop == up /\ closing /\ drained /\ down /\ UNCHANGED kills

restart ==
  /\ ~up
  /\ up' = TRUE
  /\ UNCHANGED <<closing, body, stage, result, chain, app, kills>>

ServerNext ==
  \/ \E r \in Requests :
       \/ reject(r)
       \/ lookupThrows(r)
       \/ \E b \in Routed : serialize(r, b)
       \/ handleGreeting(r)
       \/ reportState(r)
       \/ handleEvaluateAccess(r)
       \/ decryptRejects(r)
       \/ decryptTimesOut(r)
       \/ decryptReturns(r)
       \/ recoverReturns(r)
       \/ send(r)
  \/ exit
  \/ kill
  \/ shutdown
  \/ stop
  \/ restart

(* The event loop runs what is ready, the abort timer fires, and an        *)
(* unhandled rejection ends the process.  Nothing makes the node answer    *)
(* or the orchestrator restart a container.                                *)
ServerFairness ==
  /\ \A r \in Requests :
       /\ WF_vars(handleGreeting(r))
       /\ WF_vars(reportState(r))
       /\ WF_vars(handleEvaluateAccess(r))
       /\ WF_vars(decryptTimesOut(r))
       /\ WF_vars(recoverReturns(r))
       /\ WF_vars(send(r))
  /\ WF_vars(exit)

ServerSpec == ServerInit /\ [][ServerNext]_vars

FairServerSpec == ServerSpec /\ ServerFairness
-----------------------------------------------------------------------------
ServerTypeOK ==
  /\ up \in BOOLEAN /\ closing \in BOOLEAN
  /\ body \in [Requests -> Routed \cup {NoBody, mistyped}]
  /\ stage \in [Requests -> Stages]
  /\ DOMAIN result = Requests
  /\ chain \in Seq(Requests)
  /\ app.greetingCount \in Nat /\ app.lastGreeting \in Names \cup {NoName}
  /\ app.farewellCount \in Nat /\ app.lastFarewell \in Names \cup {NoName}
  /\ app.decisionsProcessed \in Nat
  /\ app.decisionsProcessed = 0 <=> app.lastPolicyId = Junk
  /\ kills \in 0 .. MaxKills

(* A handler starts only when every request serialized before it has       *)
(* finished.  So at most one handler is suspended at an await, no state is *)
(* read in the middle of a handler, and requests take effect in the order  *)
(* they arrived (docs/extension-contract.md section 5, server.ts 184).     *)
Serialized ==
  \A j \in 1 .. Len(chain) : \A i \in 1 .. j - 1 :
    stage[chain[j]] # "queued" => stage[chain[i]] \in Finished

(* Requests of one operation that succeeded up to position i of the chain. *)
succeeded(op, i) ==
  {j \in 1 .. i : /\ body[chain[j]].op = op
                  /\ body[chain[j]].name # NoName
                  /\ stage[chain[j]] \in {"settled", "answered"}}

(* Every answer is the one a sequential server would have given: the n-th  *)
(* successful greeting of a process carries number n, and a state report   *)
(* counts exactly the greetings chained before it and names the last one   *)
(* of them, whatever suspended in between.                                 *)
AnswersFollowChain ==
  \A i \in 1 .. Len(chain) :
    LET r == chain[i]
    IN  stage[r] \in {"settled", "answered"} =>
          /\ body[r].op \in {"hello", "goodbye"} /\ result[r] # failed =>
               result[r].number = Cardinality(succeeded(body[r].op, i))
          /\ body[r].op = "state" =>
               /\ result[r].greetingCount = Cardinality(succeeded("hello", i))
               /\ result[r].farewellCount =
                    Cardinality(succeeded("goodbye", i))
               /\ \A j \in succeeded("hello", i) :
                    (\A k \in succeeded("hello", i) : k <= j) =>
                      result[r].lastGreeting = body[chain[j]].name

(* What code outside every try block throws on: an identifier lookup       *)
(* cannot normalize, and a plaintext handleEvaluateAccess does not hash or *)
(* encode.                                                                 *)
escapes(b) ==
  \/ b = mistyped
  \/ /\ b.op = "evaluate"
     /\ b.message # Junk
     /\ b.message = Loose \/ unhashable(b.message)

(* A request that was received is left unanswered only after the container *)
(* was killed, or some request that code outside every try block throws on *)
(* ended the process: no greeting, no state report, no well formed access  *)
(* request does, whatever the node answers, and a stop by signal, whenever *)
(* it comes, lets every open request be answered (main.ts 19-25).          *)
LostOnlyByCrash ==
  [][(\E r \in Requests : stage[r] # "lost" /\ stage'[r] = "lost")
       => \/ kills' # kills
          \/ \E q \in Requests : stage[q] = "thrown" /\ escapes(body[q])]_vars

(* Whatever the node does, and whichever handlers are in front of it,      *)
(* nothing waits forever: a serialized request is answered, or its         *)
(* process ends.                                                           *)
QueueDrains ==
  \A r \in Requests :
    stage[r] = "queued" ~> stage[r] \in {"answered", "lost"}

(* docs/extension-contract.md, section 2: a request routed to a handler    *)
(* gets an ActionResult with status 200, also when the handler fails.      *)
(* Stated for a container that nobody kills and that is sent identifiers   *)
(* of the type they have.                                                  *)
RoutedIsAnswered ==
  \A r \in Requests :
    stage[r] = "queued" ~> \/ stage[r] = "answered"
                           \/ kills > 0
                           \/ \E q \in Requests : body[q] = mistyped
=============================================================================
