------------------------ MODULE ExtensionServerProofs ------------------------
(***************************************************************************)
(* Proofs about ExtensionServer for any number of requests, whatever they  *)
(* ask for and however often the container is killed.                      *)
(***************************************************************************)
EXTENDS ExtensionServer, FiniteSetTheorems, TLAPS

(* The chain of promises: it links each request once, and only requests    *)
(* of this process that were not answered without it.                      *)
ChainInv ==
  /\ stage \in [Requests -> Stages]
  /\ chain \in Seq(Requests)
  /\ \A i, j \in 1 .. Len(chain) : chain[i] = chain[j] => i = j
  /\ \A i \in 1 .. Len(chain) : stage[chain[i]] \notin {"idle", "lost"}
  /\ ~up => chain = <<>>
  /\ kills \in Nat

(* The inductive invariant.                                                *)
SInv == ChainInv /\ Serialized

(* A handler moves on: it is the one whose turn it is, or it was suspended *)
(* at an await, and it does not go back into the queue.                    *)
Advances(r, s) ==
  /\ hasTurn(r) \/ (up /\ stage[r] \in {"decrypting", "recovering"})
  /\ stage' = [stage EXCEPT ![r] = s]
  /\ s \in Stages \ {"idle", "queued", "lost"}
  /\ UNCHANGED <<up, chain, kills>>

(* When a request is out of the queue, those chained before it are done,   *)
(* and none chained after it has started unless it is done itself.         *)
LEMMA AdvanceKeepsOrder ==
  ASSUME SInv, NEW r \in Requests, NEW s, Advances(r, s)
  PROVE  SInv'
<1> USE DEF SInv, Finished
<1>1. ChainInv'
  BY DEF ChainInv, Advances, Stages
<1>2. ASSUME NEW j \in 1 .. Len(chain), NEW i \in 1 .. j - 1,
             stage'[chain[j]] # "queued"
      PROVE  stage'[chain[i]] \in Finished
  <2>1. i \in 1 .. Len(chain) /\ i < j
    BY DEF ChainInv
  <2>2. chain[i] \in Requests /\ chain[j] \in Requests /\ chain[i] # chain[j]
    BY <2>1 DEF ChainInv
  <2>3. CASE chain[j] = r
    <3>1. stage'[chain[i]] = stage[chain[i]]
      BY <2>2, <2>3 DEF Advances, ChainInv
    <3>2. CASE stage[r] # "queued"
      BY <2>1, <2>3, <3>1, <3>2 DEF Serialized
    <3>3. CASE hasTurn(r)
      <4>1. PICK k \in 1 .. Len(chain) :
              /\ chain[k] = r
              /\ k > 1 => stage[chain[k - 1]] \in Finished
        BY <3>3 DEF hasTurn
      <4>2. k = j
        BY <2>3, <4>1 DEF ChainInv
      <4>3. k - 1 \in 1 .. Len(chain) /\ stage[chain[k - 1]] # "queued"
        BY <2>1, <4>1, <4>2 DEF ChainInv
      <4>4. i = k - 1 \/ i \in 1 .. (k - 1) - 1
        BY <2>1, <4>2 DEF ChainInv
      <4> QED
        BY <3>1, <4>1, <4>2, <4>3, <4>4, <2>1 DEF Serialized
    <3> QED
      BY <3>2, <3>3 DEF Advances
  <2>4. CASE chain[j] # r
    <3>1. stage'[chain[j]] = stage[chain[j]]
      BY <2>2, <2>4 DEF Advances, ChainInv
    <3>2. stage[chain[i]] \in Finished
      BY <2>1, <3>1, <1>2 DEF Serialized
    <3>3. chain[i] # r
      BY <3>2 DEF Advances, hasTurn
    <3> QED
      BY <2>2, <3>2, <3>3 DEF Advances, ChainInv
  <2> QED
    BY <2>3, <2>4
<1>3. Len(chain') = Len(chain) /\ chain' = chain
  BY DEF Advances
<1> QED
  BY <1>1, <1>2, <1>3 DEF Serialized

(* A new request goes to the end of the chain, queued.                     *)
LEMMA SerializeKeepsOrder ==
  ASSUME SInv, NEW r \in Requests, NEW b, serialize(r, b)
  PROVE  SInv'
<1> USE DEF SInv, Finished
<1>1. /\ chain' = Append(chain, r) /\ Len(chain') = Len(chain) + 1
      /\ chain' \in Seq(Requests)
      /\ chain'[Len(chain) + 1] = r
      /\ \A i \in 1 .. Len(chain) : chain'[i] = chain[i]
  BY DEF serialize, ChainInv
<1>2. /\ up /\ up' = up /\ kills' = kills
      /\ stage[r] = "idle"
      /\ stage' = [stage EXCEPT ![r] = "queued"]
  BY DEF serialize, receiving
<1>3. \A i \in 1 .. Len(chain) : /\ chain[i] \in Requests
                                 /\ chain[i] # r
                                 /\ stage'[chain[i]] = stage[chain[i]]
  BY <1>2 DEF ChainInv
<1>4. stage' \in [Requests -> Stages] /\ stage'[r] = "queued"
  BY <1>2 DEF ChainInv, Stages
<1>5. ChainInv'
  <2>1. ASSUME NEW i \in 1 .. Len(chain'), NEW j \in 1 .. Len(chain'),
               chain'[i] = chain'[j]
        PROVE  i = j
    BY <1>1, <1>3, <2>1 DEF ChainInv
  <2>2. ASSUME NEW i \in 1 .. Len(chain')
        PROVE  stage'[chain'[i]] \notin {"idle", "lost"}
    BY <1>1, <1>3, <1>4 DEF ChainInv
  <2> QED
    BY <1>1, <1>2, <1>4, <2>1, <2>2 DEF ChainInv
<1>6. ASSUME NEW j \in 1 .. Len(chain'), NEW i \in 1 .. j - 1,
             stage'[chain'[j]] # "queued"
      PROVE  stage'[chain'[i]] \in Finished
  <2>1. j \in 1 .. Len(chain) /\ i \in 1 .. Len(chain)
    BY <1>1, <1>4, <1>6 DEF ChainInv
  <2> QED
    BY <1>1, <1>3, <1>6, <2>1 DEF Serialized
<1> QED
  BY <1>5, <1>6 DEF Serialized

(* A request refused before the chain, or whose identifiers lookup throws  *)
(* on, was never on it; and what is sent stays finished.                   *)
LEMMA RejectKeepsOrder ==
  ASSUME SInv, NEW r \in Requests, NEW s \in Stages \ {"idle", "lost"},
         stage[r] \notin {"queued", "decrypting", "recovering", "thrown"},
         s \in Finished,
         stage' = [stage EXCEPT ![r] = s], UNCHANGED <<up, chain, kills>>
  PROVE  SInv'
<1> USE DEF SInv, Finished
<1>1. ChainInv'
  BY DEF ChainInv
<1>2. ASSUME NEW j \in 1 .. Len(chain), NEW i \in 1 .. j - 1,
             stage'[chain[j]] # "queued"
      PROVE  stage'[chain[i]] \in Finished
  <2>1. i \in 1 .. Len(chain) /\ chain[i] \in Requests /\ chain[j] \in Requests
    BY DEF ChainInv
  <2>2. stage[chain[j]] # "queued"
    BY <1>2, <2>1 DEF ChainInv
  <2>3. stage[chain[i]] \in Finished
    BY <2>2 DEF Serialized
  <2> QED
    BY <2>1, <2>3 DEF ChainInv
<1> QED
  BY <1>1, <1>2 DEF Serialized

(* A process that is gone has no chain.                                    *)
LEMMA DownKeepsOrder ==
  ASSUME SInv, down, kills' \in Nat
  PROVE  SInv'
<1>1. chain' = <<>> /\ stage' \in [Requests -> Stages]
  BY DEF down, SInv, ChainInv, Stages
<1> QED
  BY <1>1 DEF SInv, ChainInv, Serialized

(* Which stage each step of a handler leads to.                            *)
LEMMA HandlerAdvances ==
  ASSUME NEW r \in Requests,
         \/ handleGreeting(r) \/ reportState(r) \/ handleEvaluateAccess(r)
         \/ decryptRejects(r) \/ decryptTimesOut(r) \/ decryptReturns(r)
         \/ recoverReturns(r)
  PROVE  \E s \in Stages : Advances(r, s)
<1> USE DEF Advances, Stages, settle, fail, moveTo, decrypting
<1>1. CASE handleGreeting(r)
  BY <1>1 DEF handleGreeting
<1>2. CASE reportState(r)
  BY <1>2 DEF reportState
<1>3. CASE handleEvaluateAccess(r)
  BY <1>3 DEF handleEvaluateAccess
<1>4. CASE decryptRejects(r) \/ decryptTimesOut(r)
  BY <1>4 DEF decryptRejects, decryptTimesOut
<1>5. CASE decryptReturns(r)
  BY <1>5 DEF decryptReturns
<1>6. CASE recoverReturns(r)
  BY <1>6 DEF recoverReturns
<1> QED
  BY <1>1, <1>2, <1>3, <1>4, <1>5, <1>6

(* The new server.                                                         *)
LEMMA ServerInitInv == ServerInit => SInv
BY DEF ServerInit, SInv, ChainInv, Serialized, Stages

(* Every step keeps the order of the chain.                                *)
LEMMA ServerStepInv == SInv /\ [ServerNext]_vars => SInv'
<1> SUFFICES ASSUME SInv, [ServerNext]_vars PROVE SInv'
  OBVIOUS
<1>1. ASSUME NEW r \in Requests, reject(r) PROVE SInv'
  BY <1>1, RejectKeepsOrder DEF reject, receiving, Stages, Finished
<1>9. ASSUME NEW r \in Requests, lookupThrows(r) PROVE SInv'
  BY <1>9, RejectKeepsOrder DEF lookupThrows, receiving, Stages, Finished
<1>2. ASSUME NEW r \in Requests, NEW b \in Routed, serialize(r, b) PROVE SInv'
  BY <1>2, SerializeKeepsOrder
<1>3. ASSUME NEW r \in Requests,
             \/ handleGreeting(r) \/ reportState(r) \/ handleEvaluateAccess(r)
             \/ decryptRejects(r) \/ decryptTimesOut(r) \/ decryptReturns(r)
             \/ recoverReturns(r)
      PROVE  SInv'
  BY <1>3, HandlerAdvances, AdvanceKeepsOrder
<1>4. ASSUME NEW r \in Requests, send(r) PROVE SInv'
  BY <1>4, RejectKeepsOrder DEF send, moveTo, Stages, Finished
<1>5. CASE exit \/ kill \/ stop
  BY <1>5, DownKeepsOrder DEF exit, kill, stop, SInv, ChainInv
<1>6. CASE shutdown
  BY <1>6 DEF shutdown, SInv, ChainInv, Serialized
<1>7. CASE restart
  BY <1>7 DEF restart, SInv, ChainInv, Serialized
<1>8. CASE UNCHANGED vars
  BY <1>8 DEF vars, SInv, ChainInv, Serialized
<1> QED
  BY <1>1, <1>2, <1>3, <1>4, <1>5, <1>6, <1>7, <1>8, <1>9 DEF ServerNext

(* Handlers run one at a time and in the order of their arrival, for any   *)
(* number of requests: the n-th starts when all before it have finished.   *)
THEOREM HandlersAreSerialized == ServerSpec => []Serialized
BY ServerInitInv, ServerStepInv, PTL DEF ServerSpec, SInv

(* A handler is suspended only for an access request with a plaintext, the *)
(* second time only for one that is well formed or loose, and what throws  *)
(* is a request that code outside the try blocks throws on.                *)
StageFits(r) ==
  /\ stage[r] \in {"decrypting", "recovering"} =>
       body[r].op = "evaluate" /\ body[r].message # Junk
  /\ stage[r] = "recovering" =>
       body[r].message = Loose \/ validateAccessRequest(body[r].message)
  /\ stage[r] = "thrown" => escapes(body[r])

AwaitsFit == \A r \in Requests : StageFits(r)

(* What handlers.ts keeps in its module.                                   *)
AppShape ==
  app = [greetingCount |-> app.greetingCount,
         lastGreeting |-> app.lastGreeting,
         farewellCount |-> app.farewellCount,
         lastFarewell |-> app.lastFarewell,
         decisionsProcessed |-> app.decisionsProcessed,
         lastPolicyId |-> app.lastPolicyId]

(* The inductive invariant of the types.                                   *)
TInv == SInv /\ ServerTypeOK /\ AppShape /\ AwaitsFit

(* The types of a new server.                                              *)
LEMMA TInvInit == ServerInit => TInv
<1> SUFFICES ASSUME ServerInit PROVE TInv
  OBVIOUS
<1>1. ServerTypeOK
  <2>1. /\ app.greetingCount = 0 /\ app.lastGreeting = NoName
        /\ app.farewellCount = 0 /\ app.lastFarewell = NoName
        /\ app.decisionsProcessed = 0 /\ app.lastPolicyId = Junk
    BY DEF ServerInit, initialApp
  <2>2. /\ body \in [Requests -> Routed \cup {NoBody}]
        /\ stage \in [Requests -> Stages] /\ DOMAIN result = Requests
        /\ chain \in Seq(Requests)
    BY DEF ServerInit, Stages
  <2>3. up \in BOOLEAN /\ closing \in BOOLEAN
    BY Zenon DEF ServerInit
  <2>4. kills \in 0 .. MaxKills
    BY ServerAssumption DEF ServerInit
  <2> QED
    BY <2>1, <2>2, <2>3, <2>4 DEF ServerTypeOK
<1>2. AppShape /\ AwaitsFit
  BY DEF ServerInit, AppShape, AwaitsFit, StageFits, initialApp
<1> QED
  BY <1>1, <1>2, ServerInitInv DEF TInv

(* A request that is serialized has a body from then on.                   *)
LEMMA SerializeTyped ==
  ASSUME TInv, NEW r \in Requests, NEW b \in Routed, serialize(r, b)
  PROVE  ServerTypeOK' /\ AppShape' /\ AwaitsFit'
<1> USE DEF serialize
<1>1. ServerTypeOK'
  BY DEF TInv, ServerTypeOK, Stages
<1>2. AppShape'
  BY DEF TInv, AppShape
<1>3. AwaitsFit'
  BY DEF TInv, AwaitsFit, StageFits, ServerTypeOK
<1> QED
  BY <1>1, <1>2, <1>3

(* A request lookup throws on has the body that escapes.                   *)
LEMMA LookupTyped ==
  ASSUME TInv, NEW r \in Requests, lookupThrows(r)
  PROVE  ServerTypeOK' /\ AppShape' /\ AwaitsFit'
<1> USE DEF lookupThrows
<1>1. ServerTypeOK'
  BY DEF TInv, ServerTypeOK, Stages
<1>2. AppShape'
  BY DEF TInv, AppShape
<1>3. ASSUME NEW q \in Requests PROVE StageFits(q)'
  <2>1. CASE q = r
    BY <2>1 DEF TInv, ServerTypeOK, StageFits, escapes
  <2>2. CASE q # r
    <3>1. stage'[q] = stage[q] /\ body'[q] = body[q] /\ StageFits(q)
      BY <2>2 DEF TInv, AwaitsFit, ServerTypeOK
    <3> QED
      BY <3>1 DEF StageFits
  <2> QED
    BY <2>1, <2>2
<1>4. AwaitsFit'
  BY <1>3 DEF AwaitsFit
<1> QED
  BY <1>1, <1>2, <1>4

(* A handler that moves on leaves its body and, but for the counters, its  *)
(* state alone.                                                            *)
LEMMA StageTyped ==
  ASSUME TInv, NEW r \in Requests, NEW s \in Stages, stage' = [stage EXCEPT ![r] = s],
         DOMAIN result' = Requests, UNCHANGED <<up, closing, body, chain, kills>>,
         s \in {"decrypting", "recovering"} =>
           body[r].op = "evaluate" /\ body[r].message # Junk,
         s = "recovering" =>
           body[r].message = Loose \/ validateAccessRequest(body[r].message),
         s = "thrown" => escapes(body[r]),
         AppShape',
         app'.greetingCount \in Nat, app'.lastGreeting \in Names \cup {NoName},
         app'.farewellCount \in Nat, app'.lastFarewell \in Names \cup {NoName},
         app'.decisionsProcessed \in Nat,
         app'.decisionsProcessed = 0 <=> app'.lastPolicyId = Junk
  PROVE  ServerTypeOK' /\ AppShape' /\ AwaitsFit'
<1>1. ServerTypeOK'
  BY DEF TInv, ServerTypeOK
<1>2. ASSUME NEW q \in Requests PROVE StageFits(q)'
  <2>1. CASE q = r
    BY <2>1 DEF TInv, ServerTypeOK, StageFits
  <2>2. CASE q # r
    <3>1. stage'[q] = stage[q] /\ body'[q] = body[q] /\ StageFits(q)
      BY <2>2 DEF TInv, AwaitsFit, ServerTypeOK
    <3> QED
      BY <3>1 DEF StageFits
  <2> QED
    BY <2>1, <2>2
<1>3. AwaitsFit'
  BY <1>2 DEF AwaitsFit
<1> QED
  BY <1>1, <1>3

(* A greeting or farewell that answers or is refused.                      *)
LEMMA GreetingTyped ==
  ASSUME TInv, NEW r \in Requests, handleGreeting(r)
  PROVE  ServerTypeOK' /\ AppShape' /\ AwaitsFit'
<1>1. /\ stage' = [stage EXCEPT ![r] = "settled"] /\ DOMAIN result' = Requests
      /\ UNCHANGED <<up, closing, body, chain, kills>>
  BY DEF handleGreeting, fail, settle, TInv, ServerTypeOK
<1>2. /\ AppShape'
      /\ app'.greetingCount \in Nat /\ app'.lastGreeting \in Names \cup {NoName}
      /\ app'.farewellCount \in Nat /\ app'.lastFarewell \in Names \cup {NoName}
      /\ app'.decisionsProcessed = app.decisionsProcessed
      /\ app'.lastPolicyId = app.lastPolicyId
  <2>1. CASE app' = app
    BY <2>1 DEF TInv, ServerTypeOK, AppShape
  <2>2. CASE app' = greeted(body[r])
    <3>1. body[r].name \in Names \cup {NoName}
      <4>1. body[r] \in Routed \cup {NoBody, mistyped} /\ body[r].op \in {"hello", "goodbye"}
        BY DEF TInv, ServerTypeOK, handleGreeting
      <4> QED
        BY <4>1 DEF Routed, NoBody, mistyped, StateBody, greeting, evaluation
    <3>2. CASE body[r].op = "hello"
      <4>1. app' = [app EXCEPT !.greetingCount = @ + 1, !.lastGreeting = body[r].name]
        BY <2>2, <3>2 DEF greeted
      <4>2. app' = [greetingCount |-> app.greetingCount + 1,
                    lastGreeting |-> body[r].name,
                    farewellCount |-> app.farewellCount,
                    lastFarewell |-> app.lastFarewell,
                    decisionsProcessed |-> app.decisionsProcessed,
                    lastPolicyId |-> app.lastPolicyId]
        BY <4>1 DEF TInv, AppShape
      <4> QED
        BY <3>1, <4>2 DEF TInv, ServerTypeOK, AppShape
    <3>3. CASE body[r].op # "hello"
      <4>1. app' = [app EXCEPT !.farewellCount = @ + 1, !.lastFarewell = body[r].name]
        BY <2>2, <3>3 DEF greeted
      <4>2. app' = [greetingCount |-> app.greetingCount,
                    lastGreeting |-> app.lastGreeting,
                    farewellCount |-> app.farewellCount + 1,
                    lastFarewell |-> body[r].name,
                    decisionsProcessed |-> app.decisionsProcessed,
                    lastPolicyId |-> app.lastPolicyId]
        BY <4>1 DEF TInv, AppShape
      <4> QED
        BY <3>1, <4>2 DEF TInv, ServerTypeOK, AppShape
    <3> QED
      BY <3>2, <3>3
  <2> QED
    BY <2>1, <2>2 DEF handleGreeting, fail
<1>3. "settled" \in Stages \ {"decrypting", "recovering", "thrown"}
  BY DEF Stages
<1> QED
  BY <1>1, <1>2, <1>3, StageTyped DEF TInv, ServerTypeOK

(* The recovery of a signer, after which the decision is made.             *)
LEMMA RecoverTyped ==
  ASSUME TInv, NEW r \in Requests, recoverReturns(r), body[r].message # Loose
  PROVE  ServerTypeOK' /\ AppShape' /\ AwaitsFit'
<1>1. /\ stage' = [stage EXCEPT ![r] = "settled"] /\ DOMAIN result' = Requests
      /\ UNCHANGED <<up, closing, body, chain, kills>>
  BY DEF recoverReturns, fail, settle, TInv, ServerTypeOK
<1>2. body[r].message.policyId # Junk
  BY DEF recoverReturns, TInv, AwaitsFit, StageFits, validateAccessRequest
<1>3. /\ AppShape'
      /\ app'.greetingCount = app.greetingCount
      /\ app'.lastGreeting = app.lastGreeting
      /\ app'.farewellCount = app.farewellCount
      /\ app'.lastFarewell = app.lastFarewell
      /\ app'.decisionsProcessed \in Nat
      /\ app'.decisionsProcessed = 0 <=> app'.lastPolicyId = Junk
  <2>1. CASE app' = app
    BY <2>1 DEF TInv, ServerTypeOK, AppShape
  <2>2. CASE app' = [app EXCEPT !.decisionsProcessed = @ + 1,
                                !.lastPolicyId = body[r].message.policyId]
    <3>1. app' = [greetingCount |-> app.greetingCount,
                  lastGreeting |-> app.lastGreeting,
                  farewellCount |-> app.farewellCount,
                  lastFarewell |-> app.lastFarewell,
                  decisionsProcessed |-> app.decisionsProcessed + 1,
                  lastPolicyId |-> body[r].message.policyId]
      BY <2>2 DEF TInv, AppShape
    <3> QED
      BY <1>2, <3>1 DEF TInv, ServerTypeOK, AppShape
  <2> QED
    BY <2>1, <2>2 DEF recoverReturns, fail
<1>4. "settled" \in Stages \ {"decrypting", "recovering", "thrown"}
  BY DEF Stages
<1> QED
  BY <1>1, <1>3, <1>4, StageTyped DEF TInv, ServerTypeOK

(* All other steps of a handler keep the state of its module.              *)
LEMMA OtherHandlersTyped ==
  ASSUME TInv, NEW r \in Requests,
         \/ reject(r) \/ reportState(r) \/ handleEvaluateAccess(r)
         \/ decryptRejects(r) \/ decryptTimesOut(r) \/ decryptReturns(r)
         \/ recoverReturns(r) /\ body[r].message = Loose
         \/ send(r)
  PROVE  ServerTypeOK' /\ AppShape' /\ AwaitsFit'
<1>1. \E s \in Stages :
        /\ stage' = [stage EXCEPT ![r] = s]
        /\ s \in {"decrypting", "recovering"} =>
             body[r].op = "evaluate" /\ body[r].message # Junk
        /\ s = "recovering" =>
             body[r].message = Loose \/ validateAccessRequest(body[r].message)
        /\ s = "thrown" => escapes(body[r])
  <2> USE DEF Stages, settle, fail, moveTo
  <2>1. CASE reject(r) \/ reportState(r) \/ send(r)
    BY <2>1 DEF reject, reportState, send
  <2>2. CASE handleEvaluateAccess(r)
    BY <2>2 DEF handleEvaluateAccess
  <2>3. CASE decryptRejects(r) \/ decryptTimesOut(r)
    BY <2>3 DEF decryptRejects, decryptTimesOut
  <2>4. CASE decryptReturns(r)
    <3>1. body[r].op = "evaluate" /\ body[r].message # Junk
      BY <2>4 DEF decryptReturns, decrypting, TInv, AwaitsFit, StageFits
    <3> QED
      BY <2>4, <3>1 DEF decryptReturns, escapes
  <2>5. CASE recoverReturns(r) /\ body[r].message = Loose
    <3>1. body[r].op = "evaluate" /\ body[r].message # Junk
      BY <2>5 DEF recoverReturns, TInv, AwaitsFit, StageFits
    <3> QED
      BY <2>5, <3>1 DEF recoverReturns, escapes
  <2> QED
    BY <2>1, <2>2, <2>3, <2>4, <2>5
<1>2. /\ DOMAIN result' = Requests
      /\ UNCHANGED <<up, closing, body, chain, app, kills>>
  BY DEF reject, reportState, handleEvaluateAccess, decryptRejects,
         decryptTimesOut, decryptReturns, recoverReturns, send, settle, fail,
         moveTo, TInv,
         ServerTypeOK
<1>3. AppShape'
  BY <1>2 DEF TInv, AppShape
<1> QED
  BY <1>1, <1>2, <1>3, StageTyped DEF TInv, ServerTypeOK

(* The process starts and ends.                                            *)
LEMMA ProcessTyped ==
  ASSUME TInv, exit \/ kill \/ shutdown \/ stop \/ restart
  PROVE  ServerTypeOK' /\ AppShape' /\ AwaitsFit'
<1> USE DEF TInv, ServerTypeOK
<1>1. CASE shutdown \/ restart
  BY <1>1 DEF shutdown, restart, AppShape, AwaitsFit, StageFits
<1>2. CASE exit \/ kill \/ stop
  <2>1. down /\ kills' \in 0 .. MaxKills
    BY <1>2, ServerAssumption DEF exit, kill, stop
  <2>2. /\ stage' \in [Requests -> Stages]
        /\ \A r \in Requests : stage'[r] \in {"idle", "answered", "lost"}
    BY <2>1 DEF down, Stages
  <2>3. app' = initialApp /\ AppShape'
    BY <2>1 DEF down, initialApp, AppShape
  <2>4. ServerTypeOK'
    <3>1. /\ app'.greetingCount = 0 /\ app'.lastGreeting = NoName
          /\ app'.farewellCount = 0 /\ app'.lastFarewell = NoName
          /\ app'.decisionsProcessed = 0 /\ app'.lastPolicyId = Junk
      BY <2>3 DEF initialApp
    <3>2. up' \in BOOLEAN /\ closing' \in BOOLEAN
      BY <2>1, Zenon DEF down
    <3>3. body' = body /\ DOMAIN result' = Requests /\ chain' \in Seq(Requests)
      BY <2>1 DEF down
    <3> QED
      BY <2>1, <2>2, <3>1, <3>2, <3>3
  <2>5. AwaitsFit'
    BY <2>2 DEF AwaitsFit, StageFits
  <2> QED
    BY <2>3, <2>4, <2>5
<1> QED
  BY <1>1, <1>2

(* Every step keeps the types.                                             *)
LEMMA TInvStep == TInv /\ [ServerNext]_vars => TInv'
<1> SUFFICES ASSUME TInv, [ServerNext]_vars
             PROVE  ServerTypeOK' /\ AppShape' /\ AwaitsFit'
  BY ServerStepInv DEF TInv
<1>1. CASE UNCHANGED vars
  BY <1>1 DEF vars, TInv, ServerTypeOK, AppShape, AwaitsFit, StageFits
<1> QED
  BY <1>1, SerializeTyped, LookupTyped, GreetingTyped, RecoverTyped, OtherHandlersTyped,
     ProcessTyped DEF ServerNext

(* The requests, the chain and the state of handlers.ts keep their types;  *)
(* a policy id is on record exactly when a decision was made.              *)
THEOREM ServerTypeCorrect == ServerSpec => []ServerTypeOK
<1>1. TInv => ServerTypeOK
  BY DEF TInv
<1> QED
  BY <1>1, TInvInit, TInvStep, PTL DEF ServerSpec

(* A received request is lost only in a killed container, or with a        *)
(* request that code outside every try block throws on.                    *)
THEOREM OnlyCrashesLose == ServerSpec => LostOnlyByCrash
<1>1. TInv /\ [ServerNext]_vars =>
        [(\E r \in Requests : stage[r] # "lost" /\ stage'[r] = "lost")
           => \/ kills' # kills
              \/ \E q \in Requests : stage[q] = "thrown" /\ escapes(body[q])]_vars
  <2> SUFFICES ASSUME TInv, ServerNext,
                      NEW r \in Requests, stage[r] # "lost", stage'[r] = "lost"
               PROVE  \/ kills' # kills
                      \/ \E q \in Requests :
                           stage[q] = "thrown" /\ escapes(body[q])
    BY DEF vars
  <2> USE DEF TInv, SInv, ChainInv
  <2>1. ASSUME NEW q \in Requests, NEW s, s # "lost",
               stage' = [stage EXCEPT ![q] = s]
        PROVE  FALSE
    BY <2>1
  <2>2. ASSUME NEW q \in Requests PROVE ~reject(q) /\ ~lookupThrows(q) /\ ~send(q)
    BY <2>1 DEF reject, lookupThrows, send, moveTo
  <2>3. ASSUME NEW q \in Requests, NEW b \in Routed PROVE ~serialize(q, b)
    BY <2>1 DEF serialize
  <2>4. ASSUME NEW q \in Requests
        PROVE  /\ ~handleGreeting(q) /\ ~reportState(q)
               /\ ~handleEvaluateAccess(q)
               /\ ~decryptRejects(q) /\ ~decryptTimesOut(q)
               /\ ~decryptReturns(q) /\ ~recoverReturns(q)
    BY <2>1, HandlerAdvances DEF Advances
  <2>5. CASE exit
    BY <2>5 DEF exit, AwaitsFit, StageFits
  <2>6. CASE kill
    BY <2>6, ServerAssumption DEF kill
  <2>7. ~stop
    BY DEF stop, drained, down
  <2>8. ~shutdown /\ ~restart
    BY DEF shutdown, restart
  <2> QED
    BY <2>2, <2>3, <2>4, <2>5, <2>6, <2>7, <2>8 DEF ServerNext
<1> QED
  BY <1>1, TInvInit, TInvStep, PTL DEF ServerSpec, LostOnlyByCrash

(* The answer of the i-th request of the chain, as AnswersFollowChain      *)
(* wants it.                                                               *)
AnswerFits(i) ==
  stage[chain[i]] \in {"settled", "answered"} =>
    /\ body[chain[i]].op \in {"hello", "goodbye"} /\ result[chain[i]] # failed =>
         result[chain[i]].number = Cardinality(succeeded(body[chain[i]].op, i))
    /\ body[chain[i]].op = "state" =>
         /\ result[chain[i]].greetingCount = Cardinality(succeeded("hello", i))
         /\ result[chain[i]].farewellCount = Cardinality(succeeded("goodbye", i))
         /\ \A j \in succeeded("hello", i) :
              (\A k \in succeeded("hello", i) : k <= j) =>
                result[chain[i]].lastGreeting = body[chain[j]].name

(* The module's counters and its last name are those of the whole chain.   *)
AppFollowsChain ==
  /\ app.greetingCount = Cardinality(succeeded("hello", Len(chain)))
  /\ app.farewellCount = Cardinality(succeeded("goodbye", Len(chain)))
  /\ \A j \in succeeded("hello", Len(chain)) :
       (\A k \in succeeded("hello", Len(chain)) : k <= j) =>
         app.lastGreeting = body[chain[j]].name

(* The inductive invariant of the answers.                                 *)
AInv == TInv /\ AppFollowsChain /\ (\A i \in 1 .. Len(chain) : AnswerFits(i))

(* A new server has answered nothing.                                      *)
LEMMA AInvInit == ServerInit => AInv
<1> SUFFICES ASSUME ServerInit PROVE AInv
  OBVIOUS
<1>1. chain = <<>> /\ succeeded("hello", 0) = {} /\ succeeded("goodbye", 0) = {}
  BY DEF ServerInit, succeeded
<1>2. AppFollowsChain
  BY <1>1, FS_EmptySet DEF ServerInit, AppFollowsChain, initialApp
<1> QED
  BY <1>1, <1>2, TInvInit DEF AInv

(* The turns counted up to i are turns up to i.                            *)
LEMMA SucceededFinite ==
  ASSUME NEW op, NEW i \in Nat
  PROVE  IsFiniteSet(succeeded(op, i)) /\ i + 1 \notin succeeded(op, i)
<1>1. IsFiniteSet(1 .. i)
  BY FS_Interval
<1>2. succeeded(op, i) \subseteq 1 .. i
  BY DEF succeeded
<1> QED
  BY <1>1, <1>2, FS_Subset

(* When a request has its turn, those before it are done and those after   *)
(* it wait: what succeeded up to it is all that succeeded.                 *)
LEMMA TurnIsLast ==
  ASSUME SInv, NEW r \in Requests, hasTurn(r)
  PROVE  \E k \in 1 .. Len(chain) :
           /\ chain[k] = r /\ stage[r] = "queued"
           /\ \A i \in 1 .. Len(chain) : i > k => stage[chain[i]] = "queued"
           /\ \A op : succeeded(op, Len(chain)) = succeeded(op, k - 1)
<1>1. PICK k \in 1 .. Len(chain) : chain[k] = r
  BY DEF hasTurn
<1>2. stage[r] = "queued" /\ Len(chain) \in Nat
  BY DEF hasTurn, SInv, ChainInv
<1>3. \A i \in 1 .. Len(chain) : i > k => stage[chain[i]] = "queued"
  <2> SUFFICES ASSUME NEW i \in 1 .. Len(chain), i > k,
                      stage[chain[i]] # "queued"
               PROVE  FALSE
    OBVIOUS
  <2>1. k \in 1 .. i - 1
    BY <1>2
  <2> QED
    BY <1>1, <1>2, <2>1 DEF SInv, Serialized, Finished
<1>4. \A op : succeeded(op, Len(chain)) = succeeded(op, k - 1)
  <2> SUFFICES ASSUME NEW op, NEW j \in 1 .. Len(chain),
                      stage[chain[j]] \in {"settled", "answered"}
               PROVE  j \in 1 .. k - 1
    BY <1>2 DEF succeeded
  <2> QED
    BY <1>1, <1>2, <1>3
<1> QED
  BY <1>1, <1>2, <1>3, <1>4

(* Requests that stay where they are in the chain, with their bodies, and  *)
(* succeed no more than before.                                            *)
Quiet ==
  /\ chain' = chain
  /\ \A i \in 1 .. Len(chain) :
       /\ body'[chain[i]] = body[chain[i]]
       /\ body[chain[i]].op \in {"hello", "goodbye"}
            /\ body[chain[i]].name # NoName =>
          (stage'[chain[i]] \in {"settled", "answered"}
             <=> stage[chain[i]] \in {"settled", "answered"})

(* What settles nothing on the chain changes no count.                     *)
LEMMA QuietSucceeded ==
  Quiet => \A i \in 0 .. Len(chain) :
             /\ succeeded("hello", i)' = succeeded("hello", i)
             /\ succeeded("goodbye", i)' = succeeded("goodbye", i)
<1> SUFFICES ASSUME Quiet, NEW i \in 0 .. Len(chain)
             PROVE  /\ succeeded("hello", i)' = succeeded("hello", i)
                    /\ succeeded("goodbye", i)' = succeeded("goodbye", i)
  OBVIOUS
<1>1. 1 .. i \subseteq 1 .. Len(chain)
  OBVIOUS
<1> QED
  BY <1>1 DEF Quiet, succeeded

(* Nothing that succeeds, and no new answer that anyone counts.            *)
LEMMA QuietAnswers ==
  ASSUME AInv, Quiet, TInv',
         app'.greetingCount = app.greetingCount,
         app'.farewellCount = app.farewellCount,
         app'.lastGreeting = app.lastGreeting,
         \A i \in 1 .. Len(chain) :
           stage'[chain[i]] \in {"settled", "answered"} =>
             \/ /\ stage[chain[i]] \in {"settled", "answered"}
                /\ result'[chain[i]] = result[chain[i]]
             \/ body[chain[i]].op \notin {"hello", "goodbye", "state"}
             \/ /\ body[chain[i]].op \in {"hello", "goodbye"}
                /\ result'[chain[i]] = failed
  PROVE  AInv'
<1>1. Len(chain) \in Nat /\ chain' = chain
  BY DEF AInv, TInv, SInv, ChainInv, Quiet
<1>2. \A i \in 0 .. Len(chain) :
        /\ succeeded("hello", i)' = succeeded("hello", i)
        /\ succeeded("goodbye", i)' = succeeded("goodbye", i)
  BY QuietSucceeded
<1>3. \A i \in 1 .. Len(chain) : \A j \in succeeded("hello", i) :
        body'[chain[j]] = body[chain[j]]
  BY <1>1 DEF succeeded, Quiet
<1>4. AppFollowsChain'
  <2>1. /\ succeeded("hello", Len(chain))' = succeeded("hello", Len(chain))
        /\ succeeded("goodbye", Len(chain))' = succeeded("goodbye", Len(chain))
    BY <1>1, <1>2 DEF succeeded
  <2>2. \A j \in succeeded("hello", Len(chain)) : body'[chain[j]] = body[chain[j]]
    BY <1>1 DEF succeeded, Quiet
  <2> QED
    BY <1>1, <2>1, <2>2 DEF AInv, AppFollowsChain
<1>5. ASSUME NEW i \in 1 .. Len(chain') PROVE AnswerFits(i)'
  <2>1. i \in 1 .. Len(chain) /\ i \in 0 .. Len(chain)
    BY <1>1
  <2>2. AnswerFits(i)
    BY <2>1 DEF AInv
  <2>3. body'[chain[i]] = body[chain[i]]
    BY <2>1 DEF Quiet
  <2>4. CASE stage[chain[i]] \in {"settled", "answered"}
               /\ result'[chain[i]] = result[chain[i]]
    <3>1. body[chain[i]].op \in {"hello", "goodbye"} =>
            succeeded(body[chain[i]].op, i)' = succeeded(body[chain[i]].op, i)
      BY <1>2, <2>1, <2>3, <1>1 DEF succeeded
    <3> QED
      BY <1>1, <1>2, <1>3, <2>1, <2>2, <2>3, <2>4, <3>1 DEF AnswerFits
  <2>5. CASE stage'[chain[i]] \notin {"settled", "answered"}
    BY <1>1, <2>5 DEF AnswerFits
  <2>6. CASE body[chain[i]].op \notin {"hello", "goodbye", "state"}
    BY <1>1, <2>3, <2>6 DEF AnswerFits
  <2>7. CASE body[chain[i]].op \in {"hello", "goodbye"}
               /\ result'[chain[i]] = failed
    BY <1>1, <2>3, <2>7 DEF AnswerFits
  <2> QED
    BY <2>1, <2>4, <2>5, <2>6, <2>7
<1> QED
  BY <1>4, <1>5 DEF AInv

(* A greeting that succeeds takes the next number.                         *)
LEMMA GreetingAnswers ==
  ASSUME AInv, TInv', NEW r \in Requests, handleGreeting(r), body[r].name # NoName
  PROVE  AInv'
<1>1. PICK k \in 1 .. Len(chain) :
        /\ chain[k] = r /\ stage[r] = "queued"
        /\ \A i \in 1 .. Len(chain) : i > k => stage[chain[i]] = "queued"
        /\ \A op : succeeded(op, Len(chain)) = succeeded(op, k - 1)
  BY TurnIsLast DEF handleGreeting, AInv, TInv
<1>2. /\ Len(chain) \in Nat /\ k - 1 \in Nat
      /\ \A i \in 1 .. Len(chain) : chain[i] \in Requests
      /\ \A i \in 1 .. Len(chain) : i # k => chain[i] # r
  BY <1>1 DEF AInv, TInv, SInv, ChainInv
<1>3. /\ body[r].op \in {"hello", "goodbye"} /\ app' = greeted(body[r])
      /\ UNCHANGED <<chain, body>>
      /\ stage' = [stage EXCEPT ![r] = "settled"]
      /\ result' = [result EXCEPT ![r] =
                      [status |-> 1, name |-> body[r].name,
                       number |-> countOf(app', body[r].op)]]
  BY DEF handleGreeting, settle
<1>4. /\ stage'[r] = "settled" /\ result'[r].number = countOf(app', body[r].op)
      /\ \A i \in 1 .. Len(chain) : i # k =>
           /\ stage'[chain[i]] = stage[chain[i]]
           /\ result'[chain[i]] = result[chain[i]]
  BY <1>2, <1>3 DEF AInv, TInv, ServerTypeOK
<1>5. PICK op \in {"hello", "goodbye"} : op = body[r].op
  BY <1>3
<1>6. \A i \in 0 .. k - 1 :
        /\ succeeded("hello", i)' = succeeded("hello", i)
        /\ succeeded("goodbye", i)' = succeeded("goodbye", i)
  <2>1. \A i \in 0 .. k - 1 : 1 .. i \subseteq 1 .. Len(chain)
          /\ k \notin 1 .. i
    BY <1>2
  <2> QED
    BY <1>3, <1>4, <2>1 DEF succeeded
<1>7. \A i \in k .. Len(chain) : \A o \in {"hello", "goodbye"} :
        succeeded(o, i)' = IF o = op THEN succeeded(o, k - 1) \cup {k}
                                     ELSE succeeded(o, k - 1)
  <2> SUFFICES ASSUME NEW i \in k .. Len(chain), NEW o \in {"hello", "goodbye"}
               PROVE  succeeded(o, i)' = IF o = op THEN succeeded(o, k - 1) \cup {k}
                                                   ELSE succeeded(o, k - 1)
    OBVIOUS
  <2>1. /\ 1 .. i \subseteq 1 .. Len(chain) /\ k \in 1 .. i
        /\ 1 .. k - 1 \subseteq 1 .. i
        /\ \A j \in 1 .. i : j < k \/ j = k \/ j > k
        /\ \A j \in 1 .. i : j < k <=> j \in 1 .. k - 1
    BY <1>2
  <2>2. \A j \in 1 .. i : j > k => stage'[chain[j]] = "queued"
    BY <1>1, <1>4, <2>1
  <2> QED
    BY <1>1, <1>3, <1>4, <1>5, <2>1, <2>2 DEF succeeded
<1>8. \A o : /\ IsFiniteSet(succeeded(o, k - 1)) /\ k \notin succeeded(o, k - 1)
             /\ Cardinality(succeeded(o, k - 1) \cup {k})
                  = Cardinality(succeeded(o, k - 1)) + 1
  <2> TAKE o
  <2>1. IsFiniteSet(succeeded(o, k - 1)) /\ (k - 1) + 1 \notin succeeded(o, k - 1)
    BY <1>2, SucceededFinite
  <2>2. k \notin succeeded(o, k - 1)
    BY <1>2, <2>1
  <2> QED
    BY <2>1, <2>2, FS_AddElement
<1>9. /\ app.greetingCount = Cardinality(succeeded("hello", k - 1))
      /\ app.farewellCount = Cardinality(succeeded("goodbye", k - 1))
      /\ \A j \in succeeded("hello", k - 1) :
           (\A l \in succeeded("hello", k - 1) : l <= j) =>
             app.lastGreeting = body[chain[j]].name
  BY <1>1 DEF AInv, AppFollowsChain
<1>10. /\ op = "hello" =>
            /\ app'.greetingCount = app.greetingCount + 1
            /\ app'.lastGreeting = body[r].name
            /\ app'.farewellCount = app.farewellCount
       /\ op = "goodbye" =>
            /\ app'.farewellCount = app.farewellCount + 1
            /\ app'.greetingCount = app.greetingCount
            /\ app'.lastGreeting = app.lastGreeting
  <2>1. CASE op = "hello"
    <3>1. app' = [app EXCEPT !.greetingCount = @ + 1, !.lastGreeting = body[r].name]
      BY <1>3, <1>5, <2>1 DEF greeted
    <3> QED
      BY <2>1, <3>1 DEF AInv, TInv, AppShape
  <2>2. CASE op = "goodbye"
    <3>1. app' = [app EXCEPT !.farewellCount = @ + 1, !.lastFarewell = body[r].name]
      BY <1>3, <1>5, <2>2 DEF greeted
    <3> QED
      BY <2>2, <3>1 DEF AInv, TInv, AppShape
  <2> QED
    BY <2>1, <2>2
<1>11. AppFollowsChain'
  <2>1. \A o \in {"hello", "goodbye"} :
          succeeded(o, Len(chain))' = IF o = op THEN succeeded(o, k - 1) \cup {k}
                                                ELSE succeeded(o, k - 1)
    BY <1>2, <1>3, <1>7 DEF succeeded
  <2>2. \A j \in succeeded("hello", k - 1) : j \in Nat /\ ~ k <= j
    BY <1>2 DEF succeeded
  <2>3. CASE op = "hello"
    <3>1. \A j \in succeeded("hello", Len(chain))' :
            (\A l \in succeeded("hello", Len(chain))' : l <= j) => j = k
      BY <1>2, <2>1, <2>2, <2>3
    <3> QED
      <4>1. /\ succeeded("hello", Len(chain))' = succeeded("hello", k - 1) \cup {k}
            /\ succeeded("goodbye", Len(chain))' = succeeded("goodbye", k - 1)
        BY <2>1, <2>3
      <4>2. /\ app'.greetingCount = Cardinality(succeeded("hello", Len(chain))')
            /\ app'.farewellCount = Cardinality(succeeded("goodbye", Len(chain))')
        BY <1>8, <1>9, <1>10, <2>3, <4>1
      <4>3. app'.lastGreeting = body'[chain'[k]].name
        BY <1>1, <1>3, <1>5, <1>10, <2>3
      <4> QED
        BY <3>1, <4>2, <4>3 DEF AppFollowsChain
  <2>4. CASE op = "goodbye"
    BY <1>3, <1>8, <1>9, <1>10, <2>1, <2>4 DEF AppFollowsChain
  <2> QED
    BY <1>5, <2>3, <2>4
<1>12. ASSUME NEW i \in 1 .. Len(chain') PROVE AnswerFits(i)'
  <2>1. i \in 1 .. Len(chain)
    BY <1>3
  <2>2. CASE i < k
    <3>1. i \in 0 .. k - 1 /\ i # k
      BY <1>2, <2>1, <2>2
    <3>2. AnswerFits(i)
      BY <2>1 DEF AInv
    <3>3. body[chain[i]].op \in {"hello", "goodbye"} =>
            succeeded(body[chain[i]].op, i)' = succeeded(body[chain[i]].op, i)
      BY <1>3, <1>6, <3>1 DEF succeeded
    <3> QED
      BY <1>3, <1>4, <1>6, <2>1, <3>1, <3>2, <3>3 DEF AnswerFits
  <2>3. CASE i = k
    <3>1. succeeded(op, i)' = succeeded(op, k - 1) \cup {k}
      BY <1>2, <1>7, <1>5, <2>3
    <3>2. result'[r].number = Cardinality(succeeded(op, k - 1)) + 1
      <4>1. result'[r].number = countOf(app', op)
        BY <1>4, <1>5
      <4> QED
        BY <1>9, <1>10, <4>1 DEF countOf
    <3>3. succeeded(body[chain[i]].op, i)' = succeeded(op, k - 1) \cup {k}
      BY <1>1, <1>3, <1>5, <2>3, <3>1 DEF succeeded
    <3> QED
      BY <1>1, <1>3, <1>8, <1>5, <2>3, <3>2, <3>3 DEF AnswerFits
  <2>4. CASE i > k
    <3>1. stage'[chain'[i]] = "queued"
      BY <1>1, <1>2, <1>3, <1>4, <2>1, <2>4
    <3> QED
      BY <3>1 DEF AnswerFits
  <2> QED
    BY <1>2, <2>1, <2>2, <2>3, <2>4
<1> QED
  BY <1>11, <1>12 DEF AInv

(* A report tells what the requests before it have done.                   *)
LEMMA ReportAnswers ==
  ASSUME AInv, TInv', NEW r \in Requests, reportState(r)
  PROVE  AInv'
<1>1. PICK k \in 1 .. Len(chain) :
        /\ chain[k] = r /\ stage[r] = "queued"
        /\ \A i \in 1 .. Len(chain) : i > k => stage[chain[i]] = "queued"
        /\ \A op : succeeded(op, Len(chain)) = succeeded(op, k - 1)
  BY TurnIsLast DEF reportState, AInv, TInv
<1>2. /\ Len(chain) \in Nat /\ k - 1 \in Nat
      /\ \A i \in 1 .. Len(chain) : chain[i] \in Requests
      /\ \A i \in 1 .. Len(chain) : i # k => chain[i] # r
  BY <1>1 DEF AInv, TInv, SInv, ChainInv
<1>3. /\ body[r].op = "state" /\ UNCHANGED <<chain, body, app>>
      /\ stage' = [stage EXCEPT ![r] = "settled"]
      /\ result' = [result EXCEPT ![r] =
                      [greetingCount |-> app.greetingCount,
                       lastGreeting |-> app.lastGreeting,
                       farewellCount |-> app.farewellCount,
                       lastFarewell |-> app.lastFarewell]]
  BY DEF reportState, settle
<1>4. /\ result'[r].greetingCount = app.greetingCount
      /\ result'[r].farewellCount = app.farewellCount
      /\ result'[r].lastGreeting = app.lastGreeting
      /\ \A i \in 1 .. Len(chain) : i # k =>
           /\ stage'[chain[i]] = stage[chain[i]]
           /\ result'[chain[i]] = result[chain[i]]
  BY <1>2, <1>3 DEF AInv, TInv, ServerTypeOK
<1>5. Quiet
  BY <1>1, <1>3, <1>4 DEF Quiet
<1>6. \A i \in 0 .. Len(chain) :
        /\ succeeded("hello", i)' = succeeded("hello", i)
        /\ succeeded("goodbye", i)' = succeeded("goodbye", i)
  BY <1>5, QuietSucceeded
<1>7. AppFollowsChain'
  <2>1. /\ succeeded("hello", Len(chain))' = succeeded("hello", Len(chain))
        /\ succeeded("goodbye", Len(chain))' = succeeded("goodbye", Len(chain))
    BY <1>2, <1>3, <1>6 DEF succeeded
  <2> QED
    BY <1>3, <2>1 DEF AInv, AppFollowsChain
<1>8. ASSUME NEW i \in 1 .. Len(chain') PROVE AnswerFits(i)'
  <2>1. i \in 1 .. Len(chain) /\ i \in 0 .. Len(chain)
    BY <1>2, <1>3
  <2>2. CASE i # k
    <3>1. AnswerFits(i)
      BY <2>1 DEF AInv
    <3>2. body[chain[i]].op \in {"hello", "goodbye"} =>
            succeeded(body[chain[i]].op, i)' = succeeded(body[chain[i]].op, i)
      BY <1>3, <1>6, <2>1 DEF succeeded
    <3> QED
      BY <1>3, <1>4, <1>6, <2>1, <2>2, <3>1, <3>2 DEF AnswerFits
  <2>3. CASE i = k
    <3>1. succeeded("hello", Len(chain)) = succeeded("hello", k)
            /\ succeeded("goodbye", Len(chain)) = succeeded("goodbye", k)
      <4>1. 1 .. k = (1 .. k - 1) \cup {k}
        BY <1>2
      <4> QED
        BY <1>1, <4>1 DEF succeeded
    <3>2. AppFollowsChain
      BY DEF AInv
    <3> QED
      BY <1>1, <1>3, <1>4, <1>6, <2>1, <2>3, <3>1, <3>2
         DEF AnswerFits, AppFollowsChain
  <2> QED
    BY <2>2, <2>3
<1> QED
  BY <1>7, <1>8 DEF AInv

(* A request at the end of the chain has not succeeded yet.                *)
LEMMA SerializeAnswers ==
  ASSUME AInv, TInv', NEW r \in Requests, NEW b \in Routed, serialize(r, b)
  PROVE  AInv'
<1>1. /\ chain' = Append(chain, r) /\ Len(chain') = Len(chain) + 1
      /\ Len(chain) \in Nat /\ chain'[Len(chain) + 1] = r
      /\ \A i \in 1 .. Len(chain) : chain'[i] = chain[i]
      /\ stage'[r] = "queued" /\ UNCHANGED <<app, result>>
  BY DEF serialize, AInv, TInv, SInv, ChainInv
<1>2. \A i \in 1 .. Len(chain) :
        /\ chain[i] \in Requests /\ chain[i] # r
        /\ stage'[chain'[i]] = stage[chain[i]] /\ body'[chain'[i]] = body[chain[i]]
        /\ result'[chain'[i]] = result[chain[i]]
  BY <1>1 DEF serialize, receiving, AInv, TInv, SInv, ChainInv, ServerTypeOK
<1>3. \A i \in 0 .. Len(chain) : \A op : succeeded(op, i)' = succeeded(op, i)
  <2>1. \A i \in 0 .. Len(chain) : 1 .. i \subseteq 1 .. Len(chain)
    BY <1>1
  <2> QED
    BY <1>2, <2>1 DEF succeeded
<1>4. \A op : succeeded(op, Len(chain))' = succeeded(op, Len(chain))
  <2>1. 1 .. Len(chain') = (1 .. Len(chain)) \cup {Len(chain')}
    BY <1>1
  <2> QED
    BY <1>1, <1>2, <2>1 DEF succeeded
<1>5. AppFollowsChain'
  <2>1. \A j \in succeeded("hello", Len(chain)) :
          body'[chain'[j]] = body[chain[j]]
    BY <1>2 DEF succeeded
  <2> QED
    BY <1>1, <1>4, <2>1 DEF AInv, AppFollowsChain
<1>6. ASSUME NEW i \in 1 .. Len(chain') PROVE AnswerFits(i)'
  <2>1. CASE i = Len(chain')
    BY <1>1, <2>1 DEF AnswerFits
  <2>2. CASE i # Len(chain')
    <3>1. i \in 1 .. Len(chain) /\ i \in 0 .. Len(chain)
      BY <1>1, <2>2
    <3>2. AnswerFits(i)
      BY <3>1 DEF AInv
    <3>3. succeeded(body[chain[i]].op, i)' = succeeded(body[chain[i]].op, i)
      BY <1>2, <1>3, <3>1 DEF succeeded
    <3>4. \A j \in succeeded("hello", i) : body'[chain'[j]] = body[chain[j]]
      BY <1>2, <3>1 DEF succeeded
    <3> QED
      BY <1>2, <1>3, <3>1, <3>2, <3>3, <3>4 DEF AnswerFits
  <2> QED
    BY <2>1, <2>2
<1> QED
  BY <1>5, <1>6 DEF AInv

(* A request lookup throws on is not on the chain.                         *)
LEMMA LookupAnswers ==
  ASSUME AInv, TInv', NEW r \in Requests, lookupThrows(r)
  PROVE  AInv'
<1>1. /\ UNCHANGED <<chain, result, app>>
      /\ \A i \in 1 .. Len(chain) :
           /\ chain[i] \in Requests /\ chain[i] # r
           /\ stage'[chain[i]] = stage[chain[i]]
           /\ body'[chain[i]] = body[chain[i]]
  BY DEF lookupThrows, receiving, AInv, TInv, SInv, ChainInv, ServerTypeOK
<1>2. \A i \in 0 .. Len(chain) : \A op : succeeded(op, i)' = succeeded(op, i)
  <2>1. \A i \in 0 .. Len(chain) : 1 .. i \subseteq 1 .. Len(chain)
    BY DEF AInv, TInv, SInv, ChainInv
  <2> QED
    BY <1>1, <2>1 DEF succeeded
<1>3. Len(chain) \in 0 .. Len(chain) /\ Len(chain') = Len(chain)
  BY <1>1 DEF AInv, TInv, SInv, ChainInv
<1>4. AppFollowsChain'
  <2>1. \A j \in succeeded("hello", Len(chain)) :
          body'[chain'[j]] = body[chain[j]]
    BY <1>1 DEF succeeded
  <2>2. \A op : succeeded(op, Len(chain))' = succeeded(op, Len(chain))
    BY <1>1, <1>2, <1>3
  <2> QED
    BY <1>1, <2>1, <2>2 DEF AInv, AppFollowsChain
<1>5. ASSUME NEW i \in 1 .. Len(chain') PROVE AnswerFits(i)'
  <2>1. i \in 1 .. Len(chain) /\ i \in 0 .. Len(chain)
    BY <1>3
  <2>2. AnswerFits(i)
    BY <2>1 DEF AInv
  <2>3. succeeded(body[chain[i]].op, i)' = succeeded(body[chain[i]].op, i)
    BY <1>1, <1>2, <2>1 DEF succeeded
  <2>4. \A j \in succeeded("hello", i) : body'[chain'[j]] = body[chain[j]]
    BY <1>1, <2>1 DEF succeeded
  <2> QED
    BY <1>1, <1>2, <2>1, <2>2, <2>3, <2>4 DEF AnswerFits
<1> QED
  BY <1>4, <1>5 DEF AInv

(* Steps in which nothing succeeds: a refusal before the chain, a failed   *)
(* handler, an access request, an answer that is sent.                     *)
LEMMA OtherAnswers ==
  ASSUME AInv, TInv', NEW r \in Requests,
         \/ reject(r) \/ handleEvaluateAccess(r) \/ decryptRejects(r)
         \/ decryptTimesOut(r) \/ decryptReturns(r) \/ recoverReturns(r)
         \/ send(r)
         \/ handleGreeting(r) /\ body[r].name = NoName
  PROVE  AInv'
<1> USE DEF settle, fail, moveTo
<1>1. /\ UNCHANGED <<chain, body>>
      /\ \E s : stage' = [stage EXCEPT ![r] = s]
      /\ result' = result \/ \E o : result' = [result EXCEPT ![r] = o]
  BY DEF reject, handleEvaluateAccess, decryptRejects, decryptTimesOut,
         decryptReturns, recoverReturns, send, handleGreeting
<1>2. /\ app'.greetingCount = app.greetingCount
      /\ app'.farewellCount = app.farewellCount
      /\ app'.lastGreeting = app.lastGreeting
  <2>1. CASE UNCHANGED app
    BY <2>1
  <2>2. CASE app' = [app EXCEPT !.decisionsProcessed = @ + 1,
                                !.lastPolicyId = body[r].message.policyId]
    BY <2>2 DEF AInv, TInv, AppShape
  <2> QED
    BY <2>1, <2>2
       DEF reject, handleEvaluateAccess, decryptRejects, decryptTimesOut,
           decryptReturns, recoverReturns, send, handleGreeting
<1>3. \A i \in 1 .. Len(chain) :
        /\ chain[i] \in Requests /\ stage[chain[i]] # "idle"
        /\ chain[i] # r => /\ stage'[chain[i]] = stage[chain[i]]
                           /\ result'[chain[i]] = result[chain[i]]
  BY <1>1 DEF AInv, TInv, SInv, ChainInv, ServerTypeOK
<1>4. \/ stage[r] = "idle"
      \/ /\ stage[r] = "settled" /\ stage'[r] = "answered"
         /\ result'[r] = result[r]
      \/ /\ body[r].op = "evaluate"
         /\ stage[r] \notin {"settled", "answered"}
      \/ /\ body[r].op \in {"hello", "goodbye"} /\ body[r].name = NoName
         /\ stage[r] \notin {"settled", "answered"} /\ result'[r] = failed
  <2>1. CASE reject(r)
    BY <2>1 DEF reject, receiving
  <2>2. CASE send(r)
    BY <2>2 DEF send, AInv, TInv, SInv, ChainInv
  <2>3. CASE handleEvaluateAccess(r)
    BY <2>3 DEF handleEvaluateAccess, hasTurn
  <2>4. CASE decryptRejects(r) \/ decryptTimesOut(r) \/ decryptReturns(r)
    BY <2>4 DEF decryptRejects, decryptTimesOut, decryptReturns, decrypting,
       AInv, TInv, AwaitsFit, StageFits
  <2>5. CASE recoverReturns(r)
    BY <2>5 DEF recoverReturns, AInv, TInv, AwaitsFit, StageFits
  <2>6. CASE handleGreeting(r) /\ body[r].name = NoName
    BY <2>6 DEF handleGreeting, hasTurn, AInv, TInv, ServerTypeOK
  <2> QED
    BY <2>1, <2>2, <2>3, <2>4, <2>5, <2>6
<1>5. Quiet
  BY <1>1, <1>3, <1>4 DEF Quiet
<1> QED
  BY <1>2, <1>3, <1>4, <1>5, QuietAnswers

(* A process that is gone has answered for its chain.                      *)
LEMMA ProcessAnswers ==
  ASSUME AInv, TInv', exit \/ kill \/ shutdown \/ stop \/ restart
  PROVE  AInv'
<1>1. CASE shutdown \/ restart
  BY <1>1, QuietAnswers DEF shutdown, restart, Quiet
<1>2. CASE down
  <2>1. chain' = <<>> /\ app' = initialApp
    BY <1>2 DEF down
  <2>2. \A op : succeeded(op, Len(chain))' = {}
    BY <2>1 DEF succeeded
  <2>3. AppFollowsChain'
    BY <2>1, <2>2, FS_EmptySet DEF AppFollowsChain, initialApp
  <2> QED
    BY <2>1, <2>3 DEF AInv
<1> QED
  BY <1>1, <1>2 DEF exit, kill, stop

(* Every step keeps the answers those of a sequential server.              *)
LEMMA AInvStep == AInv /\ [ServerNext]_vars => AInv'
<1> SUFFICES ASSUME AInv, [ServerNext]_vars PROVE AInv'
  OBVIOUS
<1>1. TInv'
  BY TInvStep DEF AInv
<1>2. CASE UNCHANGED vars
  BY <1>1, <1>2, QuietAnswers DEF vars, Quiet
<1> QED
  BY <1>1, <1>2, GreetingAnswers, ReportAnswers, SerializeAnswers, LookupAnswers,
     OtherAnswers, ProcessAnswers DEF ServerNext

(* Every answer is the one a server without awaits would have given: the   *)
(* n-th successful greeting of a process carries number n, and a report of *)
(* the state counts exactly the greetings in front of it (handlers.ts,     *)
(* server.ts serialize).                                                   *)
THEOREM AnswersAreSequential == ServerSpec => []AnswersFollowChain
<1>1. AInv => AnswersFollowChain
  BY DEF AInv, AnswersFollowChain, AnswerFits
<1> QED
  BY <1>1, AInvInit, AInvStep, PTL DEF ServerSpec
=============================================================================
