------------------------- MODULE ExtensionSetupProofs -------------------------
(***************************************************************************)
(* Proofs about ExtensionSetup for any number of senders, extensions and   *)
(* mishaps, with a sender that is deployed or one that is used again, and  *)
(* about VerifyDeploy beside it, for any settings and files.               *)
(***************************************************************************)
EXTENDS VerifyDeploy, FiniteSetTheorems, WellFoundedInduction, TLAPS

(* What the registry keeps of an extension.                                *)
Extensions == [sender: Senders \cup {Foreign}, machineOwner: BOOLEAN,
               projectOwner: BOOLEAN, keyType: BOOLEAN]

(* The steps that send a transaction, and what they send.                  *)
Sending == {"deploy", "register", "machineOwner", "projectOwner", "keyType",
            "setExtensionId", "sayHello", "sayGoodbye"}

(* Only the deployment has no sender.                                      *)
Txs == {tx \in [op: Sending, sender: 0 .. MaxSenders, id: Nat] :
          tx.op # "deploy" => tx.sender # Foreign}

(* Types that SetupTypeOK leaves out.                                      *)
Shapes ==
  /\ extensions \in Seq(Extensions)
  /\ mempool \in Seq(Txs)

(* The tool that runs knows extensions and senders that exist.             *)
RunTyped ==
  /\ run \in [step: Steps \cup {"idle"},
              wait: {"none", "pending", "ok", "reverted"},
              result: Nat, id: Nat, sender: Nat]
  /\ run.id \in 0 .. Len(extensions) /\ run.sender \in 0 .. deployed

(* The step has its receipt, or lies behind.                               *)
isDone(step, later) ==
  \/ run.step = step /\ run.wait = "ok"
  \/ run.step \in later

(* What is on chain when a tool has come to a step of its own: what it     *)
(* waits for is the last transaction sent.                                 *)
RunFits ==
  /\ run.wait # "none" => run.step \in Sending
  /\ run.step \notin {"idle", "deploy"} => run.sender # Foreign
  /\ run.wait = "pending" =>
       /\ mempool # <<>>
       /\ mempool[Len(mempool)]
            = [op |-> run.step, sender |-> run.sender, id |-> run.id]
  /\ isDone("deploy", {}) => run.result \in 1 .. deployed
  /\ isDone("register", {}) =>
       run.result \in Ids /\ extensions[run.result].sender = run.sender
  /\ run.step \in {"machineOwner", "projectOwner", "keyType", "write"} =>
       run.id \in Ids /\ extensions[run.id].sender = run.sender
  /\ isDone("machineOwner", {"projectOwner", "keyType", "write"}) =>
       extensions[run.id].machineOwner
  /\ isDone("projectOwner", {"keyType", "write"}) =>
       extensions[run.id].projectOwner
  /\ isDone("keyType", {"write"}) => extensions[run.id].keyType

(* The file never names the sender of somebody else.                       *)
EnvNamed == env # noEnv => env.sender # Foreign

(* A sender is bound to an extension of its own.                           *)
BoundIsOwn ==
  \A s \in Senders : bound[s] # 0 =>
    bound[s] \in Ids /\ extensions[bound[s]].sender = s

(* Nobody has registered, and no transaction on its way registers.         *)
Unregistered(s) ==
  /\ idsOf(s) = {}
  /\ \A k \in 1 .. Len(mempool) :
       mempool[k].op = "register" => mempool[k].sender # s

(* A sender that is deployed by every run is registered by one run only,   *)
(* also when transactions of stopped runs are mined late.                  *)
SentOnce ==
  ~ Reuse =>
    /\ \A i \in Ids : extensions[i].sender <= deployed
    /\ \A k \in 1 .. Len(mempool) : mempool[k].op = "register" =>
         mempool[k].sender <= deployed /\ idsOf(mempool[k].sender) = {}
    /\ \A k, l \in 1 .. Len(mempool) :
         mempool[k].op = "register" /\ mempool[l].op = "register"
           /\ mempool[k].sender = mempool[l].sender => k = l
    /\ isDone("deploy", {}) => Unregistered(run.result)
    /\ run.step = "register" /\ run.wait = "none" => Unregistered(run.sender)

(* No sender has two extensions, unless one that is used again is accepted *)
(* again.                                                                  *)
OneEach ==
  (Reuse => RejectsDuplicates) =>
    \A i, j \in Ids :
      extensions[i].sender = extensions[j].sender
        /\ extensions[i].sender # Foreign => i = j

(* The inductive invariant.                                                *)
SetupInv ==
  /\ SetupTypeOK
  /\ Shapes
  /\ RunTyped
  /\ RunFits
  /\ EnvIsComplete
  /\ EnvNamed
  /\ BoundIsOwn
  /\ SentOnce
  /\ OneEach

(* There is a first extension of a sender that has any.                    *)
LEMMA LeastExists ==
  ASSUME NEW S, S # {}, S \subseteq Nat
  PROVE  LET least == CHOOSE i \in S : \A j \in S : i <= j
         IN  least \in S /\ \A j \in S : least <= j
<1> DEFINE Less == OpToRel(<, Nat)
<1>1. IsWellFoundedOn(Less, Nat)
  BY NatLessThanWellFounded
<1>2. \A j, k \in Nat : j < k => <<j, k>> \in Less
  BY DEF OpToRel
<1> HIDE DEF Less
<1>3. PICK i \in S : \A j \in S : <<j, i>> \notin Less
  BY <1>1, WFMin
<1>4. \A j \in S : i <= j
  <2> TAKE j \in S
  <2>1. i \in Nat /\ j \in Nat /\ <<j, i>> \notin Less
    BY <1>3
  <2>2. ~ (j < i)
    BY <1>2, <2>1
  <2> QED
    BY <2>1, <2>2
<1> QED
  BY <1>4

(* Before the first run.                                                   *)
LEMMA SetupInvInit == SetupInit => SetupInv
<1> SUFFICES ASSUME SetupInit PROVE SetupInv
  OBVIOUS
<1> USE SetupAssumption DEF SetupInit
<1>1. extensions = <<>> /\ Ids = {}
  BY DEF Ids
<1>2. SetupTypeOK
  BY <1>1 DEF SetupTypeOK, noRun, noEnv, Senders
<1>3. Shapes /\ RunTyped
  BY DEF Shapes, RunTyped, noRun
<1>4. RunFits
  BY DEF RunFits, isDone, noRun
<1>5. EnvIsComplete /\ EnvNamed /\ BoundIsOwn /\ OneEach
  BY <1>1 DEF EnvIsComplete, EnvNamed, BoundIsOwn, OneEach
<1>6. SentOnce
  BY <1>1 DEF SentOnce, isDone, noRun
<1> QED
  BY <1>2, <1>3, <1>4, <1>5, <1>6 DEF SetupInv

(* What stays when only a tool moves.                                      *)
LEMMA RunMoves ==
  /\ SetupInv
  /\ UNCHANGED <<chainVars, env, tee>>
  /\ tested' \in 0 .. deployed /\ mishaps' \in 0 .. MaxMishaps
  /\ mempool' \in Seq(Txs)
  /\ RunTyped' /\ RunFits' /\ SentOnce'
  => SetupInv'
<1> SUFFICES ASSUME SetupInv, UNCHANGED <<chainVars, env, tee>>,
                    tested' \in 0 .. deployed, mishaps' \in 0 .. MaxMishaps,
                    mempool' \in Seq(Txs), RunTyped', RunFits', SentOnce'
             PROVE  SetupInv'
  OBVIOUS
<1> USE DEF SetupInv, chainVars
<1>1. SetupTypeOK'
  BY DEF SetupTypeOK, RunTyped, Ids
<1>2. Shapes'
  BY DEF Shapes
<1>3. EnvIsComplete' /\ EnvNamed'
  BY DEF EnvIsComplete, EnvNamed, Ids
<1>4. BoundIsOwn' /\ OneEach'
  BY DEF BoundIsOwn, OneEach, Ids
<1> QED
  BY <1>1, <1>2, <1>3, <1>4

(* A tool may end or stop anywhere.                                        *)
LEMMA RunEnds ==
  /\ SetupInv
  /\ run' = noRun
  /\ UNCHANGED <<chainVars, mempool, env, tee>>
  /\ tested' \in 0 .. deployed /\ mishaps' \in 0 .. MaxMishaps
  => SetupInv'
<1> SUFFICES ASSUME SetupInv, run' = noRun,
                    UNCHANGED <<chainVars, mempool, env, tee>>,
                    tested' \in 0 .. deployed, mishaps' \in 0 .. MaxMishaps
             PROVE  SetupInv'
  OBVIOUS
<1> USE DEF chainVars
<1>1. RunTyped'
  BY SetupAssumption DEF SetupInv, SetupTypeOK, RunTyped, noRun
<1>2. RunFits'
  BY DEF RunFits, isDone, noRun
<1>3. SentOnce'
  BY DEF SetupInv, SentOnce, isDone, noRun, Ids, idsOf
<1> QED
  BY <1>1, <1>2, <1>3, RunMoves DEF SetupInv, Shapes

(* A tool that comes to its next step, with what it has learned.           *)
LEMMA SkipStep ==
  SetupInv /\ skip
    /\ (\/ run.step = "machineOwner" /\ extensions[run.id].machineOwner
        \/ run.step = "projectOwner" /\ extensions[run.id].projectOwner
        \/ run.step = "keyType" /\ extensions[run.id].keyType)
    /\ run.wait = "none"
  => SetupInv'
<1> SUFFICES ASSUME SetupInv, skip, run.wait = "none",
                    \/ run.step = "machineOwner" /\ extensions[run.id].machineOwner
                    \/ run.step = "projectOwner" /\ extensions[run.id].projectOwner
                    \/ run.step = "keyType" /\ extensions[run.id].keyType
             PROVE  SetupInv'
  OBVIOUS
<1> USE DEF skip, chainVars
<1>1. /\ run' \in [step: Steps \cup {"idle"},
                   wait: {"none", "pending", "ok", "reverted"},
                   result: Nat, id: Nat, sender: Nat]
      /\ run'.step = nextStep(run.step) /\ run'.wait = "none"
      /\ run'.id = run.id /\ run'.sender = run.sender
      /\ run'.result = run.result
  BY DEF SetupInv, RunTyped, goTo, nextStep, Steps
<1>2. RunTyped'
  BY <1>1 DEF SetupInv, RunTyped
<1>3. RunFits'
  BY <1>1 DEF SetupInv, RunFits, isDone, nextStep, Ids
<1>4. SentOnce'
  BY <1>1 DEF SetupInv, SentOnce, isDone, nextStep, Ids, idsOf
<1> QED
  BY <1>2, <1>3, <1>4, RunMoves DEF SetupInv, SetupTypeOK, Shapes

(* A refused transaction ends the tool, or is the binding that is there    *)
(* already.                                                                *)
LEMMA FailedStep ==
  SetupInv /\ failed /\ UNCHANGED <<chainVars, mempool, env, tee, tested, mishaps>>
    => SetupInv'
<1> SUFFICES ASSUME SetupInv, failed,
                    UNCHANGED <<chainVars, mempool, env, tee, tested, mishaps>>
             PROVE  SetupInv'
  OBVIOUS
<1>1. CASE ~ tolerated
  BY <1>1, RunEnds DEF failed, SetupInv, SetupTypeOK, chainVars
<1>2. CASE tolerated
  <2>1. /\ run' \in [step: Steps \cup {"idle"},
                     wait: {"none", "pending", "ok", "reverted"},
                     result: Nat, id: Nat, sender: Nat]
        /\ run'.step = "sayHello" /\ run'.wait = "none"
        /\ run'.id = run.id /\ run'.sender = run.sender
        /\ run.step = "setExtensionId"
    BY <1>2 DEF SetupInv, RunTyped, failed, tolerated, goTo, nextStep, Steps
  <2>2. RunTyped'
    BY <2>1 DEF SetupInv, RunTyped, chainVars
  <2>3. RunFits'
    BY <2>1 DEF SetupInv, RunFits, isDone
  <2>4. SentOnce'
    BY <2>1 DEF SetupInv, SentOnce, isDone, Ids, idsOf, chainVars
  <2> QED
    BY <2>2, <2>3, <2>4, RunMoves DEF SetupInv, SetupTypeOK, Shapes, chainVars
<1> QED
  BY <1>1, <1>2

(* What a tool sends fits, and it is the last transaction of the pool.     *)
LEMMA SendStep ==
  SetupInv /\ run.step \in Sending /\ run.wait = "none" /\ send => SetupInv'
<1> SUFFICES ASSUME SetupInv, run.step \in Sending, run.wait = "none", send
             PROVE  SetupInv'
  OBVIOUS
<1> DEFINE tx == [op |-> run.step, sender |-> run.sender, id |-> run.id]
<1>1. CASE ~ accepts(tx)
  BY <1>1, FailedStep DEF send, chainVars
<1>2. CASE accepts(tx)
  <2>1. /\ mempool' = Append(mempool, tx)
        /\ run' = [run EXCEPT !.wait = "pending"]
        /\ UNCHANGED <<chainVars, env, tee, tested, mishaps>>
    BY <1>2 DEF send
  <2>2. tx \in Txs
    <3>1. run.sender \in 0 .. MaxSenders /\ run.id \in Nat
      BY SetupAssumption DEF SetupInv, SetupTypeOK, RunTyped
    <3>2. run.step # "deploy" => run.sender # Foreign
      BY DEF SetupInv, RunFits, Sending
    <3> QED
      BY <3>1, <3>2 DEF Txs
  <2>3. /\ mempool \in Seq(Txs) /\ mempool' \in Seq(Txs)
        /\ Len(mempool') = Len(mempool) + 1
        /\ mempool'[Len(mempool')] = tx
        /\ \A k \in 1 .. Len(mempool) : mempool'[k] = mempool[k]
    BY <2>1, <2>2 DEF SetupInv, Shapes
  <2>4. /\ run' \in [step: Steps \cup {"idle"},
                     wait: {"none", "pending", "ok", "reverted"},
                     result: Nat, id: Nat, sender: Nat]
        /\ run'.step = run.step /\ run'.wait = "pending"
        /\ run'.id = run.id /\ run'.sender = run.sender
        /\ run'.result = run.result
    BY <2>1 DEF SetupInv, RunTyped
  <2>5. tx.op = run.step /\ tx.sender = run.sender /\ tx.id = run.id
    OBVIOUS
  <2>6. RunTyped'
    BY <2>1, <2>4 DEF SetupInv, RunTyped, chainVars
  <2>7. RunFits'
    <3>1. mempool' # <<>>
      BY <2>3
    <3>2. mempool'[Len(mempool')]
            = [op |-> run'.step, sender |-> run'.sender, id |-> run'.id]
      BY <2>3, <2>4
    <3> HIDE DEF tx
    <3> QED
      BY <2>1, <2>4, <3>1, <3>2 DEF SetupInv, RunFits, isDone, Ids, chainVars
  <2> HIDE DEF tx
  <2>8. SentOnce'
    <3> SUFFICES ASSUME ~ Reuse PROVE SentOnce'
      BY DEF SentOnce
    <3>1. tx.op = "register" => Unregistered(tx.sender) /\ tx.sender <= deployed
      BY <2>5 DEF SetupInv, SentOnce, RunTyped
    <3>2. \A k \in 1 .. Len(mempool') :
            \/ k \in 1 .. Len(mempool) /\ mempool'[k] = mempool[k]
            \/ k = Len(mempool') /\ mempool'[k] = tx
      BY <2>3
    <3>3. Ids' = Ids /\ extensions' = extensions /\ deployed' = deployed
      BY <2>1 DEF Ids, chainVars
    <3>4. \A i \in Ids' : extensions'[i].sender <= deployed'
      BY <2>1 DEF SetupInv, SentOnce, Ids, chainVars
    <3>5. (\A k \in 1 .. Len(mempool) : mempool[k].op = "register" =>
             mempool[k].sender <= deployed /\ idsOf(mempool[k].sender) = {})'
      BY <3>1, <3>2, <3>3 DEF SetupInv, SentOnce, Unregistered, idsOf
    <3>6. \A k, l \in 1 .. Len(mempool') :
            mempool'[k].op = "register" /\ mempool'[l].op = "register"
              /\ mempool'[k].sender = mempool'[l].sender => k = l
      BY <3>1, <3>2 DEF SetupInv, SentOnce, Unregistered
    <3> QED
      BY <2>4, <3>4, <3>5, <3>6 DEF SentOnce, isDone, Sending
  <2> QED
    BY <2>1, <2>3, <2>6, <2>7, <2>8, RunMoves DEF SetupInv, SetupTypeOK
<1> QED
  BY <1>1, <1>2

(* The first step of pre-build.sh and of the tests.                        *)
LEMMA RunBegins ==
  SetupInv /\ (preBuild \/ runTest) => SetupInv'
<1> SUFFICES ASSUME SetupInv, preBuild \/ runTest PROVE SetupInv'
  OBVIOUS
<1>1. /\ UNCHANGED <<chainVars, mempool, env, tee, tested>>
      /\ mishaps' \in 0 .. MaxMishaps
  <2>1. \/ \E step, s : begin(step, s)
        \/ runTest
    BY DEF preBuild, deployAnew, reuse
  <2>2. mishaps \in 0 .. MaxMishaps
    BY DEF SetupInv, SetupTypeOK
  <2>3. CASE \E step, s : begin(step, s)
    BY <2>2, <2>3, SetupAssumption DEF begin, mishap
  <2>4. CASE runTest
    BY <2>2, <2>4 DEF runTest
  <2> QED
    BY <2>1, <2>3, <2>4
<1> DEFINE at0(step, s) == [step |-> step, wait |-> "none", result |-> 0,
                            id |-> 0, sender |-> s]
<1>2. \/ run' = at0("deploy", 0)
      \/ Reuse /\ \E s \in 1 .. deployed : run' = at0("register", s)
      \/ run' = at0("setExtensionId", env.sender) /\ env.sender # Foreign
  BY DEF preBuild, deployAnew, reuse, begin, runTest, noRun, SetupInv, EnvNamed
<1>3. /\ run' \in [step: Steps \cup {"idle"},
                   wait: {"none", "pending", "ok", "reverted"},
                   result: Nat, id: Nat, sender: Nat]
      /\ run'.wait = "none" /\ run'.id = 0 /\ run'.sender \in 0 .. deployed
      /\ \/ run'.step = "deploy"
         \/ run'.step = "register" /\ run'.sender # Foreign /\ Reuse
         \/ run'.step = "setExtensionId" /\ run'.sender # Foreign
  <2>1. 0 .. deployed \subseteq Nat /\ env.sender \in 0 .. deployed
    BY SetupAssumption DEF SetupInv, SetupTypeOK
  <2>2. 0 \in 0 .. deployed /\ \A s \in 1 .. deployed : s \in 0 .. deployed /\ s # 0
    BY SetupAssumption DEF SetupInv, SetupTypeOK
  <2> QED
    BY <1>2, <2>1, <2>2 DEF Steps, Foreign
<1>4. RunTyped'
  BY <1>1, <1>3 DEF SetupInv, SetupTypeOK, RunTyped, chainVars
<1>5. RunFits'
  BY <1>3 DEF RunFits, isDone, Sending
<1>6. SentOnce'
  BY <1>1, <1>3 DEF SetupInv, SentOnce, isDone, Ids, idsOf, chainVars
<1> QED
  BY <1>1, <1>4, <1>5, <1>6, RunMoves DEF SetupInv, SetupTypeOK, Shapes

(* The file is written when all is on chain.                               *)
LEMMA WriteStep == SetupInv /\ writeConfig => SetupInv'
<1> SUFFICES ASSUME SetupInv, writeConfig PROVE SetupInv'
  OBVIOUS
<1> USE SetupAssumption DEF chainVars
<1>1. /\ env' = [id |-> run.id, sender |-> run.sender] /\ run' = noRun
      /\ UNCHANGED <<chainVars, mempool, tee, tested, mishaps>>
      /\ run.step = "write" /\ run.wait = "none"
  BY DEF writeConfig, at
<1>2. /\ run.id \in Ids /\ run.sender # Foreign
      /\ extensions[run.id].sender = run.sender
      /\ extensions[run.id].machineOwner /\ extensions[run.id].projectOwner
      /\ extensions[run.id].keyType
  BY <1>1 DEF SetupInv, RunFits, isDone
<1>3. extensions[run.id] \in Extensions
  BY <1>2 DEF SetupInv, SetupTypeOK, Extensions
<1>4. extensions[run.id] = [sender |-> run.sender, machineOwner |-> TRUE,
                            projectOwner |-> TRUE, keyType |-> TRUE]
  BY <1>2, <1>3 DEF Extensions
<1>5. EnvIsComplete' /\ EnvNamed'
  BY <1>1, <1>2, <1>4 DEF EnvIsComplete, EnvNamed, Ids
<1>6. RunTyped'
  BY <1>1 DEF SetupInv, SetupTypeOK, RunTyped, noRun
<1>7. SetupTypeOK'
  BY <1>1, <1>6 DEF SetupInv, SetupTypeOK, RunTyped, Ids
<1>8. RunFits'
  BY <1>1 DEF RunFits, isDone, noRun
<1>9. SentOnce'
  BY <1>1 DEF SetupInv, SentOnce, isDone, noRun, Ids, idsOf
<1>10. Shapes' /\ BoundIsOwn' /\ OneEach'
  BY <1>1 DEF SetupInv, Shapes, BoundIsOwn, OneEach, Ids
<1> QED
  BY <1>5, <1>6, <1>7, <1>8, <1>9, <1>10 DEF SetupInv

(* The services are started for the extension of the file.                 *)
LEMMA StartStep == SetupInv /\ startServices => SetupInv'
<1> SUFFICES ASSUME SetupInv, startServices PROVE SetupInv'
  OBVIOUS
<1>1. /\ UNCHANGED <<extensions, deployed, bound, mempool, run, env, tested,
                     mishaps>>
      /\ tee' = env.id /\ machines' = machines \cup {env.id}
      /\ env.id \in Ids
  BY DEF startServices, SetupInv, EnvIsComplete
<1>2. SetupTypeOK'
  BY <1>1 DEF SetupInv, SetupTypeOK, Ids
<1>3. Shapes' /\ RunTyped' /\ EnvIsComplete' /\ EnvNamed'
      /\ BoundIsOwn' /\ OneEach'
  BY <1>1 DEF SetupInv, Shapes, RunTyped, EnvIsComplete, EnvNamed,
              BoundIsOwn, OneEach, Ids
<1>4. RunFits'
  BY <1>1 DEF SetupInv, RunFits, isDone, Ids
<1>5. SentOnce'
  BY <1>1 DEF SetupInv, SentOnce, Unregistered, isDone, Ids, idsOf
<1> QED
  BY <1>2, <1>3, <1>4, <1>5 DEF SetupInv

(* The tests look at the answers.                                          *)
LEMMA VerifyStep ==
  SetupInv /\ (verifyHelloResult \/ verifyGoodbyeResult) => SetupInv'
<1> SUFFICES ASSUME SetupInv, verifyHelloResult \/ verifyGoodbyeResult
             PROVE  SetupInv'
  OBVIOUS
<1>1. CASE run' = noRun
  <2>1. tested' \in 0 .. deployed
    BY DEF verifyHelloResult, verifyGoodbyeResult, SetupInv, SetupTypeOK
  <2> QED
    BY <1>1, <2>1, RunEnds
    DEF verifyHelloResult, verifyGoodbyeResult, SetupInv,
       SetupTypeOK, chainVars
<1>2. CASE run' # noRun
  <2>1. /\ goTo("sayGoodbye") /\ run.step = "verifyHello"
        /\ UNCHANGED <<chainVars, mempool, env, tee, tested, mishaps>>
    BY <1>2 DEF verifyHelloResult, verifyGoodbyeResult, at
  <2>2. /\ run' \in [step: Steps \cup {"idle"},
                     wait: {"none", "pending", "ok", "reverted"},
                     result: Nat, id: Nat, sender: Nat]
        /\ run'.step = "sayGoodbye" /\ run'.wait = "none"
        /\ run'.id = run.id /\ run'.sender = run.sender
    BY <2>1 DEF SetupInv, RunTyped, goTo, Steps
  <2>3. RunTyped'
    BY <2>1, <2>2 DEF SetupInv, RunTyped, chainVars
  <2>4. RunFits'
    BY <2>1, <2>2 DEF SetupInv, RunFits, isDone
  <2>5. SentOnce'
    BY <2>1, <2>2 DEF SetupInv, SentOnce, isDone, Ids, idsOf, chainVars
  <2> QED
    BY <2>1, <2>3, <2>4, <2>5, RunMoves
    DEF SetupInv, SetupTypeOK, Shapes, chainVars
<1> QED
  BY <1>1, <1>2

(* A receipt tells the tool the contract or the extension it goes on with. *)
LEMMA ReceiptStep == SetupInv /\ receiptSeen => SetupInv'
<1> SUFFICES ASSUME SetupInv, receiptSeen PROVE SetupInv'
  OBVIOUS
<1>1. /\ UNCHANGED <<chainVars, mempool, env, tee, tested, mishaps>>
      /\ run.wait = "ok" /\ run.step \in Sending
  BY DEF receiptSeen, SetupInv, RunFits
<1>2. /\ run' \in [step: Steps \cup {"idle"},
                   wait: {"none", "pending", "ok", "reverted"},
                   result: Nat, id: Nat, sender: Nat]
      /\ run'.step = nextStep(run.step) /\ run'.wait = "none"
      /\ run'.sender = IF run.step = "deploy" THEN run.result ELSE run.sender
      /\ run'.id = IF run.step = "register" THEN run.result ELSE run.id
      /\ run'.result = run.result
  <2>1. nextStep(run.step) \in Steps
    BY <1>1 DEF nextStep, Sending, Steps
  <2> QED
    BY <2>1 DEF receiptSeen, SetupInv, RunTyped
<1>3. run.step = "deploy" => run.result \in 1 .. deployed
  BY <1>1 DEF SetupInv, RunFits, isDone
<1>4. run.step = "register" =>
        run.result \in Ids /\ extensions[run.result].sender = run.sender
  BY <1>1 DEF SetupInv, RunFits, isDone
<1>5. RunTyped'
  BY <1>1, <1>2, <1>3, <1>4, SetupAssumption
     DEF SetupInv, SetupTypeOK, RunTyped, Ids, chainVars
<1>6. RunFits'
  <2>1. run'.sender # Foreign
    BY <1>1, <1>2, <1>3, SetupAssumption
       DEF SetupInv, SetupTypeOK, RunFits, Sending, Foreign
  <2>2. run.step = "deploy" => run'.step = "register"
    BY <1>2 DEF nextStep
  <2>3. run.step = "register" => run'.step = "machineOwner"
    BY <1>2 DEF nextStep
  <2>4. run.step = "machineOwner" => run'.step = "projectOwner"
    BY <1>2 DEF nextStep
  <2>5. run.step = "projectOwner" => run'.step = "keyType"
    BY <1>2 DEF nextStep
  <2>6. run.step = "keyType" => run'.step = "write"
    BY <1>2 DEF nextStep
  <2>7. run.step \in {"setExtensionId", "sayHello", "sayGoodbye"} =>
          run'.step \in {"sayHello", "verifyHello", "verifyGoodbye"}
    BY <1>2 DEF nextStep
  <2>8. run'.step \in {"machineOwner", "projectOwner", "keyType", "write"} =>
          run'.id \in Ids /\ extensions[run'.id].sender = run'.sender
    BY <1>1, <1>2, <1>4, <2>2, <2>3, <2>4, <2>5, <2>6, <2>7
       DEF SetupInv, RunFits, Sending
  <2>9. /\ run'.step \in {"projectOwner", "keyType", "write"} =>
             extensions[run'.id].machineOwner
        /\ run'.step \in {"keyType", "write"} => extensions[run'.id].projectOwner
        /\ run'.step = "write" => extensions[run'.id].keyType
    BY <1>1, <1>2, <2>2, <2>3, <2>4, <2>5, <2>6, <2>7
       DEF SetupInv, RunFits, Sending, isDone
  <2> QED
    BY <1>1, <1>2, <2>1, <2>8, <2>9 DEF RunFits, isDone, Ids, chainVars
<1>7. SentOnce'
  BY <1>1, <1>2
  DEF SetupInv, SentOnce, Unregistered, isDone, nextStep, Sending,
                    Ids, idsOf, chainVars
<1> QED
  BY <1>1, <1>5, <1>6, <1>7, RunMoves
  DEF SetupInv, SetupTypeOK, Shapes, chainVars

(* A tool stops.                                                           *)
LEMMA StopStep == SetupInv /\ toolStops => SetupInv'
<1> SUFFICES ASSUME SetupInv, toolStops PROVE SetupInv'
  OBVIOUS
<1>1. mishaps' \in 0 .. MaxMishaps
  BY SetupAssumption DEF toolStops, mishap, SetupInv, SetupTypeOK
<1> QED
  BY <1>1, RunEnds DEF toolStops, SetupInv, SetupTypeOK, chainVars

(* The chain only grows: an extension keeps its sender and what it has     *)
(* been allowed.                                                           *)
Grows ==
  /\ deployed \in Nat /\ deployed' \in deployed .. MaxSenders
  /\ Len(extensions) \in Nat /\ Len(extensions') \in Nat
  /\ Len(extensions) <= Len(extensions')
  /\ extensions' \in Seq(Extensions)
  /\ \A i \in Ids :
       /\ i \in Ids' /\ extensions'[i].sender = extensions[i].sender
       /\ extensions[i].machineOwner => extensions'[i].machineOwner
       /\ extensions[i].projectOwner => extensions'[i].projectOwner
       /\ extensions[i].keyType => extensions'[i].keyType

(* Names of what there is stay names of what there is.                     *)
LEMMA GrowsTyped ==
  SetupInv /\ Grows /\ UNCHANGED <<machines, env, tee, tested>> =>
    /\ \A i \in Ids' : extensions'[i] \in
         [sender: Senders \cup {Foreign}, machineOwner: BOOLEAN,
          projectOwner: BOOLEAN, keyType: BOOLEAN]
    /\ deployed' \in 0 .. MaxSenders
    /\ machines' \subseteq Ids' /\ tee' \in {0} \cup machines'
    /\ env' \in [id: 0 .. Len(extensions'), sender: 0 .. deployed']
    /\ tested' \in 0 .. deployed'
    /\ run.id \in 0 .. Len(extensions') /\ run.sender \in 0 .. deployed'
<1> SUFFICES ASSUME SetupInv, Grows, UNCHANGED <<machines, env, tee, tested>>
             PROVE  /\ \A i \in Ids' : extensions'[i] \in Extensions
                    /\ deployed' \in 0 .. MaxSenders
                    /\ machines' \subseteq Ids' /\ tee' \in {0} \cup machines'
                    /\ env' \in [id: 0 .. Len(extensions'), sender: 0 .. deployed']
                    /\ tested' \in 0 .. deployed'
                    /\ run.id \in 0 .. Len(extensions')
                    /\ run.sender \in 0 .. deployed'
  BY DEF Extensions
<1>1. \A i \in Ids' : extensions'[i] \in Extensions
  BY DEF Grows, Ids
<1>2. /\ 0 .. Len(extensions) \subseteq 0 .. Len(extensions')
      /\ 0 .. deployed \subseteq 0 .. deployed'
      /\ deployed' \in 0 .. MaxSenders /\ Ids \subseteq Ids'
  BY SetupAssumption DEF Grows
<1>3. /\ machines' \subseteq Ids' /\ tee' \in {0} \cup machines'
      /\ env' \in [id: 0 .. Len(extensions'), sender: 0 .. deployed']
      /\ tested' \in 0 .. deployed'
  BY <1>2 DEF SetupInv, SetupTypeOK
<1> QED
  BY <1>1, <1>2, <1>3 DEF SetupInv, RunTyped

(* The file stays complete.                                                *)
LEMMA GrowsKeeps ==
  SetupInv /\ Grows /\ UNCHANGED env =>
    EnvIsComplete' /\ EnvNamed'
<1> SUFFICES ASSUME SetupInv, Grows, UNCHANGED env
             PROVE  EnvIsComplete' /\ EnvNamed'
  OBVIOUS
<1>1. ASSUME env # noEnv
      PROVE  /\ env.id \in Ids'
             /\ extensions'[env.id] = [sender |-> env.sender, machineOwner |-> TRUE,
                                       projectOwner |-> TRUE, keyType |-> TRUE]
  <2>1. /\ env.id \in Ids /\ extensions[env.id].sender = env.sender
        /\ extensions[env.id].machineOwner /\ extensions[env.id].projectOwner
        /\ extensions[env.id].keyType
    BY <1>1 DEF SetupInv, EnvIsComplete
  <2>2. /\ env.id \in Ids' /\ extensions'[env.id].sender = env.sender
        /\ extensions'[env.id].machineOwner /\ extensions'[env.id].projectOwner
        /\ extensions'[env.id].keyType
    BY <2>1 DEF Grows
  <2>3. extensions'[env.id] \in Extensions
    BY <2>2 DEF Grows, Ids
  <2> QED
    BY <2>2, <2>3 DEF Extensions
<1>2. EnvIsComplete'
  BY <1>1 DEF EnvIsComplete
<1> QED
  BY <1>2, SetupAssumption DEF SetupInv, EnvNamed, Grows

(* Somebody else's extension has nobody's sender.                          *)
LEMMA ForeignStep == SetupInv /\ foreignRegistration => SetupInv'
<1> SUFFICES ASSUME SetupInv, foreignRegistration PROVE SetupInv'
  OBVIOUS
<1>1. /\ UNCHANGED <<deployed, bound, machines, mempool, run, env, tee, tested>>
      /\ mishaps' \in 0 .. MaxMishaps
      /\ extensions' = Append(extensions, newExtension(Foreign))
  BY SetupAssumption DEF foreignRegistration, mishap, SetupInv, SetupTypeOK
<1>2. /\ newExtension(Foreign) \in Extensions
      /\ newExtension(Foreign).sender = Foreign
  BY DEF newExtension, Extensions
<1>3. /\ extensions \in Seq(Extensions) /\ extensions' \in Seq(Extensions)
      /\ Len(extensions') = Len(extensions) + 1
      /\ Ids' = Ids \cup {Len(extensions')}
      /\ Ids \subseteq Ids'
      /\ \A i \in Ids : extensions'[i] = extensions[i]
      /\ extensions'[Len(extensions')].sender = Foreign
  BY <1>1, <1>2 DEF SetupInv, Shapes, Ids
<1>4. Grows
  <2>1. deployed \in Nat /\ deployed' \in deployed .. MaxSenders
    BY <1>1, SetupAssumption DEF SetupInv, SetupTypeOK
  <2>2. Len(extensions) \in Nat /\ Len(extensions') \in Nat
        /\ Len(extensions) <= Len(extensions')
    BY <1>3
  <2> QED
    BY <1>3, <2>1, <2>2 DEF Grows
<1>5. bound' \in [Senders -> 0 .. Len(extensions')]
  BY <1>1, <1>3 DEF SetupInv, SetupTypeOK
<1>6. SetupTypeOK' /\ RunTyped'
  BY <1>1, <1>4, <1>5, GrowsTyped DEF SetupInv, SetupTypeOK, RunTyped
<1>7. Shapes'
  BY <1>1, <1>3 DEF SetupInv, Shapes
<1>8. EnvIsComplete' /\ EnvNamed'
  BY <1>1, <1>4, GrowsKeeps
<1>9. BoundIsOwn' /\ OneEach'
  <2>1. BoundIsOwn'
    BY <1>1, <1>3 DEF SetupInv, BoundIsOwn
  <2>2. \A i \in Ids' : extensions'[i].sender # Foreign =>
          i \in Ids /\ extensions'[i] = extensions[i]
    BY <1>3
  <2>3. OneEach'
    BY <2>2 DEF SetupInv, OneEach
  <2> QED
    BY <2>1, <2>3
<1>10. RunFits'
  BY <1>1, <1>3 DEF SetupInv, RunFits, isDone
<1>11. \A s : s # Foreign => {i \in Ids' : extensions'[i].sender = s} = idsOf(s)
  BY <1>3 DEF idsOf
<1>12. SentOnce'
  <2> SUFFICES ASSUME ~ Reuse PROVE SentOnce'
    BY DEF SentOnce
  <2>1. \A i \in Ids' : extensions'[i].sender <= deployed'
    <3>1. deployed \in Nat /\ deployed' = deployed
      BY <1>1, SetupAssumption DEF SetupInv, SetupTypeOK
    <3>2. \A i \in Ids : extensions[i].sender <= deployed
      BY DEF SetupInv, SentOnce
    <3> QED
      BY <1>3, <3>1, <3>2 DEF Foreign
  <2>2. \A k \in 1 .. Len(mempool) :
          mempool[k].op = "register" => mempool[k].sender # Foreign
    <3>1. \A k \in 1 .. Len(mempool) : mempool[k] \in Txs
      BY DEF SetupInv, Shapes
    <3> QED
      BY <3>1 DEF Txs
  <2>3. isDone("deploy", {}) => run.result # Foreign
    BY DEF SetupInv, RunFits, Foreign
  <2>4. run.step = "register" => run.sender # Foreign
    BY DEF SetupInv, RunFits
  <2>5. (\A k \in 1 .. Len(mempool) : mempool[k].op = "register" =>
           mempool[k].sender <= deployed /\ idsOf(mempool[k].sender) = {})'
    <3>1. \A k \in 1 .. Len(mempool) : mempool[k].op = "register" =>
            mempool[k].sender <= deployed
              /\ {i \in Ids' : extensions'[i].sender = mempool[k].sender} = {}
      BY <1>11, <2>2 DEF SetupInv, SentOnce
    <3> QED
      BY <1>1, <3>1 DEF idsOf
  <2>6. isDone("deploy", {}) => Unregistered(run.result)'
    <3>1. isDone("deploy", {}) =>
            {i \in Ids' : extensions'[i].sender = run.result} = {}
      BY <1>11, <2>3 DEF SetupInv, SentOnce, Unregistered
    <3> QED
      BY <1>1, <3>1 DEF SetupInv, SentOnce, Unregistered, idsOf
  <2>7. run.step = "register" /\ run.wait = "none" => Unregistered(run.sender)'
    <3>1. run.step = "register" /\ run.wait = "none" =>
            {i \in Ids' : extensions'[i].sender = run.sender} = {}
      BY <1>11, <2>4 DEF SetupInv, SentOnce, Unregistered
    <3> QED
      BY <1>1, <3>1 DEF SetupInv, SentOnce, Unregistered, idsOf
  <2> QED
    BY <1>1, <2>1, <2>5, <2>6, <2>7 DEF SetupInv, SentOnce, isDone
<1> QED
  BY <1>6, <1>7, <1>8, <1>9, <1>10, <1>12 DEF SetupInv

(* What a transaction that is accepted does to the extensions.             *)
LEMMA ExtensionsGrow ==
  \A tx \in Txs : SetupInv /\ accepts(tx) /\ execute(tx) =>
    /\ Grows
    /\ deployed' = IF tx.op = "deploy" THEN deployed + 1 ELSE deployed
    /\ tx.op # "register" =>
         /\ Ids' = Ids
         /\ \A i \in Ids : extensions'[i].sender = extensions[i].sender
    /\ tx.op = "register" =>
         /\ Len(extensions) + 1 \in Ids'
         /\ Ids' = Ids \cup {Len(extensions) + 1}
         /\ extensions'[Len(extensions) + 1].sender = tx.sender
    /\ tx.op \in {"machineOwner", "projectOwner", "keyType"} => tx.id \in Ids
    /\ tx.op = "machineOwner" => extensions'[tx.id].machineOwner
    /\ tx.op = "projectOwner" => extensions'[tx.id].projectOwner
    /\ tx.op = "keyType" => extensions'[tx.id].keyType
<1> SUFFICES ASSUME NEW tx \in Txs, SetupInv, accepts(tx), execute(tx)
             PROVE
    /\ Grows
    /\ deployed' = IF tx.op = "deploy" THEN deployed + 1 ELSE deployed
    /\ tx.op # "register" =>
         /\ Ids' = Ids
         /\ \A i \in Ids : extensions'[i].sender = extensions[i].sender
    /\ tx.op = "register" =>
         /\ Len(extensions) + 1 \in Ids'
         /\ Ids' = Ids \cup {Len(extensions) + 1}
         /\ extensions'[Len(extensions) + 1].sender = tx.sender
    /\ tx.op \in {"machineOwner", "projectOwner", "keyType"} => tx.id \in Ids
    /\ tx.op = "machineOwner" => extensions'[tx.id].machineOwner
    /\ tx.op = "projectOwner" => extensions'[tx.id].projectOwner
    /\ tx.op = "keyType" => extensions'[tx.id].keyType
  OBVIOUS
<1>1. extensions \in Seq(Extensions) /\ Len(extensions) \in Nat
  BY DEF SetupInv, Shapes
<1>2. \A i \in Ids : extensions[i] \in Extensions
  BY <1>1 DEF Ids
<1>3. /\ deployed \in Nat /\ deployed' \in deployed .. MaxSenders
      /\ deployed' = IF tx.op = "deploy" THEN deployed + 1 ELSE deployed
  BY SetupAssumption DEF SetupInv, SetupTypeOK, accepts, execute
<1>4. CASE tx.op = "register"
  <2>1. extensions' = Append(extensions, newExtension(tx.sender))
    BY <1>4 DEF execute
  <2>2. /\ newExtension(tx.sender) \in Extensions
        /\ newExtension(tx.sender).sender = tx.sender
    <3>1. tx.sender \in Senders \cup {Foreign}
      BY SetupAssumption DEF Txs, Senders, Foreign
    <3> QED
      BY <3>1 DEF newExtension, Extensions
  <2>3. /\ extensions' \in Seq(Extensions)
        /\ Len(extensions') = Len(extensions) + 1
        /\ Ids' = Ids \cup {Len(extensions) + 1}
        /\ \A i \in Ids : extensions'[i] = extensions[i]
        /\ extensions'[Len(extensions) + 1].sender = tx.sender
    BY <1>1, <2>1, <2>2 DEF Ids
  <2> QED
    BY <1>1, <1>3, <1>4, <2>3 DEF Grows
<1>5. CASE tx.op \in {"machineOwner", "projectOwner", "keyType"}
  <2>1. tx.id \in Ids
    BY <1>5 DEF accepts
  <2>2. /\ tx.op = "machineOwner" =>
             extensions' = [extensions EXCEPT ![tx.id].machineOwner = TRUE]
        /\ tx.op = "projectOwner" =>
             extensions' = [extensions EXCEPT ![tx.id].projectOwner = TRUE]
        /\ tx.op = "keyType" =>
             extensions' = [extensions EXCEPT ![tx.id].keyType = TRUE]
    BY DEF execute
  <2> DEFINE old == extensions[tx.id]
             new == extensions'[tx.id]
  <2>3. /\ new \in Extensions
        /\ extensions' = [extensions EXCEPT ![tx.id] = new]
        /\ new.sender = old.sender
        /\ old.machineOwner => new.machineOwner
        /\ old.projectOwner => new.projectOwner
        /\ old.keyType => new.keyType
        /\ tx.op = "machineOwner" => new.machineOwner
        /\ tx.op = "projectOwner" => new.projectOwner
        /\ tx.op = "keyType" => new.keyType
    <3>1. old \in Extensions
      BY <1>2, <2>1
    <3>2. tx.id \in DOMAIN extensions
      BY <1>1, <2>1 DEF Ids
    <3>3. CASE tx.op = "machineOwner"
      <4>1. new = [old EXCEPT !.machineOwner = TRUE]
        BY <2>2, <3>2, <3>3
      <4> QED
        BY <2>2, <3>1, <3>2, <3>3, <4>1 DEF Extensions
    <3>4. CASE tx.op = "projectOwner"
      <4>1. new = [old EXCEPT !.projectOwner = TRUE]
        BY <2>2, <3>2, <3>4
      <4> QED
        BY <2>2, <3>1, <3>2, <3>4, <4>1 DEF Extensions
    <3>5. CASE tx.op = "keyType"
      <4>1. new = [old EXCEPT !.keyType = TRUE]
        BY <2>2, <3>2, <3>5
      <4> QED
        BY <2>2, <3>1, <3>2, <3>5, <4>1 DEF Extensions
    <3> QED
      BY <1>5, <3>3, <3>4, <3>5
  <2>4. /\ extensions' \in Seq(Extensions)
        /\ Len(extensions') = Len(extensions) /\ Ids' = Ids
        /\ \A i \in Ids : i # tx.id => extensions'[i] = extensions[i]
    BY <1>1, <2>1, <2>3 DEF Ids
  <2>5. \A i \in Ids :
          /\ extensions'[i].sender = extensions[i].sender
          /\ extensions[i].machineOwner => extensions'[i].machineOwner
          /\ extensions[i].projectOwner => extensions'[i].projectOwner
          /\ extensions[i].keyType => extensions'[i].keyType
    BY <2>3, <2>4
  <2>6. Grows
    BY <1>1, <1>3, <2>4, <2>5 DEF Grows
  <2> QED
    BY <1>3, <1>5, <2>1, <2>3, <2>4, <2>5, <2>6
<1>6. CASE tx.op \notin {"register", "machineOwner", "projectOwner", "keyType"}
  <2>1. extensions' = extensions
    BY <1>6 DEF execute
  <2>2. Grows
    BY <1>1, <1>3, <2>1 DEF Grows, Ids
  <2> QED
    BY <1>3, <1>6, <2>1, <2>2 DEF Ids
<1> QED
  BY <1>4, <1>5, <1>6

(* A sender is bound once, to the first extension it finds, its own.       *)
LEMMA BindingHolds ==
  \A tx \in Txs : SetupInv /\ accepts(tx) /\ execute(tx) =>
    bound' \in [Senders -> 0 .. Len(extensions')] /\ BoundIsOwn'
<1> SUFFICES ASSUME NEW tx \in Txs, SetupInv, accepts(tx), execute(tx)
             PROVE  bound' \in [Senders -> 0 .. Len(extensions')] /\ BoundIsOwn'
  OBVIOUS
<1>1. Grows
  BY ExtensionsGrow
<1>2. 0 .. Len(extensions) \subseteq 0 .. Len(extensions')
  BY <1>1 DEF Grows
<1>3. bound \in [Senders -> 0 .. Len(extensions)]
  BY DEF SetupInv, SetupTypeOK
<1>4. \A s \in Senders : bound[s] # 0 =>
        bound[s] \in Ids' /\ extensions'[bound[s]].sender = s
  BY <1>1 DEF SetupInv, BoundIsOwn, Grows
<1>5. CASE tx.op = "setExtensionId"
  <2> DEFINE least == idFound(tx.sender)
  <2>1. idsOf(tx.sender) # {} /\ idsOf(tx.sender) \subseteq Nat
    BY <1>5 DEF accepts, idsOf, Ids
  <2>2. least \in idsOf(tx.sender)
    BY <2>1, LeastExists DEF idFound
  <2>3. bound' = [bound EXCEPT ![tx.sender] = least]
    BY <1>5 DEF execute
  <2> HIDE DEF least
  <2>4. least \in Ids /\ extensions[least].sender = tx.sender
    BY <2>2 DEF idsOf
  <2>5. least \in Ids' /\ extensions'[least].sender = tx.sender
    BY <1>1, <2>4 DEF Grows
  <2>6. least \in 0 .. Len(extensions')
    BY <2>5 DEF Ids
  <2>7. bound' \in [Senders -> 0 .. Len(extensions')]
    BY <1>2, <1>3, <2>3, <2>6
  <2>8. BoundIsOwn'
    BY <1>3, <1>4, <2>3, <2>5 DEF BoundIsOwn
  <2> QED
    BY <2>7, <2>8
<1>6. CASE tx.op # "setExtensionId"
  <2>1. bound' = bound
    BY <1>6 DEF execute
  <2> QED
    BY <1>2, <1>3, <1>4, <2>1 DEF BoundIsOwn
<1> QED
  BY <1>5, <1>6

(* What the oldest transaction leaves of the pool, and what the tool that  *)
(* waits for it learns.                                                    *)
LEMMA PoolMoves ==
  SetupInv /\ mine =>
    /\ Len(mempool) \in Nat \ {0} /\ Head(mempool) = mempool[1]
    /\ Head(mempool) \in Txs
    /\ mempool' \in Seq(Txs) /\ Len(mempool') = Len(mempool) - 1
    /\ \A k \in 1 .. Len(mempool') : mempool'[k] = mempool[k + 1]
    /\ run' \in [step: Steps \cup {"idle"},
                 wait: {"none", "pending", "ok", "reverted"},
                 result: Nat, id: Nat, sender: Nat]
    /\ run'.step = run.step /\ run'.id = run.id /\ run'.sender = run.sender
    /\ isAwaited =>
         /\ Len(mempool') = 0
         /\ Head(mempool)
              = [op |-> run.step, sender |-> run.sender, id |-> run.id]
         /\ accepts(Head(mempool)) =>
              run'.wait = "ok" /\ run'.result = resultOf(Head(mempool))
         /\ ~ accepts(Head(mempool)) => run'.wait = "reverted"
    /\ ~ isAwaited => run' = run
    /\ ~ isAwaited /\ run.wait = "pending" =>
         /\ mempool' # <<>>
         /\ mempool'[Len(mempool')] = mempool[Len(mempool)]
<1> SUFFICES ASSUME SetupInv, mine
             PROVE
    /\ Len(mempool) \in Nat \ {0} /\ Head(mempool) = mempool[1]
    /\ Head(mempool) \in Txs
    /\ mempool' \in Seq(Txs) /\ Len(mempool') = Len(mempool) - 1
    /\ \A k \in 1 .. Len(mempool') : mempool'[k] = mempool[k + 1]
    /\ run' \in [step: Steps \cup {"idle"},
                 wait: {"none", "pending", "ok", "reverted"},
                 result: Nat, id: Nat, sender: Nat]
    /\ run'.step = run.step /\ run'.id = run.id /\ run'.sender = run.sender
    /\ isAwaited =>
         /\ Len(mempool') = 0
         /\ Head(mempool)
              = [op |-> run.step, sender |-> run.sender, id |-> run.id]
         /\ accepts(Head(mempool)) =>
              run'.wait = "ok" /\ run'.result = resultOf(Head(mempool))
         /\ ~ accepts(Head(mempool)) => run'.wait = "reverted"
    /\ ~ isAwaited => run' = run
    /\ ~ isAwaited /\ run.wait = "pending" =>
         /\ mempool' # <<>>
         /\ mempool'[Len(mempool')] = mempool[Len(mempool)]
  OBVIOUS
<1> DEFINE tx == Head(mempool)
<1>1. mempool \in Seq(Txs) /\ mempool # <<>> /\ mempool' = Tail(mempool)
  BY DEF SetupInv, Shapes, mine
<1>2. /\ Len(mempool) \in Nat \ {0} /\ tx = mempool[1] /\ tx \in Txs
      /\ mempool' \in Seq(Txs) /\ Len(mempool') = Len(mempool) - 1
      /\ \A k \in 1 .. Len(mempool') : mempool'[k] = mempool[k + 1]
  BY <1>1
<1>3. run' = IF ~ isAwaited THEN run
               ELSE IF accepts(tx) THEN [run EXCEPT !.wait = "ok",
                                                    !.result = resultOf(tx)]
                                   ELSE [run EXCEPT !.wait = "reverted"]
  BY DEF mine
<1>4. isAwaited => /\ Len(mempool') = 0
                   /\ tx = [op |-> run.step, sender |-> run.sender, id |-> run.id]
  BY <1>2 DEF isAwaited, SetupInv, RunFits
<1>5. ~ isAwaited /\ run.wait = "pending" =>
        /\ mempool' # <<>>
        /\ mempool'[Len(mempool')] = mempool[Len(mempool)]
  <2> SUFFICES ASSUME ~ isAwaited, run.wait = "pending"
               PROVE  mempool' # <<>>
                        /\ mempool'[Len(mempool')] = mempool[Len(mempool)]
    OBVIOUS
  <2>1. Len(mempool) > 1
    BY <1>2 DEF isAwaited
  <2>2. Len(mempool') \in 1 .. Len(mempool')
    BY <1>2, <2>1
  <2>3. mempool'[Len(mempool')] = mempool[Len(mempool') + 1]
    BY <1>2, <2>2
  <2> QED
    BY <1>2, <2>1, <2>3
<1>6. resultOf(tx) \in Nat
  <2>1. deployed + 1 \in Nat /\ Len(extensions) + 1 \in Nat
    BY SetupAssumption DEF SetupInv, SetupTypeOK, Shapes
  <2>2. tx.op # "deploy" => bound[tx.sender] \in Nat
    <3>1. tx.op # "deploy" => tx.sender \in Senders
      BY <1>2, SetupAssumption DEF Txs, Senders, Foreign
    <3> QED
      BY <3>1 DEF SetupInv, SetupTypeOK
  <2> HIDE DEF tx
  <2> QED
    BY <2>1, <2>2 DEF resultOf
<1> HIDE DEF tx
<1>7. /\ run' \in [step: Steps \cup {"idle"},
                   wait: {"none", "pending", "ok", "reverted"},
                   result: Nat, id: Nat, sender: Nat]
      /\ run'.step = run.step /\ run'.id = run.id /\ run'.sender = run.sender
      /\ isAwaited /\ accepts(tx) =>
           run'.wait = "ok" /\ run'.result = resultOf(tx)
      /\ isAwaited /\ ~ accepts(tx) => run'.wait = "reverted"
  BY <1>3, <1>6 DEF SetupInv, RunTyped
<1> QED
  BY <1>2, <1>3, <1>4, <1>5, <1>7 DEF tx

(* A transaction that is refused changes nothing.                          *)
LEMMA RefusedStep ==
  SetupInv /\ mine /\ ~ accepts(Head(mempool)) => SetupInv'
<1> SUFFICES ASSUME SetupInv, mine, ~ accepts(Head(mempool)) PROVE SetupInv'
  OBVIOUS
<1>1. UNCHANGED <<chainVars, env, tee, tested, mishaps>>
  BY DEF mine
<1>2. RunTyped'
  BY <1>1, PoolMoves DEF SetupInv, RunTyped, chainVars
<1>3. RunFits'
  <2>1. CASE isAwaited
    BY <1>1, <2>1, PoolMoves
    DEF SetupInv, RunFits, isDone, isAwaited, Ids, chainVars
  <2>2. CASE ~ isAwaited
    BY <1>1, <2>2, PoolMoves DEF SetupInv, RunFits, isDone, Ids, chainVars
  <2> QED
    BY <2>1, <2>2
<1>4. SentOnce'
  <2> SUFFICES ASSUME ~ Reuse PROVE SentOnce'
    BY DEF SentOnce
  <2>1. \A k \in 1 .. Len(mempool') :
          k + 1 \in 1 .. Len(mempool) /\ mempool'[k] = mempool[k + 1]
    BY PoolMoves
  <2>2. \A k, l \in 1 .. Len(mempool') : k + 1 = l + 1 => k = l
    OBVIOUS
  <2>3. Ids' = Ids /\ extensions' = extensions /\ deployed' = deployed
    BY <1>1 DEF Ids, chainVars
  <2>4. /\ isDone("deploy", {})' => isDone("deploy", {}) /\ run'.result = run.result
        /\ run'.step = "register" /\ run'.wait = "none" =>
             /\ run.step = "register" /\ run.wait = "none"
             /\ run'.sender = run.sender
    BY PoolMoves DEF isDone, isAwaited
  <2>5. (\A i \in Ids : extensions[i].sender <= deployed)'
    BY <2>3 DEF SetupInv, SentOnce
  <2>6. (\A k \in 1 .. Len(mempool) : mempool[k].op = "register" =>
           mempool[k].sender <= deployed /\ idsOf(mempool[k].sender) = {})'
    BY <2>1, <2>3 DEF SetupInv, SentOnce, idsOf
  <2>7. (\A k, l \in 1 .. Len(mempool) :
           mempool[k].op = "register" /\ mempool[l].op = "register"
             /\ mempool[k].sender = mempool[l].sender => k = l)'
    BY <2>1, <2>2 DEF SetupInv, SentOnce
  <2>8. (isDone("deploy", {}) => Unregistered(run.result))'
    BY <2>1, <2>3, <2>4 DEF SetupInv, SentOnce, Unregistered, idsOf
  <2>9. (run.step = "register" /\ run.wait = "none" => Unregistered(run.sender))'
    BY <2>1, <2>3, <2>4 DEF SetupInv, SentOnce, Unregistered, idsOf
  <2> QED
    BY <2>5, <2>6, <2>7, <2>8, <2>9 DEF SentOnce
<1> QED
  BY <1>1, <1>2, <1>3, <1>4, PoolMoves, RunMoves
  DEF SetupInv, SetupTypeOK, chainVars

(* A sender that is registered now has no other extension, and no other    *)
(* transaction registers it.                                               *)
LEMMA RegistersOnce ==
  SetupInv /\ mine /\ accepts(Head(mempool)) /\ Head(mempool).op = "register" =>
    /\ (Reuse => RejectsDuplicates) => idsOf(Head(mempool).sender) = {}
    /\ ~ Reuse =>
         /\ Head(mempool).sender <= deployed
         /\ \A k \in 1 .. Len(mempool') :
              mempool'[k].op = "register" =>
                mempool'[k].sender # Head(mempool).sender
<1> SUFFICES ASSUME SetupInv, mine, accepts(Head(mempool)),
                    Head(mempool).op = "register"
             PROVE
    /\ (Reuse => RejectsDuplicates) => idsOf(Head(mempool).sender) = {}
    /\ ~ Reuse =>
         /\ Head(mempool).sender <= deployed
         /\ \A k \in 1 .. Len(mempool') :
              mempool'[k].op = "register" =>
                mempool'[k].sender # Head(mempool).sender
  OBVIOUS
<1>1. 1 \in 1 .. Len(mempool) /\ mempool[1] = Head(mempool)
  BY PoolMoves
<1>2. \A k \in 1 .. Len(mempool') :
        k + 1 \in 1 .. Len(mempool) /\ k + 1 # 1 /\ mempool'[k] = mempool[k + 1]
  BY PoolMoves
<1>3. RejectsDuplicates => idsOf(Head(mempool).sender) = {}
  BY DEF accepts
<1>4. ~ Reuse => Head(mempool).sender <= deployed
                   /\ idsOf(Head(mempool).sender) = {}
  BY <1>1 DEF SetupInv, SentOnce
<1>5. ~ Reuse => \A k \in 1 .. Len(mempool') :
                   mempool'[k].op = "register" =>
                     mempool'[k].sender # Head(mempool).sender
  <2> SUFFICES ASSUME ~ Reuse, NEW k \in 1 .. Len(mempool'),
                      mempool'[k].op = "register",
                      mempool'[k].sender = Head(mempool).sender
               PROVE  FALSE
    OBVIOUS
  <2>1. /\ k + 1 \in 1 .. Len(mempool) /\ k + 1 # 1
        /\ mempool[k + 1].op = "register" /\ mempool[1].op = "register"
        /\ mempool[k + 1].sender = mempool[1].sender
    BY <1>1, <1>2
  <2> QED
    BY <1>1, <2>1 DEF SetupInv, SentOnce
<1> QED
  BY <1>3, <1>4, <1>5

(* What the tool waits for holds of the chain it comes to.                 *)
LEMMA AcceptedRun ==
  SetupInv /\ mine /\ accepts(Head(mempool)) => RunFits'
<1> SUFFICES ASSUME SetupInv, mine, accepts(Head(mempool)) PROVE RunFits'
  OBVIOUS
<1> DEFINE tx == Head(mempool)
<1>1. /\ tx \in Txs /\ execute(tx)
      /\ run'.step = run.step /\ run'.id = run.id /\ run'.sender = run.sender
      /\ isAwaited =>
           /\ tx.op = run.step /\ tx.sender = run.sender /\ tx.id = run.id
           /\ run'.wait = "ok" /\ run'.result = resultOf(tx)
           /\ run.wait = "pending"
      /\ ~ isAwaited => run' = run
      /\ ~ isAwaited /\ run.wait = "pending" =>
           mempool' # <<>> /\ mempool'[Len(mempool')] = mempool[Len(mempool)]
  BY PoolMoves DEF mine, isAwaited
<1>2. Grows
  BY <1>1, ExtensionsGrow
<1> HIDE DEF tx
<1>3. RunFits
  BY DEF SetupInv
<1>4. /\ run'.wait # "none" => run'.step \in Sending
      /\ run'.step \notin {"idle", "deploy"} => run'.sender # Foreign
  BY <1>1, <1>3 DEF RunFits, isAwaited
<1>5. run'.wait = "pending" =>
        /\ mempool' # <<>>
        /\ mempool'[Len(mempool')]
             = [op |-> run'.step, sender |-> run'.sender, id |-> run'.id]
  BY <1>1, <1>3 DEF RunFits
<1>6. isDone("deploy", {})' => run'.result \in 1 .. deployed'
  <2>1. CASE isAwaited
    <3>1. tx.op = "deploy" =>
            resultOf(tx) = deployed + 1 /\ deployed' = deployed + 1
      BY <1>1 DEF resultOf, execute
    <3> QED
      BY <1>1, <1>2, <2>1, <3>1 DEF Grows, isDone
  <2>2. CASE ~ isAwaited
    BY <1>1, <1>2, <1>3, <2>2 DEF Grows, RunFits, isDone
  <2> QED
    BY <2>1, <2>2
<1>7. isDone("register", {})' =>
        run'.result \in Ids' /\ extensions'[run'.result].sender = run'.sender
  <2>1. CASE isAwaited
    <3>1. tx.op = "register" =>
            /\ Len(extensions) + 1 \in Ids'
            /\ extensions'[Len(extensions) + 1].sender = tx.sender
      BY <1>1, ExtensionsGrow DEF tx
    <3>2. tx.op = "register" => resultOf(tx) = Len(extensions) + 1
      BY DEF resultOf
    <3> QED
      BY <1>1, <2>1, <3>1, <3>2 DEF isDone
  <2>2. CASE ~ isAwaited
    BY <1>1, <1>2, <1>3, <2>2 DEF Grows, RunFits, isDone
  <2> QED
    BY <2>1, <2>2
<1>8. run'.step \in {"machineOwner", "projectOwner", "keyType", "write"} =>
        run'.id \in Ids' /\ extensions'[run'.id].sender = run'.sender
  BY <1>1, <1>2, <1>3 DEF Grows, RunFits
<1>9. /\ isAwaited /\ run.step = "machineOwner" => extensions'[run.id].machineOwner
      /\ isAwaited /\ run.step = "projectOwner" => extensions'[run.id].projectOwner
      /\ isAwaited /\ run.step = "keyType" => extensions'[run.id].keyType
  BY <1>1, ExtensionsGrow DEF tx
<1>10. /\ isDone("machineOwner", {"projectOwner", "keyType", "write"})' =>
            extensions'[run'.id].machineOwner
       /\ isDone("projectOwner", {"keyType", "write"})' =>
            extensions'[run'.id].projectOwner
       /\ isDone("keyType", {"write"})' => extensions'[run'.id].keyType
  <2>1. run.step \in {"machineOwner", "projectOwner", "keyType", "write"} =>
          run.id \in Ids
    BY <1>3 DEF RunFits
  <2>2. /\ run.step \in {"projectOwner", "keyType", "write"} =>
             extensions'[run.id].machineOwner
        /\ run.step \in {"keyType", "write"} => extensions'[run.id].projectOwner
        /\ run.step = "write" => extensions'[run.id].keyType
    BY <1>2, <1>3, <2>1 DEF Grows, RunFits, isDone
  <2>3. CASE isAwaited
    BY <1>1, <1>9, <2>2, <2>3 DEF isDone
  <2>4. CASE ~ isAwaited
    BY <1>1, <1>2, <1>3, <2>1, <2>2, <2>4 DEF Grows, RunFits, isDone
  <2> QED
    BY <2>3, <2>4
<1> QED
  BY <1>4, <1>5, <1>6, <1>7, <1>8, <1>10 DEF RunFits

(* Late registrations stay the only ones of their senders.                 *)
LEMMA AcceptedOnce ==
  SetupInv /\ mine /\ accepts(Head(mempool)) => SentOnce'
<1> SUFFICES ASSUME SetupInv, mine, accepts(Head(mempool)), ~ Reuse PROVE SentOnce'
  BY DEF SentOnce
<1> DEFINE tx == Head(mempool)
<1>1. tx \in Txs /\ execute(tx)
  BY PoolMoves DEF mine
<1>2. /\ tx.op = "register" => /\ Ids' = Ids \cup {Len(extensions) + 1}
                               /\ extensions'[Len(extensions) + 1].sender = tx.sender
      /\ tx.op # "register" => Ids' = Ids
      /\ \A i \in Ids : extensions'[i].sender = extensions[i].sender
      /\ deployed' = IF tx.op = "deploy" THEN deployed + 1 ELSE deployed
      /\ deployed \in Nat
  BY <1>1, ExtensionsGrow DEF Grows
<1>3. tx.op = "register" =>
        /\ tx.sender <= deployed
        /\ \A k \in 1 .. Len(mempool') :
             mempool'[k].op = "register" => mempool'[k].sender # tx.sender
  BY RegistersOnce
<1>4. \A k \in 1 .. Len(mempool') :
        k + 1 \in 1 .. Len(mempool) /\ mempool'[k] = mempool[k + 1]
  BY PoolMoves
<1>5. /\ \A i \in Ids : extensions[i].sender \in Int
      /\ \A k \in 1 .. Len(mempool') : mempool'[k].sender \in Int
      /\ tx.sender \in Int
  <2>1. \A i \in Ids : extensions[i].sender \in Int
    BY DEF SetupInv, SetupTypeOK, Senders, Foreign
  <2>2. \A k \in 1 .. Len(mempool') : mempool'[k] \in Txs
    BY PoolMoves
  <2> QED
    BY <1>1, <2>1, <2>2 DEF Txs
<1>6. /\ isAwaited =>
           /\ tx.op = run.step /\ run.wait = "pending" /\ run'.step = run.step
           /\ run'.wait = "ok" /\ run'.result = resultOf(tx) /\ Len(mempool') = 0
      /\ ~ isAwaited => run' = run
  BY PoolMoves DEF isAwaited
<1> HIDE DEF tx
<1>7. \A s : ~ (tx.op = "register" /\ tx.sender = s) =>
        {i \in Ids' : extensions'[i].sender = s} = idsOf(s)
  BY <1>2 DEF idsOf
<1>8. (\A i \in Ids : extensions[i].sender <= deployed)'
  <2>1. \A i \in Ids : extensions[i].sender <= deployed
    BY DEF SetupInv, SentOnce
  <2>2. \A i \in Ids' : extensions'[i].sender <= deployed
    BY <1>2, <1>3, <2>1
  <2>3. \A i \in Ids' : extensions'[i].sender \in Int
    BY <1>2, <1>5
  <2> QED
    BY <1>2, <2>2, <2>3
<1>9. (\A k \in 1 .. Len(mempool) : mempool[k].op = "register" =>
         mempool[k].sender <= deployed /\ idsOf(mempool[k].sender) = {})'
  <2>1. \A k \in 1 .. Len(mempool') : mempool'[k].op = "register" =>
          /\ mempool'[k].sender <= deployed /\ idsOf(mempool[k + 1].sender) = {}
          /\ mempool[k + 1].sender = mempool'[k].sender
    BY <1>4 DEF SetupInv, SentOnce
  <2>2. \A k \in 1 .. Len(mempool') : mempool'[k].op = "register" =>
          {i \in Ids' : extensions'[i].sender = mempool'[k].sender} = {}
    BY <1>3, <1>7, <2>1
  <2>3. \A k \in 1 .. Len(mempool') : mempool'[k].op = "register" =>
          mempool'[k].sender <= deployed'
    BY <1>2, <1>5, <2>1
  <2> QED
    BY <2>2, <2>3 DEF idsOf
<1>10. (\A k, l \in 1 .. Len(mempool) :
          mempool[k].op = "register" /\ mempool[l].op = "register"
            /\ mempool[k].sender = mempool[l].sender => k = l)'
  <2>1. \A k, l \in 1 .. Len(mempool') : k + 1 = l + 1 => k = l
    OBVIOUS
  <2> QED
    BY <1>4, <2>1 DEF SetupInv, SentOnce
<1>11. (isDone("deploy", {}) => Unregistered(run.result))'
  <2>1. CASE isAwaited /\ run.step = "deploy"
    <3>1. run'.result = deployed + 1
      BY <1>6, <2>1 DEF resultOf
    <3>2. \A i \in Ids' : extensions'[i].sender # deployed + 1
      BY <1>2, <1>5, <1>6, <2>1 DEF SetupInv, SentOnce
    <3> QED
      BY <1>6, <2>1, <3>1, <3>2 DEF Unregistered, idsOf
  <2>2. CASE ~ isAwaited /\ isDone("deploy", {})
    <3>1. Unregistered(run.result)
      BY <2>2 DEF SetupInv, SentOnce
    <3>2. tx.op = "register" => tx.sender # run.result
      BY <3>1, PoolMoves DEF Unregistered, tx
    <3>3. {i \in Ids' : extensions'[i].sender = run.result} = {}
      BY <1>7, <3>1, <3>2 DEF Unregistered
    <3> QED
      BY <1>4, <1>6, <2>2, <3>1, <3>3 DEF Unregistered, idsOf
  <2> QED
    BY <1>6, <2>1, <2>2 DEF isDone
<1>12. (run.step = "register" /\ run.wait = "none" => Unregistered(run.sender))'
  <2>1. CASE ~ isAwaited /\ run.step = "register" /\ run.wait = "none"
    <3>1. Unregistered(run.sender)
      BY <2>1 DEF SetupInv, SentOnce
    <3>2. tx.op = "register" => tx.sender # run.sender
      BY <3>1, PoolMoves DEF Unregistered, tx
    <3>3. {i \in Ids' : extensions'[i].sender = run.sender} = {}
      BY <1>7, <3>1, <3>2 DEF Unregistered
    <3> QED
      BY <1>4, <1>6, <2>1, <3>1, <3>3 DEF Unregistered, idsOf
  <2> QED
    BY <1>6, <2>1
<1> QED
  BY <1>8, <1>9, <1>10, <1>11, <1>12 DEF SentOnce

(* A transaction is mined, whoever waits for it.                           *)
LEMMA AcceptedStep ==
  SetupInv /\ mine /\ accepts(Head(mempool)) => SetupInv'
<1> SUFFICES ASSUME SetupInv, mine, accepts(Head(mempool)) PROVE SetupInv'
  OBVIOUS
<1> DEFINE tx == Head(mempool)
<1>1. /\ tx \in Txs /\ execute(tx) /\ mempool' \in Seq(Txs)
      /\ run' \in [step: Steps \cup {"idle"},
                   wait: {"none", "pending", "ok", "reverted"},
                   result: Nat, id: Nat, sender: Nat]
      /\ run'.id = run.id /\ run'.sender = run.sender
      /\ UNCHANGED <<machines, env, tee, tested, mishaps>>
  BY PoolMoves DEF mine, execute
<1>2. Grows
  BY <1>1, ExtensionsGrow
<1>3. bound' \in [Senders -> 0 .. Len(extensions')] /\ BoundIsOwn'
  BY <1>1, BindingHolds
<1>4. OneEach'
  <2> SUFFICES ASSUME Reuse => RejectsDuplicates PROVE OneEach'
    BY DEF OneEach
  <2>1. \A i, j \in Ids :
          extensions[i].sender = extensions[j].sender
            /\ extensions[i].sender # Foreign => i = j
    BY DEF SetupInv, OneEach
  <2>2. CASE tx.op = "register"
    <3>1. /\ Ids' = Ids \cup {Len(extensions) + 1}
          /\ extensions'[Len(extensions) + 1].sender = tx.sender
      BY <1>1, <2>2, ExtensionsGrow
    <3>2. \A i \in Ids : extensions'[i].sender = extensions[i].sender
      BY <1>2 DEF Grows
    <3>3. \A i \in Ids : extensions[i].sender # tx.sender
      BY <2>2, RegistersOnce DEF idsOf
    <3> HIDE DEF tx
    <3> QED
      BY <2>1, <3>1, <3>2, <3>3 DEF OneEach
  <2>3. CASE tx.op # "register"
    <3>1. Ids' = Ids /\ \A i \in Ids : extensions'[i].sender = extensions[i].sender
      BY <1>1, <2>3, ExtensionsGrow
    <3> QED
      BY <2>1, <3>1 DEF OneEach
  <2> QED
    BY <2>2, <2>3
<1> HIDE DEF tx
<1>5. SetupTypeOK' /\ RunTyped'
  BY <1>1, <1>2, <1>3, GrowsTyped DEF SetupInv, SetupTypeOK, RunTyped
<1>6. Shapes'
  BY <1>1, <1>2 DEF Shapes, Grows
<1>7. EnvIsComplete' /\ EnvNamed'
  BY <1>1, <1>2, GrowsKeeps
<1> QED
  BY <1>3, <1>4, <1>5, <1>6, <1>7, AcceptedRun, AcceptedOnce DEF SetupInv

(* Every step keeps the invariant.                                         *)
LEMMA SetupInvStep == SetupInv /\ [SetupNext]_setupVars => SetupInv'
<1> SUFFICES ASSUME SetupInv, [SetupNext]_setupVars PROVE SetupInv'
  OBVIOUS
<1>1. CASE DeployInstructionSender
  BY <1>1, SendStep DEF DeployInstructionSender, at, Sending
<1>2. CASE registerExtension
  BY <1>2, SendStep DEF registerExtension, at, Sending
<1>3. CASE allowTeeMachineOwners
  BY <1>3, SendStep, SkipStep DEF allowTeeMachineOwners, at, Sending
<1>4. CASE allowTeeProjectManagerOwners
  BY <1>4, SendStep, SkipStep DEF allowTeeProjectManagerOwners, at, Sending
<1>5. CASE AddSupportedKeyTypes
  BY <1>5, SendStep, SkipStep DEF AddSupportedKeyTypes, at, Sending
<1>6. CASE writeConfig
  BY <1>6, WriteStep
<1>7. CASE SetExtensionId
  BY <1>7, SendStep DEF SetExtensionId, at, Sending
<1>8. CASE SendSayHello
  BY <1>8, SendStep DEF SendSayHello, at, Sending
<1>9. CASE SendSayGoodbye
  BY <1>9, SendStep DEF SendSayGoodbye, at, Sending
<1>10. CASE verifyHelloResult \/ verifyGoodbyeResult
  BY <1>10, VerifyStep
<1>11. CASE receiptSeen
  BY <1>11, ReceiptStep
<1>12. CASE receiptReverted
  BY <1>12, FailedStep DEF receiptReverted
<1>13. CASE preBuild \/ runTest
  BY <1>13, RunBegins
<1>14. CASE startServices
  BY <1>14, StartStep
<1>15. CASE mine
  BY <1>15, AcceptedStep, RefusedStep
<1>16. CASE toolStops
  BY <1>16, StopStep
<1>17. CASE foreignRegistration
  BY <1>17, ForeignStep
<1>18. CASE UNCHANGED setupVars
  <2>1. /\ UNCHANGED <<chainVars, mempool, env, tee, tested, mishaps>>
        /\ run' = run
    BY <1>18 DEF setupVars
  <2>2. RunTyped' /\ RunFits'
    BY <2>1 DEF SetupInv, RunTyped, RunFits, isDone, Ids, chainVars
  <2>3. SentOnce'
    BY <2>1 DEF SetupInv, SentOnce, Unregistered, isDone, idsOf, Ids, chainVars
  <2> QED
    BY <2>1, <2>2, <2>3, RunMoves DEF SetupInv, SetupTypeOK, Shapes, chainVars
<1> QED
  BY <1>1, <1>2, <1>3, <1>4, <1>5, <1>6, <1>7, <1>8, <1>9, <1>10, <1>11, <1>12,
     <1>13, <1>14, <1>15, <1>16, <1>17, <1>18 DEF SetupNext, ToolStep

(* The invariant holds always.                                             *)
LEMMA SetupInvHolds == SetupSpec => []SetupInv
  BY SetupInvInit, SetupInvStep, PTL DEF SetupSpec

(* The state of the set-up, the chain's and the tools', has its type in    *)
(* every reachable state (extension.go 33-86, run-test/main.go).           *)
THEOREM SetupTypeCorrect == SetupSpec => []SetupTypeOK
<1>1. SetupInv => SetupTypeOK
  BY DEF SetupInv
<1> QED
  BY <1>1, SetupInvHolds, PTL

(* config/extension.env names an extension only when its sender, its       *)
(* owners and its key type are on chain, wherever earlier runs of          *)
(* pre-build.sh were stopped and whatever of them is mined late.           *)
THEOREM EnvironmentIsComplete == SetupSpec => []EnvIsComplete
<1>1. SetupInv => EnvIsComplete
  BY DEF SetupInv
<1> QED
  BY <1>1, SetupInvHolds, PTL

(* The extension a sender binds itself to, for good, is the one that the   *)
(* services serve.  A sender that is used again (EXISTING_INSTRUCTION_     *)
(* SENDER of pre-build.sh) needs a registry that refuses its second        *)
(* extension; a sender that each run deploys needs nothing.                *)
THEOREM BoundIsTheConfigured ==
  (Reuse => RejectsDuplicates) => (SetupSpec => []BoundIsConfigured)
<1> SUFFICES ASSUME Reuse => RejectsDuplicates
             PROVE  SetupSpec => []BoundIsConfigured
  OBVIOUS
<1>1. SetupInv => BoundIsConfigured
  <2> SUFFICES ASSUME SetupInv, env # noEnv, bound[env.sender] # 0
               PROVE  bound[env.sender] = env.id
    BY DEF BoundIsConfigured
  <2>1. /\ env.id \in Ids /\ extensions[env.id].sender = env.sender
        /\ env.sender # Foreign
    BY DEF SetupInv, EnvIsComplete, EnvNamed
  <2>2. env.sender \in Senders
    BY <2>1, SetupAssumption DEF SetupInv, SetupTypeOK, Senders, Foreign
  <2>3. /\ bound[env.sender] \in Ids
        /\ extensions[bound[env.sender]].sender = env.sender
    BY <2>2 DEF SetupInv, BoundIsOwn
  <2> QED
    BY <2>1, <2>3 DEF SetupInv, OneEach
<1> QED
  BY <1>1, SetupInvHolds, PTL
-----------------------------------------------------------------------------
(* A sender is bound to its first extension.                               *)
BoundIsFirst ==
  \A s \in Senders : bound[s] # 0 => \A j \in idsOf(s) : bound[s] <= j

(* The checks of the registration, which read the file's extension, and    *)
(* where the tool is before it has read the file.                          *)
RegistrationChecks == {"R1", "R2", "R3", "R4", "R7"}
(* Where it has not read the file yet.                                     *)
BeforeFile == {"idle", "deploy", "register"}

(* Where verify-deploy may be.                                             *)
Places == Groups \cup RegistrationChecks \cup {"idle", "exit", "done"}

(* What a file that it reads may say.                                      *)
Files == [id: Nat, sender: Nat] \cup OtherFiles

(* The types of verify-deploy.                                             *)
VerifyTypeOK ==
  verify \in [step: Groups \cup {"all"},
              config: {"none", "extension.env", "other"},
              other: Files, pc: Places, parsed: Files, counter: Nat,
              missed: SUBSET (Groups \cup RegistrationChecks),
              filter: {{}, {"D5", "R2"}}, exit: {0, 1}]

(* The tool was given the file of pre-build.sh.                            *)
isPreBuilds == verify.config = "extension.env"

(* Where the tool is, and what it has by then.                             *)
PlaceFits ==
  /\ verify.pc = "idle" => verify = noVerify /\ report = {}
  /\ verify.step = "register" =>
       /\ verify.pc \in RegistrationChecks \cup {"register", "exit", "done"}
       /\ verify.filter = {}
  /\ verify.pc \in BeforeFile =>
       verify.counter = 0 /\ \A r \in report : r.id # "R7"
  /\ isPreBuilds /\ verify.pc \in RegistrationChecks => verify.parsed # noEnv

(* What it has read of pre-build.sh's file is a complete extension, and    *)
(* the counter it has read lies above its id.                              *)
ParsedFits ==
  isPreBuilds /\ verify.parsed # noEnv =>
    /\ verify.parsed.id \in Ids /\ verify.parsed.sender \in Senders
    /\ extensions[verify.parsed.id]
         = [sender |-> verify.parsed.sender, machineOwner |-> TRUE,
            projectOwner |-> TRUE, keyType |-> TRUE]
    /\ \/ verify.counter = 0
       \/ verify.counter >= FirstPublicExtensionId + verify.parsed.id

(* The file's extension is the first of its sender.                        *)
ParsedIsFirst ==
  /\ verify.parsed # noEnv
  /\ \A j \in idsOf(verify.parsed.sender) : verify.parsed.id <= j

(* What a result about pre-build.sh's file says.                           *)
ResultFits(r) ==
  isPreBuilds =>
    /\ r.id \in {"R1", "R2", "R3", "R4"} \ verify.missed => r.status = "PASS"
    /\ verify.step = "register" /\ r.status = "FAIL" => r.id \in verify.missed
    /\ r.id = "R7" /\ r.status = "PASS" /\ "R7" \notin verify.missed =>
         ParsedIsFirst

(* So does the report, and the exit code of the registration group alone.  *)
ReportFits ==
  /\ \A r \in report : ResultFits(r)
  /\ isPreBuilds /\ verify.step = "register" /\ verify.missed = {} =>
       verify.exit = 0

(* The inductive invariant of the tools with verify-deploy beside them.    *)
VerifyInv ==
  /\ SetupInv
  /\ BoundIsFirst
  /\ VerifyTypeOK
  /\ PlaceFits
  /\ ParsedFits
  /\ ReportFits

(* What is mined later only adds to the chain, so the first extension of a *)
(* sender stays its first.                                                 *)
LEMMA BoundStays ==
  SetupInv /\ BoundIsFirst /\ Grows /\ bound' = bound => BoundIsFirst'
<1> SUFFICES ASSUME SetupInv, BoundIsFirst, Grows, bound' = bound,
                    NEW s \in Senders, bound[s] # 0, NEW j \in Ids',
                    extensions'[j].sender = s
             PROVE  bound[s] <= j
  BY DEF BoundIsFirst, idsOf
<1>1. bound[s] \in Ids
  BY DEF SetupInv, BoundIsOwn
<1>2. CASE j \in Ids
  <2>1. j \in idsOf(s)
    BY <1>2 DEF Grows, idsOf
  <2> QED
    BY <2>1 DEF BoundIsFirst
<1>3. CASE j \notin Ids
  BY <1>1, <1>3 DEF Ids, Grows
<1> QED
  BY <1>2, <1>3

(* Every step of the set-up adds to the chain, or leaves it.               *)
LEMMA SetupGrows == SetupInv /\ SetupNext => Grows
<1> SUFFICES ASSUME SetupInv, SetupNext PROVE Grows
  OBVIOUS
<1>1. /\ extensions \in Seq(Extensions) /\ Len(extensions) \in Nat
      /\ deployed \in Nat /\ deployed \in deployed .. MaxSenders
  BY SetupAssumption DEF SetupInv, Shapes, SetupTypeOK
<1>2. CASE UNCHANGED <<extensions, deployed>>
  BY <1>1, <1>2 DEF Grows, Ids
<1>3. CASE mine /\ accepts(Head(mempool))
  <2>1. Head(mempool) \in Txs /\ execute(Head(mempool))
    BY <1>3, PoolMoves DEF mine
  <2> QED
    BY <1>3, <2>1, ExtensionsGrow
<1>4. CASE mine /\ ~ accepts(Head(mempool))
  BY <1>2, <1>4 DEF mine, chainVars
<1>5. CASE foreignRegistration
  <2>1. newExtension(Foreign) \in Extensions
    BY DEF newExtension, Extensions
  <2>2. /\ extensions' \in Seq(Extensions)
        /\ Len(extensions') = Len(extensions) + 1
        /\ \A i \in Ids : i \in Ids' /\ extensions'[i] = extensions[i]
    BY <1>1, <1>5, <2>1 DEF foreignRegistration, Ids
  <2>3. /\ deployed' = deployed
        /\ Len(extensions') \in Nat /\ Len(extensions) <= Len(extensions')
    BY <1>1, <1>5, <2>2 DEF foreignRegistration
  <2> QED
    BY <1>1, <2>2, <2>3 DEF Grows
<1>6. CASE ToolStep
  <2>1. UNCHANGED <<extensions, deployed>>
    BY <1>6 DEF ToolStep, DeployInstructionSender, registerExtension,
         allowTeeMachineOwners, allowTeeProjectManagerOwners,
         AddSupportedKeyTypes, writeConfig, SetExtensionId, SendSayHello,
         SendSayGoodbye, verifyHelloResult, verifyGoodbyeResult, receiptSeen,
         receiptReverted, send, skip, chainVars
  <2> QED
    BY <1>2, <2>1
<1>7. CASE preBuild \/ startServices \/ runTest \/ toolStops
  BY <1>2, <1>7 DEF preBuild, deployAnew, reuse, begin, startServices, runTest,
     toolStops, chainVars
<1> QED
  BY <1>3, <1>4, <1>5, <1>6, <1>7 DEF SetupNext

(* setExtensionId finds the first extension of its sender.                 *)
LEMMA BoundStep ==
  SetupInv /\ BoundIsFirst /\ SetupNext => BoundIsFirst'
<1> SUFFICES ASSUME SetupInv, BoundIsFirst, SetupNext PROVE BoundIsFirst'
  OBVIOUS
<1>1. CASE bound' = bound
  BY <1>1, SetupGrows, BoundStays
<1>2. CASE bound' # bound
  <2>1. /\ mine /\ accepts(Head(mempool)) /\ execute(Head(mempool))
        /\ Head(mempool).op = "setExtensionId"
    BY <1>2 DEF SetupNext, ToolStep, DeployInstructionSender,
         registerExtension, allowTeeMachineOwners,
         allowTeeProjectManagerOwners, AddSupportedKeyTypes, writeConfig,
         SetExtensionId, SendSayHello, SendSayGoodbye, verifyHelloResult,
         verifyGoodbyeResult, receiptSeen, receiptReverted, send, skip,
         preBuild, deployAnew, reuse, begin, startServices, runTest, toolStops,
         foreignRegistration,
         mine, execute, chainVars
  <2> DEFINE s == Head(mempool).sender
             least == idFound(s)
  <2>2. bound' = [bound EXCEPT ![s] = least] /\ extensions' = extensions
    BY <2>1 DEF execute
  <2>3. idsOf(s) # {} /\ idsOf(s) \subseteq Nat
    BY <2>1 DEF accepts, idsOf, Ids
  <2>4. \A j \in idsOf(s) : least <= j
    BY <2>3, LeastExists DEF idFound
  <2>5. \A t : idsOf(t)' = idsOf(t)
    BY <2>2 DEF idsOf, Ids
  <2>6. bound \in [Senders -> 0 .. Len(extensions)]
    BY DEF SetupInv, SetupTypeOK
  <2> HIDE DEF least, s
  <2>7. \A t \in Senders : bound'[t] = IF t = s THEN least ELSE bound[t]
    BY <2>2, <2>6
  <2> QED
    BY <2>4, <2>5, <2>7 DEF BoundIsFirst
<1> QED
  BY <1>1, <1>2

(* What goes wrong with a query or a service changes nothing of the set-up.*)
LEMMA MishapKeeps ==
  SetupInv /\ mishaps' \in 0 .. MaxMishaps
    /\ UNCHANGED <<chainVars, mempool, run, env, tee, tested>> => SetupInv'
<1> SUFFICES ASSUME SetupInv, mishaps' \in 0 .. MaxMishaps,
                    UNCHANGED <<chainVars, mempool, run, env, tee, tested>>
             PROVE  SetupInv'
  OBVIOUS
<1>1. RunTyped' /\ RunFits'
  BY DEF SetupInv, RunTyped, RunFits, isDone, Ids, chainVars
<1>2. SentOnce'
  BY DEF SetupInv, SentOnce, Unregistered, isDone, idsOf, Ids, chainVars
<1> QED
  BY <1>1, <1>2, RunMoves DEF SetupInv, SetupTypeOK, Shapes, chainVars

(* A step of verify-deploy leaves the set-up as it is, but for a mishap.   *)
Beside ==
  /\ UNCHANGED <<chainVars, mempool, run, env, tee, tested>>
  /\ mishaps' \in 0 .. MaxMishaps

(* So what holds of the set-up holds after it.                             *)
LEMMA BesideKeeps ==
  SetupInv /\ BoundIsFirst /\ Beside => SetupInv' /\ BoundIsFirst'
<1> SUFFICES ASSUME SetupInv, BoundIsFirst, Beside
             PROVE  SetupInv' /\ BoundIsFirst'
  OBVIOUS
<1>1. BoundIsFirst'
  BY DEF Beside, chainVars, BoundIsFirst, idsOf, Ids
<1> QED
  BY <1>1, MishapKeeps DEF Beside

(* A check of verify-deploy: its results are added, and it goes on.        *)
Adds(results, pc) ==
  /\ Beside
  /\ report' = report \cup results
  /\ VerifyTypeOK'
  /\ verify'.pc = pc
  /\ verify'.step = verify.step /\ verify'.config = verify.config
  /\ verify'.parsed = verify.parsed /\ verify'.counter = verify.counter
  /\ verify'.filter = verify.filter /\ verify'.exit = verify.exit
  /\ verify.missed \subseteq verify'.missed

(* A check that could ask adds its results.                                *)
LEMMA AddAdds ==
  ASSUME VerifyInv, NEW results, NEW pc \in Places, add(results, pc)
  PROVE  Adds(results, pc)
<1>1. Beside
  BY DEF VerifyInv, SetupInv, SetupTypeOK, add, setupVars, Beside
<1>2. verify' = [verify EXCEPT !.pc = pc]
  BY DEF add
<1> QED
  BY <1>1, <1>2 DEF add, Adds, VerifyInv, VerifyTypeOK

(* A check that could not is one that was missed.                          *)
LEMMA AddUnaskedAdds ==
  ASSUME VerifyInv, NEW results, NEW pc \in Places,
         NEW id \in Groups \cup RegistrationChecks,
         addUnasked(id, results, pc)
  PROVE  Adds(results, pc) /\ id \in verify'.missed
<1>1. Beside
  BY SetupAssumption
  DEF VerifyInv, SetupInv, SetupTypeOK, addUnasked, mishap, Beside
<1>2. verify' = [verify EXCEPT !.pc = pc, !.missed = @ \cup {id}]
  BY DEF addUnasked
<1>3. VerifyTypeOK' /\ verify'.missed = verify.missed \cup {id}
  BY <1>2 DEF VerifyInv, VerifyTypeOK
<1> QED
  BY <1>1, <1>2, <1>3 DEF addUnasked, Adds, VerifyInv, VerifyTypeOK

(* Results that fit keep the invariant.                                    *)
LEMMA AddsKeep ==
  ASSUME VerifyInv, NEW results, NEW pc \in Places, Adds(results, pc),
         pc # "idle",
         verify.step = "register" =>
           pc \in RegistrationChecks \cup {"register", "exit", "done"},
         pc \in BeforeFile =>
           verify.pc \in BeforeFile /\ \A r \in results : r.id # "R7",
         isPreBuilds /\ pc \in RegistrationChecks => verify.parsed # noEnv,
         \A r \in results : ResultFits(r)'
  PROVE  VerifyInv'
<1>1. SetupInv' /\ BoundIsFirst' /\ VerifyTypeOK'
  BY BesideKeeps DEF VerifyInv, Adds
<1>2. /\ isPreBuilds' = isPreBuilds /\ ParsedIsFirst' = ParsedIsFirst
      /\ ParsedFits'
  BY DEF VerifyInv, Adds, Beside, isPreBuilds, ParsedIsFirst, ParsedFits, idsOf,
         Ids, chainVars
<1>3. PlaceFits'
  BY <1>2 DEF VerifyInv, Adds, PlaceFits
<1>4. \A r \in report : ResultFits(r)'
  BY <1>2 DEF VerifyInv, ReportFits, ResultFits, Adds
<1>5. ReportFits'
  BY <1>2, <1>4 DEF VerifyInv, ReportFits, Adds
<1> QED
  BY <1>1, <1>2, <1>3, <1>5 DEF VerifyInv

(* The results of the other groups are not about the registration.         *)
OtherResults ==
  RegisterServicesChecks \cup RegisterTeeVersionChecks
    \cup RegisterTeeMachineChecks \cup RegisterTestChecks
    \cup UNION {RegisterDeployChecks(lost) :
                  lost \in {"none", "code", "balance", "chainId"}}

(* Their names are others.                                                 *)
LEMMA OthersAreOther ==
  \A r \in OtherResults : r.id \notin RegistrationChecks
<1>1. \A lost : \A r \in RegisterDeployChecks(lost) :
        r.id \notin RegistrationChecks
  BY DEF RegisterDeployChecks, CheckDeployerKeySource,
     CheckExtensionEnvFormat, result, RegistrationChecks
<1>2. \A r \in RegisterServicesChecks \cup RegisterTeeVersionChecks :
        r.id \notin RegistrationChecks
  BY DEF RegisterServicesChecks, RegisterTeeVersionChecks, reachable, result,
     RegistrationChecks
<1>3. \A r \in RegisterTeeMachineChecks \cup RegisterTestChecks :
        r.id \notin RegistrationChecks
  BY DEF RegisterTeeMachineChecks, RegisterTestChecks, reachable, result,
     RegistrationChecks
<1> QED
  BY <1>1, <1>2, <1>3 DEF OtherResults

(* The group after one, which with a single group is the end.              *)
LEMMA AfterGroup ==
  \A group \in Groups :
    /\ afterGroup(group) \in (Groups \ {"deploy"}) \cup {"exit"}
    /\ afterGroup(group) = "register" => group = "deploy"
    /\ verify.step # "all" => afterGroup(group) = "exit"
  BY DEF afterGroup, Groups

(* A whole group that is not the registration's.                           *)
LEMMA GroupAdds ==
  ASSUME VerifyInv, NEW group \in Groups \ {"register"}, verify.pc = group,
         NEW results \in SUBSET OtherResults,
         Adds(results, afterGroup(group))
  PROVE  VerifyInv'
<1>1. verify.step # "register"
  BY DEF VerifyInv, PlaceFits, RegistrationChecks, Groups
<1>2. \A r \in results : r.id \notin RegistrationChecks
  BY OthersAreOther
<1>3. \A r \in results : ResultFits(r)'
  BY <1>1, <1>2 DEF ResultFits, RegistrationChecks, Adds
<1>4. /\ afterGroup(group) \in Places \ (RegistrationChecks \cup {"idle", "deploy"})
      /\ afterGroup(group) = "register" => group = "deploy"
  BY AfterGroup DEF Places, Groups, RegistrationChecks
<1> QED
  BY <1>1, <1>2, <1>3, <1>4, AddsKeep DEF BeforeFile, RegistrationChecks

(* Each of the groups keeps the invariant.                                 *)
LEMMA OtherGroups ==
  VerifyInv
    /\ (\/ checkDeploy \/ checkServices \/ checkTeeVersion \/ checkTeeMachine
        \/ checkTest)
    => VerifyInv'
<1> SUFFICES ASSUME VerifyInv,
                    \/ checkDeploy \/ checkServices \/ checkTeeVersion
                    \/ checkTeeMachine \/ checkTest
             PROVE  VerifyInv'
  OBVIOUS
<1>1. \A group \in Groups : afterGroup(group) \in Places
  BY AfterGroup DEF Places
<1>2. CASE checkDeploy
  <2>1. CASE add(RegisterDeployChecks("none"), afterGroup("deploy"))
    <3>1. Adds(RegisterDeployChecks("none"), afterGroup("deploy"))
      BY <1>1, <2>1, AddAdds DEF Groups
    <3> QED
      BY <1>2, <3>1, GroupAdds DEF checkDeploy, OtherResults, Groups
  <2>2. CASE \E lost \in {"code", "balance", "chainId"} :
               addUnasked("deploy", RegisterDeployChecks(lost),
                          afterGroup("deploy"))
    <3>1. PICK lost \in {"code", "balance", "chainId"} :
            addUnasked("deploy", RegisterDeployChecks(lost),
                       afterGroup("deploy"))
      BY <2>2
    <3>2. Adds(RegisterDeployChecks(lost), afterGroup("deploy"))
      BY <1>1, <3>1, AddUnaskedAdds DEF Groups
    <3> QED
      BY <1>2, <3>2, GroupAdds DEF checkDeploy, OtherResults, Groups
  <2> QED
    BY <1>2, <2>1, <2>2 DEF checkDeploy
<1>3. CASE checkServices
  BY <1>1, <1>3, AddAdds, GroupAdds DEF checkServices, OtherResults, Groups
<1>4. CASE checkTeeVersion
  BY <1>1, <1>4, AddAdds, GroupAdds DEF checkTeeVersion, OtherResults, Groups
<1>5. CASE checkTeeMachine
  BY <1>1, <1>5, AddAdds, GroupAdds DEF checkTeeMachine, OtherResults, Groups
<1>6. CASE checkTest
  BY <1>1, <1>6, AddAdds, GroupAdds DEF checkTest, OtherResults, Groups
<1> QED
  BY <1>2, <1>3, <1>4, <1>5, <1>6

(* A check of the registration, R1 to R7.                                  *)
LEMMA RegistrationAdds ==
  ASSUME VerifyInv, NEW id \in RegistrationChecks, verify.pc = id,
         NEW results, Adds(results, nextCheck(id)),
         \A r \in results :
           /\ r.id = id
           /\ isPreBuilds =>
                \/ id \in verify'.missed
                \/ id # "R7" /\ r.status = "PASS"
                \/ id = "R7" /\ r.status # "FAIL"
                     /\ (r.status = "PASS" => ParsedIsFirst)
  PROVE  VerifyInv'
<1>1. /\ nextCheck(id) \in Places \ (BeforeFile \cup {"idle"})
      /\ verify.step = "register" =>
           nextCheck(id) \in RegistrationChecks \cup {"register", "exit", "done"}
  BY AfterGroup
  DEF nextCheck, RegistrationChecks, Places, Groups, BeforeFile
<1>2. isPreBuilds => verify.parsed # noEnv
  BY DEF VerifyInv, PlaceFits
<1>3. isPreBuilds' = isPreBuilds /\ ParsedIsFirst' = ParsedIsFirst
  BY DEF Adds, Beside, isPreBuilds, ParsedIsFirst, idsOf, Ids, chainVars
<1>4. \A r \in results : ResultFits(r)'
  BY <1>3 DEF ResultFits, RegistrationChecks, Adds
<1> QED
  BY <1>1, <1>2, <1>4, AddsKeep DEF BeforeFile

(* A check that asks the chain: it fits when what it looks for is there.   *)
LEMMA CheckAdds ==
  ASSUME VerifyInv, NEW id \in RegistrationChecks \ {"R7"}, verify.pc = id,
         NEW condition \in BOOLEAN, isPreBuilds => condition,
         check(id, condition)
  PROVE  VerifyInv'
<1>1. nextCheck(id) \in Places
  BY AfterGroup DEF nextCheck, RegistrationChecks, Places, Groups
<1>2. CASE add({result(id, passIf(condition, "FAIL"))}, nextCheck(id))
  <2>1. Adds({result(id, passIf(condition, "FAIL"))}, nextCheck(id))
    BY <1>1, <1>2, AddAdds
  <2>2. isPreBuilds => passIf(condition, "FAIL") = "PASS"
    BY DEF passIf
  <2> QED
    BY <2>1, <2>2, RegistrationAdds DEF result
<1>3. CASE addUnasked(id, {result(id, "FAIL")}, nextCheck(id))
  <2>1. /\ Adds({result(id, "FAIL")}, nextCheck(id))
        /\ id \in verify'.missed
    BY <1>1, <1>3, AddUnaskedAdds
  <2> QED
    BY <2>1, RegistrationAdds DEF result
<1> QED
  BY <1>2, <1>3 DEF check

(* What a check of the registration finds of a file of pre-build.sh.       *)
LEMMA ParsedIsThere ==
  VerifyInv /\ isPreBuilds /\ verify.pc \in RegistrationChecks =>
    /\ verify.parsed.id \in Ids /\ verify.parsed.sender \in Senders
    /\ extensions[verify.parsed.id].sender = verify.parsed.sender
    /\ extensions[verify.parsed.id].machineOwner
    /\ extensions[verify.parsed.id].keyType
    /\ \/ verify.counter = 0
       \/ verify.counter >= FirstPublicExtensionId + verify.parsed.id
  BY DEF VerifyInv, PlaceFits, ParsedFits

(* R2, R3 and R4 find what is in the file on chain.                        *)
LEMMA SenderOwnerType ==
  VerifyInv /\ (checkSender \/ checkMachineOwner \/ checkKeyType) => VerifyInv'
<1> SUFFICES ASSUME VerifyInv, checkSender \/ checkMachineOwner \/ checkKeyType
             PROVE  VerifyInv'
  OBVIOUS
<1>1. nextCheck("R2") \in Places
  BY DEF nextCheck, Places, RegistrationChecks
<1>2. CASE checkSender
  <2>1. CASE verify.parsed.sender \in {0, Malformed}
    <3>1. Adds({}, nextCheck("R2"))
      BY <1>1, <1>2, <2>1, AddAdds DEF checkSender
    <3> QED
      BY <1>2, <3>1, RegistrationAdds DEF checkSender, RegistrationChecks
  <2>2. CASE verify.parsed.sender \notin {0, Malformed}
    <3>1. check("R2", senderMatches) /\ verify.pc = "R2"
      BY <1>2, <2>2 DEF checkSender
    <3>2. isPreBuilds => senderMatches
      BY <3>1, ParsedIsThere DEF senderMatches, RegistrationChecks
    <3> QED
      BY <3>1, <3>2, CheckAdds DEF RegistrationChecks, senderMatches
  <2> QED
    BY <2>1, <2>2
<1>3. CASE checkMachineOwner
  <2>1. check("R3", isAllowed("machineOwner")) /\ verify.pc = "R3"
    BY <1>3 DEF checkMachineOwner
  <2>2. isPreBuilds => isAllowed("machineOwner")
    BY <2>1, ParsedIsThere DEF isAllowed, RegistrationChecks
  <2> QED
    BY <2>1, <2>2, CheckAdds DEF RegistrationChecks, isAllowed
<1>4. CASE checkKeyType
  <2>1. check("R4", isAllowed("keyType")) /\ verify.pc = "R4"
    BY <1>4 DEF checkKeyType
  <2>2. isPreBuilds => isAllowed("keyType")
    BY <2>1, ParsedIsThere DEF isAllowed, RegistrationChecks
  <2> QED
    BY <2>1, <2>2, CheckAdds DEF RegistrationChecks, isAllowed
<1> QED
  BY <1>2, <1>3, <1>4

(* Below a counter that was read after the file there is the file's        *)
(* extension, so when there is one only, it is the first of its sender.    *)
LEMMA UniqueIsFirst ==
  ASSUME VerifyInv, isPreBuilds, verify.pc = "R7", verify.counter # 0,
         isUnique({i \in idsOf(verify.parsed.sender) :
                     FirstPublicExtensionId + i - 1 < verify.counter})
  PROVE  ParsedIsFirst
<1> DEFINE below == {i \in idsOf(verify.parsed.sender) :
                       FirstPublicExtensionId + i - 1 < verify.counter}
           id == verify.parsed.id
<1>1. /\ id \in Ids /\ extensions[id].sender = verify.parsed.sender
      /\ verify.counter >= FirstPublicExtensionId + id
      /\ verify.parsed # noEnv /\ verify.counter \in Nat
  BY ParsedIsThere
  DEF VerifyInv, PlaceFits, VerifyTypeOK, RegistrationChecks
<1>2. Len(extensions) \in Nat
  BY DEF VerifyInv, SetupInv, Shapes
<1>3. IsFiniteSet(below)
  <2>1. IsFiniteSet(Ids)
    BY <1>2, FS_Interval DEF Ids
  <2>2. below \in SUBSET Ids
    BY DEF idsOf
  <2> QED
    BY <2>1, <2>2, FS_Subset
<1>4. id \in below
  BY <1>1, <1>2 DEF idsOf, Ids, FirstPublicExtensionId
<1>5. Cardinality(below) \in {0, 1}
  <2>1. Cardinality(below) <= 1
    BY DEF isUnique
  <2>2. Cardinality(below) \in Nat
    BY <1>3, FS_CardinalityType
  <2> QED
    BY <2>1, <2>2
<1>6. \A j \in below : j = id
  BY <1>3, <1>4, <1>5, FS_EmptySet, FS_Singleton
<1>7. ASSUME NEW j \in idsOf(verify.parsed.sender) PROVE id <= j
  <2>1. j \in Ids
    BY DEF idsOf
  <2>2. j < id => j \in below
    BY <1>1, <1>2, <2>1 DEF Ids, FirstPublicExtensionId
  <2> QED
    BY <1>1, <1>2, <1>6, <2>1, <2>2 DEF Ids
<1> QED
  BY <1>1, <1>7 DEF ParsedIsFirst

(* R7, which may pass over an id.                                          *)
LEMMA UniqueAdds == VerifyInv /\ checkUnique => VerifyInv'
<1> SUFFICES ASSUME VerifyInv, checkUnique PROVE VerifyInv'
  OBVIOUS
<1> DEFINE below == {i \in idsOf(verify.parsed.sender) :
                       FirstPublicExtensionId + i - 1 < verify.counter}
           verdict(seen) == {result("R7", passIf(isUnique(seen), "WARN"))}
<1>1. verify.pc = "R7" /\ nextCheck("R7") \in Places
  BY AfterGroup DEF checkUnique, nextCheck, Places, Groups
<1>2. CASE verify.counter = 0 \/ verify.parsed.sender \in {0, Malformed}
  <2>1. Adds({}, nextCheck("R7"))
    BY <1>1, <1>2, AddAdds DEF checkUnique
  <2> QED
    BY <1>1, <2>1, RegistrationAdds DEF RegistrationChecks
<1>3. CASE verify.counter # 0 /\ add(verdict(below), nextCheck("R7"))
  <2>1. Adds(verdict(below), nextCheck("R7"))
    BY <1>1, <1>3, AddAdds
  <2>2. isPreBuilds /\ isUnique(below) => ParsedIsFirst
    BY <1>1, <1>3, UniqueIsFirst
  <2>3. \A r \in verdict(below) :
          r.id = "R7" /\ r.status # "FAIL"
            /\ (r.status = "PASS" => isUnique(below))
    BY DEF result, passIf
  <2> HIDE DEF below, verdict
  <2> QED
    BY <1>1, <2>1, <2>2, <2>3, RegistrationAdds DEF RegistrationChecks
<1>4. CASE \E id \in below : addUnasked("R7", verdict(below \ {id}),
                                        nextCheck("R7"))
  <2>1. PICK id \in below : addUnasked("R7", verdict(below \ {id}),
                                       nextCheck("R7"))
    BY <1>4
  <2>2. /\ Adds(verdict(below \ {id}), nextCheck("R7"))
        /\ "R7" \in verify'.missed
    BY <1>1, <2>1, AddUnaskedAdds DEF RegistrationChecks
  <2>3. \A r \in verdict(below \ {id}) : r.id = "R7"
    BY DEF result
  <2> HIDE DEF below, verdict
  <2> QED
    BY <1>1, <2>2, <2>3, RegistrationAdds DEF RegistrationChecks
<1> QED
  BY <1>2, <1>3, <1>4 DEF checkUnique

(* The counter is read after the file, and lies above its id.              *)
LEMMA CounterAdds == VerifyInv /\ checkCounter => VerifyInv'
<1> SUFFICES ASSUME VerifyInv, checkCounter PROVE VerifyInv'
  OBVIOUS
<1> DEFINE malformed == verify.parsed.id \in {0, Malformed}
           pc == IF malformed THEN afterGroup("register") ELSE nextCheck("R1")
           idResult == IF malformed THEN {result("R2", "FAIL")} ELSE {}
<1>1. /\ verify.pc = "R1" /\ pc \in Places \ BeforeFile
      /\ verify.step = "register" =>
           pc \in RegistrationChecks \cup {"register", "exit", "done"}
  BY AfterGroup
  DEF checkCounter, nextCheck, Places, Groups, BeforeFile, RegistrationChecks
<1>2. isPreBuilds => ~ malformed /\ verify.parsed # noEnv
  BY <1>1, ParsedIsThere
  DEF Ids, Malformed, VerifyInv, PlaceFits, RegistrationChecks
<1>3. \A r \in idResult : r.id = "R2" /\ ~ isPreBuilds
  BY <1>2 DEF result
<1>4. \/ /\ verify' = [verify EXCEPT !.counter = nextPublicExtensionId,
                                      !.pc = pc]
         /\ report' = report \cup {result("R1", "PASS")} \cup idResult
         /\ UNCHANGED <<setupVars, setting, up>>
      \/ addUnasked("R1", {result("R1", "FAIL")} \cup idResult, pc)
  BY DEF checkCounter
<1> HIDE DEF malformed, pc, idResult
<1>5. CASE addUnasked("R1", {result("R1", "FAIL")} \cup idResult, pc)
  <2>1. /\ Adds({result("R1", "FAIL")} \cup idResult, pc)
        /\ "R1" \in verify'.missed
    BY <1>1, <1>5, AddUnaskedAdds DEF RegistrationChecks
  <2>2. isPreBuilds' = isPreBuilds
    BY <2>1 DEF Adds, isPreBuilds
  <2>3. \A r \in {result("R1", "FAIL")} \cup idResult : ResultFits(r)'
    BY <1>3, <2>1, <2>2 DEF ResultFits, result
  <2> QED
    BY <1>1, <1>2, <2>1, <2>3, AddsKeep DEF BeforeFile
<1>6. CASE /\ verify' = [verify EXCEPT !.counter = nextPublicExtensionId,
                                       !.pc = pc]
           /\ report' = report \cup {result("R1", "PASS")} \cup idResult
           /\ UNCHANGED <<setupVars, setting, up>>
  <2>1. Beside
    BY <1>6 DEF VerifyInv, SetupInv, SetupTypeOK, setupVars, Beside
  <2>2. SetupInv' /\ BoundIsFirst'
    BY <2>1, BesideKeeps DEF VerifyInv
  <2>3. /\ nextPublicExtensionId \in Nat
        /\ \A i \in Ids : nextPublicExtensionId >= FirstPublicExtensionId + i
    BY DEF VerifyInv, SetupInv, Shapes, nextPublicExtensionId,
       FirstPublicExtensionId, Ids
  <2>4. /\ VerifyTypeOK'
        /\ verify'.pc = pc /\ verify'.counter = nextPublicExtensionId
        /\ verify'.step = verify.step /\ verify'.config = verify.config
        /\ verify'.parsed = verify.parsed /\ verify'.missed = verify.missed
        /\ verify'.filter = verify.filter /\ verify'.exit = verify.exit
    BY <1>1, <1>6, <2>3 DEF VerifyInv, VerifyTypeOK
  <2>5. isPreBuilds' = isPreBuilds /\ ParsedIsFirst' = ParsedIsFirst
    BY <2>1, <2>4 DEF isPreBuilds, ParsedIsFirst, Beside, chainVars, idsOf, Ids
  <2>6. PlaceFits'
    BY <1>1, <1>2, <2>4, <2>5 DEF VerifyInv, PlaceFits, BeforeFile
  <2>7. ParsedFits'
    BY <2>1, <2>3, <2>4, <2>5
    DEF VerifyInv, ParsedFits, Beside, chainVars, Ids
  <2>8. \A r \in {result("R1", "PASS")} \cup idResult : ResultFits(r)'
    BY <1>3, <2>5 DEF ResultFits, result
  <2>9. \A r \in report : ResultFits(r)'
    BY <2>4, <2>5 DEF VerifyInv, ReportFits, ResultFits
  <2>10. ReportFits'
    BY <1>6, <2>4, <2>5, <2>8, <2>9 DEF VerifyInv, ReportFits
  <2> QED
    BY <2>2, <2>4, <2>6, <2>7, <2>10 DEF VerifyInv
<1> QED
  BY <1>4, <1>5, <1>6

(* The registration group reads the file, which is complete when it is     *)
(* there, or is passed over.                                               *)
LEMMA FileIsRead == VerifyInv /\ checkRegistration => VerifyInv'
<1> SUFFICES ASSUME VerifyInv, checkRegistration PROVE VerifyInv'
  OBVIOUS
<1>1. /\ verify.pc = "register" /\ verify.counter = 0
      /\ \A r \in report : r.id # "R7"
  BY DEF checkRegistration, VerifyInv, PlaceFits, BeforeFile
<1>2. CASE add({result("R1-R7", "SKIP")}, afterGroup("register"))
  <2>1. /\ afterGroup("register") \in Places \ (BeforeFile \cup RegistrationChecks)
        /\ verify.step = "register" => afterGroup("register") = "exit"
    BY AfterGroup DEF Places, Groups, BeforeFile, RegistrationChecks
  <2>2. Adds({result("R1-R7", "SKIP")}, afterGroup("register"))
    BY <1>2, <2>1, AddAdds
  <2>3. \A r \in {result("R1-R7", "SKIP")} : ResultFits(r)'
    BY DEF ResultFits, result
  <2> QED
    BY <2>1, <2>2, <2>3, AddsKeep DEF BeforeFile
<1>3. CASE /\ verify' = [verify EXCEPT !.parsed = parseExtensionEnv,
                                       !.pc = nextCheck("register")]
           /\ parseExtensionEnv # noEnv
           /\ UNCHANGED <<setupVars, setting, up, report>>
  <2>1. Beside
    BY <1>3 DEF VerifyInv, SetupInv, SetupTypeOK, setupVars, Beside
  <2>2. SetupInv' /\ BoundIsFirst'
    BY <2>1, BesideKeeps DEF VerifyInv
  <2>3. parseExtensionEnv \in Files
    BY SetupAssumption
    DEF VerifyInv, VerifyTypeOK, SetupInv, SetupTypeOK, Shapes,
        parseExtensionEnv, Files
  <2>4. /\ VerifyTypeOK'
        /\ verify'.pc = "R1" /\ verify'.parsed = parseExtensionEnv
        /\ verify'.step = verify.step /\ verify'.config = verify.config
        /\ verify'.counter = 0 /\ verify'.missed = verify.missed
        /\ verify'.filter = verify.filter /\ verify'.exit = verify.exit
    BY <1>1, <1>3, <2>3
    DEF VerifyInv, VerifyTypeOK, nextCheck, Places, RegistrationChecks
  <2>5. isPreBuilds' = isPreBuilds
    BY <2>4 DEF isPreBuilds
  <2>6. PlaceFits'
    BY <1>3, <2>4, <2>5
    DEF VerifyInv, PlaceFits, BeforeFile, RegistrationChecks
  <2>7. ParsedFits'
    <3> SUFFICES ASSUME isPreBuilds
                 PROVE  /\ env.id \in Ids /\ env.sender \in Senders
                        /\ extensions[env.id]
                             = [sender |-> env.sender, machineOwner |-> TRUE,
                                projectOwner |-> TRUE, keyType |-> TRUE]
                        /\ parseExtensionEnv = env
      BY <2>1, <2>4, <2>5 DEF ParsedFits, Beside, chainVars, Ids
    <3>1. parseExtensionEnv = env /\ env # noEnv
      BY <1>3 DEF parseExtensionEnv, isPreBuilds
    <3>2. env.sender \in Senders
      BY <3>1, SetupAssumption
      DEF VerifyInv, SetupInv, SetupTypeOK, EnvNamed, Senders, Foreign
    <3> QED
      BY <3>1, <3>2 DEF VerifyInv, SetupInv, EnvIsComplete
  <2>8. \A r \in report : ResultFits(r)'
    BY <1>1, <2>4, <2>5 DEF VerifyInv, ReportFits, ResultFits
  <2>9. ReportFits'
    BY <1>3, <2>4, <2>5, <2>8 DEF VerifyInv, ReportFits
  <2> QED
    BY <2>2, <2>4, <2>6, <2>7, <2>9 DEF VerifyInv
<1> QED
  BY <1>2, <1>3 DEF checkRegistration

(* The tool starts with an empty report.                                   *)
LEMMA ToolStarts == VerifyInv /\ verifyDeploy => VerifyInv'
<1> SUFFICES ASSUME VerifyInv, verifyDeploy PROVE VerifyInv'
  OBVIOUS
<1>1. /\ verify = noVerify /\ report = {} /\ report' = {}
      /\ UNCHANGED <<setupVars, setting, up>>
  BY DEF verifyDeploy, VerifyInv, PlaceFits
<1>2. PICK step \in Groups \cup {"all"},
           config \in {"none", "extension.env", "other"},
           other \in OtherFiles, filter \in {{}, {"D5", "R2"}} :
        /\ filter # {} => step = "all"
        /\ verify' = [verify EXCEPT
                        !.step = step, !.config = config, !.other = other,
                        !.filter = filter,
                        !.pc = IF step = "all" THEN "deploy" ELSE step]
  BY DEF verifyDeploy
<1>3. /\ verify'.step = step /\ verify'.config = config
      /\ verify'.other = other /\ verify'.filter = filter
      /\ verify'.pc = IF step = "all" THEN "deploy" ELSE step
      /\ verify'.parsed = noEnv /\ verify'.counter = 0
      /\ verify'.missed = {} /\ verify'.exit = 0
      /\ VerifyTypeOK'
  BY <1>1, <1>2
  DEF noVerify, noEnv, VerifyTypeOK, Files, Places, Groups
<1>4. Beside
  BY <1>1 DEF VerifyInv, SetupInv, SetupTypeOK, setupVars, Beside
<1>5. SetupInv' /\ BoundIsFirst'
  BY <1>4, BesideKeeps DEF VerifyInv
<1>6. PlaceFits'
  BY <1>1, <1>2, <1>3 DEF PlaceFits, RegistrationChecks, Groups
<1>7. ParsedFits' /\ ReportFits'
  BY <1>1, <1>3 DEF ParsedFits, ReportFits
<1> QED
  BY <1>3, <1>5, <1>6, <1>7 DEF VerifyInv

(* The exit code of the registration group alone is that of its results.   *)
LEMMA ToolExits == VerifyInv /\ exit => VerifyInv'
<1> SUFFICES ASSUME VerifyInv, exit PROVE VerifyInv'
  OBVIOUS
<1>1. /\ verify.pc = "exit" /\ report' \subseteq report
      /\ verify.filter = {} => report' = report
      /\ UNCHANGED <<setupVars, setting, up>>
  BY DEF exit
<1>2. /\ verify'.step = verify.step /\ verify'.config = verify.config
      /\ verify'.filter = verify.filter /\ verify'.pc = "done"
      /\ verify'.parsed = verify.parsed /\ verify'.counter = verify.counter
      /\ verify'.missed = verify.missed
      /\ verify'.exit = IF HasFailures(report') THEN 1 ELSE 0
      /\ VerifyTypeOK'
  BY DEF exit, VerifyInv, VerifyTypeOK, Places
<1>3. Beside
  BY <1>1 DEF VerifyInv, SetupInv, SetupTypeOK, setupVars, Beside
<1>4. SetupInv' /\ BoundIsFirst'
  BY <1>3, BesideKeeps DEF VerifyInv
<1>5. /\ isPreBuilds' = isPreBuilds /\ ParsedIsFirst' = ParsedIsFirst
      /\ ParsedFits'
  BY <1>2, <1>3 DEF VerifyInv, Beside, isPreBuilds, ParsedIsFirst, ParsedFits,
         idsOf, Ids, chainVars
<1>6. PlaceFits'
  BY <1>1, <1>2, <1>5
  DEF VerifyInv, PlaceFits, BeforeFile, RegistrationChecks
<1>7. \A r \in report' : ResultFits(r)'
  BY <1>1, <1>2, <1>5 DEF VerifyInv, ReportFits, ResultFits
<1>8. isPreBuilds /\ verify.step = "register" /\ verify.missed = {} =>
        verify'.exit = 0
  <2>1. isPreBuilds /\ verify.step = "register" /\ verify.missed = {} =>
          \A r \in report' : r.status # "FAIL"
    BY <1>1, <1>2, <1>5, <1>7 DEF ResultFits
  <2> QED
    BY <1>2, <2>1 DEF HasFailures
<1>9. ReportFits'
  BY <1>2, <1>5, <1>7, <1>8 DEF ReportFits
<1> QED
  BY <1>2, <1>4, <1>5, <1>6, <1>9 DEF VerifyInv

(* The set-up goes on beside the tool: what the tool holds stays true of   *)
(* a chain that grows.                                                     *)
LEMMA OthersStep ==
  VerifyInv /\ SetupNext /\ UNCHANGED <<verify, report>> => VerifyInv'
<1> SUFFICES ASSUME VerifyInv, SetupNext, UNCHANGED <<verify, report>>
             PROVE  VerifyInv'
  OBVIOUS
<1>1. SetupInv' /\ BoundIsFirst' /\ Grows
  BY SetupInvStep, BoundStep, SetupGrows DEF VerifyInv
<1>2. VerifyTypeOK' /\ PlaceFits'
  BY DEF VerifyInv, VerifyTypeOK, PlaceFits, isPreBuilds
<1>3. ASSUME isPreBuilds, verify.parsed # noEnv
      PROVE  /\ verify.parsed.id \in Ids'
             /\ extensions'[verify.parsed.id]
                  = [sender |-> verify.parsed.sender, machineOwner |-> TRUE,
                     projectOwner |-> TRUE, keyType |-> TRUE]
  <2> DEFINE id == verify.parsed.id
  <2>1. /\ id \in Ids /\ extensions[id].sender = verify.parsed.sender
        /\ extensions[id].machineOwner /\ extensions[id].projectOwner
        /\ extensions[id].keyType
    BY <1>3 DEF VerifyInv, ParsedFits
  <2>2. /\ id \in Ids' /\ extensions'[id].sender = verify.parsed.sender
        /\ extensions'[id].machineOwner /\ extensions'[id].projectOwner
        /\ extensions'[id].keyType
    BY <1>1, <2>1 DEF Grows
  <2>3. extensions'[id] \in Extensions
    BY <1>1, <2>2 DEF Grows, Ids
  <2> QED
    BY <2>2, <2>3 DEF Extensions
<1>4. ParsedFits'
  BY <1>3 DEF VerifyInv, ParsedFits, isPreBuilds
<1>5. isPreBuilds /\ ParsedIsFirst => ParsedIsFirst'
  <2> SUFFICES ASSUME isPreBuilds, ParsedIsFirst, NEW j \in Ids',
                      extensions'[j].sender = verify.parsed.sender
               PROVE  verify.parsed.id <= j
    BY DEF ParsedIsFirst, idsOf
  <2>1. verify.parsed.id \in Ids
    BY DEF ParsedIsFirst, VerifyInv, ParsedFits
  <2>2. CASE j \in Ids
    BY <1>1, <2>2 DEF Grows, ParsedIsFirst, idsOf
  <2>3. CASE j \notin Ids
    BY <1>1, <2>1, <2>3 DEF Grows, Ids
  <2> QED
    BY <2>2, <2>3
<1>6. ReportFits'
  BY <1>5 DEF VerifyInv, ReportFits, ResultFits, isPreBuilds
<1> QED
  BY <1>1, <1>2, <1>4, <1>6 DEF VerifyInv

(* Nothing but a mishap, or nothing at all.                                *)
LEMMA NothingStep ==
  VerifyInv /\ Beside /\ UNCHANGED <<verify, report>> => VerifyInv'
<1> SUFFICES ASSUME VerifyInv, Beside, UNCHANGED <<verify, report>>
             PROVE  VerifyInv'
  OBVIOUS
<1>1. SetupInv' /\ BoundIsFirst'
  BY BesideKeeps DEF VerifyInv
<1>2. VerifyTypeOK' /\ PlaceFits'
  BY DEF VerifyInv, VerifyTypeOK, PlaceFits, isPreBuilds
<1>3. ParsedFits' /\ ReportFits'
  BY DEF VerifyInv, Beside, isPreBuilds, ParsedFits, ReportFits, ResultFits,
     ParsedIsFirst, idsOf, Ids, chainVars
<1> QED
  BY <1>1, <1>2, <1>3 DEF VerifyInv

(* Before the tool is run.                                                 *)
LEMMA VerifyInvInit == VerifyInit => VerifyInv
<1> SUFFICES ASSUME VerifyInit PROVE VerifyInv
  OBVIOUS
<1>1. SetupInv
  BY SetupInvInit DEF VerifyInit
<1>2. BoundIsFirst
  BY DEF VerifyInit, SetupInit, BoundIsFirst
<1>3. verify = noVerify /\ report = {}
  BY DEF VerifyInit
<1>4. VerifyTypeOK
  BY <1>3 DEF VerifyTypeOK, noVerify, noEnv, Files, Places
<1>5. PlaceFits
  BY <1>3 DEF PlaceFits, noVerify, RegistrationChecks, isPreBuilds
<1>6. ParsedFits /\ ReportFits
  BY <1>3 DEF ParsedFits, ReportFits, noVerify, isPreBuilds
<1> QED
  BY <1>1, <1>2, <1>4, <1>5, <1>6 DEF VerifyInv

(* Every step keeps the invariant.                                         *)
LEMMA VerifyInvStep == VerifyInv /\ [VerifyNext]_allVars => VerifyInv'
<1> SUFFICES ASSUME VerifyInv, [VerifyNext]_allVars PROVE VerifyInv'
  OBVIOUS
<1>1. CASE verifyDeploy
  BY <1>1, ToolStarts
<1>2. CASE checkDeploy \/ checkServices \/ checkTeeVersion \/ checkTeeMachine
             \/ checkTest
  BY <1>2, OtherGroups
<1>3. CASE checkRegistration
  BY <1>3, FileIsRead
<1>4. CASE checkCounter
  BY <1>4, CounterAdds
<1>5. CASE checkSender \/ checkMachineOwner \/ checkKeyType
  BY <1>5, SenderOwnerType
<1>6. CASE checkUnique
  BY <1>6, UniqueAdds
<1>7. CASE exit
  BY <1>7, ToolExits
<1>8. CASE setupStep
  BY <1>8, OthersStep DEF setupStep
<1>9. CASE serviceDown
  <2>1. Beside
    BY <1>9, SetupAssumption
    DEF serviceDown, mishap, Beside, VerifyInv, SetupInv, SetupTypeOK
  <2> QED
    BY <1>9, <2>1, NothingStep DEF serviceDown
<1>10. CASE UNCHANGED allVars
  <2>1. Beside /\ UNCHANGED <<verify, report>>
    BY <1>10
    DEF allVars, verifyVars, setupVars, Beside, VerifyInv, SetupInv,
        SetupTypeOK
  <2> QED
    BY <2>1, NothingStep
<1> QED
  BY <1>1, <1>2, <1>3, <1>4, <1>5, <1>6, <1>7, <1>8, <1>9, <1>10
  DEF VerifyNext, Checks

(* The invariant holds always.                                             *)
LEMMA VerifyInvHolds == VerifySpec => []VerifyInv
  BY VerifyInvInit, VerifyInvStep, PTL DEF VerifySpec

(* When R2 and R7 pass on the file of pre-build.sh, its sender binds       *)
(* itself to its id and to no other, for any number of senders and         *)
(* extensions, whatever is registered while the checks run and after them  *)
(* (checks.go 372-403 and 471-501 against setExtensionId).                 *)
THEOREM CleanReportsBind == VerifySpec => []CleanReportBinds
<1>1. VerifyInv => CleanReportBinds
  <2> DEFINE id == verify.parsed.id
             s == verify.parsed.sender
  <2> SUFFICES ASSUME VerifyInv, isPreBuilds, has("R7", "PASS"),
                      "R7" \notin verify.missed
               PROVE  bound[s] \in {0, id} /\ idFound(s) = id
    BY DEF CleanReportBinds, isPreBuilds
  <2>1. ParsedIsFirst
    BY DEF VerifyInv, ReportFits, ResultFits, has, result
  <2>2. id \in idsOf(s) /\ id \in Ids /\ s \in Senders
    BY <2>1 DEF VerifyInv, ParsedFits, ParsedIsFirst, idsOf
  <2>3. \A j \in idsOf(s) : j \in Int /\ id <= j
    BY <2>1 DEF ParsedIsFirst, idsOf, Ids
  <2> HIDE DEF id, s
  <2>4. \A i \in idsOf(s) : (\A j \in idsOf(s) : i <= j) => i = id
    BY <2>2, <2>3
  <2>5. idFound(s) = id
    BY <2>2, <2>3, <2>4 DEF idFound
  <2>6. bound[s] # 0 => bound[s] \in idsOf(s)
    BY <2>2 DEF VerifyInv, SetupInv, BoundIsOwn, idsOf
  <2>7. bound[s] # 0 => bound[s] = id
    BY <2>2, <2>4, <2>6 DEF VerifyInv, BoundIsFirst
  <2> QED
    BY <2>5, <2>7
<1> QED
  BY <1>1, VerifyInvHolds, PTL

(* No check of the registration fails on a file that pre-build.sh has      *)
(* written, unless its own query failed, while the set-up runs again and   *)
(* others register; and the tool asked for that group alone succeeds when  *)
(* no query failed (edgecase-scenarios.md 44).                             *)
THEOREM PreBuildVerifies == VerifySpec => []VerifyAfterPreBuild
<1>1. VerifyInv => VerifyAfterPreBuild
  BY DEF VerifyInv, ReportFits, ResultFits, VerifyAfterPreBuild, isPreBuilds
<1> QED
  BY <1>1, VerifyInvHolds, PTL
=============================================================================
