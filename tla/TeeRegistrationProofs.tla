------------------------ MODULE TeeRegistrationProofs ------------------------
(***************************************************************************)
(* Proofs about TeeRegistration for any number of keys and mishaps, with   *)
(* and without -resume: what the state file says has happened, and a run   *)
(* that started afresh uses a challenge of its own.                        *)
(***************************************************************************)
EXTENDS TeeRegistration, TLAPS

(* What the diamond keeps of an attestation and of a check, and what the   *)
(* tools send.                                                             *)
Attestations == [tee: Tees, live: BOOLEAN]
(* An availability check.                                                  *)
Checks == [tee: Tees, attestation: Nat, answered: BOOLEAN]
(* A transaction; its id is that of an attestation or of a check.          *)
Txs == [op: {"addTeeVersion", "setNewTeeGovernance", "register",
             "requestTeeAttestation", "requestAvailabilityCheck",
             "toProduction"},
        tee: Tees, id: Nat]

(* What registrationState may say.                                         *)
States == [done: SUBSET {"r", "R", "a"}, attestation: Nat, check: Nat]

(* What the tool that runs may hold.                                       *)
Runs == [step: Steps \cup {"idle"}, waiting: BOOLEAN, tee: 0 .. MaxTees,
         fresh: BOOLEAN, since: Nat, state: States]

(* Types that RegistrationTypeOK leaves out.                               *)
Shapes ==
  /\ attestations \in Seq(Attestations)
  /\ checks \in Seq(Checks)
  /\ mempool \in Seq(Txs)
  /\ run \in Runs

(* What step's call is, for the state of the run.                          *)
callOf(step) ==
  CASE step = "version" -> {"addTeeVersion"}
    [] step = "governance" -> {"setNewTeeGovernance"}
    [] step = "r" -> {"register", "requestTeeAttestation"}
    [] step = "R" -> {"requestTeeAttestation"}
    [] step = "a" -> {"requestAvailabilityCheck"}
    [] step = "p" -> {"toProduction"}

(* The transaction that the tool waits for is the last one sent, and the   *)
(* one of its step.                                                        *)
AwaitsOwn ==
  run.waiting =>
    /\ run.step \in Steps \ {"start"}
    /\ mempool # <<>>
    /\ LET tx == mempool[Len(mempool)]
       IN  /\ tx.op \in callOf(run.step) /\ tx.tee = run.tee
           /\ run.step = "a" => tx.id = run.state.attestation

(* Steps are done in their order, and what a state says has happened: its  *)
(* attestation is a registered machine's, its check is of it.              *)
StateHonest(state) ==
  /\ "R" \in state.done => "r" \in state.done
  /\ "a" \in state.done => "R" \in state.done
  /\ state.done # {} =>
       /\ state.attestation \in 1 .. Len(attestations)
       /\ machine[attestations[state.attestation].tee] # "none"
  /\ "a" \in state.done =>
       /\ state.check \in 1 .. Len(checks)
       /\ checks[state.check].attestation = state.attestation

(* What the tool has done when it comes to a step, and what it still has   *)
(* to do when it waits.                                                    *)
RunFits ==
  /\ run.step # "idle" => run.tee \in Tees
  /\ run.step \in {"R", "a", "p"} => "r" \in run.state.done
  /\ run.step \in {"a", "p"} => "R" \in run.state.done
  /\ run.step = "p" => "a" \in run.state.done
  /\ run.waiting => run.step \notin run.state.done

(* A run that removed the file has nothing done at first, and then has an  *)
(* attestation of its own.                                                 *)
FreshFits ==
  run.fresh =>
    /\ run.step \in {"r", "R", "a", "p"}
    /\ run.step = "r" => run.state.done = {}
    /\ run.step # "r" =>
         /\ run.state.attestation > run.since
         /\ attestations[run.state.attestation].tee = run.tee

(* The inductive invariant.                                                *)
RegInv ==
  /\ RegistrationTypeOK
  /\ Shapes
  /\ AwaitsOwn
  /\ StateHonest(file) /\ StateHonest(run.state)
  /\ RunFits
  /\ FreshFits

(* Before the script is run.                                               *)
LEMMA RegInvInit == RegistrationInit => RegInv
<1> SUFFICES ASSUME RegistrationInit PROVE RegInv
  OBVIOUS
<1> USE RegistrationAssumption DEF RegistrationInit, noRun, noState
<1>1. RegistrationTypeOK
  <2>1. machine \in [Tees -> {"none", "registered", "production"}]
    OBVIOUS
  <2>2. /\ \A i \in 1 .. Len(attestations) :
              attestations[i] \in [tee: Tees, live: BOOLEAN]
        /\ \A i \in 1 .. Len(checks) :
              checks[i] \in [tee: Tees, attestation: 1 .. Len(attestations),
                             answered: BOOLEAN]
    OBVIOUS
  <2>3. tee \in Tees /\ lead \in -1 .. 1 /\ mishaps \in 0 .. MaxMishaps
    BY DEF Tees
  <2>4. /\ run.step \in Steps \cup {"idle"} /\ run.waiting \in BOOLEAN
        /\ run.tee \in 0 .. MaxTees /\ run.fresh \in BOOLEAN
        /\ run.since \in 0 .. Len(attestations)
    OBVIOUS
  <2>5. run.state \in RegistrationStates /\ file \in RegistrationStates
    BY DEF RegistrationStates
  <2>6. versionAllowed \in BOOLEAN /\ governanceSet \in BOOLEAN
    OBVIOUS
  <2> QED
    BY <2>1, <2>2, <2>3, <2>4, <2>5, <2>6 DEF RegistrationTypeOK
<1>2. Shapes
  BY DEF Shapes, Runs, States
<1>3. AwaitsOwn /\ StateHonest(file) /\ StateHonest(run.state) /\ RunFits
        /\ FreshFits
  BY DEF AwaitsOwn, StateHonest, RunFits, FreshFits
<1> QED
  BY <1>1, <1>2, <1>3 DEF RegInv

(* The diamond only adds: a machine stays registered, an attestation its   *)
(* machine's, a check its attestation's.                                   *)
Grows ==
  /\ versionAllowed' \in BOOLEAN /\ governanceSet' \in BOOLEAN
  /\ machine' \in [Tees -> {"none", "registered", "production"}]
  /\ \A t \in Tees : machine[t] # "none" => machine'[t] # "none"
  /\ attestations' \in Seq(Attestations)
  /\ Len(attestations) <= Len(attestations')
  /\ \A i \in 1 .. Len(attestations) :
       attestations'[i].tee = attestations[i].tee
  /\ checks' \in Seq(Checks)
  /\ Len(checks) <= Len(checks')
  /\ \A i \in 1 .. Len(checks) :
       checks'[i].attestation = checks[i].attestation
  /\ \A i \in 1 .. Len(checks') :
       checks'[i].attestation \in 1 .. Len(attestations')

(* The sequences in their plain types.                                     *)
LEMMA Recorded ==
  RegInv =>
    /\ attestations \in Seq(Attestations) /\ Len(attestations) \in Nat
    /\ checks \in Seq(Checks) /\ Len(checks) \in Nat
    /\ \A i \in 1 .. Len(attestations) :
         attestations[i] \in Attestations /\ attestations[i].tee \in Tees
    /\ \A i \in 1 .. Len(checks) :
         checks[i] \in Checks
           /\ checks[i].attestation \in 1 .. Len(attestations)
  BY DEF RegInv, Shapes, Attestations, RegistrationTypeOK, Checks

(* A diamond that stays as it is.                                          *)
LEMMA NothingGrows == RegInv /\ UNCHANGED chainVars => Grows
<1> SUFFICES ASSUME RegInv, UNCHANGED chainVars PROVE Grows
  OBVIOUS
<1>1. /\ versionAllowed \in BOOLEAN /\ governanceSet \in BOOLEAN
      /\ machine \in [Tees -> {"none", "registered", "production"}]
  BY DEF RegInv, RegistrationTypeOK
<1> QED
  BY <1>1, Recorded DEF Grows, chainVars

(* What StateHonest says of a state after the step.                        *)
HonestNext(state) ==
  /\ "R" \in state.done => "r" \in state.done
  /\ "a" \in state.done => "R" \in state.done
  /\ state.done # {} =>
       /\ state.attestation \in 1 .. Len(attestations')
       /\ machine'[attestations'[state.attestation].tee] # "none"
  /\ "a" \in state.done =>
       /\ state.check \in 1 .. Len(checks')
       /\ checks'[state.check].attestation = state.attestation

(* What was honest stays so.                                               *)
LEMMA HonestStays ==
  ASSUME RegInv, Grows, NEW state, StateHonest(state)
  PROVE  HonestNext(state)
<1>1. Len(attestations') \in Nat /\ Len(checks') \in Nat
  BY DEF Grows
<1>2. /\ 1 .. Len(attestations) \subseteq 1 .. Len(attestations')
      /\ 1 .. Len(checks) \subseteq 1 .. Len(checks')
  BY <1>1, Recorded DEF Grows
<1>3. state.done # {} =>
        /\ state.attestation \in 1 .. Len(attestations')
        /\ machine'[attestations'[state.attestation].tee] # "none"
  <2> SUFFICES ASSUME state.done # {}
               PROVE  /\ state.attestation \in 1 .. Len(attestations')
                      /\ machine'[attestations'[state.attestation].tee] # "none"
    OBVIOUS
  <2>1. /\ state.attestation \in 1 .. Len(attestations)
        /\ attestations[state.attestation].tee \in Tees
        /\ machine[attestations[state.attestation].tee] # "none"
    BY Recorded DEF StateHonest
  <2> QED
    BY <1>2, <2>1 DEF Grows
<1>4. "a" \in state.done =>
        /\ state.check \in 1 .. Len(checks')
        /\ checks'[state.check].attestation = state.attestation
  BY <1>2 DEF StateHonest, Grows
<1> QED
  BY <1>3, <1>4 DEF StateHonest, HonestNext

(* What has to be shown of a step.                                         *)
LEMMA StepKeeps ==
  ASSUME RegInv, Grows,
         tee' \in Tees, lead' \in -1 .. 1, mishaps' \in 0 .. MaxMishaps,
         mempool' \in Seq(Txs), run' \in Runs,
         run'.since \in 0 .. Len(attestations'),
         run'.state \in RegistrationStates', file' \in RegistrationStates',
         HonestNext(file'), HonestNext(run'.state),
         AwaitsOwn', RunFits', FreshFits'
  PROVE  RegInv'
<1>1. \A i \in 1 .. Len(attestations') : attestations'[i] \in Attestations
  BY DEF Grows
<1>2. \A i \in 1 .. Len(checks') :
        checks'[i] \in [tee: Tees, attestation: 1 .. Len(attestations'),
                        answered: BOOLEAN]
  <2>1. \A i \in 1 .. Len(checks') : checks'[i] \in Checks
    BY DEF Grows
  <2> QED
    BY <2>1 DEF Grows, Checks
<1>3. /\ run'.step \in Steps \cup {"idle"} /\ run'.waiting \in BOOLEAN
      /\ run'.tee \in 0 .. MaxTees /\ run'.fresh \in BOOLEAN
  BY DEF Runs
<1>4. RegistrationTypeOK'
  BY <1>1, <1>2, <1>3 DEF RegistrationTypeOK, Grows, Attestations
<1>5. Shapes'
  BY DEF Shapes, Grows
<1>6. StateHonest(file)' /\ StateHonest(run.state)'
  BY DEF HonestNext, StateHonest
<1> QED
  BY <1>4, <1>5, <1>6 DEF RegInv

(* States of before are states of after.                                   *)
LEMMA StatesGrow ==
  RegInv /\ Grows =>
    /\ RegistrationStates \subseteq RegistrationStates'
    /\ RegistrationStates \subseteq States
    /\ 0 .. Len(attestations) \subseteq 0 .. Len(attestations')
<1> SUFFICES ASSUME RegInv, Grows
             PROVE  /\ RegistrationStates \subseteq RegistrationStates'
                    /\ RegistrationStates \subseteq States
                    /\ 0 .. Len(attestations) \subseteq 0 .. Len(attestations')
  OBVIOUS
<1>1. Len(attestations') \in Nat /\ Len(checks') \in Nat
  BY DEF Grows
<1>2. /\ 0 .. Len(attestations) \subseteq 0 .. Len(attestations')
      /\ 0 .. Len(checks) \subseteq 0 .. Len(checks')
      /\ 0 .. Len(attestations) \subseteq Nat /\ 0 .. Len(checks) \subseteq Nat
  BY <1>1, Recorded DEF Grows
<1> QED
  BY <1>2 DEF RegistrationStates, States

(* A step that the tool takes no part in.                                  *)
LEMMA OthersKeep ==
  ASSUME RegInv, Grows, UNCHANGED <<run, file>>,
         tee' \in Tees, lead' \in -1 .. 1, mishaps' \in 0 .. MaxMishaps,
         mempool' \in Seq(Txs), AwaitsOwn'
  PROVE  RegInv'
<1>1. /\ run \in Runs /\ run.since \in 0 .. Len(attestations)
      /\ run.state \in RegistrationStates /\ file \in RegistrationStates
  BY DEF RegInv, RegistrationTypeOK, Shapes
<1>2. HonestNext(file) /\ HonestNext(run.state)
  BY HonestStays DEF RegInv
<1>3. RunFits'
  BY DEF RegInv, RunFits
<1>4. FreshFits'
  <2> SUFFICES ASSUME run.fresh, run.step # "r"
               PROVE  attestations'[run.state.attestation].tee
                        = attestations[run.state.attestation].tee
    BY DEF RegInv, FreshFits
  <2>1. run.state.done # {}
    BY DEF RegInv, FreshFits, RunFits
  <2> QED
    BY <2>1 DEF RegInv, StateHonest, Grows
<1> QED
  BY <1>1, <1>2, <1>3, <1>4, StatesGrow, StepKeeps

(* A tool that has ended.                                                  *)
LEMMA IdleKeeps ==
  ASSUME RegInv, Grows, run' = noRun,
         file' \in RegistrationStates', HonestNext(file'),
         tee' \in Tees, lead' \in -1 .. 1, mishaps' \in 0 .. MaxMishaps,
         mempool' \in Seq(Txs)
  PROVE  RegInv'
<1>1. Len(attestations') \in Nat /\ Len(checks') \in Nat
  BY DEF Grows
<1>2. noState \in RegistrationStates' /\ noState \in States
  BY <1>1 DEF RegistrationStates, States, noState
<1>3. run' \in Runs /\ run'.since \in 0 .. Len(attestations')
  BY <1>1, <1>2, RegistrationAssumption DEF Runs, noRun
<1>4. run'.state = noState /\ HonestNext(run'.state)
  BY DEF noRun, noState, HonestNext
<1>5. AwaitsOwn' /\ RunFits' /\ FreshFits'
  BY DEF noRun, AwaitsOwn, RunFits, FreshFits
<1> QED
  BY <1>2, <1>3, <1>4, <1>5, StepKeeps

(* A step that only moves the tool's run, on a diamond that stays as it    *)
(* is.                                                                     *)
LEMMA RunKeeps ==
  ASSUME RegInv, UNCHANGED <<chainVars, lead>>, tee' = tee,
         mishaps' \in 0 .. MaxMishaps, mempool' \in Seq(Txs), run' \in Runs,
         run'.since \in 0 .. Len(attestations),
         run'.state \in {run.state, file, noState},
         file' \in {file, noState},
         AwaitsOwn', RunFits', FreshFits'
  PROVE  RegInv'
<1>1. Grows
  BY NothingGrows
<1>2. noState \in RegistrationStates /\ StateHonest(noState)
  BY Recorded DEF RegistrationStates, noState, StateHonest
<1>3. /\ run.state \in RegistrationStates /\ file \in RegistrationStates
      /\ StateHonest(run.state) /\ StateHonest(file)
      /\ tee \in Tees /\ lead \in -1 .. 1
  BY DEF RegInv, RegistrationTypeOK
<1>4. HonestNext(file') /\ HonestNext(run'.state)
  BY <1>1, <1>2, <1>3, HonestStays
<1>5. /\ run'.state \in RegistrationStates'
      /\ file' \in RegistrationStates'
      /\ run'.since \in 0 .. Len(attestations')
  BY <1>1, <1>2, <1>3, StatesGrow
<1> QED
  BY <1>1, <1>3, <1>4, <1>5, StepKeeps

(* The pool after a transaction is sent.                                   *)
LEMMA PoolGrows ==
  ASSUME RegInv, NEW tx \in Txs, mempool' = Append(mempool, tx)
  PROVE  /\ mempool' \in Seq(Txs)
         /\ mempool' # <<>>
         /\ mempool'[Len(mempool')] = tx
<1>1. mempool \in Seq(Txs)
  BY DEF RegInv, Shapes
<1>2. Len(mempool') = Len(mempool) + 1 /\ Len(mempool) \in Nat
  BY <1>1
<1> QED
  BY <1>1, <1>2

(* What a contract call keeps, sent or refused.                            *)
LEMMA CallKeeps ==
  ASSUME RegInv, NEW step \in Steps \ {"start"}, at(step),
         NEW op \in callOf(step), NEW id \in Nat,
         step = "a" => id = run.state.attestation,
         step \notin run.state.done,
         call(op, id), mishaps' \in 0 .. MaxMishaps
  PROVE  RegInv'
<1> DEFINE tx == [op |-> op, tee |-> run.tee, id |-> id]
<1>1. /\ UNCHANGED <<chainVars, lead>> /\ tee' = tee /\ file' = file
      /\ run.step = step /\ ~run.waiting /\ run \in Runs
      /\ mempool \in Seq(Txs)
      /\ run.since \in 0 .. Len(attestations)
  BY DEF call, at, RegInv, Shapes, RegistrationTypeOK
<1>2. run.tee \in Tees
  BY <1>1 DEF RegInv, RunFits, Steps
<1>3. tx \in Txs
  BY <1>2 DEF Txs, callOf, Steps
<1>4. CASE mempool' = Append(mempool, tx) /\ run' = [run EXCEPT !.waiting = TRUE]
  <2>1. /\ mempool' \in Seq(Txs) /\ mempool' # <<>>
        /\ mempool'[Len(mempool')] = tx
    BY <1>3, <1>4, PoolGrows
  <2>2. /\ run' \in Runs /\ run'.waiting /\ run'.step = step
        /\ run'.tee = run.tee /\ run'.fresh = run.fresh
        /\ run'.since = run.since /\ run'.state = run.state
    BY <1>1, <1>4 DEF Runs
  <2>3. AwaitsOwn'
    BY <2>1, <2>2 DEF AwaitsOwn
  <2>4. RunFits'
    BY <1>1, <2>2 DEF RunFits, RegInv
  <2>5. FreshFits'
    BY <1>1, <2>2 DEF FreshFits, RegInv, chainVars
  <2> QED
    BY <1>1, <2>1, <2>2, <2>3, <2>4, <2>5, RunKeeps
<1>5. CASE run' = noRun /\ mempool' = mempool
  <2>1. Grows
    BY <1>1, NothingGrows
  <2>2. file' \in RegistrationStates' /\ HonestNext(file')
    BY <1>1, <2>1, StatesGrow, HonestStays DEF RegInv, RegistrationTypeOK
  <2>3. tee' \in Tees /\ lead' \in -1 .. 1
    BY <1>1 DEF RegInv, RegistrationTypeOK
  <2> QED
    BY <1>1, <1>5, <2>1, <2>2, <2>3, IdleKeeps
<1> QED
  BY <1>4, <1>5 DEF call

(* A step that sends its transaction.                                      *)
LEMMA SendKeeps ==
  ASSUME RegInv, NEW step \in Steps \ {"start"}, at(step),
         NEW op \in callOf(step), NEW id \in Nat,
         step = "a" => id = run.state.attestation,
         step \notin run.state.done,
         send(op, id)
  PROVE  RegInv'
<1>1. call(op, id) /\ mishaps' \in 0 .. MaxMishaps
  BY DEF send, RegInv, RegistrationTypeOK
<1> QED
  BY <1>1, CallKeeps

(* A tool that ends without a trace: nothing is sent and the file stays.   *)
LEMMA EndKeeps ==
  ASSUME RegInv, UNCHANGED <<chainVars, mempool, tee, file, lead>>,
         run' = noRun, mishaps' \in 0 .. MaxMishaps
  PROVE  RegInv'
<1>1. Grows
  BY NothingGrows
<1>2. file' \in RegistrationStates' /\ HonestNext(file')
  BY <1>1, StatesGrow, HonestStays DEF RegInv, RegistrationTypeOK
<1>3. tee' \in Tees /\ lead' \in -1 .. 1 /\ mempool' \in Seq(Txs)
  BY DEF RegInv, RegistrationTypeOK, Shapes
<1> QED
  BY <1>1, <1>2, <1>3, IdleKeeps

(* A mishap more stays within the bound.                                   *)
LEMMA MishapCounts == RegInv /\ mishap => mishaps' \in 0 .. MaxMishaps
  BY RegistrationAssumption DEF RegInv, RegistrationTypeOK, mishap

(* A step with nothing to do.                                              *)
LEMMA SkipKeeps ==
  ASSUME RegInv, NEW step \in Steps, ~run.waiting, run.step # "idle",
         skip(step),
         step \in {"R", "a", "p"} => "r" \in run.state.done,
         step \in {"a", "p"} => "R" \in run.state.done,
         step = "p" => "a" \in run.state.done,
         run.fresh => step \in {"R", "a", "p"} /\ run.step # "r"
  PROVE  RegInv'
<1>1. run \in Runs /\ run.since \in 0 .. Len(attestations)
  BY DEF RegInv, RegistrationTypeOK, Shapes
<1>2. /\ run' \in Runs /\ ~run'.waiting /\ run'.step = step
      /\ run'.tee = run.tee /\ run'.fresh = run.fresh
      /\ run'.since = run.since /\ run'.state = run.state
  BY <1>1 DEF skip, goTo, Runs
<1>3. AwaitsOwn'
  BY <1>2 DEF AwaitsOwn
<1>4. RunFits'
  BY <1>2 DEF RunFits, RegInv
<1>5. FreshFits'
  BY <1>2 DEF FreshFits, RegInv, skip, chainVars
<1>6. mishaps' \in 0 .. MaxMishaps /\ mempool' \in Seq(Txs)
  BY DEF skip, RegInv, RegistrationTypeOK, Shapes
<1> QED
  BY <1>1, <1>2, <1>3, <1>4, <1>5, <1>6, RunKeeps DEF skip

(* What registrationState may have done.                                   *)
LEMMA DoneSteps ==
  RegInv => /\ run.state.done \subseteq {"r", "R", "a"}
            /\ run.state.attestation \in Nat /\ run.state.check \in Nat
  BY DEF RegInv, Shapes, Runs, States

(* allow-tee-version and set-governance.                                   *)
LEMMA VersionKeeps == RegInv /\ allowTeeVersion => RegInv'
<1> SUFFICES ASSUME RegInv, allowTeeVersion PROVE RegInv'
  OBVIOUS
<1>1. CASE skip("governance")
  BY <1>1, SkipKeeps DEF allowTeeVersion, at, Steps, RegInv, FreshFits
<1>2. CASE send("addTeeVersion", 0)
  BY <1>2, SendKeeps, DoneSteps DEF allowTeeVersion, callOf, Steps
<1> QED
  BY <1>1, <1>2 DEF allowTeeVersion

(* The governance hash is there, or it is sent.                            *)
LEMMA GovernanceKeeps == RegInv /\ SetTeeGovernance => RegInv'
<1> SUFFICES ASSUME RegInv, SetTeeGovernance PROVE RegInv'
  OBVIOUS
<1>1. CASE skip("start")
  BY <1>1, SkipKeeps DEF SetTeeGovernance, at, Steps, RegInv, FreshFits
<1>2. CASE send("setNewTeeGovernance", 0)
  BY <1>2, SendKeeps, DoneSteps DEF SetTeeGovernance, callOf, Steps
<1> QED
  BY <1>1, <1>2 DEF SetTeeGovernance

(* The operator starts the script.                                         *)
LEMMA PostBuildKeeps == RegInv /\ postBuild => RegInv'
<1> SUFFICES ASSUME RegInv, postBuild PROVE RegInv'
  OBVIOUS
<1>1. run \in Runs /\ tee \in Tees /\ tee \in 0 .. MaxTees
  BY RegistrationAssumption DEF RegInv, RegistrationTypeOK, Shapes, Tees
<1>2. run' = [run EXCEPT !.step = "version", !.tee = tee] /\ run = noRun
  BY DEF postBuild
<1>3. /\ run' \in Runs /\ ~run'.waiting /\ run'.step = "version"
      /\ run'.tee = tee /\ ~run'.fresh /\ run'.since = 0
      /\ run'.state = noState
  BY <1>1, <1>2 DEF Runs, noRun, Steps
<1>4. AwaitsOwn' /\ RunFits' /\ FreshFits'
  BY <1>1, <1>3 DEF AwaitsOwn, RunFits, FreshFits
<1>5. /\ 0 \in 0 .. Len(attestations)
      /\ mishaps' \in 0 .. MaxMishaps /\ mempool' \in Seq(Txs)
  BY Recorded DEF postBuild, RegInv, RegistrationTypeOK, Shapes
<1> QED
  BY <1>1, <1>3, <1>4, <1>5, RunKeeps DEF postBuild

(* cmd/register-tee starts: a run that removed the file has no state.      *)
LEMMA StartKeeps == RegInv /\ startRegisterTee => RegInv'
<1> SUFFICES ASSUME RegInv, startRegisterTee PROVE RegInv'
  OBVIOUS
<1>1. run \in Runs /\ tee \in Tees /\ tee \in 0 .. MaxTees
  BY RegistrationAssumption DEF RegInv, RegistrationTypeOK, Shapes, Tees
<1>2. mishaps' \in 0 .. MaxMishaps
  BY MishapCounts DEF startRegisterTee, RegInv, RegistrationTypeOK
<1>3. file' \in {file, noState} /\ file \in States /\ noState \in States
  <2>1. file \in States
    BY Recorded DEF RegInv, RegistrationTypeOK, RegistrationStates, States
  <2>2. noState \in States
    BY DEF noState, States
  <2> QED
    BY <2>1, <2>2 DEF startRegisterTee, stateFileAtStart
<1>4. /\ run' \in Runs /\ ~run'.waiting /\ run'.step = "r"
      /\ run'.tee = tee /\ run'.since = Len(attestations)
      /\ run'.state = file' /\ run'.fresh = (~Resume /\ mishaps' = mishaps)
  BY <1>1, <1>3, Recorded DEF startRegisterTee, at, Runs, Steps
<1>5. run'.fresh => run'.state.done = {}
  <2> SUFFICES ASSUME ~Resume, mishaps' = mishaps PROVE file'.done = {}
    BY <1>4
  <2>1. ~mishap
    BY DEF mishap, RegInv, RegistrationTypeOK
  <2> QED
    BY <2>1 DEF startRegisterTee, stateFileAtStart, noState
<1>6. AwaitsOwn' /\ RunFits' /\ FreshFits'
  BY <1>1, <1>4, <1>5 DEF AwaitsOwn, RunFits, FreshFits
<1>7. /\ Len(attestations) \in 0 .. Len(attestations)
      /\ mempool' \in Seq(Txs)
  BY Recorded DEF startRegisterTee, RegInv, Shapes
<1> QED
  BY <1>1, <1>2, <1>3, <1>4, <1>6, <1>7, RunKeeps DEF startRegisterTee

(* The steps of RegisterNode.                                              *)
LEMMA PreRegistrationKeeps == RegInv /\ PreRegistration => RegInv'
<1> SUFFICES ASSUME RegInv, PreRegistration PROVE RegInv'
  OBVIOUS
<1>1. CASE completed("r") /\ skip("R")
  BY <1>1, SkipKeeps
     DEF PreRegistration, completed, at, Steps, RegInv, FreshFits
<1>2. CASE ~completed("r") /\ send(preRegistrationCall, 0)
  BY <1>2, SendKeeps
     DEF PreRegistration, completed, preRegistrationCall, callOf, Steps
<1> QED
  BY <1>1, <1>2 DEF PreRegistration

(* A fresh challenge, unless -resume has one.                              *)
LEMMA AttestationKeeps == RegInv /\ RequestTeeAttestation => RegInv'
<1> SUFFICES ASSUME RegInv, RequestTeeAttestation PROVE RegInv'
  OBVIOUS
<1>1. CASE completed("R") /\ skip("a")
  BY <1>1, SkipKeeps
     DEF RequestTeeAttestation, completed, at, Steps, RegInv, RunFits
<1>2. CASE ~completed("R") /\ send("requestTeeAttestation", 0)
  BY <1>2, SendKeeps
     DEF RequestTeeAttestation, completed, callOf, Steps
<1> QED
  BY <1>1, <1>2 DEF RequestTeeAttestation

(* The availability check, with the policy in step or not.                 *)
LEMMA CheckKeeps == RegInv /\ RequestFTDCAvailabilityCheck => RegInv'
<1> SUFFICES ASSUME RegInv, RequestFTDCAvailabilityCheck PROVE RegInv'
  OBVIOUS
<1> DEFINE Request == call("requestAvailabilityCheck", run.state.attestation)
<1>1. CASE completed("a") /\ skip("p")
  BY <1>1, SkipKeeps
     DEF RequestFTDCAvailabilityCheck, completed, at, Steps, RegInv, RunFits
<1>2. CASE ~completed("a") /\ Request /\ mishaps' \in 0 .. MaxMishaps
  BY <1>2, CallKeeps, DoneSteps
     DEF RequestFTDCAvailabilityCheck, completed, callOf, Steps
<1>3. CASE /\ mishaps' \in 0 .. MaxMishaps
           /\ run' = noRun
           /\ UNCHANGED <<chainVars, mempool, tee, file, lead>>
  BY <1>3, EndKeeps
<1>4. UNCHANGED mishaps \/ mishap => mishaps' \in 0 .. MaxMishaps
  BY MishapCounts DEF RegInv, RegistrationTypeOK
<1> QED
  BY <1>1, <1>2, <1>3, <1>4 DEF RequestFTDCAvailabilityCheck, send

(* The proof is there and the machine taken to production.                 *)
LEMMA ToProductionKeeps == RegInv /\ ToProduction => RegInv'
  BY SendKeeps, DoneSteps DEF ToProduction, callOf, Steps

(* The tool ends: no proof in time, or a mishap.                           *)
LEMMA PollKeeps == RegInv /\ pollRunsOut => RegInv'
<1> SUFFICES ASSUME RegInv, pollRunsOut PROVE RegInv'
  OBVIOUS
<1>1. mishaps' \in 0 .. MaxMishaps
  BY MishapCounts DEF pollRunsOut, RegInv, RegistrationTypeOK
<1> QED
  BY <1>1, EndKeeps DEF pollRunsOut

(* The tool dies, or a call of its fails.                                  *)
LEMMA StopKeeps == RegInv /\ toolStops => RegInv'
  BY EndKeeps, MishapCounts DEF toolStops

(* One step per action of the tool.                                        *)
LEMMA ToolStepKeeps == RegInv /\ ToolStep => RegInv'
  BY VersionKeeps, GovernanceKeeps, PostBuildKeeps, StartKeeps,
     PreRegistrationKeeps, AttestationKeeps, CheckKeeps, ToProductionKeeps
     DEF ToolStep

(* The pool after a transaction is mined.                                  *)
LEMMA PoolShrinks ==
  ASSUME RegInv, mempool # <<>>, mempool' = Tail(mempool)
  PROVE  /\ Head(mempool) \in Txs /\ Head(mempool) = mempool[1]
         /\ mempool' \in Seq(Txs)
         /\ Len(mempool) \in Nat \ {0}
         /\ Len(mempool) # 1 =>
              mempool' # <<>> /\ mempool'[Len(mempool')] = mempool[Len(mempool)]
<1>1. mempool \in Seq(Txs) /\ Len(mempool) \in Nat \ {0}
  BY DEF RegInv, Shapes
<1>2. /\ Head(mempool) = mempool[1] /\ mempool[1] \in Txs
      /\ mempool' \in Seq(Txs) /\ Len(mempool') = Len(mempool) - 1
      /\ \A i \in 1 .. Len(mempool') : mempool'[i] = mempool[i + 1]
  BY <1>1
<1>3. Len(mempool) # 1 =>
        mempool' # <<>> /\ mempool'[Len(mempool')] = mempool[Len(mempool)]
  <2> SUFFICES ASSUME Len(mempool) # 1
               PROVE  /\ mempool' # <<>>
                      /\ mempool'[Len(mempool')] = mempool[Len(mempool)]
    OBVIOUS
  <2>1. /\ Len(mempool') \in 1 .. Len(mempool')
        /\ Len(mempool') + 1 = Len(mempool)
    BY <1>1, <1>2
  <2>2. mempool'[Len(mempool')] = mempool[Len(mempool') + 1]
    BY <1>2, <2>1
  <2>3. mempool' # <<>>
    BY <2>1
  <2> QED
    BY <2>1, <2>2, <2>3
<1> QED
  BY <1>1, <1>2, <1>3

(* Someone else's transaction leaves the awaited one where it is.          *)
LEMMA AwaitedStays ==
  ASSUME RegInv, mempool # <<>>, mempool' = Tail(mempool), ~isOwn,
         UNCHANGED run
  PROVE  AwaitsOwn'
  BY PoolShrinks DEF isOwn, AwaitsOwn, RegInv

(* What a transaction that the diamond accepts adds to it.                 *)
LEMMA AcceptedGrows ==
  ASSUME RegInv, NEW tx \in Txs, accepts(tx), execute(tx)
  PROVE  /\ Grows
         /\ requestsAttestation(tx) =>
              /\ Len(attestations') = Len(attestations) + 1
              /\ attestations'[Len(attestations')].tee = tx.tee
              /\ machine'[tx.tee] # "none"
         /\ tx.op = "requestAvailabilityCheck" =>
              /\ Len(checks') = Len(checks) + 1
              /\ checks'[Len(checks')].attestation = tx.id
<1>1. /\ machine \in [Tees -> {"none", "registered", "production"}]
      /\ versionAllowed \in BOOLEAN /\ governanceSet \in BOOLEAN
      /\ tx.tee \in Tees /\ tx.id \in Nat
  BY DEF RegInv, RegistrationTypeOK, Txs
<1>2. /\ versionAllowed' \in BOOLEAN /\ governanceSet' \in BOOLEAN
      /\ machine' \in [Tees -> {"none", "registered", "production"}]
      /\ \A t \in Tees : machine[t] # "none" => machine'[t] # "none"
  <2>1. CASE tx.op = "register"
    BY <1>1, <2>1 DEF execute
  <2>2. CASE tx.op = "toProduction"
    BY <1>1, <2>2 DEF execute
  <2>3. CASE tx.op \notin {"register", "toProduction"}
    BY <1>1, <2>3 DEF execute
  <2> QED
    BY <2>1, <2>2, <2>3
<1>3. CASE requestsAttestation(tx)
  <2> DEFINE new == [tee |-> tx.tee, live |-> TRUE]
  <2>1. new \in Attestations
    BY <1>1 DEF Attestations
  <2>2. attestations' = Append(attestations, new) /\ checks' = checks
    BY <1>3 DEF execute, requestsAttestation
  <2>3. /\ attestations' \in Seq(Attestations)
        /\ Len(attestations') = Len(attestations) + 1
        /\ attestations'[Len(attestations')] = new
        /\ \A i \in 1 .. Len(attestations) :
             attestations'[i] = attestations[i]
    BY <2>1, <2>2, Recorded
  <2>4. machine'[tx.tee] # "none"
    BY <1>1, <1>3 DEF requestsAttestation, accepts, execute
  <2>5. \A i \in 1 .. Len(checks') :
          checks'[i].attestation \in 1 .. Len(attestations')
    BY <2>2, <2>3, Recorded
  <2> QED
    BY <1>2, <1>3, <2>2, <2>3, <2>4, <2>5, Recorded
       DEF Grows, requestsAttestation
<1>4. CASE tx.op = "requestAvailabilityCheck"
  <2> DEFINE new == [tee |-> tx.tee, attestation |-> tx.id, answered |-> FALSE]
  <2>1. tx.id \in 1 .. Len(attestations)
    BY <1>4 DEF accepts
  <2>2. new \in Checks
    BY <1>1 DEF Checks
  <2>3. /\ attestations' = [attestations EXCEPT ![tx.id].live = FALSE]
        /\ checks' = Append(checks, new)
    BY <1>4 DEF execute, requestsAttestation
  <2>4. /\ attestations' \in Seq(Attestations)
        /\ Len(attestations') = Len(attestations)
        /\ \A i \in 1 .. Len(attestations) :
             attestations'[i].tee = attestations[i].tee
    <3>1. [attestations[tx.id] EXCEPT !.live = FALSE] \in Attestations
      BY <2>1, Recorded DEF Attestations
    <3> QED
      BY <2>1, <2>3, <3>1, Recorded DEF Attestations
  <2>5. /\ checks' \in Seq(Checks)
        /\ Len(checks') = Len(checks) + 1
        /\ checks'[Len(checks')] = new
        /\ \A i \in 1 .. Len(checks) : checks'[i] = checks[i]
    BY <2>2, <2>3, Recorded
  <2>6. \A i \in 1 .. Len(checks') :
          checks'[i].attestation \in 1 .. Len(attestations')
    <3> SUFFICES ASSUME NEW i \in 1 .. Len(checks')
                 PROVE  checks'[i].attestation \in 1 .. Len(attestations)
      BY <2>4
    <3>1. CASE i = Len(checks')
      BY <2>1, <2>5, <3>1
    <3>2. CASE i # Len(checks')
      <4>1. i \in 1 .. Len(checks)
        BY <2>5, <3>2, Recorded
      <4> QED
        BY <2>5, <4>1, Recorded
    <3> QED
      BY <3>1, <3>2
  <2> QED
    BY <1>2, <1>4, <2>4, <2>5, <2>6, Recorded DEF Grows, requestsAttestation
<1>5. CASE ~requestsAttestation(tx) /\ tx.op # "requestAvailabilityCheck"
  <2>1. attestations' = attestations /\ checks' = checks
    BY <1>5 DEF execute
  <2> QED
    BY <1>2, <1>5, <2>1, Recorded DEF Grows
<1> QED
  BY <1>3, <1>4, <1>5

(* The transaction that is mined is the one the tool waits for.            *)
LEMMA OwnIsMined ==
  ASSUME RegInv, mempool # <<>>, mempool' = Tail(mempool), isOwn
  PROVE  /\ run.step \in Steps \ {"start"}
         /\ run.tee \in Tees
         /\ Head(mempool) \in Txs
         /\ Head(mempool).op \in callOf(run.step)
         /\ Head(mempool).tee = run.tee
         /\ run.step = "a" => Head(mempool).id = run.state.attestation
         /\ run.step \notin run.state.done
<1>1. Len(mempool) = 1 /\ run.waiting
  BY DEF isOwn
<1>2. Head(mempool) \in Txs /\ Head(mempool) = mempool[1]
  BY PoolShrinks
<1> QED
  BY <1>1, <1>2 DEF RegInv, AwaitsOwn, RunFits, Steps

(* What the tool notes after its transaction is true.                      *)
LEMMA StateAfterHonest ==
  ASSUME RegInv, mempool # <<>>, mempool' = Tail(mempool), isOwn,
         accepts(Head(mempool)), execute(Head(mempool))
  PROVE  /\ stateAfter(run.step) \in RegistrationStates'
         /\ stateAfter(run.step) \in States
         /\ HonestNext(stateAfter(run.step))
<1> DEFINE tx == Head(mempool)
           new == stateAfter(run.step)
<1>1. /\ run.step \in Steps \ {"start"} /\ tx \in Txs
      /\ tx.op \in callOf(run.step) /\ tx.tee = run.tee
      /\ run.step = "a" => tx.id = run.state.attestation
      /\ run.step \notin run.state.done
  BY OwnIsMined
<1>2. Grows
  BY <1>1, AcceptedGrows
<1>3. /\ Len(attestations') \in Nat /\ Len(checks') \in Nat
      /\ run.state \in RegistrationStates' /\ run.state \in States
      /\ RegistrationStates' \subseteq States
  <2>1. Len(attestations') \in Nat /\ Len(checks') \in Nat
    BY <1>2 DEF Grows
  <2> QED
    BY <1>2, <2>1, StatesGrow
       DEF RegInv, RegistrationTypeOK, RegistrationStates, States
<1>4. HonestNext(run.state) /\ StateHonest(run.state)
  BY <1>2, HonestStays DEF RegInv
<1>5. CASE run.step \in {"r", "R"}
  <2>1. /\ Len(attestations') = Len(attestations) + 1
        /\ attestations'[Len(attestations')].tee = tx.tee
        /\ machine'[tx.tee] # "none"
    BY <1>1, <1>5, AcceptedGrows DEF callOf, requestsAttestation
  <2>2. new = [run.state EXCEPT !.done = @ \cup {run.step},
                                !.attestation = Len(attestations')]
    BY <1>5 DEF stateAfter
  <2>3. /\ new \in RegistrationStates'
        /\ new.done = run.state.done \cup {run.step}
        /\ new.attestation = Len(attestations')
        /\ new.check = run.state.check
    <3>1. Len(attestations') \in 0 .. Len(attestations')
      BY <1>3
    <3>2. run.state.done \cup {run.step} \in SUBSET {"r", "R", "a"}
      BY <1>3, <1>5 DEF States
    <3> QED
      BY <1>3, <2>2, <3>1, <3>2 DEF RegistrationStates
  <2>4. "a" \notin run.state.done
    BY <1>1, <1>4, <1>5 DEF StateHonest
  <2>5. "R" \in new.done => "r" \in new.done
    BY <1>4, <1>5, <2>3 DEF StateHonest, RegInv, RunFits
  <2>6. new.attestation \in 1 .. Len(attestations')
    BY <2>1, <2>3, <1>3, Recorded
  <2> QED
    BY <1>3, <1>5, <2>1, <2>3, <2>4, <2>5, <2>6 DEF HonestNext
<1>6. CASE run.step = "a"
  <2>1. /\ Len(checks') = Len(checks) + 1
        /\ checks'[Len(checks')].attestation = run.state.attestation
    BY <1>1, <1>6, AcceptedGrows DEF callOf
  <2>2. new = [run.state EXCEPT !.done = @ \cup {"a"}, !.check = Len(checks')]
    BY <1>6 DEF stateAfter
  <2>3. /\ new \in RegistrationStates'
        /\ new.done = run.state.done \cup {"a"}
        /\ new.attestation = run.state.attestation
        /\ new.check = Len(checks')
    <3>1. Len(checks') \in 0 .. Len(checks')
      BY <1>3
    <3>2. run.state.done \cup {"a"} \in SUBSET {"r", "R", "a"}
      BY <1>3 DEF States
    <3> QED
      BY <1>3, <2>2, <3>1, <3>2 DEF RegistrationStates
  <2>4. "R" \in run.state.done /\ "r" \in run.state.done
    BY <1>6 DEF RegInv, RunFits
  <2>5. new.check \in 1 .. Len(checks')
    BY <2>1, <2>3, <1>3, Recorded
  <2> QED
    BY <1>3, <1>4, <2>1, <2>3, <2>4, <2>5 DEF HonestNext
<1>7. CASE run.step \notin {"r", "R", "a"}
  BY <1>3, <1>4, <1>7 DEF stateAfter
<1> QED
  BY <1>5, <1>6, <1>7

(* The tool's own transaction succeeds, and it goes on.                    *)
LEMMA GoOnKeeps ==
  ASSUME RegInv, mempool # <<>>, mempool' = Tail(mempool), isOwn,
         accepts(Head(mempool)), execute(Head(mempool)), goOn,
         UNCHANGED <<tee, lead, mishaps>>
  PROVE  RegInv'
<1> DEFINE tx == Head(mempool)
           new == stateAfter(run.step)
<1>1. /\ run.step \in Steps \ {"start"} /\ run.tee \in Tees /\ tx \in Txs
      /\ tx.op \in callOf(run.step) /\ tx.tee = run.tee
      /\ run.step \notin run.state.done
  BY OwnIsMined
<1>2. Grows
  BY <1>1, AcceptedGrows
<1>3. /\ tee' \in Tees /\ lead' \in -1 .. 1 /\ mishaps' \in 0 .. MaxMishaps
      /\ mempool' \in Seq(Txs)
  BY PoolShrinks DEF RegInv, RegistrationTypeOK
<1>4. CASE run.step = "p"
  <2>1. run' = noRun /\ file' = noState
    BY <1>4 DEF goOn
  <2>2. Len(attestations') \in Nat /\ Len(checks') \in Nat
    BY <1>2 DEF Grows
  <2>3. file' \in RegistrationStates' /\ HonestNext(file')
    BY <2>1, <2>2 DEF noState, RegistrationStates, HonestNext
  <2> QED
    BY <1>2, <1>3, <2>1, <2>3, IdleKeeps
<1>5. CASE run.step # "p"
  <2>1. /\ run' = [run EXCEPT !.step = nextStep(run.step),
                              !.waiting = FALSE, !.state = new]
        /\ file' \in {new, file}
    BY <1>5 DEF goOn, save
  <2>2. /\ new \in RegistrationStates' /\ new \in States /\ HonestNext(new)
    BY StateAfterHonest
  <2>3. /\ run \in Runs /\ run.since \in 0 .. Len(attestations)
        /\ file \in RegistrationStates
    BY DEF RegInv, Shapes, RegistrationTypeOK
  <2>4. run.step \in {"version", "governance", "r", "R", "a"}
    BY <1>1, <1>5 DEF Steps
  <2>5. nextStep(run.step) \in Steps
    BY <2>4 DEF nextStep, Steps
  <2>6. /\ run' \in Runs /\ ~run'.waiting
        /\ run'.step = nextStep(run.step)
        /\ run'.tee = run.tee /\ run'.fresh = run.fresh
        /\ run'.since = run.since /\ run'.state = new
    BY <2>1, <2>2, <2>3, <2>5 DEF Runs
  <2>7. file' \in RegistrationStates' /\ HonestNext(file')
    BY <1>2, <2>1, <2>2, <2>3, StatesGrow, HonestStays DEF RegInv
  <2>8. run'.since \in 0 .. Len(attestations')
    BY <1>2, <2>3, <2>6, StatesGrow
  <2>9. AwaitsOwn'
    BY <2>6 DEF AwaitsOwn
  <2>10. new.done = run.state.done \cup ({run.step} \cap {"r", "R", "a"})
    BY <1>5, <2>3 DEF stateAfter, Runs, States
  <2>11. RunFits'
    BY <1>1, <2>4, <2>6, <2>10 DEF RunFits, RegInv, nextStep
  <2>12. FreshFits'
    <3> SUFFICES ASSUME run.fresh
                 PROVE  /\ nextStep(run.step) \in {"R", "a", "p"}
                        /\ new.attestation > run.since
                        /\ attestations'[new.attestation].tee = run.tee
      BY <2>6 DEF FreshFits
    <3>1. run.step \in {"r", "R", "a"}
      BY <1>5 DEF RegInv, FreshFits
    <3>2. CASE run.step \in {"r", "R"}
      <4>1. new.attestation = Len(attestations')
        BY <2>3, <3>2 DEF stateAfter, Runs, States
      <4>2. /\ Len(attestations') = Len(attestations) + 1
            /\ attestations'[Len(attestations')].tee = tx.tee
        BY <1>1, <3>2, AcceptedGrows DEF callOf, requestsAttestation
      <4> QED
        BY <1>1, <2>3, <3>2, <4>1, <4>2, Recorded DEF nextStep
    <3>3. CASE run.step = "a"
      <4>1. new.attestation = run.state.attestation
        BY <2>3, <3>3 DEF stateAfter, Runs, States
      <4>2. run.state.attestation \in 1 .. Len(attestations)
        BY <3>3 DEF RegInv, RunFits, StateHonest
      <4> QED
        BY <1>2, <3>3, <4>1, <4>2 DEF nextStep, RegInv, FreshFits, Grows
    <3> QED
      BY <3>1, <3>2, <3>3
  <2> QED
    BY <1>2, <1>3, <2>2, <2>6, <2>7, <2>8, <2>9, <2>11, <2>12, StepKeeps
<1> QED
  BY <1>4, <1>5

(* Its own transaction reverts.                                            *)
LEMMA RevertKeeps ==
  ASSUME RegInv, mempool # <<>>, mempool' = Tail(mempool), isOwn,
         UNCHANGED chainVars, goOnReverted, UNCHANGED <<tee, lead, mishaps>>
  PROVE  RegInv'
<1>1. /\ tee' \in Tees /\ lead' \in -1 .. 1 /\ mishaps' \in 0 .. MaxMishaps
      /\ mempool' \in Seq(Txs)
  BY PoolShrinks DEF RegInv, RegistrationTypeOK
<1>2. Grows /\ file' = file
  BY NothingGrows DEF goOnReverted
<1>3. CASE run' = noRun
  BY <1>1, <1>2, <1>3, StatesGrow, HonestStays, IdleKeeps
     DEF RegInv, RegistrationTypeOK
<1>4. CASE run.step = "version" /\ goTo("governance")
  <2>1. run \in Runs /\ run.since \in 0 .. Len(attestations)
    BY DEF RegInv, RegistrationTypeOK, Shapes
  <2>2. /\ run' \in Runs /\ ~run'.waiting /\ run'.step = "governance"
        /\ run'.tee = run.tee /\ run'.fresh = run.fresh
        /\ run'.since = run.since /\ run'.state = run.state
    BY <1>4, <2>1 DEF goTo, Runs, Steps
  <2>3. AwaitsOwn' /\ RunFits' /\ FreshFits'
    BY <1>4, <2>2 DEF AwaitsOwn, RunFits, FreshFits, RegInv
  <2> QED
    BY <1>1, <1>2, <2>1, <2>2, <2>3, RunKeeps
<1> QED
  BY <1>3, <1>4 DEF goOnReverted

(* A transaction is mined.                                                 *)
LEMMA MineKeeps == RegInv /\ mine => RegInv'
<1> SUFFICES ASSUME RegInv, mine PROVE RegInv'
  OBVIOUS
<1> DEFINE tx == Head(mempool)
<1>1. /\ mempool # <<>> /\ mempool' = Tail(mempool)
      /\ UNCHANGED <<tee, lead, mishaps>>
  BY DEF mine
<1>2. tx \in Txs /\ mempool' \in Seq(Txs)
  BY <1>1, PoolShrinks
<1>3. CASE accepts(tx) /\ execute(tx) /\ isOwn /\ goOn
  BY <1>1, <1>3, GoOnKeeps
<1>4. CASE UNCHANGED chainVars /\ isOwn /\ goOnReverted
  BY <1>1, <1>4, RevertKeeps
<1>5. CASE Grows /\ ~isOwn /\ UNCHANGED <<run, file>>
  <2>1. tee' \in Tees /\ lead' \in -1 .. 1 /\ mishaps' \in 0 .. MaxMishaps
    BY <1>1 DEF RegInv, RegistrationTypeOK
  <2>2. AwaitsOwn'
    BY <1>1, <1>5, AwaitedStays
  <2> QED
    BY <1>2, <1>5, <2>1, <2>2, OthersKeep
<1>6. accepts(tx) /\ execute(tx) => Grows
  BY <1>2, AcceptedGrows
<1>7. UNCHANGED chainVars => Grows
  BY NothingGrows
<1> QED
  BY <1>3, <1>4, <1>5, <1>6, <1>7 DEF mine

(* The tool and the pool are left alone.                                   *)
LEMMA BystandersKeep ==
  ASSUME RegInv, Grows, UNCHANGED <<run, file, mempool>>,
         tee' \in Tees, lead' \in -1 .. 1, mishaps' \in 0 .. MaxMishaps
  PROVE  RegInv'
<1>1. mempool' \in Seq(Txs) /\ AwaitsOwn'
  BY DEF RegInv, Shapes, AwaitsOwn
<1> QED
  BY <1>1, OthersKeep

(* A check is answered.                                                    *)
LEMMA AnswerKeeps ==
  ASSUME RegInv, NEW i \in 1 .. Len(checks), answer(i)
  PROVE  RegInv'
<1>1. checks' = [checks EXCEPT ![i].answered = TRUE]
  BY DEF answer
<1>2. [checks[i] EXCEPT !.answered = TRUE] \in Checks
  BY Recorded DEF Checks
<1>3. /\ checks' \in Seq(Checks) /\ Len(checks') = Len(checks)
      /\ \A j \in 1 .. Len(checks) :
           checks'[j].attestation = checks[j].attestation
  BY <1>1, <1>2, Recorded DEF Checks
<1>4. Grows
  BY <1>3, Recorded DEF answer, Grows, RegInv, RegistrationTypeOK
<1> QED
  BY <1>4, BystandersKeep DEF answer, RegInv, RegistrationTypeOK

(* A challenge expires.                                                    *)
LEMMA ExpireKeeps ==
  ASSUME RegInv, NEW i \in 1 .. Len(attestations), expire(i)
  PROVE  RegInv'
<1>1. attestations' = [attestations EXCEPT ![i].live = FALSE]
  BY DEF expire
<1>2. [attestations[i] EXCEPT !.live = FALSE] \in Attestations
  BY Recorded DEF Attestations
<1>3. /\ attestations' \in Seq(Attestations)
      /\ Len(attestations') = Len(attestations)
      /\ \A j \in 1 .. Len(attestations) :
           attestations'[j].tee = attestations[j].tee
  BY <1>1, <1>2, Recorded DEF Attestations
<1>4. Grows
  BY <1>3, Recorded DEF expire, Grows, RegInv, RegistrationTypeOK
<1> QED
  BY <1>4, BystandersKeep, MishapCounts DEF expire, RegInv, RegistrationTypeOK

(* The container restarts with another key.                                *)
LEMMA RestartKeeps == RegInv /\ teeRestarts => RegInv'
<1> SUFFICES ASSUME RegInv, teeRestarts PROVE RegInv'
  OBVIOUS
<1>1. tee' \in Tees
  BY RegistrationAssumption DEF teeRestarts, RegInv, RegistrationTypeOK, Tees
<1>2. Grows
  BY NothingGrows DEF teeRestarts
<1> QED
  BY <1>1, <1>2, BystandersKeep, MishapCounts
     DEF teeRestarts, RegInv, RegistrationTypeOK

(* The proxy's policy and the chain's epoch move.                          *)
LEMMA LeadKeeps ==
  ASSUME RegInv, NEW value \in -1 .. 1, setLead(value),
         mishap \/ UNCHANGED mishaps
  PROVE  RegInv'
<1>1. Grows
  BY NothingGrows DEF setLead
<1>2. mishaps' \in 0 .. MaxMishaps
  BY MishapCounts DEF RegInv, RegistrationTypeOK
<1> QED
  BY <1>1, <1>2, BystandersKeep DEF setLead, RegInv, RegistrationTypeOK

(* One case per action.                                                    *)
LEMMA RegInvStep == RegInv /\ [RegistrationNext]_vars => RegInv'
<1> SUFFICES ASSUME RegInv, [RegistrationNext]_vars PROVE RegInv'
  OBVIOUS
<1>1. CASE ToolStep
  BY <1>1, ToolStepKeeps
<1>2. CASE pollRunsOut
  BY <1>2, PollKeeps
<1>3. CASE mine
  BY <1>3, MineKeeps
<1>4. CASE \E i \in 1 .. Len(checks) : answer(i)
  BY <1>4, AnswerKeeps
<1>5. CASE toolStops
  BY <1>5, StopKeeps
<1>6. CASE \E i \in 1 .. Len(attestations) : expire(i)
  BY <1>6, ExpireKeeps
<1>7. CASE teeRestarts
  BY <1>7, RestartKeeps
<1>8. CASE policyInitialized \/ epochStarts \/ proxyFallsBehind
             \/ proxyCatchesUp
  BY <1>8, LeadKeeps
     DEF policyInitialized, epochStarts, proxyFallsBehind, proxyCatchesUp
<1>9. CASE UNCHANGED vars
  <2>1. Grows
    BY <1>9, NothingGrows DEF vars
  <2> QED
    BY <1>9, <2>1, BystandersKeep DEF vars, RegInv, RegistrationTypeOK
<1> QED
  BY <1>1, <1>2, <1>3, <1>4, <1>5, <1>6, <1>7, <1>8, <1>9
     DEF RegistrationNext

(* RegInv is an invariant.                                                 *)
LEMMA RegInvHolds == RegistrationSpec => []RegInv
  BY RegInvInit, RegInvStep, PTL DEF RegistrationSpec

(* However often the script is run again, whatever is given up and mined   *)
(* later: the state file and the tool refer to attestations and checks     *)
(* that the diamond has, and each check to an attestation.                 *)
THEOREM RegistrationTypeCorrect == RegistrationSpec => []RegistrationTypeOK
<1>1. RegInv => RegistrationTypeOK
  BY DEF RegInv
<1> QED
  BY <1>1, RegInvHolds, PTL

(* The state file never claims more than the chain has seen, wherever the  *)
(* tool was stopped and whatever was mined after it: the machine of its    *)
(* attestation is registered, and its check was requested with exactly     *)
(* that attestation (registration.go 26, 90-95).                           *)
THEOREM FileStaysHonest == RegistrationSpec => []FileIsHonest
<1>1. RegInv => FileIsHonest
  BY DEF RegInv, StateHonest, FileIsHonest
<1> QED
  BY <1>1, RegInvHolds, PTL

(* A run that removed the state file asks for the availability check with  *)
(* a challenge requested since it started, for the TEE it registers,       *)
(* however the TEE restarts and whatever an earlier run's transactions do  *)
(* in between (register-tee/main.go 27-32).                                *)
THEOREM ChallengesAreOwn == RegistrationSpec => []ChallengeIsOwn
<1>1. RegInv => ChallengeIsOwn
  BY DEF RegInv, FreshFits, ChallengeIsOwn
<1> QED
  BY <1>1, RegInvHolds, PTL
=============================================================================
