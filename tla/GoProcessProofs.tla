---------------------------- MODULE GoProcessProofs ----------------------------
(***************************************************************************)
(* Proofs about GoProcess for any number of requests and whichever of the  *)
(* commands are used.                                                      *)
(***************************************************************************)
EXTENDS GoProcess, TLAPS

(* An error is in the channel only once the server has failed.             *)
ErrorsAreReal == errors => server = "failed"

(* Each command's main goroutine is at its own places.                     *)
PlacesFit ==
  /\ main \in {"sleep", "select"} => entry # "cmd"
  /\ main \in {"setOwner", "setProxyURL"} => entry = "start-tee"

(* Before its servers main has started nothing: no server has failed, and  *)
(* nobody waits for a signal.                                              *)
EarlyIsQuiet ==
  main \in {"start", "setOwner"} => server = "new" /\ shutdown = "none"

(* The inductive invariant.                                                *)
PInv == ProcessTypeOK /\ StopIsNoFailure /\ ErrorsAreReal /\ PlacesFit
        /\ EarlyIsQuiet

LEMMA PInvInit == ProcessInit => PInv
  BY ProcessAssumption
  DEF ProcessInit, PInv, ProcessTypeOK, StopIsNoFailure, ErrorsAreReal,
      PlacesFit, EarlyIsQuiet

LEMMA PInvStep == PInv /\ [ProcessNext]_processVars => PInv'
<1> SUFFICES ASSUME PInv, [ProcessNext]_processVars
             PROVE  PInv'
  OBVIOUS
<1> USE DEF PInv, ProcessTypeOK, StopIsNoFailure, ErrorsAreReal, PlacesFit,
            EarlyIsQuiet, running
<1>1. CASE start
  <2> USE <1>1 DEF start, goTo
  <2>1. notified' \in BOOLEAN /\ (entry = "start-tee" => notified')
    BY DEF notifiesFirst
  <2>2. errors' = errors
    OBVIOUS
  <2>3. shutdown' \in {"none", "wait"} /\ server' \in {"new", "starting"}
    OBVIOUS
  <2>4. signals # "taken" /\ ~errors
    OBVIOUS
  <2>5. main' = CASE entry = "cmd" -> "serve"
                  [] entry = "docker" -> "sleep"
                  [] OTHER -> "setOwner"
    OBVIOUS
  <2>6. CASE entry = "cmd"
    BY <2>1, <2>2, <2>3, <2>4, <2>5, <2>6
  <2>7. CASE entry = "docker"
    BY <2>1, <2>2, <2>3, <2>4, <2>5, <2>7
  <2>8. CASE entry = "start-tee"
    BY <2>1, <2>2, <2>3, <2>4, <2>5, <2>8
  <2> QED
    BY <2>6, <2>7, <2>8, ProcessAssumption
<1>17. CASE setOwnerAddress
  <2>1. CASE goTo("sleep") /\ server' = "starting"
               /\ UNCHANGED <<notified, signals, errors, shutdown>>
    BY <1>17, <2>1 DEF setOwnerAddress, goTo
  <2>2. CASE exit("failure") /\ UNCHANGED <<main, shutdown>>
    BY <1>17, <2>2 DEF setOwnerAddress, exit
  <2> QED
    BY <1>17, <2>1, <2>2 DEF setOwnerAddress
<1>2. CASE listenCmd
  BY <1>2 DEF listenCmd
<1>3. CASE serveReturns
  BY <1>3 DEF serveReturns, exit, isFailure
<1>4. CASE sleepOver
  BY <1>4 DEF sleepOver, goTo
<1>5. CASE errorTaken
  BY <1>5 DEF errorTaken, exit, seesErrors
<1>6. CASE noErrorYet
  BY <1>6, ProcessAssumption DEF noErrorYet, goTo
<1>7. CASE setProxyURL
  <2>1. CASE goTo("wait") /\ UNCHANGED <<notified, signals, server, errors,
                                        shutdown>>
    BY <1>7, <2>1 DEF setProxyURL, goTo
  <2>2. CASE exit("failure") /\ UNCHANGED <<main, shutdown>>
    BY <1>7, <2>2 DEF setProxyURL, exit
  <2> QED
    BY <1>7, <2>1, <2>2 DEF setProxyURL
<1>8. CASE signalTaken
  BY <1>8 DEF signalTaken, exit, waitsForSignal
<1>9. CASE shutdownCalled
  BY <1>9 DEF shutdownCalled
<1>10. CASE shutdownTimeout
  BY <1>10 DEF shutdownTimeout
<1>11. CASE shutdownEnds
  BY <1>11 DEF shutdownEnds, exit
<1>12. CASE StartExtension
  <2>1. CASE server' = "listening" /\ UNCHANGED errors
    BY <1>12, <2>1 DEF StartExtension
  <2>2. CASE server' = "failed" /\ errors' = TRUE
    BY <1>12, <2>2 DEF StartExtension
  <2> QED
    BY <1>12, <2>1, <2>2 DEF StartExtension
<1>13. CASE acceptFails
  BY <1>13 DEF acceptFails
<1>14. CASE signal
  BY <1>14 DEF signal, exit
<1>15. ASSUME NEW r \in Requests, accept(r) \/ answer(r)
       PROVE  PInv'
  BY <1>15 DEF accept, answer
<1>16. CASE UNCHANGED processVars
  BY <1>16 DEF processVars
<1> QED
  BY <1>1, <1>2, <1>3, <1>4, <1>5, <1>6, <1>7, <1>8, <1>9, <1>10, <1>11,
     <1>12, <1>13, <1>14, <1>15, <1>16, <1>17
  DEF ProcessNext, MainStep, ShutdownStep

(* The types, with which places and signals go together: a signal was      *)
(* taken exactly when the shutdown has begun, and start-tee listens for    *)
(* signals from its first step on.                                         *)
THEOREM ProcessTypeCorrect == ProcessSpec => []ProcessTypeOK
<1>1. PInv => ProcessTypeOK
  BY DEF PInv
<1> QED
  BY PInvInit, PInvStep, <1>1, PTL DEF ProcessSpec

(* Whatever the order in which Shutdown, ListenAndServe and the timeout    *)
(* come back, and whenever a signal or an error arrives: cmd and           *)
(* cmd/docker end with a failure only when their server has failed.        *)
THEOREM StopsAreNoFailures == ProcessSpec => []StopIsNoFailure
<1>1. PInv => StopIsNoFailure
  BY DEF PInv
<1> QED
  BY PInvInit, PInvStep, <1>1, PTL DEF ProcessSpec
=============================================================================
