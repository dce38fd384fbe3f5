------------------------------- MODULE GoProcess -------------------------------
(***************************************************************************)
(* The processes that serve the Go extension: cmd (on its own), cmd/docker *)
(* (with the TEE node) and cmd/start-tee (the same on a host, which also   *)
(* tells the node its proxy).  Start, the goroutine of the HTTP server,    *)
(* signals, and the requests that are in flight when the process ends.     *)
(* The node's own goroutine in the latter two is left out: it is a library *)
(* that may refuse the POST of start-tee, or never answer it.              *)
(***************************************************************************)
CONSTANTS
  Entries,   \* a subset of {"cmd", "docker", "start-tee"}
  Requests   \* requests sent to the extension's port

ASSUME ProcessAssumption == Entries \subseteq {"cmd", "docker", "start-tee"}

VARIABLES
  entry,     \* the command that was started
  main,      \* where its main goroutine is
  notified,  \* signal.Notify has been called
  signals,   \* the signal is: none, in the channel, or taken out of it
  server,    \* the http.Server
  errors,    \* an error is in the channel of StartExtension
  shutdown,  \* the goroutine of cmd that waits for a signal
  request,   \* request -> new, inFlight, answered or lost
  process    \* running, or how it ended

processVars == <<entry, main, notified, signals, server, errors, shutdown,
                 request, process>>

ProcessInit ==
  /\ entry \in Entries
  /\ main = "start"
  /\ notified = FALSE
  /\ signals = "none"
  /\ server = "new"
  /\ errors = FALSE
  /\ shutdown = "none"
  /\ request = [r \in Requests |-> "new"]
  /\ process = "running"

running == process = "running"

(* The process ends, and every goroutine with it.                          *)
exit(how) ==
  /\ process' = how
  /\ request' = [r \in Requests |-> IF request[r] = "inFlight" THEN "lost"
                                                               ELSE request[r]]
  /\ UNCHANGED <<entry, notified, signals, server, errors>>

goTo(label) == main' = label /\ UNCHANGED <<entry, process, request>>

notifiesFirst == entry # "docker"

(* cmd and start-tee ask for signals first; cmd starts a goroutine that    *)
(* waits for one, cmd/docker those of the servers.                         *)
start ==
  /\ running /\ main = "start"
  /\ notified' = notifiesFirst
  /\ shutdown' = IF entry = "cmd" THEN "wait" ELSE "none"
  /\ server' = IF entry = "docker" THEN "starting" ELSE "new"
  /\ goTo(CASE entry = "cmd" -> "serve"
            [] entry = "docker" -> "sleep"
            [] OTHER -> "setOwner")
  /\ UNCHANGED <<signals, errors>>

(* start-tee derives the node's owner from DEPLOYMENT_PRIVATE_KEY, which   *)
(* may be no key; then it starts the goroutines of the servers.            *)
setOwnerAddress ==
  /\ running /\ main = "setOwner"
  /\ \/ /\ server' = "starting"
        /\ goTo("sleep")
        /\ UNCHANGED <<notified, signals, errors, shutdown>>
     \/ exit("failure") /\ UNCHANGED <<main, shutdown>>

(* ListenAndServe of cmd, in its main goroutine.                           *)
listenCmd ==
  /\ running /\ main = "serve" /\ server = "new"
  /\ server' \in {"listening", "failed"}
  /\ UNCHANGED <<entry, main, notified, signals, errors, shutdown, request,
                 process>>

(* ListenAndServe of the goroutine of StartExtension.                      *)
StartExtension ==
  /\ running /\ server = "starting"
  /\ \/ server' = "listening" /\ UNCHANGED errors
     \/ server' = "failed" /\ errors' = TRUE
  /\ UNCHANGED <<entry, main, notified, signals, shutdown, request, process>>

(* The listener breaks later on.                                           *)
acceptFails ==
  /\ running /\ server = "listening"
  /\ server' = "failed"
  /\ errors' = (entry # "cmd")
  /\ UNCHANGED <<entry, main, notified, signals, shutdown, request, process>>

(* Mutant: http.ErrServerClosed is an error like any other.                *)
isFailureAny == server \in {"failed", "closed"}

isFailure == server = "failed"

(* ListenAndServe returns: at once when Shutdown has been called.  main    *)
(* returns after it, or says it is fatal.                                  *)
serveReturns ==
  /\ running /\ main = "serve"
  /\ server \in {"failed", "closed"}
  /\ exit(IF isFailure THEN "failure" ELSE "success")
  /\ UNCHANGED <<main, shutdown>>

(* Shutdown closes the listener and waits for the requests in flight.      *)
shutdownCalled ==
  /\ running /\ shutdown = "wait" /\ signals = "queued"
  /\ signals' = "taken"
  /\ shutdown' = "draining"
  /\ server' = IF server = "failed" THEN server ELSE "closed"
  /\ UNCHANGED <<entry, main, notified, errors, request, process>>

(* config.TimeoutShutdown passes with requests in flight.                  *)
shutdownTimeout ==
  /\ running /\ shutdown = "draining"
  /\ \E r \in Requests : request[r] = "inFlight"
  /\ shutdown' = "timedOut"
  /\ UNCHANGED <<entry, main, notified, signals, server, errors, request,
                 process>>

shutdownEnds ==
  /\ running
  /\ \/ shutdown = "timedOut"
     \/ shutdown = "draining" /\ \A r \in Requests : request[r] # "inFlight"
  /\ exit("success")
  /\ UNCHANGED <<main, shutdown>>

(* Mutant: the error channel is not looked at again.                       *)
seesErrorsFirst == errors /\ main = "select"

(* Where a command takes an error out of the channel: after the first 100  *)
(* milliseconds, and cmd/docker for as long as it runs.                    *)
seesErrors ==
  /\ errors
  /\ \/ main = "select"
     \/ main = "wait" /\ entry = "docker"

sleepOver ==
  /\ running /\ main = "sleep"
  /\ goTo("select")
  /\ UNCHANGED <<notified, signals, server, errors, shutdown>>

errorTaken ==
  /\ running /\ seesErrors
  /\ exit("failure")
  /\ UNCHANGED <<main, shutdown>>

(* The default of the first select: cmd/docker asks for signals now,       *)
(* start-tee sets the proxy URL first, which may fail.                     *)
noErrorYet ==
  /\ running /\ main = "select" /\ ~errors
  /\ notified' = TRUE
  /\ goTo(IF entry = "docker" THEN "wait" ELSE "setProxyURL")
  /\ UNCHANGED <<signals, server, errors, shutdown>>

(* http.Post on the default client, which has no timeout: it returns when  *)
(* the node answers, with an error or a status, if it ever does.           *)
setProxyURL ==
  /\ running /\ main = "setProxyURL"
  /\ \/ /\ goTo("wait")
        /\ UNCHANGED <<notified, signals, server, errors, shutdown>>
     \/ exit("failure") /\ UNCHANGED <<main, shutdown>>

(* Mutant: cmd/docker waits for its error channel only.                    *)
waitsForErrors == main = "wait" /\ entry # "docker"

waitsForSignal == main = "wait"

signalTaken ==
  /\ running /\ waitsForSignal /\ signals = "queued"
  /\ exit("success")
  /\ UNCHANGED <<main, shutdown>>

(* A signal goes to the channel, which holds one; nobody listening yet, it *)
(* ends the process.                                                       *)
signal ==
  /\ running /\ signals = "none"
  /\ IF notified
       THEN /\ signals' = "queued"
            /\ UNCHANGED <<entry, main, notified, server, errors, shutdown,
                           request, process>>
       ELSE exit("killed") /\ UNCHANGED <<main, shutdown>>

accept(r) ==
  /\ running /\ server = "listening" /\ request[r] = "new"
  /\ request' = [request EXCEPT ![r] = "inFlight"]
  /\ UNCHANGED <<entry, main, notified, signals, server, errors, shutdown,
                 process>>

answer(r) ==
  /\ running /\ request[r] = "inFlight"
  /\ request' = [request EXCEPT ![r] = "answered"]
  /\ UNCHANGED <<entry, main, notified, signals, server, errors, shutdown,
                 process>>

MainStep ==
  \/ start
  \/ setOwnerAddress
  \/ listenCmd
  \/ serveReturns
  \/ sleepOver
  \/ errorTaken
  \/ noErrorYet
  \/ signalTaken

ShutdownStep == shutdownCalled \/ shutdownTimeout \/ shutdownEnds

ProcessNext ==
  \/ MainStep
  \/ setProxyURL
  \/ ShutdownStep
  \/ StartExtension
  \/ acceptFails
  \/ signal
  \/ \E r \in Requests : accept(r) \/ answer(r)

ProcessSpec == ProcessInit /\ [][ProcessNext]_processVars

(* Goroutines are scheduled and timers fire.  A request need not end, and  *)
(* the node need not answer the POST of start-tee.                         *)
FairProcessSpec ==
  /\ ProcessSpec
  /\ WF_processVars(MainStep)
  /\ WF_processVars(ShutdownStep)
  /\ WF_processVars(StartExtension)
-----------------------------------------------------------------------------
ProcessTypeOK ==
  /\ entry \in Entries
  /\ main \in {"start", "serve", "setOwner", "sleep", "select", "setProxyURL",
              "wait"}
  /\ notified \in BOOLEAN /\ errors \in BOOLEAN
  /\ signals \in {"none", "queued", "taken"}
  /\ server \in {"new", "starting", "listening", "failed", "closed"}
  /\ shutdown \in {"none", "wait", "draining", "timedOut"}
  /\ request \in [Requests -> {"new", "inFlight", "answered", "lost"}]
  /\ process \in {"running", "success", "failure", "killed"}
  /\ signals = "taken" <=> shutdown \in {"draining", "timedOut"}
  /\ entry = "start-tee" /\ main # "start" => notified

(* A process that was only told to stop does not report a failure, in      *)
(* whatever order Shutdown and ListenAndServe return (cmd/main.go 27-35);  *)
(* only start-tee may, for the owner's key or the proxy URL.               *)
StopIsNoFailure ==
  process = "failure" /\ entry # "start-tee" => server = "failed"

(* start-tee took over the signal and waits for its node for ever.         *)
nodeNeverAnswers == [](running /\ main = "setProxyURL")

(* A signal ends the process: before anybody asked for it, while the       *)
(* servers start, and with requests that do not end.  Only start-tee may   *)
(* keep a signal it never looks at, inside a POST nobody answers           *)
(* (start-tee/main.go 52, 64, 119).                                        *)
SignalStops == signals = "queued" ~> (~running \/ nodeNeverAnswers)

(* docker/main.go 46-53: when the extension's server fails, early or late, *)
(* the container stops and can be restarted; cmd alike.  start-tee looks   *)
(* only once.                                                              *)
FailureStops == server = "failed" /\ entry # "start-tee" ~> ~running
=============================================================================
