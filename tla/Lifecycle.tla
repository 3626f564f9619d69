----------------------------- MODULE Lifecycle ------------------------------
(* The process of cmd/audio-service/main.go: boot, serve, signals, graceful  *)
(* stop, exits and crashes.  Of a call only whether the process bounds it is *)
(* kept: not the Gemini request of a TranscribeSegment, and not a Watch of   *)
(* the health service, a stream that ends when its client ends it.           *)
EXTENDS Naturals, FiniteSets

CONSTANT Calls    \* RPC handler goroutines

VARIABLES
    status,       \* "up", or how the process ended
    main,         \* where the main goroutine stands
    watcher,      \* the goroutine that waits for a signal
    signalled,    \* a signal is in the channel sig
    quit,         \* GracefulStop has begun
    accepting,    \* calls still begin, on connections not yet drained
    served,       \* Serve has accepted connections
    broken,       \* Accept has failed without anybody stopping it (history)
    call,         \* each call: "none", "running", or in one of Unbounded
    cut           \* calls the end of the process cut off

vars == <<status, main, watcher, signalled, quit, accepting, served, broken, call, cut>>

Up == status = "up"
Unbounded == {"gemini", "watch"}
Busy == {c \in Calls : call[c] # "none"}

(* What main does next when a boot step succeeds. *)
BootOrder == [config |-> "tune", tune |-> "engine", engine |-> "transcriber",
              transcriber |-> "listen", listen |-> "register"]
BootStages == DOMAIN BootOrder \cup {"register"}

(* main in and behind Serve: accepting connections; with an error of Accept  *)
(* in hand; waiting for GracefulStop, to return nil; on the way out with the *)
(* error; with the error back in main, which logs it and exits.              *)
ServeStages == {"serving", "letgo", "drain", "failing", "exiting"}

Init ==
    /\ status = "up" /\ main = "config" /\ watcher = "none"
    /\ signalled = FALSE /\ quit = FALSE
    /\ accepting = FALSE /\ served = FALSE /\ broken = FALSE
    /\ call = [c \in Calls |-> "none"]
    /\ cut = {}

-----------------------------------------------------------------------------

(* The process is gone, and its goroutines with it: calls that still run do  *)
(* not get to their deferred functions.                                      *)
End(how) ==
    /\ status' = how
    /\ cut' = Busy
    /\ call' = [c \in Calls |-> "none"]
    /\ accepting' = FALSE
    /\ UNCHANGED <<main, watcher, signalled, quit, served, broken>>

BootStep ==
    /\ main \in DOMAIN BootOrder
    /\ main' = BootOrder[main]
    /\ UNCHANGED <<status, watcher, signalled, quit, accepting, served, broken, call, cut>>

(* log.Fatalf or os.Exit(1): bad environment, a missing binary, a client     *)
(* that cannot be built, an address in use.  Tuning the runtime never fails  *)
(* the boot.                                                                 *)
BootFails == main \in DOMAIN BootOrder \ {"tune"} /\ End("exit1")

(* mutant of Register: the go statement is missing *)
RegisterAlone ==
    /\ main = "register"
    /\ main' = "serve"
    /\ UNCHANGED <<status, watcher, signalled, quit, accepting, served, broken, call, cut>>

(* Services registered; the signal goroutine starts. *)
Register ==
    /\ main = "register"
    /\ main' = "serve"
    /\ watcher' = "started"
    /\ UNCHANGED <<status, signalled, quit, accepting, served, broken, call, cut>>

Notify ==
    /\ watcher = "started"
    /\ watcher' = "waiting"
    /\ UNCHANGED <<status, main, signalled, quit, accepting, served, broken, call, cut>>

(* SIGINT or SIGTERM.  Before Notify it ends the process; later it waits in  *)
(* the channel, which has room for one and has one reader, once.             *)
Signal ==
    IF watcher \in {"none", "started"} THEN End("killed")
    ELSE /\ signalled' = TRUE
         /\ UNCHANGED <<status, main, watcher, quit, accepting, served, broken, call, cut>>

(* mutant of Stop: the signal is logged and nothing else *)
StopForgotten ==
    /\ watcher = "waiting" /\ signalled
    /\ signalled' = FALSE
    /\ watcher' = "stopping"
    /\ UNCHANGED <<status, main, quit, accepting, served, broken, call, cut>>

(* The goroutine receives the signal and calls GracefulStop, which closes    *)
(* the listeners ...                                                         *)
Stop ==
    /\ watcher = "waiting" /\ signalled
    /\ signalled' = FALSE
    /\ watcher' = "stopping"
    /\ quit' = TRUE
    /\ UNCHANGED <<status, main, accepting, served, broken, call, cut>>

(* ... waits until Serve is on its way out and tells open connections to go  *)
(* away ...                                                                  *)
GoAway ==
    /\ quit /\ accepting
    /\ main \notin {"serving", "letgo"}
    /\ accepting' = FALSE
    /\ UNCHANGED <<status, main, watcher, signalled, quit, served, broken, call, cut>>

StopAtOnce == TRUE              \* mutant of CallsEnded: srv.Stop()
CallsEnded == Busy = {}

(* ... and returns when the calls have ended. *)
Stopped ==
    /\ watcher = "stopping" /\ quit
    /\ ~accepting
    /\ CallsEnded
    /\ watcher' = "stopped"
    /\ UNCHANGED <<status, main, signalled, quit, accepting, served, broken, call, cut>>

(* Serve after GracefulStop returns ErrServerStopped, which main takes for   *)
(* a failure.                                                                *)
Serve ==
    /\ main = "serve"
    /\ IF quit THEN End("exit1")
       ELSE /\ main' = "serving"
            /\ accepting' = TRUE
            /\ served' = TRUE
            /\ UNCHANGED <<status, watcher, signalled, quit, broken, call, cut>>

(* Accept returns an error that is not temporary: of itself, or because      *)
(* GracefulStop has closed the listener.                                     *)
AcceptEnds ==
    /\ main = "serving"
    /\ main' = "letgo"
    /\ UNCHANGED <<status, watcher, signalled, quit, accepting, served, call, cut>>

ListenerFails == ~quit /\ AcceptEnds /\ broken' = TRUE
ListenerClosed == quit /\ AcceptEnds /\ UNCHANGED broken

QuitUnseen == FALSE             \* mutant of QuitSeen: any error of Accept is one
QuitSeen == quit

(* Serve asks whether GracefulStop has begun and chooses nil or the error;   *)
(* the listener is let go, and GracefulStop need not wait for Serve.         *)
ServeChooses ==
    /\ main = "letgo"
    /\ main' = IF QuitSeen THEN "drain" ELSE "failing"
    /\ UNCHANGED <<status, watcher, signalled, quit, accepting, served, broken, call, cut>>

(* Serve's deferred function asks again, and waits for a GracefulStop that   *)
(* has begun; the error chosen stays what it was.                            *)
ServeFails ==
    /\ main = "failing"
    /\ quit => watcher = "stopped"
    /\ main' = "exiting"
    /\ UNCHANGED <<status, watcher, signalled, quit, accepting, served, broken, call, cut>>

(* main logs the error; os.Exit cuts off the calls that run, and a           *)
(* GracefulStop that has begun since.                                        *)
ExitWithError == main = "exiting" /\ End("exit1")

(* Serve returns nil once GracefulStop is done, and so does main. *)
ServeReturns == main = "drain" /\ watcher = "stopped" /\ End("exit0")

(* A call begins, may reach the Gemini request (TranscribeSegment), ends.    *)
Begin(c) ==
    /\ accepting /\ call[c] = "none"
    /\ call' = [call EXCEPT ![c] = "running"]
    /\ UNCHANGED <<status, main, watcher, signalled, quit, accepting, served, broken, cut>>

(* A client watches the health service. *)
Watch(c) ==
    /\ accepting /\ call[c] = "none"
    /\ call' = [call EXCEPT ![c] = "watch"]
    /\ UNCHANGED <<status, main, watcher, signalled, quit, accepting, served, broken, cut>>

AskGemini(c) ==
    /\ call[c] = "running"
    /\ call' = [call EXCEPT ![c] = "gemini"]
    /\ UNCHANGED <<status, main, watcher, signalled, quit, accepting, served, broken, cut>>

EndCall(c) ==
    /\ call[c] # "none"
    /\ call' = [call EXCEPT ![c] = "none"]
    /\ UNCHANGED <<status, main, watcher, signalled, quit, accepting, served, broken, cut>>

(* SIGKILL, an out-of-memory kill or a panic. *)
Crash == End("killed")

(* The orchestrator starts the next process. *)
Restart ==
    /\ ~Up
    /\ status' = "up" /\ main' = "config" /\ watcher' = "none"
    /\ signalled' = FALSE /\ quit' = FALSE
    /\ accepting' = FALSE /\ served' = FALSE /\ broken' = FALSE
    /\ cut' = {}
    /\ UNCHANGED <<call>>

-----------------------------------------------------------------------------

MainStep ==
    \/ BootStep \/ Register \/ Serve
    \/ ListenerClosed \/ ServeChooses \/ ServeFails \/ ExitWithError \/ ServeReturns
WatcherStep == Notify \/ Stop \/ GoAway \/ Stopped

Running ==
    /\ Up
    /\ \/ MainStep \/ WatcherStep
       \/ BootFails \/ Signal \/ ListenerFails \/ Crash
       \/ \E c \in Calls : Begin(c) \/ Watch(c) \/ AskGemini(c) \/ EndCall(c)

Next == Running \/ Restart

Spec == Init /\ [][Next]_vars

(* Goroutines keep running, a listener that was closed fails Accept, and     *)
(* what the engine does ends, bounded by its timeouts (EngineCallsEnd of     *)
(* AudioService).  Nothing in the process ends a Gemini request or a Watch,  *)
(* and no listener need ever fail of itself.                                 *)
FairSpec ==
    /\ Spec
    /\ WF_vars(Up /\ MainStep)
    /\ WF_vars(Up /\ WatcherStep)
    /\ \A c \in Calls : WF_vars(Up /\ call[c] \notin Unbounded /\ EndCall(c))

-----------------------------------------------------------------------------

TypeOK ==
    /\ status \in {"up", "exit0", "exit1", "killed"}
    /\ main \in BootStages \cup {"serve"} \cup ServeStages
    /\ watcher \in {"none", "started", "waiting", "stopping", "stopped"}
    /\ watcher = "none" <=> main \in BootStages
    /\ signalled \in BOOLEAN /\ quit \in BOOLEAN
    /\ accepting \in BOOLEAN /\ served \in BOOLEAN /\ broken \in BOOLEAN
    /\ call \in [Calls -> {"none", "running"} \cup Unbounded]
    /\ cut \subseteq Calls

(* A process that ends itself cuts no call off unless its listener broke:    *)
(* whatever the signal met - a boot that still ran, calls in flight, calls   *)
(* that still began on open connections, a second signal, Serve on its way   *)
(* out - main exits 0 only after GracefulStop has seen the last call out,    *)
(* and exits 1 only before the first, or for the listener (main.go).         *)
OrderlyStop ==
    (status = "exit0" \/ (status = "exit1" /\ ~broken)) => cut = {}

(* A process that has served fails only because its listener broke: the      *)
(* error GracefulStop gives Accept is never taken for a failure, whenever    *)
(* the signal comes between Accept's error and os.Exit (main.go).  Before    *)
(* Serve has begun, ErrServerStopped makes a stop exit 1.                    *)
StopIsNoFailure == (status = "exit1" /\ served) => broken

(* A signal the process has noticed ends it, whatever calls it meets and     *)
(* however often it comes, unless from some time on there is always a Gemini *)
(* request or a health Watch, which GracefulStop waits for.                  *)
SignalEnds ==
    []<>(\A c \in Calls : call[c] \notin Unbounded) =>
        ((Up /\ signalled /\ watcher = "waiting") ~> ~Up)

=============================================================================
