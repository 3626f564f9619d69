-------------------------- MODULE LifecycleProofs ---------------------------
(* Theorems about Lifecycle, for any set of calls and any chain of processes.*)
EXTENDS Lifecycle, TLAPS

(* What main and the watcher have done by the place where they stand. *)
Places ==
    /\ quit => watcher \in {"stopping", "stopped"}
    /\ served <=> main \in ServeStages
    /\ accepting => served
    /\ Busy # {} => Up /\ served
    /\ main = "letgo" => quit \/ broken
    /\ main \in {"failing", "exiting"} => broken
    /\ main = "drain" => quit

(* GracefulStop has returned: nothing runs and nothing will begin. *)
Emptied == watcher = "stopped" => /\ quit /\ ~accepting
                                  /\ Busy = {}

IInv == TypeOK /\ Places /\ Emptied /\ OrderlyStop /\ StopIsNoFailure

(* A boot step leads to the next boot stage. *)
LEMMA BootGoesOn ==
    ASSUME NEW stage \in DOMAIN BootOrder
    PROVE  stage \in BootStages /\ BootOrder[stage] \in BootStages
  <1>1. DOMAIN BootOrder = {"config", "tune", "engine", "transcriber", "listen"}
    BY DEF BootOrder
  <1>2. /\ BootOrder["config"] = "tune" /\ BootOrder["tune"] = "engine"
        /\ BootOrder["engine"] = "transcriber"
        /\ BootOrder["transcriber"] = "listen" /\ BootOrder["listen"] = "register"
    BY DEF BootOrder
  <1>3. BootStages = {"config", "tune", "engine", "transcriber", "listen", "register"}
    BY <1>1 DEF BootStages
  <1> QED
    BY <1>1, <1>2, <1>3

(* Serve begins after the last boot stage. *)
LEMMA ServeIsNoBootStage ==
    /\ "serve" \notin BootStages \cup ServeStages
    /\ BootStages \cap ServeStages = {}
    /\ "config" \in BootStages /\ "register" \in BootStages
  <1>1. DOMAIN BootOrder = {"config", "tune", "engine", "transcriber", "listen"}
    BY DEF BootOrder
  <1> QED
    BY <1>1 DEF BootStages, ServeStages

(* The end of a process keeps the invariant when an exit 0 meets no call and *)
(* an exit 1 behind Serve has a broken listener to tell of.                  *)
LEMMA EndKeeps ==
    ASSUME IInv, NEW how \in {"exit0", "exit1", "killed"}, End(how),
           how = "exit0" => Busy = {},
           (how = "exit1" /\ served) => broken
    PROVE  IInv'
  <1>1. TypeOK'
    BY DEF IInv, TypeOK, End, Busy
  <1>2. Places'
    BY DEF IInv, Places, End, Busy, Up
  <1>3. Emptied'
    BY DEF IInv, Emptied, End, Busy
  <1>4. OrderlyStop' /\ StopIsNoFailure'
    BY DEF IInv, Places, OrderlyStop, StopIsNoFailure, End
  <1> QED
    BY <1>1, <1>2, <1>3, <1>4 DEF IInv

(* Accept's error, for whatever reason: it is known whether the listener     *)
(* broke or a stop has begun.                                                *)
LEMMA AcceptEndsKeeps ==
    ASSUME IInv, Up, AcceptEnds, broken' \in BOOLEAN, broken => broken', quit \/ broken'
    PROVE  IInv'
  <1>1. main \notin BootStages /\ main' \notin BootStages
    BY ServeIsNoBootStage DEF AcceptEnds, ServeStages
  <1> QED
    BY <1>1
    DEF IInv, AcceptEnds, ServeStages, Up, TypeOK, Places, Emptied, Busy, OrderlyStop,
        StopIsNoFailure

(* A step of the main goroutine. *)
LEMMA MainKeeps ==
    ASSUME IInv, Up, MainStep
    PROVE  IInv'
  <1> USE DEF IInv
  <1>1. CASE BootStep
    <2>1. main' \in BootStages /\ main \in BootStages
      BY <1>1, BootGoesOn DEF BootStep
    <2> QED
      BY <1>1, <2>1, ServeIsNoBootStage
      DEF BootStep, ServeStages, Up, TypeOK, Places, Emptied, Busy, OrderlyStop, StopIsNoFailure
  <1>2. CASE Register
    <2>1. watcher = "none"
      BY <1>2, ServeIsNoBootStage DEF Register, ServeStages, Up, TypeOK
    <2> QED
      BY <1>2, <2>1, ServeIsNoBootStage
      DEF Register, ServeStages, Up, TypeOK, Places, Emptied, Busy, OrderlyStop, StopIsNoFailure
  <1>3. CASE Serve
    <2>1. CASE quit
      BY <1>3, <2>1, ServeIsNoBootStage, EndKeeps DEF Serve, Places
    <2>2. CASE ~quit
      <3>1. main \notin BootStages /\ main' \notin BootStages
        BY <1>3, <2>2, ServeIsNoBootStage DEF Serve, ServeStages
      <3> QED
        BY <1>3, <2>2, <3>1, ServeIsNoBootStage
        DEF Serve, ServeStages, Up, TypeOK, Places, Emptied, Busy, OrderlyStop, StopIsNoFailure
    <2> QED
      BY <2>1, <2>2
  <1>4. CASE ListenerClosed
    BY <1>4, AcceptEndsKeeps DEF ListenerClosed, AcceptEnds, TypeOK
  <1>5. CASE ServeChooses
    <2>1. main \notin BootStages /\ main' \notin BootStages
      BY <1>5, ServeIsNoBootStage DEF ServeChooses, ServeStages
    <2> QED
      BY <1>5, <2>1
      DEF ServeChooses, QuitSeen, ServeStages, Up, TypeOK, Places, Emptied, Busy,
          OrderlyStop, StopIsNoFailure
  <1>6. CASE ServeFails
    <2>1. main \notin BootStages /\ main' \notin BootStages
      BY <1>6, ServeIsNoBootStage DEF ServeFails, ServeStages
    <2> QED
      BY <1>6, <2>1
      DEF ServeFails, ServeStages, Up, TypeOK, Places, Emptied, Busy, OrderlyStop,
          StopIsNoFailure
  <1>7. CASE ExitWithError
    BY <1>7, EndKeeps DEF ExitWithError, Places
  <1>8. CASE ServeReturns
    BY <1>8, EndKeeps DEF ServeReturns, Emptied
  <1> QED
    BY <1>1, <1>2, <1>3, <1>4, <1>5, <1>6, <1>7, <1>8 DEF MainStep

(* A step of the signal goroutine, or of GracefulStop in it. *)
LEMMA WatcherKeeps ==
    ASSUME IInv, Up, WatcherStep
    PROVE  IInv'
  <1> USE DEF IInv, Up, TypeOK, Places, Emptied, Busy, OrderlyStop, StopIsNoFailure
  <1>1. CASE Notify
    BY <1>1 DEF Notify
  <1>2. CASE Stop
    BY <1>2 DEF Stop
  <1>3. CASE GoAway
    BY <1>3 DEF GoAway
  <1>4. CASE Stopped
    BY <1>4 DEF Stopped, CallsEnded
  <1> QED
    BY <1>1, <1>2, <1>3, <1>4 DEF WatcherStep

(* A step of a call: none begins once GracefulStop has returned. *)
LEMMA CallKeeps ==
    ASSUME IInv, Up, NEW c \in Calls,
           Begin(c) \/ Watch(c) \/ AskGemini(c) \/ EndCall(c)
    PROVE  IInv'
  <1> USE DEF IInv, Up
  <1>1. call' \in [Calls -> {"none", "running"} \cup Unbounded]
    BY DEF TypeOK, Unbounded, Begin, Watch, AskGemini, EndCall
  <1>2. UNCHANGED <<status, main, watcher, signalled, quit, accepting, served, broken, cut>>
    BY DEF Begin, Watch, AskGemini, EndCall
  <1>3. accepting \/ call[c] # "none"
    BY DEF Begin, Watch, AskGemini, EndCall
  <1>4. watcher # "stopped" /\ served
    BY <1>3 DEF Emptied, Places, Busy
  <1>5. TypeOK' /\ Places' /\ OrderlyStop' /\ StopIsNoFailure'
    BY <1>1, <1>2, <1>4 DEF TypeOK, Places, OrderlyStop, StopIsNoFailure
  <1> QED
    BY <1>2, <1>4, <1>5 DEF Emptied

(* IInv is inductive. *)
LEMMA StepKeeps ==
    ASSUME IInv, [Next]_vars
    PROVE  IInv'
  <1>1. CASE UNCHANGED vars
    BY <1>1 DEF vars, IInv, TypeOK, Places, Emptied, Busy, Up, OrderlyStop, StopIsNoFailure
  <1>2. CASE Restart
    BY <1>2, ServeIsNoBootStage
    DEF Restart, ServeStages, Up, IInv, TypeOK, Places, Emptied, Busy, OrderlyStop, StopIsNoFailure
  <1>3. CASE Running
    <2>1. CASE MainStep
      BY <1>3, <2>1, MainKeeps DEF Running
    <2>2. CASE WatcherStep
      BY <1>3, <2>2, WatcherKeeps DEF Running
    <2>3. CASE BootFails
      <3>1. watcher = "none"
        BY <2>3, BootGoesOn DEF BootFails, IInv, TypeOK
      <3>2. ~served
        BY <2>3, BootGoesOn, ServeIsNoBootStage DEF BootFails, IInv, Places
      <3> QED
        BY <2>3, <3>2, EndKeeps DEF BootFails
    <2>4. CASE Signal
      <3>1. CASE watcher \in {"none", "started"}
        BY <2>4, <3>1, EndKeeps DEF Signal
      <3>2. CASE watcher \notin {"none", "started"}
        BY <2>4, <3>2
        DEF Signal, Up, IInv, TypeOK, Places, Emptied, Busy, OrderlyStop, StopIsNoFailure
      <3> QED
        BY <3>1, <3>2
    <2>5. CASE ListenerFails
      BY <1>3, <2>5, AcceptEndsKeeps DEF ListenerFails, Running
    <2>6. CASE Crash
      BY <2>6, EndKeeps DEF Crash
    <2>7. CASE \E c \in Calls : Begin(c) \/ Watch(c) \/ AskGemini(c) \/ EndCall(c)
      BY <1>3, <2>7, CallKeeps DEF Running
    <2> QED
      BY <1>3, <2>1, <2>2, <2>3, <2>4, <2>5, <2>6, <2>7 DEF Running
  <1> QED
    BY <1>1, <1>2, <1>3 DEF Next

(* The inductive invariant holds in every reachable state of main.go's       *)
(* process and of those that follow it.                                      *)
THEOREM Invariance == Spec => []IInv
  <1>1. Init => IInv
    BY ServeIsNoBootStage
    DEF Init, ServeStages, Up, Busy, IInv, TypeOK, Places, Emptied, OrderlyStop, StopIsNoFailure
  <1>2. IInv /\ [Next]_vars => IInv'
    BY StepKeeps
  <1> QED
    BY <1>1, <1>2, PTL DEF Spec

(* The variables of main.go's process keep their types; in particular the    *)
(* signal goroutine exists exactly from the registration on.                 *)
THEOREM TypeCorrect == Spec => []TypeOK
  <1>1. IInv => TypeOK
    BY DEF IInv
  <1> QED
    BY <1>1, Invariance, PTL

(* A process that ends itself cuts no call off unless its listener broke:    *)
(* main returns from Serve only after GracefulStop has seen the last call    *)
(* out, and fails before the first call or for the listener.                 *)
THEOREM Orderly == Spec => []OrderlyStop
  <1>1. IInv => OrderlyStop
    BY DEF IInv
  <1> QED
    BY <1>1, Invariance, PTL

(* A process that has served exits 1 only because Accept failed before a     *)
(* stop began, wherever main stands in Serve and behind it when the signal   *)
(* comes: the error GracefulStop causes is no failure.                       *)
THEOREM NoFailure == Spec => []StopIsNoFailure
  <1>1. IInv => StopIsNoFailure
    BY DEF IInv
  <1> QED
    BY <1>1, Invariance, PTL

=============================================================================
