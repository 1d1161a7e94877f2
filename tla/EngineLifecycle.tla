---------------------------- MODULE EngineLifecycle ----------------------------
(***************************************************************************)
(* The engine's state machine, the start and stop it invokes (doStart and  *)
(* doStop of EngineLifecycle) and RadioBridge, which stops the engine when *)
(* the radio is lost and starts it again when the radio returns.           *)
(*                                                                         *)
(* The state machine forgets a start it leaves by FORCE_STOP, but the      *)
(* start itself goes on: it is a call of its own here, beside the stop and *)
(* a later start.  Call 0 is the stop, the others are the starts in their  *)
(* order.  Each action is what runs between two awaits; Due steps follow   *)
(* an await that has nothing to wait for.                                  *)
(*                                                                         *)
(* The audio sidecar attempts to open its streams behind the start that    *)
(* began it, tries again, and recovers lost streams; while it is in use an *)
(* attempt may be in flight at any point, and no stop waits for it.        *)
(* The radio's state machine is reduced to the states the engine sees; the *)
(* plan of resources never changes, and the power controller, which marks  *)
(* a disconnect as intended, is left out.                                  *)
(***************************************************************************)
EXTENDS ResourceManager

CONSTANTS
  MaxStarts,  \* bound on the starts
  MaxLosses,  \* bound on the losses of the connection
  Forced      \* the starts that clients may stop before they end

Starts == 1..MaxStarts

ASSUME CallsAssumption == MaxStarts \in Nat /\ Calls = {0} \union Starts

VARIABLES
  machine,     \* the state of the engine's state machine
  given,       \* starts given so far
  isRunning,
  scope,       \* requestedStopScope
  listening,   \* the listeners of the clock and of the pipeline are set up
  audio,       \* the audio sidecar: idle ("off"), in use by the engine ("on"), being
               \* stopped ("closing"), or left an attempt that no start of the engine
               \* asks for: one that outlived its stop, or a client's ("astray")
  radio,       \* the state of the radio's connection
  losses,
  wasRunning,  \* wasRunningBeforeDisconnect
  restoring,   \* handleRadioConnected calls before restoreRunningStateIfNeeded
  dropping,    \* handleRadioReconnecting is forcing PTT off
  crossed      \* a start has been left by FORCE_STOP

engineVars == <<machine, given, isRunning, scope, listening, audio, crossed>>
bridgeVars == <<wasRunning, restoring, dropping>>
vars == <<managerVars, run, engineVars, bridgeVars, radio, losses>>

Init ==
  /\ ManagerInit
  /\ machine = "idle" /\ given = 0 /\ isRunning = FALSE /\ scope = "full"
  /\ listening = FALSE /\ audio = "off"
  /\ radio = "disconnected" /\ losses = 0
  /\ wasRunning = FALSE /\ restoring = 0 /\ dropping = FALSE
  /\ crossed = FALSE

-----------------------------------------------------------------------------
(* The state machine and its two calls. *)

\* isConnected() is true until a disconnect has closed the connection.
Connected == radio \in {"connected", "closing"}

\* What follows without waiting for anything.
Due(c) == run[c].at \in {"setup", "next", "started", "undo", "undone"}

Quiet == \A c \in Calls : ~Due(c)

\* START in the idle state; applyConfig connects unless there is a connection.
Begin ==
  /\ given < MaxStarts
  /\ machine' = "starting" /\ given' = given + 1
  /\ run' = [run EXCEPT ![given + 1] =
               [Idle EXCEPT !.at = IF Connected THEN "setup" ELSE "config",
                            !.had = Connected]]
  /\ radio' = IF Connected THEN radio ELSE "connecting"
  /\ UNCHANGED <<isRunning, scope, listening, audio, crossed>>

Start ==
  /\ Quiet /\ machine = "idle"
  /\ Begin
  /\ UNCHANGED <<managerVars, bridgeVars, losses>>

\* The state machine listens to the start it is in.
Heard(n) == machine = "starting" /\ n = given

Setup(n) ==
  /\ run[n].at = "setup"
  /\ listening' = TRUE
  /\ StartAll(n)
  /\ UNCHANGED <<machine, given, isRunning, scope, audio, crossed, bridgeVars, radio, losses>>

ConfigDone(n) ==
  /\ Quiet /\ run[n].at = "config" /\ radio = "connected"
  /\ Goes(n, "setup")
  /\ UNCHANGED <<managerVars, engineVars, bridgeVars, radio, losses>>

\* Mutant: the state machine does not hear of a failed start.
FailEndsUnheard(n) ==
  /\ Ends(n)
  /\ listening' = FALSE
  /\ UNCHANGED <<machine, given, isRunning, scope, audio, crossed>>

\* The end of doStart's catch block.
FailEnds(n) ==
  /\ Ends(n)
  /\ listening' = FALSE
  /\ machine' = IF Heard(n) THEN "idle" ELSE machine
  /\ UNCHANGED <<given, isRunning, scope, audio, crossed>>

\* A connection the start has made is closed again.
Fail(n) ==
  IF ~run[n].had /\ Connected
  THEN Goes(n, "closing") /\ radio' = "closing" /\ UNCHANGED engineVars
  ELSE FailEnds(n) /\ UNCHANGED radio

\* The radio cannot be connected, or not within the limit: in CW mode the start goes on.
ConfigFails(n) ==
  /\ Quiet /\ run[n].at = "config" /\ ~Connected
  /\ \/ Goes(n, "setup") /\ UNCHANGED <<engineVars, radio>>
     \/ Fail(n)
  /\ UNCHANGED <<managerVars, bridgeVars, losses>>

RolledBack(n) ==
  /\ run[n].at = "undone"
  /\ Fail(n)
  /\ UNCHANGED <<managerVars, bridgeVars, losses>>

Started(n) ==
  /\ run[n].at = "started"
  /\ Ends(n)
  /\ isRunning' = TRUE
  /\ audio' = IF audio = "closing" THEN audio ELSE "on"
  /\ machine' = IF Heard(n) THEN "running" ELSE machine
  /\ UNCHANGED <<managerVars, given, scope, listening, crossed, bridgeVars, radio, losses>>

\* STOP, FORCE_STOP and RADIO_DISCONNECTED enter doStop up to its first await.
BeginStop(s) ==
  /\ machine' = "stopping" /\ scope' = s
  /\ run' = [run EXCEPT ![0] = [Idle EXCEPT !.at = "sidecar"]]
  /\ audio' \in CASE audio = "on"     -> {"closing"}
                 [] audio = "astray" -> {"closing", "astray"}  \* its status may be IDLE
                 [] OTHER            -> {audio}
  /\ crossed' = (crossed \/ machine = "starting")
  /\ UNCHANGED <<given, isRunning, listening>>

Stop(s) ==
  /\ Quiet
  /\ \/ /\ machine = "idle" /\ s = "full" /\ radio = "connected"
        /\ radio' = "closing"
        /\ UNCHANGED <<run, engineVars>>
     \/ /\ machine = "stopping" /\ s = "full" /\ scope # s
        /\ scope' = s
        /\ UNCHANGED <<run, radio, machine, given, isRunning, listening, audio, crossed>>
     \/ /\ machine = "running" \/ (machine = "starting" /\ given \in Forced)
        /\ BeginStop(s)
        /\ UNCHANGED radio
  /\ UNCHANGED <<managerVars, bridgeVars, losses>>

\* The end of the sidecar's stop, which neither awaits nor invalidates an attempt in
\* flight: it goes on to connect the streams, or to retry, once the stop is over.
SidecarLeaves == IF audio = "closing" THEN {"off", "astray"} ELSE {audio}

SidecarStopped ==
  /\ Quiet /\ run[0].at = "sidecar"
  /\ audio' \in SidecarLeaves
  /\ listening' = FALSE
  /\ Goes(0, "interrupt")
  /\ UNCHANGED <<managerVars, machine, given, isRunning, scope, crossed, bridgeVars, radio, losses>>

\* forceInterrupt has given up the transmitter.
Interrupted ==
  /\ Quiet /\ run[0].at = "interrupt"
  /\ StopAll(0)
  /\ UNCHANGED <<managerVars, engineVars, bridgeVars, radio, losses>>

StopDone ==
  /\ Ends(0)
  /\ machine' = "idle" /\ isRunning' = FALSE /\ scope' = "full"
  /\ UNCHANGED <<given, listening, audio, crossed>>

ResourcesStopped ==
  /\ run[0].at = "undone"
  /\ IF scope = "full" /\ Connected
     THEN Goes(0, "closing") /\ radio' = "closing" /\ UNCHANGED engineVars
     ELSE StopDone /\ UNCHANGED radio
  /\ UNCHANGED <<managerVars, bridgeVars, losses>>

Closed(c) ==
  /\ Quiet /\ run[c].at = "closing" /\ radio # "closing"
  /\ IF c = 0 THEN StopDone ELSE FailEnds(c)
  /\ UNCHANGED <<managerVars, bridgeVars, radio, losses>>

\* A client asks the idle sidecar to try again.
RetryNow ==
  /\ Quiet /\ audio = "off"
  /\ audio' = "astray"
  /\ UNCHANGED <<managerVars, run, machine, given, isRunning, scope, listening, crossed,
                 bridgeVars, radio, losses>>

-----------------------------------------------------------------------------
(* The radio and its bridge. *)

\* sendRadioDisconnected
SendDisconnected ==
  IF machine = "running" THEN BeginStop("full") ELSE UNCHANGED <<run, engineVars>>

\* handleRadioDisconnected: no lease is held, so nothing is awaited.
OnDisconnected ==
  /\ IF isRunning THEN SendDisconnected ELSE UNCHANGED <<run, engineVars>>
  /\ wasRunning' = FALSE
  /\ UNCHANGED <<restoring, dropping>>

RadioConnects ==
  /\ Quiet /\ radio \in {"connecting", "reconnecting"}
  /\ radio' = "connected"
  /\ restoring' = restoring + 1
  /\ UNCHANGED <<managerVars, run, engineVars, wasRunning, dropping, losses>>

\* A connection attempt fails, the last reconnection fails, a disconnect ends.
RadioDisconnects ==
  /\ Quiet /\ radio \in {"connecting", "reconnecting", "closing"}
  /\ radio' = "disconnected"
  /\ OnDisconnected
  /\ UNCHANGED <<managerVars, losses>>

\* CONNECTION_LOST: handleRadioReconnecting(1) remembers that the engine ran
\* and stops it, at once or after forcing PTT off.
RadioLost ==
  /\ Quiet /\ radio = "connected" /\ losses < MaxLosses
  /\ radio' = "reconnecting" /\ losses' = losses + 1
  /\ wasRunning' = (wasRunning \/ isRunning)
  /\ \/ /\ IF isRunning THEN SendDisconnected ELSE UNCHANGED <<run, engineVars>>
        /\ UNCHANGED dropping
     \/ /\ isRunning /\ dropping' = TRUE
        /\ UNCHANGED <<run, engineVars>>
  /\ UNCHANGED <<managerVars, restoring>>

PTTForcedOff ==
  /\ Quiet /\ dropping
  /\ dropping' = FALSE
  /\ IF isRunning THEN SendDisconnected ELSE UNCHANGED <<run, engineVars>>
  /\ UNCHANGED <<managerVars, wasRunning, restoring, radio, losses>>

\* Mutant: the engine is started whatever its state machine does.
RestoreAtOnce ==
  /\ Quiet /\ restoring > 0
  /\ restoring' = restoring - 1
  /\ \/ UNCHANGED <<run, engineVars, radio, wasRunning>>
     \/ /\ wasRunning' = FALSE
        /\ IF wasRunning /\ given < MaxStarts
           THEN Begin
           ELSE UNCHANGED <<run, engineVars, radio>>
  /\ UNCHANGED <<managerVars, dropping, losses>>

\* The end of handleRadioConnected; an unknown lease keeps the engine stopped.
Restore ==
  /\ Quiet /\ restoring > 0
  /\ restoring' = restoring - 1
  /\ \/ UNCHANGED <<run, engineVars, radio, wasRunning>>
     \/ /\ wasRunning' = FALSE
        /\ IF wasRunning /\ ~isRunning /\ machine = "idle" /\ given < MaxStarts
           THEN Begin
           ELSE UNCHANGED <<run, engineVars, radio>>
  /\ UNCHANGED <<managerVars, dropping, losses>>

-----------------------------------------------------------------------------
(* All steps. *)

Manager(A) == A /\ UNCHANGED <<engineVars, bridgeVars, radio, losses>>

Urgent ==
  \/ \E c \in Calls : Manager(Examine(c) \/ Unwind(c))
  \/ \E n \in Starts : Setup(n) \/ RolledBack(n) \/ Started(n)
  \/ ResourcesStopped

\* What ends by itself.
Progress ==
  \/ Urgent
  \/ \E c \in Calls : (Quiet /\ Manager(Awaited(c))) \/ Closed(c)
  \/ \E n \in Starts : ConfigDone(n) \/ ConfigFails(n)
  \/ SidecarStopped \/ Interrupted
  \/ (radio = "closing" /\ RadioDisconnects)

Next ==
  \/ Progress
  \/ Start
  \/ \E s \in {"full", "mode-runtime"} : Stop(s)
  \/ (Quiet /\ Manager(LateEnds))
  \/ RetryNow
  \/ RadioConnects \/ RadioDisconnects \/ RadioLost \/ PTTForcedOff \/ Restore

Spec == Init /\ [][Next]_vars

FairSpec == Spec /\ WF_vars(Progress)
=============================================================================
