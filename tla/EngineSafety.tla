----------------------------- MODULE EngineSafety -----------------------------
(***************************************************************************)
(* What the states of the engine's state machine promise about the         *)
(* resources behind it, and the inductive invariant that shows it.         *)
(*                                                                         *)
(* Once FORCE_STOP has left a start (crossed), calls run beside each other *)
(* and only the shape of the state is kept.                                *)
(***************************************************************************)
EXTENDS EngineLifecycle

StartAts == {"config", "setup", "next", "starting", "started", "undo", "stopping",
             "undone", "closing"}

StopAts == {"sidecar", "interrupt", "undo", "stopping", "undone", "closing"}

Call == [at : {"out"} \union StartAts \union StopAts,
         i : Nat, list : Seq(Resources), had : BOOLEAN]

ManagerOK ==
  /\ state \in [Resources -> {"idle", "starting", "running", "stopping", "stopped", "error"}]
  /\ up \subseteq Resources /\ slipped \subseteq Resources
  /\ started \in Seq(Resources)
  /\ late \subseteq slipped \X BOOLEAN
  /\ slips \in Nat

CallsOK ==
  /\ run \in [Calls -> Call]
  /\ \A n \in Starts : run[n].at \in {"out"} \union StartAts
  /\ run[0].at \in {"out"} \union StopAts
  /\ \A c \in Calls :
       /\ run[c].at = "next" => run[c].i \in 1..Len(Plan) + 1
       /\ run[c].at = "starting" => run[c].i \in 1..Len(Plan)
       /\ run[c].at = "undo" => run[c].i \in 0..Len(run[c].list)
       /\ run[c].at = "stopping" => run[c].i \in 1..Len(run[c].list)

EngineOK ==
  /\ machine \in {"idle", "starting", "running", "stopping"}
  /\ given \in 0..MaxStarts
  /\ isRunning \in BOOLEAN /\ listening \in BOOLEAN /\ crossed \in BOOLEAN
  /\ scope \in {"full", "mode-runtime"}
  /\ audio \in {"off", "on", "closing", "astray"}

BridgeOK ==
  /\ radio \in {"disconnected", "connecting", "connected", "reconnecting", "closing"}
  /\ losses \in Nat
  /\ wasRunning \in BOOLEAN /\ restoring \in Nat /\ dropping \in BOOLEAN

TypeOK == ManagerOK /\ CallsOK /\ EngineOK /\ BridgeOK

-----------------------------------------------------------------------------
(* The promises. *)

\* A resource is up only on top of what it depends on, at every point of
\* starting, rolling back and stopping.
NeedsAreUp ==
  ~crossed => \A r \in up \ slipped : Needs[r] \subseteq up \union slipped

\* Running means that everything the plan requires is up and listened to.
RunningMeansUp ==
  (~crossed /\ machine = "running") =>
     /\ isRunning /\ listening /\ audio = "on"
     /\ Resources \ Optional \subseteq up \union slipped

\* No start of the engine holds the sidecar: what a start turned on is stopped.
Unheld == audio \in {"off", "astray"}

Down == ~isRunning /\ ~listening /\ Unheld /\ up \subseteq slipped

\* Idle means that whatever was started is down again.
IdleMeansDown == (~crossed /\ machine = "idle") => Down

\* The same of an engine that may have been stopped while it started, once all
\* that was under way has ended.
StoppedMeansDown == (machine = "idle" /\ \A c \in Calls : run[c].at = "out") => Down

\* Every start and every stop comes to an end.
Settles == (machine \in {"starting", "stopping"}) ~> (machine \in {"idle", "running"})

-----------------------------------------------------------------------------
(* The inductive invariant. *)

\* The state machine knows the one call that is under way.
OneCall ==
  \A c \in Calls :
    run[c].at # "out" =>
      \/ machine = "starting" /\ c = given /\ c \in Starts
      \/ machine = "stopping" /\ c = 0

SomeCall ==
  /\ machine = "starting" => given \in Starts /\ run[given].at # "out"
  /\ machine = "stopping" => run[0].at # "out"

\* The place of a resource in the plan.
Pos(r) == CHOOSE i \in DOMAIN Plan : Plan[i] = r

InOrder(s) == \A j, k \in DOMAIN s : j < k => Pos(s[j]) < Pos(s[k])

Listed(s, n) == {s[j] : j \in 1..n}

Firm == up \ slipped

\* The list knows every resource that is up; a call that goes back through it
\* has still to come to them.
Accounted ==
  /\ InOrder(started)
  /\ Firm \subseteq Listed(started, Len(started))
  /\ machine = "idle" => Firm = {}
  /\ \A c \in Calls :
       /\ run[c].at \in {"config", "setup", "undone", "closing"} => Firm = {}
       /\ run[c].at \in {"next", "starting"} =>
            \A j \in DOMAIN started : Pos(started[j]) < run[c].i
       /\ run[c].at \in {"undo", "stopping"} =>
            /\ InOrder(run[c].list)
            /\ Firm \subseteq Listed(run[c].list, run[c].i)

\* What a resource's state says of it.
StatesMeanIt ==
  /\ \A r \in Resources : state[r] = "running" => r \in up \union slipped
  /\ \A r \in Firm :
       \/ state[r] = "running"
       \/ \E c \in Calls : run[c].at = "stopping" /\ r = run[c].list[run[c].i]

\* How far a start has come.
Reached ==
  /\ NeedsAreUp
  /\ RunningMeansUp
  /\ \A n \in Starts :
       /\ run[n].at \in {"next", "starting"} =>
            \A j \in DOMAIN Plan :
              j < run[n].i => Plan[j] \in up \union slipped \union Optional
       /\ run[n].at = "starting" => Needs[Plan[run[n].i]] \subseteq up \union slipped
       /\ run[n].at = "started" => Resources \ Optional \subseteq up \union slipped
       /\ run[n].at \in {"next", "starting", "started"} => listening

\* The flags that are set when a start ends and reset when a stop does.
Flags ==
  /\ machine = "idle" => ~listening
  /\ machine \in {"idle", "starting"} => ~isRunning /\ Unheld
  /\ run[0].at \notin {"out", "sidecar"} => ~listening /\ Unheld
  /\ run[0].at = "sidecar" => audio = "closing"

\* What holds as long as no start has been left by FORCE_STOP.
Uncrossed == OneCall /\ SomeCall /\ Accounted /\ StatesMeanIt /\ Reached /\ Flags

\* The inductive invariant.
IInv == TypeOK /\ (~crossed => Uncrossed)
=============================================================================
