---------------------------- MODULE ResourceManager ----------------------------
(***************************************************************************)
(* ResourceManager: the resources of a plan are started one after the      *)
(* other and stopped in the reverse order of those that came up; a start   *)
(* that fails is rolled back.  Every start and stop is given a time limit, *)
(* and one that exceeds it counts as failed and goes on (withTimeout).     *)
(*                                                                         *)
(* Nothing keeps two calls of startAll, stopAll or rollback apart: the     *)
(* list of started resources and their states are shared.  A call is a     *)
(* record of what it waits for; the callers add waits of their own.        *)
(***************************************************************************)
EXTENDS Naturals, Sequences

CONSTANTS
  Plan,      \* the resources in the order topologicalSort gives
  Needs,     \* the resources each of them depends on
  Optional,  \* those that may fail
  Calls,     \* the calls that may be under way
  Slippery,  \* the resources whose starts and stops may fail or exceed their limit
  MaxSlips   \* bound on how many do

Resources == {Plan[i] : i \in DOMAIN Plan}

ASSUME PlanAssumption ==
  /\ Plan \in Seq(Resources)
  /\ \A i, j \in DOMAIN Plan : Plan[i] = Plan[j] => i = j
  /\ Needs \in [Resources -> SUBSET Resources]
  /\ \A i, j \in DOMAIN Plan : Plan[j] \in Needs[Plan[i]] => j < i

VARIABLES
  state,    \* metadata.state of each resource
  up,       \* the resources that really work
  started,  \* startedResources
  late,     \* starts (TRUE) and stops (FALSE) that go on after their limit
  slipped,  \* the resources one of whose stops failed or whose calls went on
  slips,
  run

managerVars == <<state, up, started, late, slipped, slips>>

Idle == [at |-> "out", i |-> 1, list |-> <<>>, had |-> FALSE]

ManagerInit ==
  /\ state = [r \in Resources |-> "idle"]
  /\ up = {} /\ started = <<>> /\ late = {} /\ slipped = {} /\ slips = 0
  /\ run = [c \in Calls |-> Idle]

-----------------------------------------------------------------------------
Goes(c, at) == run' = [run EXCEPT ![c].at = at]

Ends(c) == run' = [run EXCEPT ![c] = Idle]

StartAll(c) ==
  /\ run' = [run EXCEPT ![c].at = "next", ![c].i = 1]
  /\ started' = <<>>
  /\ UNCHANGED <<state, up, late, slipped, slips>>

\* Mutant: the resources are stopped in the order in which they came up.
StopAllForward(c) ==
  run' = [run EXCEPT ![c].at = "undo", ![c].i = Len(started),
                     ![c].list = [j \in 1..Len(started) |-> started[Len(started) + 1 - j]]]

\* stopAll and rollback go back through what the list holds when they begin.
StopAll(c) ==
  run' = [run EXCEPT ![c].at = "undo", ![c].i = Len(started), ![c].list = started]

Onward(c) == run' = [run EXCEPT ![c].at = "next", ![c].i = @ + 1]

AllStarted(c) == run' = [run EXCEPT ![c].at = "started", ![c].i = 1]

Missing(r) == \E d \in Needs[r] : state[d] # "running"

\* The loop of startAll up to the next start: startResource refuses a resource
\* whose dependencies do not run, and passes over one that does.
Examine(c) ==
  /\ run[c].at = "next"
  /\ \/ /\ run[c].i > Len(Plan)
        /\ AllStarted(c)
        /\ UNCHANGED state
     \/ /\ run[c].i <= Len(Plan)
        /\ LET r == Plan[run[c].i]
           IN  IF Missing(r) THEN StopAll(c) /\ UNCHANGED state
               ELSE IF state[r] = "running" THEN Onward(c) /\ UNCHANGED state
               ELSE state' = [state EXCEPT ![r] = "starting"] /\ Goes(c, "starting")
  /\ UNCHANGED <<up, started, late, slipped, slips>>

\* Mutant: the resource is not entered in the list.
StartEndsUnlisted(c) ==
  /\ run[c].at = "starting"
  /\ state' = [state EXCEPT ![Plan[run[c].i]] = "running"]
  /\ up' = up \union {Plan[run[c].i]}
  /\ Onward(c)
  /\ UNCHANGED <<started, late, slipped, slips>>

StartEnds(c) ==
  /\ run[c].at = "starting"
  /\ state' = [state EXCEPT ![Plan[run[c].i]] = "running"]
  /\ up' = up \union {Plan[run[c].i]}
  /\ started' = Append(started, Plan[run[c].i])
  /\ Onward(c)
  /\ UNCHANGED <<late, slipped, slips>>

\* Mutant: a resource that is required may fail too.
StartFailsPassed(c) ==
  /\ run[c].at = "starting" /\ slips < MaxSlips /\ Plan[run[c].i] \in Slippery
  /\ slips' = slips + 1
  /\ state' = [state EXCEPT ![Plan[run[c].i]] = "error"]
  /\ Onward(c)
  /\ UNCHANGED <<up, started, late, slipped>>

\* A start rejects, or exceeds its limit and goes on.
StartFails(c) ==
  /\ run[c].at = "starting" /\ slips < MaxSlips /\ Plan[run[c].i] \in Slippery
  /\ slips' = slips + 1
  /\ LET r == Plan[run[c].i]
     IN  /\ state' = [state EXCEPT ![r] = "error"]
         /\ \/ UNCHANGED <<late, slipped>>
            \/ late' = late \union {<<r, TRUE>>} /\ slipped' = slipped \union {r}
         /\ IF r \in Optional THEN Onward(c) ELSE StopAll(c)
  /\ UNCHANGED <<up, started>>

\* A start or a stop that was given up takes effect.
LateEnds ==
  /\ \E l \in late :
       /\ late' = late \ {l}
       /\ up' = IF l[2] THEN up \union {l[1]} ELSE up \ {l[1]}
  /\ UNCHANGED <<state, started, slipped, slips, run>>

Back(c) == run' = [run EXCEPT ![c].at = "undo", ![c].i = @ - 1]

\* The loop of stopAll and of rollback up to the next stop.
Unwind(c) ==
  /\ run[c].at = "undo"
  /\ IF run[c].i = 0
     THEN Goes(c, "undone") /\ started' = <<>> /\ UNCHANGED state
     ELSE LET r == run[c].list[run[c].i]
          IN  /\ UNCHANGED started
              /\ IF state[r] \in {"stopped", "idle"}
                 THEN Back(c) /\ UNCHANGED state
                 ELSE /\ state' = [state EXCEPT ![r] = "stopping"]
                      /\ Goes(c, "stopping")
  /\ UNCHANGED <<up, late, slipped, slips>>

StopEnds(c) ==
  /\ run[c].at = "stopping"
  /\ LET r == run[c].list[run[c].i]
     IN  state' = [state EXCEPT ![r] = "stopped"] /\ up' = up \ {r}
  /\ Back(c)
  /\ UNCHANGED <<started, late, slipped, slips>>

\* A stop rejects, or exceeds its limit and goes on: the others are stopped.
StopFails(c) ==
  /\ run[c].at = "stopping" /\ slips < MaxSlips /\ run[c].list[run[c].i] \in Slippery
  /\ slips' = slips + 1
  /\ LET r == run[c].list[run[c].i]
     IN  /\ state' = [state EXCEPT ![r] = "error"]
         /\ slipped' = slipped \union {r}
         /\ late' \in {late, late \union {<<r, FALSE>>}}
  /\ Back(c)
  /\ UNCHANGED <<up, started>>

Awaited(c) == StartEnds(c) \/ StartFails(c) \/ StopEnds(c) \/ StopFails(c)
=============================================================================
