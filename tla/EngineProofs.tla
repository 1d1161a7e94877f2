----------------------------- MODULE EngineProofs -----------------------------
(***************************************************************************)
(* The promises of the engine's states, for any plan of resources and any  *)
(* number of starts, losses of the radio and failures.                     *)
(***************************************************************************)
EXTENDS EngineSafety, SequenceTheorems, TLAPS

USE PlanAssumption, CallsAssumption

\* Every resource has one place in the plan.
LEMMA Places ==
  /\ \A r \in Resources : Pos(r) \in 1..Len(Plan) /\ Plan[Pos(r)] = r
  /\ \A i \in 1..Len(Plan) : Plan[i] \in Resources /\ Pos(Plan[i]) = i
  <1>1. DOMAIN Plan = 1..Len(Plan)
    OBVIOUS
  <1>2. ASSUME NEW r \in Resources PROVE Pos(r) \in 1..Len(Plan) /\ Plan[Pos(r)] = r
    <2>1. \E i \in DOMAIN Plan : Plan[i] = r
      BY DEF Resources
    <2> QED BY <1>1, <2>1 DEF Pos
  <1>3. ASSUME NEW i \in 1..Len(Plan) PROVE Plan[i] \in Resources /\ Pos(Plan[i]) = i
    <2>1. Plan[i] \in Resources
      BY <1>1 DEF Resources
    <2>2. Pos(Plan[i]) \in DOMAIN Plan /\ Plan[Pos(Plan[i])] = Plan[i]
      BY <1>1, <1>2, <2>1
    <2> QED BY <1>1, <2>1, <2>2
  <1> QED BY <1>2, <1>3

\* A resource comes after what it depends on.
LEMMA NeedsComeFirst ==
  \A q \in Resources : \A r \in Needs[q] : r \in Resources /\ Pos(r) < Pos(q)
  <1> TAKE q \in Resources
  <1> TAKE r \in Needs[q]
  <1>1. r \in Resources
    OBVIOUS
  <1>2. Pos(q) \in DOMAIN Plan /\ Pos(r) \in DOMAIN Plan
    BY <1>1, Places
  <1>3. Plan[Pos(r)] \in Needs[Plan[Pos(q)]]
    BY <1>1, Places
  <1> QED BY <1>1, <1>2, <1>3

\* Entering a resource that comes later keeps a list in the plan's order.
LEMMA Entered ==
  ASSUME NEW s \in Seq(Resources), NEW r \in Resources, InOrder(s),
         \A j \in DOMAIN s : Pos(s[j]) < Pos(r)
  PROVE  /\ Append(s, r) \in Seq(Resources)
         /\ InOrder(Append(s, r))
         /\ Listed(Append(s, r), Len(Append(s, r))) = Listed(s, Len(s)) \union {r}
         /\ \A j \in DOMAIN Append(s, r) : \/ j \in DOMAIN s /\ Append(s, r)[j] = s[j]
                                           \/ Append(s, r)[j] = r
  <1> DEFINE t == Append(s, r)
  <1>1. /\ t \in Seq(Resources) /\ Len(t) = Len(s) + 1 /\ t[Len(s) + 1] = r
        /\ \A j \in 1..Len(s) : t[j] = s[j]
    BY AppendProperties
  <1>2. DOMAIN s = 1..Len(s) /\ DOMAIN t = 1..Len(s) + 1 /\ Len(s) \in Nat
    BY <1>1
  <1>3. \A j \in DOMAIN t : (j \in DOMAIN s /\ t[j] = s[j]) \/ t[j] = r
    BY <1>1, <1>2
  <1>4. InOrder(t)
    <2> SUFFICES ASSUME NEW j \in DOMAIN t, NEW k \in DOMAIN t, j < k
                 PROVE  Pos(t[j]) < Pos(t[k])
      BY DEF InOrder
    <2>1. j \in DOMAIN s /\ t[j] = s[j]
      BY <1>1, <1>2
    <2>2. CASE k \in DOMAIN s
      BY <1>1, <1>2, <2>1, <2>2 DEF InOrder
    <2>3. CASE k \notin DOMAIN s
      BY <1>1, <1>2, <2>1, <2>3
    <2> QED BY <2>2, <2>3
  <1>5. Listed(t, Len(t)) = Listed(s, Len(s)) \union {r}
    BY <1>1, <1>2 DEF Listed
  <1> QED BY <1>1, <1>3, <1>4, <1>5

\* What no call looks like.
LEMMA IdleIsCall == Idle \in Call /\ Idle.at = "out"
  BY DEF Idle, Call

\* The initial states satisfy the invariant.
LEMMA InitInvariant == Init => IInv
  <1> SUFFICES ASSUME Init PROVE IInv
    OBVIOUS
  <1>1. ManagerOK /\ EngineOK /\ BridgeOK
    <2>1. ManagerOK
      BY DEF Init, ManagerInit, ManagerOK
    <2>2. given \in 0..MaxStarts
      BY DEF Init
    <2>3. EngineOK
      BY <2>2, Zenon DEF Init, EngineOK
    <2> QED BY <2>1, <2>3 DEF Init, BridgeOK
  <1>5. CallsOK
    BY IdleIsCall DEF Init, ManagerInit, CallsOK, Starts, Idle
  <1>2. OneCall /\ SomeCall /\ Flags
    BY DEF Unheld, Init, ManagerInit, Idle, OneCall, SomeCall, Flags, Starts
  <1>3. Accounted
    BY DEF Init, ManagerInit, Idle, Accounted, Firm, Listed, InOrder
  <1>4. StatesMeanIt /\ Reached
    BY DEF Init, ManagerInit, Idle, StatesMeanIt, Reached, Firm, NeedsAreUp, RunningMeansUp,
           Starts
  <1> QED BY <1>1, <1>2, <1>3, <1>4, <1>5 DEF IInv, TypeOK, Uncrossed

-----------------------------------------------------------------------------
(* How the calls move on: each lemma gives the shape of the new state of    *)
(* the calls and what became of the one that moved.                         *)

\* The states of a call.
Ats(c) == {"out"} \union (IF c = 0 THEN StopAts ELSE StartAts)

\* What the index of a call means.
Indexed(x) ==
  /\ x.at = "next" => x.i \in 1..Len(Plan) + 1
  /\ x.at = "starting" => x.i \in 1..Len(Plan)
  /\ x.at = "undo" => x.i \in 0..Len(x.list)
  /\ x.at = "stopping" => x.i \in 1..Len(x.list)

\* Replacing a call by one of the right shape.
LEMMA Replaced ==
  ASSUME CallsOK, NEW c \in Calls, NEW x \in Call, x.at \in Ats(c), Indexed(x),
         run' = [run EXCEPT ![c] = x]
  PROVE  /\ CallsOK'
         /\ run'[c] = x
         /\ \A d \in Calls : d # c => run'[d] = run[d]
  <1>1. /\ run' \in [Calls -> Call]
        /\ run'[c] = x
        /\ \A d \in Calls : d # c => run'[d] = run[d]
    BY DEF CallsOK
  <1>2. \A n \in Starts : run'[n].at \in {"out"} \union StartAts
    BY <1>1 DEF CallsOK, Ats, Starts
  <1>3. run'[0].at \in {"out"} \union StopAts
    BY <1>1 DEF CallsOK, Ats
  <1>4. \A d \in Calls : Indexed(run'[d])
    BY <1>1 DEF CallsOK, Indexed
  <1> QED BY <1>1, <1>2, <1>3, <1>4 DEF CallsOK, Indexed

\* Going to a wait that has no index.
LEMMA GoesOn ==
  ASSUME CallsOK, NEW c \in Calls, NEW at \in Ats(c), Goes(c, at),
         at \notin {"next", "starting", "undo", "stopping"}
  PROVE  /\ CallsOK'
         /\ run'[c].at = at
         /\ \A d \in Calls : d # c => run'[d] = run[d]
  <1> DEFINE x == [run[c] EXCEPT !.at = at]
  <1>1. run' = [run EXCEPT ![c] = x]
    BY DEF Goes
  <1>2. x \in Call /\ x.at = at
    <2>1. at \in {"out"} \union StartAts \union StopAts
      BY DEF Ats
    <2>2. run[c] \in Call
      BY DEF CallsOK
    <2> QED BY <2>1, <2>2 DEF Call
  <1>3. Indexed(x)
    BY <1>2 DEF Indexed
  <1> HIDE DEF x
  <1>4. CallsOK' /\ run'[c] = x /\ \A d \in Calls : d # c => run'[d] = run[d]
    BY <1>1, <1>2, <1>3, Replaced
  <1> QED BY <1>2, <1>4

\* Leaving.
LEMMA Ended ==
  ASSUME CallsOK, NEW c \in Calls, Ends(c)
  PROVE  /\ CallsOK'
         /\ run'[c].at = "out"
         /\ \A d \in Calls : d # c => run'[d] = run[d]
  <1>1. Indexed(Idle)
    BY IdleIsCall DEF Indexed
  <1> QED BY <1>1, IdleIsCall, Replaced DEF Ends, Ats

\* Going back through a list.
LEMMA GoesBack ==
  ASSUME CallsOK, NEW c \in Calls, run[c].at \in {"undo", "stopping"}, run[c].i # 0, Back(c)
  PROVE  /\ CallsOK'
         /\ run'[c].at = "undo" /\ run'[c].i = run[c].i - 1 /\ run'[c].list = run[c].list
         /\ \A d \in Calls : d # c => run'[d] = run[d]
  <1> DEFINE x == [run[c] EXCEPT !.at = "undo", !.i = @ - 1]
  <1>1. run' = [run EXCEPT ![c] = x]
    BY DEF Back
  <1>2. run[c] \in Call /\ run[c].i \in 1..Len(run[c].list)
    BY DEF CallsOK, Call
  <1>3. x \in Call /\ x.at = "undo" /\ x.i = run[c].i - 1 /\ x.list = run[c].list
    <2>1. run[c].i - 1 \in Nat /\ "undo" \in {"out"} \union StartAts \union StopAts
      BY <1>2 DEF Call, StartAts, StopAts
    <2> QED BY <1>2, <2>1 DEF Call
  <1>4. "undo" \in Ats(c)
    BY DEF Ats, StartAts, StopAts
  <1>5. Indexed(x)
    BY <1>2, <1>3 DEF Indexed, Call
  <1> HIDE DEF x
  <1>6. CallsOK' /\ run'[c] = x /\ \A d \in Calls : d # c => run'[d] = run[d]
    BY <1>1, <1>3, <1>4, <1>5, Replaced
  <1> QED BY <1>3, <1>6

\* Reaching the next resource of the plan.
LEMMA GoesOnward ==
  ASSUME CallsOK, NEW c \in Calls, c # 0, run[c].at \in {"next", "starting"},
         run[c].i \in 1..Len(Plan), Onward(c)
  PROVE  /\ CallsOK'
         /\ run'[c].at = "next" /\ run'[c].i = run[c].i + 1
         /\ \A d \in Calls : d # c => run'[d] = run[d]
  <1> DEFINE x == [run[c] EXCEPT !.at = "next", !.i = @ + 1]
  <1>1. run' = [run EXCEPT ![c] = x]
    BY DEF Onward
  <1>2. run[c] \in Call
    BY DEF CallsOK
  <1>3. x \in Call /\ x.at = "next" /\ x.i = run[c].i + 1
    <2>1. run[c].i + 1 \in Nat /\ "next" \in {"out"} \union StartAts \union StopAts
      BY <1>2 DEF Call, StartAts, StopAts
    <2> QED BY <1>2, <2>1 DEF Call
  <1>4. "next" \in Ats(c)
    BY DEF Ats, StartAts
  <1>5. Indexed(x)
    BY <1>3 DEF Indexed
  <1> HIDE DEF x
  <1>6. x \in Call /\ x.at \in Ats(c)
    BY <1>3, <1>4
  <1>7. CallsOK' /\ run'[c] = x /\ \A d \in Calls : d # c => run'[d] = run[d]
    BY <1>1, <1>5, <1>6, Replaced
  <1> QED BY <1>3, <1>7

\* Beginning to stop what the list holds.
LEMMA StopsAll ==
  ASSUME CallsOK, NEW c \in Calls, started \in Seq(Resources), StopAll(c)
  PROVE  /\ CallsOK'
         /\ run'[c].at = "undo" /\ run'[c].i = Len(started) /\ run'[c].list = started
         /\ \A d \in Calls : d # c => run'[d] = run[d]
  <1> DEFINE x == [run[c] EXCEPT !.at = "undo", !.i = Len(started), !.list = started]
  <1>1. run' = [run EXCEPT ![c] = x]
    BY DEF StopAll
  <1>2. x \in Call /\ x.at = "undo" /\ x.i = Len(started) /\ x.list = started
    <2>1. Len(started) \in Nat /\ "undo" \in {"out"} \union StartAts \union StopAts
      BY DEF StartAts, StopAts
    <2>2. run[c] \in Call
      BY DEF CallsOK
    <2> QED BY <2>1, <2>2 DEF Call
  <1>3. "undo" \in Ats(c)
    BY DEF Ats, StartAts, StopAts
  <1>4. Indexed(x)
    BY <1>2 DEF Indexed
  <1> HIDE DEF x
  <1>5. CallsOK' /\ run'[c] = x /\ \A d \in Calls : d # c => run'[d] = run[d]
    BY <1>1, <1>2, <1>3, <1>4, Replaced
  <1> QED BY <1>2, <1>5

\* Beginning to start the plan.
LEMMA StartsAll ==
  ASSUME CallsOK, NEW n \in Starts, StartAll(n)
  PROVE  /\ CallsOK'
         /\ run'[n].at = "next" /\ run'[n].i = 1
         /\ \A d \in Calls : d # n => run'[d] = run[d]
  <1> DEFINE x == [run[n] EXCEPT !.at = "next", !.i = 1]
  <1>1. n \in Calls /\ n # 0
    BY DEF Starts
  <1>2. run' = [run EXCEPT ![n] = x]
    BY DEF StartAll
  <1>3. x \in Call /\ x.at = "next" /\ x.i = 1
    BY <1>1 DEF CallsOK, Call, StartAts
  <1>4. "next" \in Ats(n)
    BY <1>1 DEF Ats, StartAts
  <1>5. Indexed(x)
    BY <1>3 DEF Indexed
  <1> HIDE DEF x
  <1>6. CallsOK' /\ run'[n] = x /\ \A d \in Calls : d # n => run'[d] = run[d]
    BY <1>1, <1>2, <1>3, <1>4, <1>5, Replaced
  <1> QED BY <1>3, <1>6

\* Waiting for a resource to start.
LEMMA AwaitsStart ==
  ASSUME CallsOK, NEW c \in Calls, c # 0, run[c].i \in 1..Len(Plan), Goes(c, "starting")
  PROVE  /\ CallsOK'
         /\ run'[c].at = "starting" /\ run'[c].i = run[c].i
         /\ \A d \in Calls : d # c => run'[d] = run[d]
  <1> DEFINE x == [run[c] EXCEPT !.at = "starting"]
  <1>1. run' = [run EXCEPT ![c] = x]
    BY DEF Goes
  <1>2. x \in Call /\ x.at = "starting" /\ x.i = run[c].i
    BY DEF CallsOK, Call, StartAts
  <1>3. "starting" \in Ats(c)
    BY DEF Ats, StartAts
  <1>4. Indexed(x)
    BY <1>2 DEF Indexed
  <1> HIDE DEF x
  <1>5. CallsOK' /\ run'[c] = x /\ \A d \in Calls : d # c => run'[d] = run[d]
    BY <1>1, <1>2, <1>3, <1>4, Replaced
  <1> QED BY <1>2, <1>5

\* Waiting for a resource to stop.
LEMMA AwaitsStop ==
  ASSUME CallsOK, NEW c \in Calls, run[c].at = "undo", run[c].i # 0, Goes(c, "stopping")
  PROVE  /\ CallsOK'
         /\ run'[c].at = "stopping" /\ run'[c].i = run[c].i /\ run'[c].list = run[c].list
         /\ \A d \in Calls : d # c => run'[d] = run[d]
  <1> DEFINE x == [run[c] EXCEPT !.at = "stopping"]
  <1>1. run' = [run EXCEPT ![c] = x]
    BY DEF Goes
  <1>2. run[c] \in Call /\ run[c].i \in 1..Len(run[c].list)
    BY DEF CallsOK, Call
  <1>3. x \in Call /\ x.at = "stopping" /\ x.i = run[c].i /\ x.list = run[c].list
    BY <1>2 DEF Call, StopAts
  <1>4. "stopping" \in Ats(c)
    BY DEF Ats, StartAts, StopAts
  <1>5. Indexed(x)
    BY <1>2, <1>3 DEF Indexed
  <1> HIDE DEF x
  <1>6. CallsOK' /\ run'[c] = x /\ \A d \in Calls : d # c => run'[d] = run[d]
    BY <1>1, <1>3, <1>4, <1>5, Replaced
  <1> QED BY <1>3, <1>6

-----------------------------------------------------------------------------
(* The resources, while one call moves through them. *)

\* A call that is under way is alone, and the state machine waits for it.
LEMMA Alone ==
  ASSUME OneCall, NEW c \in Calls, run[c].at # "out"
  PROVE  /\ \A d \in Calls : d # c => run[d].at = "out"
         /\ c # 0 => machine = "starting" /\ c = given /\ c \in Starts
         /\ c = 0 => machine = "stopping"
  BY DEF OneCall, Starts

\* Only a start examines and starts resources.
LEMMA StartsOnly ==
  ASSUME CallsOK, NEW c \in Calls, run[c].at \in {"next", "starting", "started", "config", "setup"}
  PROVE  c # 0 /\ c \in Starts
  BY DEF CallsOK, StopAts

\* A step of the call that is under way leaves what concerns the state machine.
LEMMA ControlStays ==
  ASSUME OneCall, SomeCall, Flags, NEW c \in Calls, UNCHANGED engineVars,
         run[c].at \notin {"out", "sidecar"}, run'[c].at \notin {"out", "sidecar"},
         \A d \in Calls : d # c => run'[d] = run[d]
  PROVE  OneCall' /\ SomeCall' /\ Flags'
  <1>1. 0 \in Calls /\ (given \in Starts => given \in Calls)
    OBVIOUS
  <1>2. OneCall'
    BY DEF OneCall, engineVars
  <1>3. SomeCall'
    BY <1>1 DEF SomeCall, engineVars
  <1>4. Flags'
    BY <1>1 DEF Flags, Unheld, engineVars
  <1> QED BY <1>2, <1>3, <1>4

\* Types of what the manager does not touch.
LEMMA OthersStay ==
  ASSUME EngineOK, BridgeOK, UNCHANGED <<engineVars, bridgeVars, radio, losses>>
  PROVE  EngineOK' /\ BridgeOK'
  BY DEF EngineOK, BridgeOK, engineVars, bridgeVars

\* A start whose call fails or whose needs are missing begins to roll back.
LEMMA RollsBack ==
  ASSUME ManagerOK, CallsOK, Uncrossed, NEW c \in Calls, run[c].at \in {"next", "starting"},
         StopAll(c), UNCHANGED <<up, started, engineVars>>,
         slipped \subseteq slipped', slipped' \subseteq Resources,
         \/ state' = state
         \/ \E r \in Resources \ Firm : state' = [state EXCEPT ![r] = "error"]
  PROVE  Accounted' /\ StatesMeanIt' /\ Reached'
  <1>1. /\ run'[c].at = "undo" /\ run'[c].i = Len(started) /\ run'[c].list = started
        /\ \A d \in Calls : d # c => run'[d] = run[d]
    BY StopsAll DEF ManagerOK
  <1>2. /\ \A d \in Calls : d # c => run[d].at = "out"
        /\ c \in Starts /\ machine = "starting"
    BY Alone, StartsOnly DEF Uncrossed
  <1>3. Firm' \subseteq Firm
    BY DEF Firm
  <1>4. Accounted'
    BY <1>1, <1>2, <1>3 DEF Uncrossed, Accounted, engineVars, Listed
  <1>5. StatesMeanIt'
    <2>1. \A q \in Resources : state'[q] = "running" => state[q] = "running"
      BY DEF ManagerOK
    <2>2. \A q \in Firm' : state'[q] = "running"
      BY <1>2, <1>3 DEF Uncrossed, StatesMeanIt, Firm, ManagerOK
    <2> QED BY <2>1, <2>2 DEF Uncrossed, StatesMeanIt
  <1>6. Reached'
    <2>1. NeedsAreUp'
      BY DEF Uncrossed, Reached, NeedsAreUp, engineVars
    <2>2. RunningMeansUp'
      BY <1>2 DEF RunningMeansUp, engineVars
    <2> QED BY <1>1, <1>2, <2>1, <2>2 DEF Reached, Starts
  <1> QED BY <1>4, <1>5, <1>6

\* The last resource of the plan has been passed.
LEMMA Completes ==
  ASSUME CallsOK, NEW c \in Calls, c # 0, AllStarted(c)
  PROVE  /\ CallsOK'
         /\ run'[c].at = "started"
         /\ \A d \in Calls : d # c => run'[d] = run[d]
  <1> DEFINE x == [run[c] EXCEPT !.at = "started", !.i = 1]
  <1>1. run' = [run EXCEPT ![c] = x]
    BY DEF AllStarted
  <1>2. x \in Call /\ x.at = "started"
    BY DEF CallsOK, Call, StartAts
  <1>3. "started" \in Ats(c)
    BY DEF Ats, StartAts
  <1>4. Indexed(x)
    BY <1>2 DEF Indexed
  <1> HIDE DEF x
  <1>5. x.at \in Ats(c)
    BY <1>2, <1>3
  <1>6. CallsOK' /\ run'[c] = x /\ \A d \in Calls : d # c => run'[d] = run[d]
    BY <1>1, <1>2, <1>4, <1>5, Replaced
  <1> QED BY <1>2, <1>6

\* startAll goes on to the next start, to its end or to the rollback.
LEMMA ExamineKeeps ==
  ASSUME IInv, NEW c \in Calls, Manager(Examine(c))
  PROVE  IInv'
  <1> USE DEF IInv, TypeOK, Unheld
  <1>1. /\ c # 0 /\ c \in Starts /\ run[c].at = "next" /\ run[c].i \in 1..Len(Plan) + 1
        /\ UNCHANGED <<up, started, late, slipped, slips>>
        /\ UNCHANGED <<engineVars, bridgeVars, radio, losses>>
    BY StartsOnly DEF Manager, Examine, CallsOK
  <1>2. EngineOK' /\ BridgeOK'
    BY <1>1, OthersStay
  <1> DEFINE r == Plan[run[c].i]
  <1>3. CASE run[c].i > Len(Plan) /\ AllStarted(c) /\ UNCHANGED state
    <2>1. /\ CallsOK' /\ run'[c].at = "started"
          /\ \A d \in Calls : d # c => run'[d] = run[d]
      BY <1>1, <1>3, Completes
    <2>2. ManagerOK'
      BY <1>1, <1>3 DEF ManagerOK
    <2>3. ASSUME ~crossed' PROVE Uncrossed'
      <3>1. ~crossed /\ Uncrossed
        BY <1>1, <2>3 DEF engineVars, Uncrossed
      <3>2. OneCall' /\ SomeCall' /\ Flags'
        BY <1>1, <2>1, <3>1, ControlStays DEF Uncrossed
      <3>3. (\A d \in Calls : d # c => run[d].at = "out") /\ machine = "starting"
        BY <1>1, <3>1, Alone DEF Uncrossed
      <3>4. Accounted'
        BY <1>1, <1>3, <2>1, <3>1, <3>3 DEF Uncrossed, Accounted, Firm, engineVars
      <3>5. StatesMeanIt'
        BY <1>1, <1>3, <2>1, <3>1, <3>3 DEF Uncrossed, StatesMeanIt, Firm, engineVars
      <3>6. Resources \ Optional \subseteq up \union slipped
        <4> SUFFICES ASSUME NEW q \in Resources \ Optional PROVE q \in up \union slipped
          OBVIOUS
        <4>1. Pos(q) \in DOMAIN Plan /\ Pos(q) < run[c].i /\ Plan[Pos(q)] = q
          BY <1>1, <1>3, Places
        <4> QED BY <1>1, <3>1, <4>1 DEF Uncrossed, Reached
      <3>7. Reached'
        BY <1>1, <1>3, <2>1, <3>1, <3>3, <3>6
           DEF Uncrossed, Reached, NeedsAreUp, RunningMeansUp, engineVars, Starts
      <3> QED BY <3>2, <3>4, <3>5, <3>7 DEF Uncrossed
    <2> QED BY <1>2, <2>1, <2>2, <2>3
  <1>4. CASE run[c].i <= Len(Plan) /\ Missing(r) /\ StopAll(c) /\ UNCHANGED state
    <2>1. /\ CallsOK' /\ run'[c].at = "undo"
          /\ \A d \in Calls : d # c => run'[d] = run[d]
      BY <1>4, StopsAll DEF ManagerOK
    <2>2. ManagerOK'
      BY <1>1, <1>4 DEF ManagerOK
    <2>3. ASSUME ~crossed' PROVE Uncrossed'
      <3>1. ~crossed /\ Uncrossed
        BY <1>1, <2>3 DEF engineVars, Uncrossed
      <3>2. OneCall' /\ SomeCall' /\ Flags'
        BY <1>1, <2>1, <3>1, ControlStays DEF Uncrossed
      <3>3. Accounted' /\ StatesMeanIt' /\ Reached'
        BY <1>1, <1>4, <3>1, RollsBack DEF ManagerOK
      <3> QED BY <3>2, <3>3 DEF Uncrossed
    <2> QED BY <1>2, <2>1, <2>2, <2>3
  <1>5. CASE run[c].i <= Len(Plan) /\ state[r] = "running" /\ Onward(c) /\ UNCHANGED state
    <2>1. /\ CallsOK' /\ run'[c].at = "next" /\ run'[c].i = run[c].i + 1
          /\ \A d \in Calls : d # c => run'[d] = run[d]
      BY <1>1, <1>5, GoesOnward
    <2>2. ManagerOK'
      BY <1>1, <1>5 DEF ManagerOK
    <2>3. ASSUME ~crossed' PROVE Uncrossed'
      <3>1. ~crossed /\ Uncrossed
        BY <1>1, <2>3 DEF engineVars, Uncrossed
      <3>2. OneCall' /\ SomeCall' /\ Flags'
        BY <1>1, <2>1, <3>1, ControlStays DEF Uncrossed
      <3>3. (\A d \in Calls : d # c => run[d].at = "out") /\ machine = "starting"
        BY <1>1, <3>1, Alone DEF Uncrossed
      <3>4. Accounted'
        <4>1. \A j \in DOMAIN started : Pos(started[j]) < run[c].i
          BY <1>1, <3>1 DEF Uncrossed, Accounted
        <4>2. \A j \in DOMAIN started : Pos(started[j]) \in Nat
          BY Places DEF ManagerOK
        <4>3. \A j \in DOMAIN started : Pos(started[j]) < run[c].i + 1
          BY <1>1, <4>1, <4>2
        <4> QED BY <1>1, <1>5, <2>1, <3>1, <3>3, <4>3 DEF Uncrossed, Accounted, Firm, engineVars
      <3>5. StatesMeanIt'
        BY <1>1, <1>5, <2>1, <3>1, <3>3 DEF Uncrossed, StatesMeanIt, Firm, engineVars
      <3>6. \A j \in DOMAIN Plan : j < run[c].i + 1 => Plan[j] \in up \union slipped \union Optional
        <4> SUFFICES ASSUME NEW j \in DOMAIN Plan, j < run[c].i + 1
                     PROVE  Plan[j] \in up \union slipped \union Optional
          OBVIOUS
        <4>1. CASE j < run[c].i
          BY <1>1, <3>1, <4>1 DEF Uncrossed, Reached
        <4>2. CASE j = run[c].i
          BY <1>1, <1>5, <3>1, <4>2, Places DEF Uncrossed, StatesMeanIt
        <4> QED BY <1>1, <4>1, <4>2
      <3>7. Reached'
        BY <1>1, <1>5, <2>1, <3>1, <3>3, <3>6
           DEF Uncrossed, Reached, NeedsAreUp, RunningMeansUp, engineVars, Starts
      <3> QED BY <3>2, <3>4, <3>5, <3>7 DEF Uncrossed
    <2> QED BY <1>2, <2>1, <2>2, <2>3
  <1>6. CASE /\ run[c].i <= Len(Plan) /\ ~Missing(r) /\ state[r] # "running"
             /\ state' = [state EXCEPT ![r] = "starting"] /\ Goes(c, "starting")
    <2>1. /\ CallsOK' /\ run'[c].at = "starting" /\ run'[c].i = run[c].i
          /\ \A d \in Calls : d # c => run'[d] = run[d]
      BY <1>1, <1>6, AwaitsStart
    <2>2. ManagerOK'
      BY <1>1, <1>6 DEF ManagerOK
    <2>3. ASSUME ~crossed' PROVE Uncrossed'
      <3>1. ~crossed /\ Uncrossed
        BY <1>1, <2>3 DEF engineVars, Uncrossed
      <3>2. OneCall' /\ SomeCall' /\ Flags'
        BY <1>1, <2>1, <3>1, ControlStays DEF Uncrossed
      <3>3. (\A d \in Calls : d # c => run[d].at = "out") /\ machine = "starting"
        BY <1>1, <3>1, Alone DEF Uncrossed
      <3>4. Accounted'
        BY <1>1, <1>6, <2>1, <3>1, <3>3 DEF Uncrossed, Accounted, Firm, engineVars
      <3>5. StatesMeanIt'
        BY <1>1, <1>6, <2>1, <3>1, <3>3 DEF Uncrossed, StatesMeanIt, Firm, engineVars, ManagerOK
      <3>6. Needs[r] \subseteq up \union slipped
        <4>1. r \in Resources
          BY <1>1, <1>6, Places
        <4> QED BY <1>6, <3>1, <4>1 DEF Missing, Uncrossed, StatesMeanIt
      <3>7. Reached'
        BY <1>1, <1>6, <2>1, <3>1, <3>3, <3>6
           DEF Uncrossed, Reached, NeedsAreUp, RunningMeansUp, engineVars, Starts
      <3> QED BY <3>2, <3>4, <3>5, <3>7 DEF Uncrossed
    <2> QED BY <1>2, <2>1, <2>2, <2>3
  <1> QED BY <1>1, <1>3, <1>4, <1>5, <1>6 DEF Manager, Examine

\* A resource has come up.
LEMMA StartEndsKeeps ==
  ASSUME IInv, NEW c \in Calls, Manager(StartEnds(c))
  PROVE  IInv'
  <1> USE DEF IInv, TypeOK, Unheld
  <1> DEFINE r == Plan[run[c].i]
  <1>1. /\ c # 0 /\ c \in Starts /\ run[c].at = "starting" /\ run[c].i \in 1..Len(Plan)
        /\ state' = [state EXCEPT ![r] = "running"] /\ up' = up \union {r}
        /\ started' = Append(started, r)
        /\ Onward(c)
        /\ UNCHANGED <<late, slipped, slips>>
        /\ UNCHANGED <<engineVars, bridgeVars, radio, losses>>
    BY StartsOnly DEF Manager, StartEnds, CallsOK
  <1>2. r \in Resources /\ Pos(r) = run[c].i
    BY <1>1, Places
  <1>3. EngineOK' /\ BridgeOK'
    BY <1>1, OthersStay
  <1>4. /\ CallsOK' /\ run'[c].at = "next" /\ run'[c].i = run[c].i + 1
        /\ \A d \in Calls : d # c => run'[d] = run[d]
    BY <1>1, GoesOnward
  <1>5. ManagerOK'
    BY <1>1, <1>2, AppendProperties DEF ManagerOK
  <1>6. ASSUME ~crossed' PROVE Uncrossed'
    <2>1. ~crossed /\ Uncrossed
      BY <1>1, <1>6 DEF engineVars
    <2>2. OneCall' /\ SomeCall' /\ Flags'
      BY <1>1, <1>4, <2>1, ControlStays DEF Uncrossed
    <2>3. (\A d \in Calls : d # c => run[d].at = "out") /\ machine = "starting"
      BY <1>1, <2>1, Alone DEF Uncrossed
    <2>4. /\ \A j \in DOMAIN started : Pos(started[j]) < Pos(r)
          /\ InOrder(started) /\ Firm \subseteq Listed(started, Len(started))
      BY <1>1, <1>2, <2>1 DEF Uncrossed, Accounted
    <2>5. /\ InOrder(started')
          /\ Listed(started', Len(started')) = Listed(started, Len(started)) \union {r}
          /\ \A j \in DOMAIN started' : (j \in DOMAIN started /\ started'[j] = started[j])
                                         \/ started'[j] = r
      BY <1>1, <1>2, <2>4, Entered DEF ManagerOK
    <2>6. Firm' \subseteq Firm \union {r}
      BY <1>1 DEF Firm
    <2>7. Accounted'
      <3>1. ASSUME NEW j \in DOMAIN started' PROVE Pos(started'[j]) < run[c].i + 1
        <4>1. CASE started'[j] = r
          BY <1>1, <1>2, <4>1
        <4>2. CASE j \in DOMAIN started /\ started'[j] = started[j]
          <5>1. started[j] \in Resources
            BY <4>2 DEF ManagerOK
          <5>2. Pos(started[j]) < Pos(r) /\ Pos(started[j]) \in 1..Len(Plan)
            BY <2>4, <4>2, <5>1, Places
          <5> QED BY <1>1, <1>2, <4>2, <5>2
        <4> QED BY <2>5, <4>1, <4>2
      <3>2. Firm' \subseteq Listed(started', Len(started'))
        BY <2>4, <2>5, <2>6
      <3> QED BY <1>1, <1>4, <2>1, <2>3, <2>5, <3>1, <3>2 DEF Uncrossed, Accounted, engineVars
    <2>8. StatesMeanIt'
      <3>1. \A q \in Resources : state'[q] = IF q = r THEN "running" ELSE state[q]
        BY <1>1, <1>2 DEF ManagerOK
      <3>2. \A q \in Firm : q \in Resources /\ state[q] = "running"
        BY <1>1, <2>1, <2>3 DEF Uncrossed, StatesMeanIt, Firm, ManagerOK
      <3>3. \A q \in Firm' : state'[q] = "running"
        BY <1>2, <2>6, <3>1, <3>2
      <3> QED BY <1>1, <2>1, <3>1, <3>3 DEF Uncrossed, StatesMeanIt
    <2>9. Reached'
      <3>1. NeedsAreUp'
        BY <1>1, <1>2, <2>1 DEF Uncrossed, Reached, NeedsAreUp, engineVars
      <3>2. \A j \in DOMAIN Plan : j < run[c].i + 1 => Plan[j] \in up' \union slipped' \union Optional
        <4> SUFFICES ASSUME NEW j \in DOMAIN Plan, j < run[c].i + 1
                     PROVE  Plan[j] \in up' \union slipped' \union Optional
          OBVIOUS
        <4>1. CASE j < run[c].i
          BY <1>1, <2>1, <4>1 DEF Uncrossed, Reached
        <4>2. CASE j = run[c].i
          BY <1>1, <4>2
        <4> QED BY <1>1, <4>1, <4>2
      <3>3. RunningMeansUp'
        BY <1>1, <2>3 DEF RunningMeansUp, engineVars
      <3>4. listening'
        BY <1>1, <2>1 DEF Uncrossed, Reached, engineVars
      <3> QED BY <1>4, <2>3, <3>1, <3>2, <3>3, <3>4 DEF Reached, Starts
    <2> QED BY <2>2, <2>7, <2>8, <2>9 DEF Uncrossed
  <1> QED BY <1>3, <1>4, <1>5, <1>6

\* A start that was given up goes on: the resource has slipped.
LEMMA LateEndsKeeps ==
  ASSUME IInv, Manager(LateEnds)
  PROVE  IInv'
  <1> USE DEF IInv, TypeOK, Unheld
  <1>1. PICK l \in late : /\ late' = late \ {l}
                          /\ up' = IF l[2] THEN up \union {l[1]} ELSE up \ {l[1]}
    BY DEF Manager, LateEnds
  <1>2. /\ UNCHANGED <<state, started, slipped, slips, run>>
        /\ UNCHANGED <<engineVars, bridgeVars, radio, losses>>
        /\ l[1] \in slipped
    BY DEF Manager, LateEnds, ManagerOK
  <1>3. Firm' = Firm /\ up \union slipped = up' \union slipped' /\ up' \subseteq Resources
    <2>1. up' = up \union {l[1]} \/ up' = up \ {l[1]}
      BY <1>1
    <2>2. up \subseteq Resources /\ slipped \subseteq Resources
      BY DEF ManagerOK
    <2> QED BY <1>2, <2>1, <2>2 DEF Firm
  <1>4. EngineOK' /\ BridgeOK'
    BY <1>2, OthersStay
  <1>5. ManagerOK' /\ CallsOK'
    <2>1. late' \subseteq slipped \X BOOLEAN
      BY <1>1 DEF ManagerOK
    <2>2. ManagerOK'
      BY <1>2, <1>3, <2>1 DEF ManagerOK
    <2> QED BY <1>2, <2>2 DEF CallsOK
  <1>6. ASSUME ~crossed' PROVE Uncrossed'
    <2>1. ~crossed /\ Uncrossed
      BY <1>2, <1>6 DEF engineVars
    <2>2. OneCall' /\ SomeCall' /\ Flags'
      BY <1>2, <2>1 DEF Uncrossed, OneCall, SomeCall, Flags, engineVars
    <2>3. Accounted' /\ StatesMeanIt'
      BY <1>2, <1>3, <2>1 DEF Uncrossed, Accounted, StatesMeanIt, engineVars
    <2>4. NeedsAreUp'
      BY <1>2, <1>3, <2>1 DEF Uncrossed, Reached, NeedsAreUp, Firm, engineVars
    <2>5. Reached'
      BY <1>2, <1>3, <2>1, <2>4 DEF Uncrossed, Reached, RunningMeansUp, engineVars
    <2> QED BY <2>2, <2>3, <2>5 DEF Uncrossed
  <1> QED BY <1>4, <1>5, <1>6

\* A start has failed or is given up.
LEMMA StartFailsKeeps ==
  ASSUME IInv, NEW c \in Calls, Manager(StartFails(c))
  PROVE  IInv'
  <1> USE DEF IInv, TypeOK, Unheld
  <1> DEFINE r == Plan[run[c].i]
  <1>1. /\ c # 0 /\ c \in Starts /\ run[c].at = "starting" /\ run[c].i \in 1..Len(Plan)
        /\ state' = [state EXCEPT ![r] = "error"] /\ slips' = slips + 1
        /\ \/ UNCHANGED <<late, slipped>>
           \/ late' = late \union {<<r, TRUE>>} /\ slipped' = slipped \union {r}
        /\ (r \in Optional /\ Onward(c)) \/ StopAll(c)
        /\ UNCHANGED <<up, started>>
        /\ UNCHANGED <<engineVars, bridgeVars, radio, losses>>
    BY StartsOnly DEF Manager, StartFails, CallsOK
  <1>2. r \in Resources /\ Pos(r) = run[c].i
    BY <1>1, Places
  <1>3. EngineOK' /\ BridgeOK'
    BY <1>1, OthersStay
  <1>4. ManagerOK'
    <2>1. state' \in [Resources -> {"idle", "starting", "running", "stopping", "stopped", "error"}]
      BY <1>1, <1>2 DEF ManagerOK
    <2>2. slipped' \subseteq Resources
      BY <1>1, <1>2 DEF ManagerOK
    <2>3. late \subseteq slipped \X BOOLEAN /\ slipped \subseteq slipped' /\ <<r, TRUE>> \in {r} \X BOOLEAN
      BY <1>1 DEF ManagerOK
    <2>4. late' \subseteq slipped' \X BOOLEAN
      BY <1>1, <2>3
    <2>5. slips' \in Nat /\ up' \subseteq Resources /\ started' \in Seq(Resources)
      BY <1>1 DEF ManagerOK
    <2> QED BY <2>1, <2>2, <2>4, <2>5 DEF ManagerOK
  <1>5. slipped \subseteq slipped' /\ Firm' \subseteq Firm
    BY <1>1 DEF Firm
  <1>6. ASSUME Uncrossed PROVE r \notin Firm
    <2>1. /\ Firm \subseteq Listed(started, Len(started))
          /\ \A j \in DOMAIN started : Pos(started[j]) < Pos(r)
      BY <1>1, <1>2, <1>6 DEF Uncrossed, Accounted
    <2>2. \A j \in 1..Len(started) : started[j] # r
      BY <1>1, <1>2, <2>1 DEF ManagerOK
    <2> QED BY <2>1, <2>2 DEF Listed
  <1>7. CASE StopAll(c)
    <2>1. /\ CallsOK' /\ run'[c].at = "undo"
          /\ \A d \in Calls : d # c => run'[d] = run[d]
      BY <1>7, StopsAll DEF ManagerOK
    <2>2. ASSUME ~crossed' PROVE Uncrossed'
      <3>1. ~crossed /\ Uncrossed
        BY <1>1, <2>2 DEF engineVars
      <3>2. OneCall' /\ SomeCall' /\ Flags'
        BY <1>1, <2>1, <3>1, ControlStays DEF Uncrossed
      <3>3. Accounted' /\ StatesMeanIt' /\ Reached'
        BY <1>1, <1>2, <1>4, <1>5, <1>6, <1>7, <3>1, RollsBack DEF ManagerOK
      <3> QED BY <3>2, <3>3 DEF Uncrossed
    <2> QED BY <1>3, <1>4, <2>1, <2>2
  <1>8. CASE r \in Optional /\ Onward(c)
    <2>1. /\ CallsOK' /\ run'[c].at = "next" /\ run'[c].i = run[c].i + 1
          /\ \A d \in Calls : d # c => run'[d] = run[d]
      BY <1>1, <1>8, GoesOnward
    <2>2. ASSUME ~crossed' PROVE Uncrossed'
      <3>1. ~crossed /\ Uncrossed
        BY <1>1, <2>2 DEF engineVars
      <3>2. OneCall' /\ SomeCall' /\ Flags'
        BY <1>1, <2>1, <3>1, ControlStays DEF Uncrossed
      <3>3. (\A d \in Calls : d # c => run[d].at = "out") /\ machine = "starting"
        BY <1>1, <3>1, Alone DEF Uncrossed
      <3>4. Accounted'
        <4>1. \A j \in DOMAIN started : Pos(started[j]) < run[c].i
          BY <1>1, <3>1 DEF Uncrossed, Accounted
        <4>2. \A j \in DOMAIN started : Pos(started[j]) \in Nat
          BY Places DEF ManagerOK
        <4>3. \A j \in DOMAIN started : Pos(started[j]) < run[c].i + 1
          BY <1>1, <4>1, <4>2
        <4> QED BY <1>1, <1>5, <2>1, <3>1, <3>3, <4>3 DEF Uncrossed, Accounted, engineVars
      <3>5. StatesMeanIt'
        <4>1. \A q \in Resources : state'[q] = IF q = r THEN "error" ELSE state[q]
          BY <1>1, <1>2 DEF ManagerOK
        <4>2. \A q \in Firm : q \in Resources /\ state[q] = "running"
          BY <1>1, <3>1, <3>3 DEF Uncrossed, StatesMeanIt, Firm, ManagerOK
        <4>3. \A q \in Firm' : state'[q] = "running"
          BY <1>5, <1>6, <3>1, <4>1, <4>2
        <4> QED BY <1>1, <1>5, <3>1, <4>1, <4>3 DEF Uncrossed, StatesMeanIt
      <3>6. NeedsAreUp'
        BY <1>1, <1>5, <3>1 DEF Uncrossed, Reached, NeedsAreUp, engineVars
      <3>7. \A j \in DOMAIN Plan : j < run[c].i + 1 => Plan[j] \in up' \union slipped' \union Optional
        <4> SUFFICES ASSUME NEW j \in DOMAIN Plan, j < run[c].i + 1
                     PROVE  Plan[j] \in up' \union slipped' \union Optional
          OBVIOUS
        <4>1. CASE j < run[c].i
          BY <1>1, <1>5, <3>1, <4>1 DEF Uncrossed, Reached
        <4>2. CASE j = run[c].i
          BY <1>8, <4>2
        <4> QED BY <1>1, <4>1, <4>2
      <3>8. RunningMeansUp'
        BY <1>1, <3>3 DEF RunningMeansUp, engineVars
      <3>9. listening'
        BY <1>1, <3>1 DEF Uncrossed, Reached, engineVars
      <3>10. Reached'
        BY <2>1, <3>3, <3>6, <3>7, <3>8, <3>9 DEF Reached, Starts
      <3> QED BY <3>2, <3>4, <3>5, <3>10 DEF Uncrossed
    <2> QED BY <1>3, <1>4, <2>1, <2>2
  <1> QED BY <1>1, <1>7, <1>8

\* The call that goes back through a list is the only one.
LEMMA GoingBack ==
  ASSUME ManagerOK, CallsOK, Uncrossed, NEW c \in Calls, run[c].at \in {"undo", "stopping"},
         run[c].i # 0
  PROVE  /\ \A d \in Calls : d # c => run[d].at = "out"
         /\ run[c].i \in 1..Len(run[c].list) /\ run[c].list \in Seq(Resources)
         /\ run[c].list[run[c].i] \in Resources
         /\ InOrder(run[c].list) /\ Firm \subseteq Listed(run[c].list, run[c].i)
         /\ machine # "running"
         /\ Firm \ {run[c].list[run[c].i]} \subseteq Listed(run[c].list, run[c].i - 1)
  <1>1. (\A d \in Calls : d # c => run[d].at = "out") /\ machine # "running"
    BY Alone DEF Uncrossed
  <1>2. run[c].list \in Seq(Resources) /\ run[c].i \in Nat
    BY DEF CallsOK, Call
  <1>3. run[c].i \in 1..Len(run[c].list)
    <2>1. \/ run[c].i \in 0..Len(run[c].list)
          \/ run[c].i \in 1..Len(run[c].list)
      BY DEF CallsOK
    <2> QED BY <1>2, <2>1
  <1>4. InOrder(run[c].list) /\ Firm \subseteq Listed(run[c].list, run[c].i)
    BY DEF Uncrossed, Accounted
  <1>5. Listed(run[c].list, run[c].i) \ {run[c].list[run[c].i]}
          \subseteq Listed(run[c].list, run[c].i - 1)
    BY <1>3 DEF Listed
  <1>6. run[c].list[run[c].i] \in Resources
    BY <1>2, <1>3
  <1> QED BY <1>1, <1>2, <1>3, <1>4, <1>5, <1>6

\* Going back to a resource that is to be stopped, past one that is, or to the end.
LEMMA UnwindKeeps ==
  ASSUME IInv, NEW c \in Calls, Manager(Unwind(c))
  PROVE  IInv'
  <1> USE DEF IInv, TypeOK, Unheld
  <1> DEFINE r == run[c].list[run[c].i]
  <1>1. /\ run[c].at = "undo"
        /\ UNCHANGED <<up, late, slipped, slips>>
        /\ UNCHANGED <<engineVars, bridgeVars, radio, losses>>
    BY DEF Manager, Unwind
  <1>2. EngineOK' /\ BridgeOK' /\ Firm' = Firm
    BY <1>1, OthersStay DEF Firm
  <1>3. CASE run[c].i = 0 /\ Goes(c, "undone") /\ started' = <<>> /\ UNCHANGED state
    <2>1. /\ CallsOK' /\ run'[c].at = "undone"
          /\ \A d \in Calls : d # c => run'[d] = run[d]
      BY <1>3, GoesOn DEF Ats, StartAts, StopAts
    <2>2. ManagerOK'
      BY <1>1, <1>3 DEF ManagerOK
    <2>3. ASSUME ~crossed' PROVE Uncrossed'
      <3>1. ~crossed /\ Uncrossed
        BY <1>1, <2>3 DEF engineVars
      <3>2. OneCall' /\ SomeCall' /\ Flags'
        BY <1>1, <2>1, <3>1, ControlStays DEF Uncrossed
      <3>3. (\A d \in Calls : d # c => run[d].at = "out") /\ machine # "running"
        BY <1>1, <3>1, Alone DEF Uncrossed
      <3>4. Firm' = {}
        BY <1>1, <1>2, <1>3, <3>1 DEF Uncrossed, Accounted, Listed
      <3>5. Accounted'
        BY <1>3, <2>1, <3>3, <3>4 DEF Accounted, InOrder
      <3>6. StatesMeanIt'
        BY <1>1, <1>3, <3>1, <3>4 DEF Uncrossed, StatesMeanIt
      <3>7. NeedsAreUp' /\ RunningMeansUp'
        BY <1>1, <3>3, <3>4 DEF NeedsAreUp, RunningMeansUp, Firm, engineVars
      <3>8. Reached'
        BY <2>1, <3>3, <3>7 DEF Reached, Starts
      <3> QED BY <3>2, <3>5, <3>6, <3>8 DEF Uncrossed
    <2> QED BY <1>2, <2>1, <2>2, <2>3
  <1>4. CASE /\ run[c].i # 0 /\ state[r] \in {"stopped", "idle"} /\ Back(c)
             /\ UNCHANGED <<started, state>>
    <2>1. /\ CallsOK' /\ run'[c].at = "undo" /\ run'[c].i = run[c].i - 1
          /\ run'[c].list = run[c].list
          /\ \A d \in Calls : d # c => run'[d] = run[d]
      BY <1>1, <1>4, GoesBack
    <2>2. ManagerOK'
      BY <1>1, <1>4 DEF ManagerOK
    <2>3. ASSUME ~crossed' PROVE Uncrossed'
      <3>1. ~crossed /\ Uncrossed
        BY <1>1, <2>3 DEF engineVars
      <3>2. OneCall' /\ SomeCall' /\ Flags'
        BY <1>1, <2>1, <3>1, ControlStays DEF Uncrossed
      <3>3. /\ \A d \in Calls : d # c => run[d].at = "out"
            /\ machine # "running" /\ InOrder(run[c].list)
            /\ Firm \ {r} \subseteq Listed(run[c].list, run[c].i - 1)
        BY <1>1, <1>4, <3>1, GoingBack
      <3>4. r \notin Firm
        BY <1>1, <1>4, <3>1, <3>3 DEF Uncrossed, StatesMeanIt
      <3>5. Accounted'
        BY <1>1, <1>2, <1>4, <2>1, <3>1, <3>3, <3>4 DEF Uncrossed, Accounted, engineVars
      <3>6. StatesMeanIt'
        BY <1>1, <1>2, <1>4, <2>1, <3>1, <3>3 DEF Uncrossed, StatesMeanIt
      <3>7. NeedsAreUp' /\ RunningMeansUp'
        BY <1>1, <3>1, <3>3 DEF Uncrossed, Reached, NeedsAreUp, RunningMeansUp, engineVars
      <3>8. Reached'
        BY <2>1, <3>3, <3>7 DEF Reached, Starts
      <3> QED BY <3>2, <3>5, <3>6, <3>8 DEF Uncrossed
    <2> QED BY <1>2, <2>1, <2>2, <2>3
  <1>5. CASE /\ run[c].i # 0 /\ state' = [state EXCEPT ![r] = "stopping"] /\ Goes(c, "stopping")
             /\ UNCHANGED started
    <2>1. /\ CallsOK' /\ run'[c].at = "stopping" /\ run'[c].i = run[c].i
          /\ run'[c].list = run[c].list
          /\ \A d \in Calls : d # c => run'[d] = run[d]
      BY <1>1, <1>5, AwaitsStop
    <2>2. ManagerOK'
      BY <1>1, <1>5 DEF ManagerOK
    <2>3. ASSUME ~crossed' PROVE Uncrossed'
      <3>1. ~crossed /\ Uncrossed
        BY <1>1, <2>3 DEF engineVars
      <3>2. OneCall' /\ SomeCall' /\ Flags'
        BY <1>1, <2>1, <3>1, ControlStays DEF Uncrossed
      <3>3. /\ \A d \in Calls : d # c => run[d].at = "out"
            /\ machine # "running" /\ InOrder(run[c].list) /\ r \in Resources
            /\ Firm \subseteq Listed(run[c].list, run[c].i)
        BY <1>1, <1>5, <3>1, GoingBack
      <3>4. Accounted'
        BY <1>1, <1>2, <1>5, <2>1, <3>1, <3>3 DEF Uncrossed, Accounted, engineVars
      <3>5. StatesMeanIt'
        <4>1. \A q \in Resources : state'[q] = IF q = r THEN "stopping" ELSE state[q]
          BY <1>5, <3>3 DEF ManagerOK
        <4>2. \A q \in Firm : q \in Resources /\ state[q] = "running"
          BY <1>1, <3>1, <3>3 DEF Uncrossed, StatesMeanIt, Firm, ManagerOK
        <4>3. \A q \in Firm' : state'[q] = "running" \/ q = r
          BY <1>2, <4>1, <4>2
        <4> QED BY <1>1, <2>1, <3>1, <4>1, <4>3 DEF Uncrossed, StatesMeanIt
      <3>6. NeedsAreUp' /\ RunningMeansUp'
        BY <1>1, <3>1, <3>3 DEF Uncrossed, Reached, NeedsAreUp, RunningMeansUp, engineVars
      <3>7. Reached'
        BY <2>1, <3>3, <3>6 DEF Reached, Starts
      <3> QED BY <3>2, <3>4, <3>5, <3>7 DEF Uncrossed
    <2> QED BY <1>2, <2>1, <2>2, <2>3
  <1> QED BY <1>3, <1>4, <1>5 DEF Manager, Unwind

\* A resource has been stopped: what depends on it came up later, so it has
\* been stopped before.
LEMMA StopEndsKeeps ==
  ASSUME IInv, NEW c \in Calls, Manager(StopEnds(c))
  PROVE  IInv'
  <1> USE DEF IInv, TypeOK, Unheld
  <1> DEFINE r == run[c].list[run[c].i]
  <1>1. /\ run[c].at = "stopping" /\ run[c].i # 0
        /\ state' = [state EXCEPT ![r] = "stopped"] /\ up' = up \ {r}
        /\ Back(c)
        /\ UNCHANGED <<started, late, slipped, slips>>
        /\ UNCHANGED <<engineVars, bridgeVars, radio, losses>>
    BY DEF Manager, StopEnds, CallsOK
  <1>2. EngineOK' /\ BridgeOK'
    BY <1>1, OthersStay
  <1>3. /\ CallsOK' /\ run'[c].at = "undo" /\ run'[c].i = run[c].i - 1
        /\ run'[c].list = run[c].list
        /\ \A d \in Calls : d # c => run'[d] = run[d]
    BY <1>1, GoesBack
  <1>4. ManagerOK'
    <2>1. state' \in [Resources -> {"idle", "starting", "running", "stopping", "stopped", "error"}]
      BY <1>1 DEF ManagerOK
    <2> QED BY <1>1, <2>1 DEF ManagerOK
  <1>5. ASSUME ~crossed' PROVE Uncrossed'
    <2>1. ~crossed /\ Uncrossed
      BY <1>1, <1>5 DEF engineVars
    <2>2. OneCall' /\ SomeCall' /\ Flags'
      BY <1>1, <1>3, <2>1, ControlStays DEF Uncrossed
    <2>3. /\ \A d \in Calls : d # c => run[d].at = "out"
          /\ machine # "running" /\ InOrder(run[c].list) /\ r \in Resources
          /\ run[c].i \in 1..Len(run[c].list) /\ run[c].list \in Seq(Resources)
          /\ Firm \subseteq Listed(run[c].list, run[c].i)
          /\ Firm \ {r} \subseteq Listed(run[c].list, run[c].i - 1)
      BY <1>1, <2>1, GoingBack
    <2>4. Firm' = Firm \ {r}
      BY <1>1 DEF Firm
    <2>5. Accounted'
      BY <1>1, <1>3, <2>1, <2>3, <2>4 DEF Uncrossed, Accounted, engineVars
    <2>6. StatesMeanIt'
      <3>1. \A q \in Resources : state'[q] = IF q = r THEN "stopped" ELSE state[q]
        BY <1>1, <2>3 DEF ManagerOK
      <3>2. \A q \in Firm : q \in Resources /\ (state[q] = "running" \/ q = r)
        BY <1>1, <2>1, <2>3 DEF Uncrossed, StatesMeanIt, Firm, ManagerOK
      <3>3. \A q \in Firm' : state'[q] = "running"
        BY <2>4, <3>1, <3>2
      <3> QED BY <1>1, <2>1, <3>1, <3>3 DEF Uncrossed, StatesMeanIt
    <2>7. NeedsAreUp'
      <3>1. ASSUME NEW q \in Firm, q # r, r \in Needs[q] PROVE FALSE
        <4>1. q \in Resources /\ Pos(r) < Pos(q) /\ Pos(r) \in 1..Len(Plan) /\ Pos(q) \in 1..Len(Plan)
          BY <2>3, <3>1, NeedsComeFirst, Places DEF Firm, ManagerOK
        <4>2. PICK k \in 1..run[c].i : q = run[c].list[k]
          BY <2>3 DEF Listed
        <4>3. k \in DOMAIN run[c].list /\ run[c].i \in DOMAIN run[c].list /\ k < run[c].i
          BY <2>3, <3>1, <4>2
        <4>4. Pos(q) < Pos(r)
          BY <2>3, <4>2, <4>3 DEF InOrder
        <4> QED BY <4>1, <4>4
      <3>2. \A q \in Firm : Needs[q] \subseteq up \union slipped
        BY <2>1 DEF Uncrossed, Reached, NeedsAreUp, Firm
      <3>3. \A q \in Firm' : Needs[q] \subseteq up' \union slipped'
        BY <1>1, <2>4, <3>1, <3>2
      <3> QED BY <3>3 DEF NeedsAreUp, Firm
    <2>8. RunningMeansUp'
      BY <1>1, <2>3 DEF RunningMeansUp, engineVars
    <2>9. Reached'
      BY <1>3, <2>3, <2>7, <2>8 DEF Reached, Starts
    <2> QED BY <2>2, <2>5, <2>6, <2>9 DEF Uncrossed
  <1> QED BY <1>2, <1>3, <1>4, <1>5

\* A stop has failed or is given up: the resource has slipped.
LEMMA StopFailsKeeps ==
  ASSUME IInv, NEW c \in Calls, Manager(StopFails(c))
  PROVE  IInv'
  <1> USE DEF IInv, TypeOK, Unheld
  <1> DEFINE r == run[c].list[run[c].i]
  <1>1. /\ run[c].at = "stopping" /\ run[c].i # 0
        /\ state' = [state EXCEPT ![r] = "error"] /\ slipped' = slipped \union {r}
        /\ late' \in {late, late \union {<<r, FALSE>>}} /\ slips' = slips + 1
        /\ Back(c)
        /\ UNCHANGED <<up, started>>
        /\ UNCHANGED <<engineVars, bridgeVars, radio, losses>>
    <2>1. run[c].at = "stopping"
      BY DEF Manager, StopFails
    <2>2. run[c].i # 0
      BY <2>1 DEF CallsOK
    <2> QED BY <2>1, <2>2 DEF Manager, StopFails
  <1>2. EngineOK' /\ BridgeOK'
    BY <1>1, OthersStay
  <1>3. /\ CallsOK' /\ run'[c].at = "undo" /\ run'[c].i = run[c].i - 1
        /\ run'[c].list = run[c].list
        /\ \A d \in Calls : d # c => run'[d] = run[d]
    BY <1>1, GoesBack
  <1>4. ManagerOK'
    <2>1. run[c].list \in Seq(Resources) /\ run[c].i \in 1..Len(run[c].list)
      <3>1. run[c] \in Call
        BY DEF CallsOK
      <3>2. run[c].i \in 1..Len(run[c].list)
        BY <1>1 DEF CallsOK
      <3> QED BY <3>1, <3>2 DEF Call
    <2>2. r \in Resources
      BY <2>1
    <2>3. state' \in [Resources -> {"idle", "starting", "running", "stopping", "stopped", "error"}]
      BY <1>1 DEF ManagerOK
    <2>4. <<r, FALSE>> \in {r} \X BOOLEAN
      OBVIOUS
    <2>5. late \subseteq slipped \X BOOLEAN /\ slipped \subseteq slipped'
      BY <1>1 DEF ManagerOK
    <2>6. late' \subseteq slipped' \X BOOLEAN
      BY <1>1, <2>4, <2>5
    <2>7. slips' \in Nat /\ up' \subseteq Resources /\ slipped' \subseteq Resources
      BY <1>1, <2>2 DEF ManagerOK
    <2> QED BY <1>1, <2>3, <2>6, <2>7 DEF ManagerOK
  <1>5. ASSUME ~crossed' PROVE Uncrossed'
    <2>1. ~crossed /\ Uncrossed
      BY <1>1, <1>5 DEF engineVars
    <2>2. OneCall' /\ SomeCall' /\ Flags'
      BY <1>1, <1>3, <2>1, ControlStays DEF Uncrossed
    <2>3. /\ \A d \in Calls : d # c => run[d].at = "out"
          /\ machine # "running" /\ InOrder(run[c].list) /\ r \in Resources
          /\ Firm \ {r} \subseteq Listed(run[c].list, run[c].i - 1)
      BY <1>1, <2>1, GoingBack
    <2>4. Firm' = Firm \ {r}
      BY <1>1 DEF Firm
    <2>5. Accounted'
      BY <1>1, <1>3, <2>1, <2>3, <2>4 DEF Uncrossed, Accounted, engineVars
    <2>6. StatesMeanIt'
      <3>1. \A q \in Resources : state'[q] = IF q = r THEN "error" ELSE state[q]
        BY <1>1, <2>3 DEF ManagerOK
      <3>2. \A q \in Firm : q \in Resources /\ (state[q] = "running" \/ q = r)
        BY <1>1, <2>1, <2>3 DEF Uncrossed, StatesMeanIt, Firm, ManagerOK
      <3>3. \A q \in Firm' : state'[q] = "running"
        BY <2>4, <3>1, <3>2
      <3> QED BY <1>1, <2>1, <3>1, <3>3 DEF Uncrossed, StatesMeanIt
    <2>7. NeedsAreUp'
      BY <1>1, <2>1, <2>4 DEF Uncrossed, Reached, NeedsAreUp, Firm
    <2>8. RunningMeansUp'
      BY <1>1, <2>3 DEF RunningMeansUp, engineVars
    <2>9. Reached'
      BY <1>3, <2>3, <2>7, <2>8 DEF Reached, Starts
    <2> QED BY <2>2, <2>5, <2>6, <2>9 DEF Uncrossed
  <1> QED BY <1>2, <1>3, <1>4, <1>5

-----------------------------------------------------------------------------
(* The state machine, while the resources stay as they are. *)

\* A step that touches neither the calls nor the resources nor the flags.
LEMMA NothingMoves ==
  ASSUME IInv, BridgeOK', scope' \in {"full", "mode-runtime"},
         UNCHANGED <<managerVars, run, machine, given, isRunning, listening, audio, crossed>>
  PROVE  IInv'
  <1> USE DEF IInv, TypeOK, Unheld
  <1>1. UNCHANGED <<state, up, started, late, slipped, slips>>
    BY DEF managerVars
  <1>2. ManagerOK' /\ CallsOK' /\ EngineOK'
    BY <1>1 DEF ManagerOK, CallsOK, EngineOK
  <1>3. ASSUME Uncrossed PROVE Uncrossed'
    <2> USE DEF Uncrossed
    <2>1. OneCall' /\ SomeCall' /\ Flags'
      BY <1>3 DEF OneCall, SomeCall, Flags
    <2>2. Firm' = Firm
      BY <1>1 DEF Firm
    <2>3. Accounted' /\ StatesMeanIt'
      BY <1>1, <1>3, <2>2 DEF Accounted, StatesMeanIt
    <2>4. Reached'
      BY <1>1, <1>3 DEF Reached, NeedsAreUp, RunningMeansUp
    <2> QED BY <2>1, <2>3, <2>4
  <1> QED BY <1>2, <1>3

\* What is said of the resources stays, whatever the call waits for next.
LEMMA ResourcesStay ==
  ASSUME ManagerOK, Uncrossed, ~crossed, NEW c \in Calls, UNCHANGED managerVars,
         \A d \in Calls : d # c => run[d].at = "out" /\ run'[d] = run[d],
         run[c].at # "stopping",
         run'[c].at \notin {"next", "starting", "stopping"},
         run'[c].at \in {"config", "setup", "undone", "closing"} => Firm = {},
         run'[c].at = "undo" => run'[c].list = started /\ run'[c].i = Len(started),
         machine' = "idle" => Firm = {}
  PROVE  Accounted' /\ StatesMeanIt' /\ NeedsAreUp'
  <1>1. UNCHANGED <<state, up, started, slipped>> /\ Firm' = Firm
    BY DEF managerVars, Firm
  <1>2. Accounted'
    BY <1>1 DEF Uncrossed, Accounted
  <1>3. StatesMeanIt'
    BY <1>1 DEF Uncrossed, StatesMeanIt
  <1>4. NeedsAreUp'
    BY <1>1 DEF Uncrossed, Reached, NeedsAreUp
  <1> QED BY <1>2, <1>3, <1>4

\* Types of the manager's variables.
LEMMA ManagerStays ==
  ASSUME ManagerOK, UNCHANGED managerVars
  PROVE  ManagerOK'
  BY DEF ManagerOK, managerVars

\* No call is under way in a state that waits for none.
LEMMA NoCall ==
  ASSUME OneCall, machine \in {"idle", "running"}
  PROVE  \A d \in Calls : run[d].at = "out"
  BY DEF OneCall

\* The engine begins to start.
LEMMA BeginKeeps ==
  ASSUME IInv, machine = "idle", Begin, UNCHANGED managerVars, losses' \in Nat,
         wasRunning' \in BOOLEAN, restoring' \in Nat, dropping' \in BOOLEAN
  PROVE  IInv'
  <1> USE DEF IInv, TypeOK, Unheld
  <1> DEFINE n == given + 1
             x == [Idle EXCEPT !.at = IF Connected THEN "setup" ELSE "config", !.had = Connected]
  <1>1. /\ given < MaxStarts /\ machine' = "starting" /\ given' = n
        /\ run' = [run EXCEPT ![n] = x]
        /\ radio' = IF Connected THEN radio ELSE "connecting"
        /\ UNCHANGED <<isRunning, scope, listening, audio, crossed>>
    BY DEF Begin
  <1>2. n \in Calls /\ n \in Starts /\ n # 0 /\ n \in 0..MaxStarts
    BY <1>1 DEF EngineOK, Starts
  <1>3. x \in Call /\ x.at \in {"setup", "config"}
    <2>1. Connected \in BOOLEAN
      BY DEF Connected
    <2>2. \A at \in StartAts, b \in BOOLEAN : [Idle EXCEPT !.at = at, !.had = b] \in Call
      BY IdleIsCall DEF Call, StartAts, Idle
    <2>3. (IF Connected THEN "setup" ELSE "config") \in StartAts
      BY DEF StartAts
    <2>4. x.at = IF Connected THEN "setup" ELSE "config"
      BY DEF Idle
    <2> QED BY <2>1, <2>2, <2>3, <2>4
  <1>4. x.at \in Ats(n) /\ Indexed(x)
    BY <1>2, <1>3 DEF Ats, StartAts, Indexed
  <1> HIDE DEF x
  <1>5. /\ CallsOK' /\ run'[n] = x
        /\ \A d \in Calls : d # n => run'[d] = run[d]
    BY <1>1, <1>2, <1>3, <1>4, Replaced
  <1>6. ManagerOK' /\ EngineOK' /\ BridgeOK'
    BY <1>1, <1>2, ManagerStays DEF EngineOK, BridgeOK
  <1>7. ASSUME ~crossed' PROVE Uncrossed'
    <2>1. ~crossed /\ Uncrossed
      BY <1>1, <1>7
    <2>2. \A d \in Calls : run[d].at = "out"
      BY <2>1, NoCall DEF Uncrossed
    <2>3. Firm = {} /\ ~isRunning /\ ~listening /\ Unheld
      BY <2>1 DEF Uncrossed, Accounted, Flags
    <2>4. OneCall' /\ SomeCall'
      BY <1>1, <1>2, <1>3, <1>5, <2>2 DEF OneCall, SomeCall
    <2>5. Flags'
      BY <1>1, <1>2, <1>5, <2>2, <2>3 DEF Flags
    <2>6. Accounted' /\ StatesMeanIt' /\ NeedsAreUp'
      BY <1>1, <1>2, <1>3, <1>5, <2>1, <2>2, <2>3, ResourcesStay
    <2>7. Reached'
      BY <1>1, <1>2, <1>3, <1>5, <2>2, <2>6 DEF Reached, RunningMeansUp, Starts
    <2> QED BY <2>4, <2>5, <2>6, <2>7 DEF Uncrossed
  <1> QED BY <1>5, <1>6, <1>7

\* The engine begins to stop: it ran, or a start is left behind.
LEMMA BeginStopKeeps ==
  ASSUME IInv, machine \in {"running", "starting"}, NEW s \in {"full", "mode-runtime"},
         BeginStop(s), UNCHANGED managerVars, BridgeOK'
  PROVE  IInv'
  <1> USE DEF IInv, TypeOK, Unheld
  <1> DEFINE x == [Idle EXCEPT !.at = "sidecar"]
  <1>1. /\ machine' = "stopping" /\ scope' = s
        /\ run' = [run EXCEPT ![0] = x]
        /\ audio' \in CASE audio = "on"     -> {"closing"}
                       [] audio = "astray" -> {"closing", "astray"}
                       [] OTHER            -> {audio}
        /\ crossed' = (crossed \/ machine = "starting")
        /\ UNCHANGED <<given, isRunning, listening>>
    BY DEF BeginStop
  <1>2. x \in Call /\ x.at = "sidecar"
    BY IdleIsCall DEF Call, Idle, StopAts
  <1>3. x.at \in Ats(0) /\ Indexed(x) /\ 0 \in Calls
    BY <1>2 DEF Ats, StopAts, Indexed
  <1> HIDE DEF x
  <1>4. /\ CallsOK' /\ run'[0] = x
        /\ \A d \in Calls : d # 0 => run'[d] = run[d]
    BY <1>1, <1>2, <1>3, Replaced
  <1>5. ManagerOK' /\ EngineOK'
    BY <1>1, ManagerStays DEF EngineOK
  <1>6. ASSUME ~crossed' PROVE Uncrossed'
    <2>1. ~crossed /\ Uncrossed /\ machine = "running"
      BY <1>1, <1>6 DEF EngineOK
    <2>2. \A d \in Calls : run[d].at = "out"
      BY <2>1, NoCall DEF Uncrossed
    <2>3. audio = "on"
      BY <2>1 DEF Uncrossed, Reached, RunningMeansUp
    <2>4. OneCall' /\ SomeCall' /\ Flags'
      BY <1>1, <1>2, <1>3, <1>4, <2>2, <2>3 DEF OneCall, SomeCall, Flags
    <2>5. Accounted' /\ StatesMeanIt' /\ NeedsAreUp'
      BY <1>1, <1>2, <1>3, <1>4, <2>1, <2>2, ResourcesStay
    <2>6. Reached'
      BY <1>1, <1>4, <2>2, <2>5 DEF Reached, RunningMeansUp, Starts
    <2> QED BY <2>4, <2>5, <2>6 DEF Uncrossed
  <1> QED BY <1>4, <1>5, <1>6

\* A start that failed has ended.
LEMMA FailEndsKeeps ==
  ASSUME IInv, NEW n \in Starts, run[n].at \in {"config", "undone", "closing"}, FailEnds(n),
         UNCHANGED managerVars, BridgeOK'
  PROVE  IInv'
  <1> USE DEF IInv, TypeOK, Unheld
  <1>1. /\ Ends(n) /\ listening' = FALSE
        /\ machine' = IF Heard(n) THEN "idle" ELSE machine
        /\ UNCHANGED <<given, isRunning, scope, audio, crossed>>
    BY DEF FailEnds
  <1>2. n \in Calls /\ n # 0 /\ 0 \in Calls
    BY DEF Starts
  <1>3. CallsOK' /\ run'[n].at = "out" /\ \A d \in Calls : d # n => run'[d] = run[d]
    BY <1>1, <1>2, Ended
  <1>4. ManagerOK' /\ EngineOK'
    BY <1>1, ManagerStays DEF EngineOK
  <1>5. ASSUME ~crossed' PROVE Uncrossed'
    <2>1. ~crossed /\ Uncrossed
      BY <1>1, <1>5
    <2>2. (\A d \in Calls : d # n => run[d].at = "out") /\ machine = "starting" /\ n = given
      BY <1>2, <2>1, Alone DEF Uncrossed
    <2>3. machine' = "idle" /\ Firm = {} /\ ~isRunning /\ Unheld
      BY <1>1, <1>2, <2>1, <2>2 DEF Heard, Uncrossed, Accounted, Flags
    <2>4. OneCall' /\ SomeCall' /\ Flags'
      BY <1>1, <1>2, <1>3, <2>2, <2>3 DEF OneCall, SomeCall, Flags
    <2>5. Accounted' /\ StatesMeanIt' /\ NeedsAreUp'
      BY <1>2, <1>3, <2>1, <2>2, <2>3, ResourcesStay
    <2>6. Reached'
      BY <1>3, <2>2, <2>3, <2>5 DEF Reached, RunningMeansUp, Starts
    <2> QED BY <2>4, <2>5, <2>6 DEF Uncrossed
  <1> QED BY <1>3, <1>4, <1>5

\* A start configures the radio, or the connection is closed again.
LEMMA GoesKeeps ==
  ASSUME IInv, NEW c \in Calls, run[c].at \in {"config", "undone"}, NEW at \in Ats(c),
         at \in {"setup", "closing"}, Goes(c, at), UNCHANGED <<managerVars, engineVars>>, BridgeOK'
  PROVE  IInv'
  <1> USE DEF IInv, TypeOK, Unheld
  <1>1. CallsOK' /\ run'[c].at = at /\ \A d \in Calls : d # c => run'[d] = run[d]
    BY GoesOn
  <1>2. ManagerOK' /\ EngineOK'
    BY ManagerStays DEF EngineOK, engineVars
  <1>3. ASSUME ~crossed' PROVE Uncrossed'
    <2>1. ~crossed /\ Uncrossed
      BY <1>3 DEF engineVars
    <2>2. (\A d \in Calls : d # c => run[d].at = "out") /\ machine \in {"starting", "stopping"}
      BY <2>1, Alone DEF Uncrossed
    <2>3. Firm = {}
      BY <2>1 DEF Uncrossed, Accounted
    <2>4. OneCall' /\ SomeCall' /\ Flags'
      BY <1>1, <2>1, ControlStays DEF Uncrossed
    <2>5. Accounted' /\ StatesMeanIt' /\ NeedsAreUp'
      BY <1>1, <2>1, <2>2, <2>3, ResourcesStay
    <2>6. Reached'
      BY <1>1, <2>2, <2>5 DEF Reached, RunningMeansUp, Starts, engineVars
    <2> QED BY <2>4, <2>5, <2>6 DEF Uncrossed
  <1> QED BY <1>1, <1>2, <1>3

\* A start fails: at once, or when the connection it made is closed.
LEMMA FailKeeps ==
  ASSUME IInv, NEW n \in Starts, run[n].at \in {"config", "undone"}, Fail(n),
         UNCHANGED <<managerVars, bridgeVars, losses>>
  PROVE  IInv'
  <1>1. CASE ~run[n].had /\ Connected /\ Goes(n, "closing") /\ radio' = "closing" /\ UNCHANGED engineVars
    <2>1. BridgeOK'
      BY <1>1 DEF IInv, TypeOK, BridgeOK, bridgeVars
    <2>2. n \in Calls /\ "closing" \in Ats(n)
      BY DEF Starts, Ats, StartAts
    <2> QED BY <1>1, <2>1, <2>2, GoesKeeps
  <1>2. CASE FailEnds(n) /\ UNCHANGED radio
    <2>1. BridgeOK'
      BY <1>2 DEF IInv, TypeOK, BridgeOK, bridgeVars
    <2> QED BY <1>2, <2>1, FailEndsKeeps
  <1> QED BY <1>1, <1>2 DEF Fail

\* A stop has ended.
LEMMA StopDoneKeeps ==
  ASSUME IInv, run[0].at \in {"undone", "closing"}, StopDone, UNCHANGED managerVars, BridgeOK'
  PROVE  IInv'
  <1> USE DEF IInv, TypeOK, Unheld
  <1>1. /\ Ends(0) /\ machine' = "idle" /\ isRunning' = FALSE /\ scope' = "full"
        /\ UNCHANGED <<given, listening, audio, crossed>>
    BY DEF StopDone
  <1>2. 0 \in Calls
    OBVIOUS
  <1>3. CallsOK' /\ run'[0].at = "out" /\ \A d \in Calls : d # 0 => run'[d] = run[d]
    BY <1>1, <1>2, Ended
  <1>4. ManagerOK' /\ EngineOK'
    BY <1>1, ManagerStays DEF EngineOK
  <1>5. ASSUME ~crossed' PROVE Uncrossed'
    <2>1. ~crossed /\ Uncrossed
      BY <1>1, <1>5
    <2>2. (\A d \in Calls : d # 0 => run[d].at = "out") /\ machine = "stopping"
      BY <1>2, <2>1, Alone DEF Uncrossed
    <2>3. Firm = {} /\ ~listening /\ Unheld
      BY <1>2, <2>1 DEF Uncrossed, Accounted, Flags
    <2>4. OneCall' /\ SomeCall' /\ Flags'
      BY <1>1, <1>2, <1>3, <2>2, <2>3 DEF OneCall, SomeCall, Flags
    <2>5. Accounted' /\ StatesMeanIt' /\ NeedsAreUp'
      BY <1>2, <1>3, <2>1, <2>2, <2>3, ResourcesStay
    <2>6. Reached'
      BY <1>1, <1>3, <2>2, <2>5 DEF Reached, RunningMeansUp, Starts
    <2> QED BY <2>4, <2>5, <2>6 DEF Uncrossed
  <1> QED BY <1>3, <1>4, <1>5

\* doStart goes on from the radio's configuration to the resources.
LEMMA SetupKeeps ==
  ASSUME IInv, NEW n \in Starts, Setup(n)
  PROVE  IInv'
  <1> USE DEF IInv, TypeOK, Unheld
  <1>1. /\ run[n].at = "setup" /\ listening' = TRUE /\ StartAll(n) /\ started' = <<>>
        /\ UNCHANGED <<state, up, late, slipped, slips>>
        /\ UNCHANGED <<machine, given, isRunning, scope, audio, crossed, bridgeVars, radio, losses>>
    BY DEF Setup, StartAll
  <1>2. n \in Calls /\ n # 0 /\ 0 \in Calls
    BY DEF Starts
  <1>3. /\ CallsOK' /\ run'[n].at = "next" /\ run'[n].i = 1
        /\ \A d \in Calls : d # n => run'[d] = run[d]
    BY <1>1, StartsAll
  <1>4. ManagerOK' /\ EngineOK' /\ BridgeOK'
    BY <1>1 DEF ManagerOK, EngineOK, BridgeOK, bridgeVars
  <1>5. ASSUME ~crossed' PROVE Uncrossed'
    <2>1. ~crossed /\ Uncrossed
      BY <1>1, <1>5
    <2>2. (\A d \in Calls : d # n => run[d].at = "out") /\ machine = "starting" /\ n = given
      BY <1>1, <1>2, <2>1, Alone DEF Uncrossed
    <2>3. Firm = {} /\ Firm' = {}
      BY <1>1, <1>2, <2>1 DEF Uncrossed, Accounted, Firm
    <2>4. OneCall' /\ SomeCall' /\ Flags'
      BY <1>1, <1>2, <1>3, <2>1, <2>2 DEF Uncrossed, OneCall, SomeCall, Flags
    <2>5. Accounted'
      <3>1. DOMAIN started' = {}
        BY <1>1
      <3>2. InOrder(started')
        BY <3>1 DEF InOrder
      <3>3. machine' = "starting" /\ \A d \in Calls : run'[d].at \in {"out", "next"}
        BY <1>1, <1>3, <2>2
      <3> QED BY <2>3, <3>1, <3>2, <3>3 DEF Accounted
    <2>6. StatesMeanIt'
      BY <1>1, <2>1, <2>3 DEF Uncrossed, StatesMeanIt
    <2>7. NeedsAreUp' /\ RunningMeansUp'
      BY <1>1, <2>2, <2>3 DEF NeedsAreUp, RunningMeansUp, Firm
    <2>8. \A j \in DOMAIN Plan : ~(j < 1)
      OBVIOUS
    <2>9. Reached'
      BY <1>1, <1>2, <1>3, <2>2, <2>7, <2>8 DEF Reached, Starts
    <2> QED BY <2>4, <2>5, <2>6, <2>9 DEF Uncrossed
  <1> QED BY <1>3, <1>4, <1>5

\* All resources of the plan have started: the engine runs.
LEMMA StartedKeeps ==
  ASSUME IInv, NEW n \in Starts, Started(n)
  PROVE  IInv'
  <1> USE DEF IInv, TypeOK, Unheld
  <1>1. /\ run[n].at = "started" /\ Ends(n) /\ isRunning' = TRUE
        /\ audio' = IF audio = "closing" THEN audio ELSE "on"
        /\ machine' = IF Heard(n) THEN "running" ELSE machine
        /\ UNCHANGED <<managerVars, given, scope, listening, crossed, bridgeVars, radio, losses>>
    BY DEF Started
  <1>2. n \in Calls /\ n # 0 /\ 0 \in Calls
    BY DEF Starts
  <1>3. CallsOK' /\ run'[n].at = "out" /\ \A d \in Calls : d # n => run'[d] = run[d]
    BY <1>1, <1>2, Ended
  <1>4. ManagerOK' /\ EngineOK' /\ BridgeOK'
    BY <1>1, ManagerStays DEF EngineOK, BridgeOK, bridgeVars
  <1>5. ASSUME ~crossed' PROVE Uncrossed'
    <2>1. ~crossed /\ Uncrossed
      BY <1>1, <1>5
    <2>2. (\A d \in Calls : d # n => run[d].at = "out") /\ machine = "starting" /\ n = given
      BY <1>1, <1>2, <2>1, Alone DEF Uncrossed
    <2>3. machine' = "running" /\ listening /\ Unheld
      BY <1>1, <2>1, <2>2 DEF Heard, Uncrossed, Reached, Flags
    <2>4. OneCall' /\ SomeCall' /\ Flags'
      BY <1>1, <1>2, <1>3, <2>2, <2>3 DEF OneCall, SomeCall, Flags
    <2>5. Accounted' /\ StatesMeanIt' /\ NeedsAreUp'
      BY <1>1, <1>2, <1>3, <2>1, <2>2, <2>3, ResourcesStay
    <2>6. RunningMeansUp'
      BY <1>1, <2>1, <2>3 DEF RunningMeansUp, Uncrossed, Reached, managerVars
    <2>7. Reached'
      BY <1>3, <2>2, <2>5, <2>6 DEF Reached, Starts
    <2> QED BY <2>4, <2>5, <2>7 DEF Uncrossed
  <1> QED BY <1>3, <1>4, <1>5

\* doStop has stopped the audio sidecar and takes the listeners away.
LEMMA SidecarStoppedKeeps ==
  ASSUME IInv, SidecarStopped
  PROVE  IInv'
  <1> USE DEF IInv, TypeOK, Unheld
  <1>1. /\ run[0].at = "sidecar" /\ Goes(0, "interrupt") /\ listening' = FALSE
        /\ audio' \in IF audio = "closing" THEN {"off", "astray"} ELSE {audio}
        /\ UNCHANGED <<managerVars, machine, given, isRunning, scope, crossed, bridgeVars, radio, losses>>
    BY DEF SidecarStopped, SidecarLeaves
  <1>2. 0 \in Calls /\ "interrupt" \in Ats(0)
    BY DEF Ats, StopAts
  <1>3. CallsOK' /\ run'[0].at = "interrupt" /\ \A d \in Calls : d # 0 => run'[d] = run[d]
    BY <1>1, <1>2, GoesOn
  <1>4. ManagerOK' /\ EngineOK' /\ BridgeOK'
    BY <1>1, ManagerStays DEF EngineOK, BridgeOK, bridgeVars
  <1>5. ASSUME ~crossed' PROVE Uncrossed'
    <2>1. ~crossed /\ Uncrossed
      BY <1>1, <1>5
    <2>2. (\A d \in Calls : d # 0 => run[d].at = "out") /\ machine = "stopping"
      BY <1>1, <1>2, <2>1, Alone DEF Uncrossed
    <2>3. OneCall' /\ SomeCall' /\ Flags'
      BY <1>1, <1>2, <1>3, <2>1, <2>2 DEF Uncrossed, OneCall, SomeCall, Flags
    <2>4. Accounted' /\ StatesMeanIt' /\ NeedsAreUp'
      BY <1>1, <1>2, <1>3, <2>1, <2>2, ResourcesStay
    <2>5. Reached'
      BY <1>1, <1>3, <2>2, <2>4 DEF Reached, RunningMeansUp, Starts
    <2> QED BY <2>3, <2>4, <2>5 DEF Uncrossed
  <1> QED BY <1>3, <1>4, <1>5

\* doStop begins to stop the resources.
LEMMA InterruptedKeeps ==
  ASSUME IInv, Interrupted
  PROVE  IInv'
  <1> USE DEF IInv, TypeOK, Unheld
  <1>1. /\ run[0].at = "interrupt" /\ StopAll(0)
        /\ UNCHANGED <<managerVars, engineVars, bridgeVars, radio, losses>>
    BY DEF Interrupted
  <1>2. 0 \in Calls /\ started \in Seq(Resources)
    BY DEF ManagerOK
  <1>3. /\ CallsOK' /\ run'[0].at = "undo" /\ run'[0].i = Len(started) /\ run'[0].list = started
        /\ \A d \in Calls : d # 0 => run'[d] = run[d]
    BY <1>1, <1>2, StopsAll
  <1>4. ManagerOK' /\ EngineOK' /\ BridgeOK'
    BY <1>1, ManagerStays, OthersStay
  <1>5. ASSUME ~crossed' PROVE Uncrossed'
    <2>1. ~crossed /\ Uncrossed
      BY <1>1, <1>5 DEF engineVars
    <2>2. (\A d \in Calls : d # 0 => run[d].at = "out") /\ machine = "stopping"
      BY <1>1, <1>2, <2>1, Alone DEF Uncrossed
    <2>3. OneCall' /\ SomeCall' /\ Flags'
      BY <1>1, <1>2, <1>3, <2>1, ControlStays DEF Uncrossed
    <2>4. Accounted' /\ StatesMeanIt' /\ NeedsAreUp'
      BY <1>1, <1>2, <1>3, <2>1, <2>2, ResourcesStay DEF engineVars
    <2>5. Reached'
      BY <1>1, <1>3, <2>2, <2>4 DEF Reached, RunningMeansUp, Starts, engineVars
    <2> QED BY <2>3, <2>4, <2>5 DEF Uncrossed
  <1> QED BY <1>3, <1>4, <1>5

\* doStop disconnects the radio, or ends.
LEMMA ResourcesStoppedKeeps ==
  ASSUME IInv, ResourcesStopped
  PROVE  IInv'
  <1>1. run[0].at = "undone" /\ UNCHANGED <<managerVars, bridgeVars, losses>>
    BY DEF ResourcesStopped
  <1>2. CASE Goes(0, "closing") /\ radio' = "closing" /\ UNCHANGED engineVars
    <2>1. BridgeOK'
      BY <1>1, <1>2 DEF IInv, TypeOK, BridgeOK, bridgeVars
    <2>2. 0 \in Calls /\ "closing" \in Ats(0)
      BY DEF Ats, StopAts
    <2> QED BY <1>1, <1>2, <2>1, <2>2, GoesKeeps
  <1>3. CASE StopDone /\ UNCHANGED radio
    <2>1. BridgeOK'
      BY <1>1, <1>3 DEF IInv, TypeOK, BridgeOK, bridgeVars
    <2> QED BY <1>1, <1>3, <2>1, StopDoneKeeps
  <1> QED BY <1>2, <1>3 DEF ResourcesStopped

\* The disconnect a call waited for has ended.
LEMMA ClosedKeeps ==
  ASSUME IInv, NEW c \in Calls, Closed(c)
  PROVE  IInv'
  <1>1. /\ run[c].at = "closing" /\ UNCHANGED <<managerVars, bridgeVars, radio, losses>>
        /\ IF c = 0 THEN StopDone ELSE FailEnds(c)
    BY DEF Closed
  <1>2. BridgeOK'
    BY <1>1 DEF IInv, TypeOK, BridgeOK, bridgeVars
  <1> QED BY <1>1, <1>2, StopDoneKeeps, FailEndsKeeps DEF Starts

-----------------------------------------------------------------------------
(* The radio, and the theorems. *)

\* Whether or not the loss of the radio stops the engine.
LEMMA MaybeSends ==
  ASSUME IInv, BridgeOK', UNCHANGED managerVars,
         SendDisconnected \/ UNCHANGED <<run, engineVars>>
  PROVE  IInv'
  <1>1. CASE machine = "running" /\ BeginStop("full")
    BY <1>1, BeginStopKeeps
  <1>2. CASE UNCHANGED <<run, engineVars>>
    <2>1. scope' \in {"full", "mode-runtime"}
      BY <1>2 DEF IInv, TypeOK, EngineOK, engineVars
    <2> QED BY <1>2, <2>1, NothingMoves DEF engineVars
  <1> QED BY <1>1, <1>2 DEF SendDisconnected

\* A client has the sidecar try again: no start of the engine holds it before or after.
LEMMA RetryNowKeeps ==
  ASSUME IInv, RetryNow
  PROVE  IInv'
  <1> USE DEF IInv, TypeOK
  <1>1. /\ audio = "off" /\ audio' = "astray"
        /\ UNCHANGED <<managerVars, run, machine, given, isRunning, scope, listening, crossed,
                       bridgeVars, radio, losses>>
    BY DEF RetryNow
  <1>2. ManagerOK' /\ CallsOK' /\ EngineOK' /\ BridgeOK'
    BY <1>1, ManagerStays DEF CallsOK, EngineOK, BridgeOK, bridgeVars
  <1>3. ASSUME ~crossed' PROVE Uncrossed'
    <2>1. ~crossed /\ Uncrossed
      BY <1>1, <1>3
    <2>2. OneCall' /\ SomeCall'
      BY <1>1, <2>1 DEF Uncrossed, OneCall, SomeCall
    <2>3. Accounted' /\ StatesMeanIt'
      BY <1>1, <2>1 DEF Uncrossed, Accounted, StatesMeanIt, Firm, managerVars
    <2>4. Reached'
      BY <1>1, <2>1 DEF Uncrossed, Reached, NeedsAreUp, RunningMeansUp, managerVars
    <2>5. Flags'
      BY <1>1, <2>1 DEF Uncrossed, Flags, Unheld
    <2> QED BY <2>2, <2>3, <2>4, <2>5 DEF Uncrossed
  <1> QED BY <1>2, <1>3

\* What clients and the radio do.
LEMMA OutsideKeeps ==
  ASSUME IInv,
         \/ Start
         \/ \E s \in {"full", "mode-runtime"} : Stop(s)
         \/ RadioConnects \/ RadioDisconnects \/ RadioLost \/ PTTForcedOff \/ Restore
  PROVE  IInv'
  <1>0. BridgeOK /\ EngineOK
    BY DEF IInv, TypeOK
  <1>1. CASE Start
    <2>1. /\ machine = "idle" /\ Begin /\ UNCHANGED <<managerVars, bridgeVars, losses>>
      BY <1>1 DEF Start
    <2> QED BY <1>0, <2>1, BeginKeeps DEF BridgeOK, bridgeVars
  <1>2. ASSUME NEW s \in {"full", "mode-runtime"}, Stop(s) PROVE IInv'
    <2>1. UNCHANGED <<managerVars, bridgeVars, losses>>
      BY <1>2 DEF Stop
    <2>2. CASE radio' = "closing" /\ UNCHANGED <<run, engineVars>>
      <3>1. BridgeOK'
        BY <1>0, <2>1, <2>2 DEF BridgeOK, bridgeVars
      <3> QED BY <2>1, <2>2, <3>1, MaybeSends
    <2>3. CASE /\ scope' = s
               /\ UNCHANGED <<run, radio, machine, given, isRunning, listening, audio, crossed>>
      <3>1. BridgeOK'
        BY <1>0, <2>1, <2>3 DEF BridgeOK, bridgeVars
      <3> QED BY <2>1, <2>3, <3>1, NothingMoves
    <2>4. CASE machine \in {"running", "starting"} /\ BeginStop(s) /\ UNCHANGED radio
      <3>1. BridgeOK'
        BY <1>0, <2>1, <2>4 DEF BridgeOK, bridgeVars
      <3> QED BY <2>1, <2>4, <3>1, BeginStopKeeps
    <2> QED BY <1>2, <2>2, <2>3, <2>4 DEF Stop
  <1>3. CASE RadioConnects
    <2>1. /\ radio' = "connected" /\ restoring' = restoring + 1
          /\ UNCHANGED <<managerVars, run, engineVars, wasRunning, dropping, losses>>
      BY <1>3 DEF RadioConnects
    <2>2. BridgeOK'
      BY <1>0, <2>1 DEF BridgeOK
    <2> QED BY <2>1, <2>2, MaybeSends
  <1>4. CASE RadioDisconnects
    <2>1. /\ radio' = "disconnected" /\ wasRunning' = FALSE
          /\ UNCHANGED <<managerVars, restoring, dropping, losses>>
          /\ SendDisconnected \/ UNCHANGED <<run, engineVars>>
      BY <1>4 DEF RadioDisconnects, OnDisconnected
    <2>2. BridgeOK'
      BY <1>0, <2>1 DEF BridgeOK
    <2> QED BY <2>1, <2>2, MaybeSends
  <1>5. CASE RadioLost
    <2>1. /\ radio' = "reconnecting" /\ losses' = losses + 1
          /\ wasRunning' = (wasRunning \/ isRunning) /\ (dropping' = TRUE \/ UNCHANGED dropping)
          /\ UNCHANGED <<managerVars, restoring>>
          /\ SendDisconnected \/ UNCHANGED <<run, engineVars>>
      BY <1>5 DEF RadioLost
    <2>2. BridgeOK'
      <3>1. wasRunning' \in BOOLEAN /\ dropping' \in BOOLEAN
        BY <1>0, <2>1 DEF BridgeOK, EngineOK
      <3> QED BY <1>0, <2>1, <3>1 DEF BridgeOK
    <2> QED BY <2>1, <2>2, MaybeSends
  <1>6. CASE PTTForcedOff
    <2>1. /\ dropping' = FALSE
          /\ UNCHANGED <<managerVars, wasRunning, restoring, radio, losses>>
          /\ SendDisconnected \/ UNCHANGED <<run, engineVars>>
      BY <1>6 DEF PTTForcedOff
    <2>2. BridgeOK'
      BY <1>0, <2>1 DEF BridgeOK
    <2> QED BY <2>1, <2>2, MaybeSends
  <1>7. CASE Restore
    <2>1. /\ restoring > 0 /\ restoring' = restoring - 1
          /\ UNCHANGED <<managerVars, dropping, losses>>
          /\ UNCHANGED wasRunning \/ wasRunning' = FALSE
          /\ \/ machine = "idle" /\ Begin
             \/ UNCHANGED <<run, engineVars, radio>>
      BY <1>7, Zenon DEF Restore
    <2>2. restoring' \in Nat /\ wasRunning' \in BOOLEAN /\ dropping' \in BOOLEAN /\ losses' \in Nat
      <3>1. restoring' \in Nat
        BY <1>0, <2>1 DEF BridgeOK
      <3>2. wasRunning' \in BOOLEAN
        BY <1>0, <2>1 DEF BridgeOK
      <3> QED BY <1>0, <2>1, <3>1, <3>2 DEF BridgeOK
    <2>3. CASE machine = "idle" /\ Begin
      BY <2>1, <2>2, <2>3, BeginKeeps
    <2>4. CASE UNCHANGED <<run, engineVars, radio>>
      <3>1. BridgeOK'
        BY <1>0, <2>2, <2>4 DEF BridgeOK
      <3> QED BY <2>1, <2>4, <3>1, MaybeSends
    <2> QED BY <2>1, <2>3, <2>4
  <1> QED BY <1>1, <1>2, <1>3, <1>4, <1>5, <1>6, <1>7

\* Every step keeps the invariant.
LEMMA StepInvariant == IInv /\ [Next]_vars => IInv'
  <1> SUFFICES ASSUME IInv, [Next]_vars PROVE IInv'
    OBVIOUS
  <1>0. BridgeOK /\ EngineOK
    BY DEF IInv, TypeOK
  <1>1. ASSUME NEW n \in Starts, ConfigDone(n) PROVE IInv'
    <2>1. /\ run[n].at = "config" /\ Goes(n, "setup")
          /\ UNCHANGED <<managerVars, engineVars, bridgeVars, radio, losses>>
      BY <1>1 DEF ConfigDone
    <2>2. n \in Calls /\ "setup" \in Ats(n)
      BY DEF Starts, Ats, StartAts
    <2> QED BY <1>0, <2>1, <2>2, OthersStay, GoesKeeps
  <1>2. ASSUME NEW n \in Starts, ConfigFails(n) PROVE IInv'
    <2>1. /\ run[n].at = "config" /\ UNCHANGED <<managerVars, bridgeVars, losses>>
          /\ (Goes(n, "setup") /\ UNCHANGED <<engineVars, radio>>) \/ Fail(n)
      BY <1>2 DEF ConfigFails
    <2>2. CASE Goes(n, "setup") /\ UNCHANGED <<engineVars, radio>>
      <3>1. n \in Calls /\ "setup" \in Ats(n)
        BY DEF Starts, Ats, StartAts
      <3> QED BY <1>0, <2>1, <2>2, <3>1, OthersStay, GoesKeeps
    <2> QED BY <2>1, <2>2, FailKeeps
  <1>3. ASSUME NEW n \in Starts, RolledBack(n) PROVE IInv'
    BY <1>3, FailKeeps DEF RolledBack
  <1>4. ASSUME Urgent PROVE IInv'
    <2>1. ASSUME NEW c \in Calls, Manager(Examine(c) \/ Unwind(c)) PROVE IInv'
      BY <2>1, ExamineKeeps, UnwindKeeps DEF Manager
    <2> QED BY <1>3, <1>4, <2>1, SetupKeeps, StartedKeeps, ResourcesStoppedKeeps DEF Urgent
  <1>5. ASSUME NEW c \in Calls, Manager(Awaited(c)) PROVE IInv'
    BY <1>5, StartEndsKeeps, StartFailsKeeps, StopEndsKeeps, StopFailsKeeps DEF Manager, Awaited
  <1>6. ASSUME RadioDisconnects PROVE IInv'
    BY <1>6, OutsideKeeps
  <1>7. ASSUME Progress PROVE IInv'
    BY <1>1, <1>2, <1>4, <1>5, <1>6, <1>7, ClosedKeeps, SidecarStoppedKeeps, InterruptedKeeps
       DEF Progress
  <1>8. CASE UNCHANGED vars
    <2>1. UNCHANGED <<managerVars, run, engineVars, bridgeVars, radio, losses>>
      BY <1>8 DEF vars
    <2>2. BridgeOK'
      BY <1>0, <2>1, OthersStay
    <2> QED BY <2>1, <2>2, MaybeSends
  <1> QED BY <1>7, <1>8, LateEndsKeeps, RetryNowKeeps, OutsideKeeps DEF Next

\* The invariant holds in every state the engine can reach, for any plan of
\* resources and any number of starts, losses of the radio and failures.
THEOREM InvariantHolds == Spec => []IInv
  BY InitInvariant, StepInvariant, PTL DEF Spec

\* startAll, its rollback and stopAll keep every resource on top of the
\* resources it depends on.
THEOREM NeedsAreUpHolds == Spec => []NeedsAreUp
  <1>1. IInv => NeedsAreUp
    BY DEF IInv, Uncrossed, Reached, NeedsAreUp
  <1> QED BY <1>1, InvariantHolds, PTL

\* The state machine says "running" only when doStart has brought up all that
\* is required.
THEOREM RunningMeansUpHolds == Spec => []RunningMeansUp
  <1>1. IInv => RunningMeansUp
    BY DEF IInv, Uncrossed, Reached, RunningMeansUp
  <1> QED BY <1>1, InvariantHolds, PTL

\* Once the state machine says "idle", doStop or doStart's rollback has taken
\* everything down that let itself be stopped.
THEOREM IdleMeansDownHolds == Spec => []IdleMeansDown
  <1>1. IInv => IdleMeansDown
    BY DEF IInv, Uncrossed, Accounted, Flags, Firm, IdleMeansDown, Down
  <1> QED BY <1>1, InvariantHolds, PTL
=============================================================================
