------------------------------ MODULE IntentLane ------------------------------
(***************************************************************************)
(* The lane of one operator in OperatorIntentCoordinator: commands (a      *)
(* manual action, a plugin's, a slot decision, a late decode) are run one  *)
(* at a time, and a newer command of the same or a higher priority revokes *)
(* the one that runs.  A revoked command that ignores its abort signal is  *)
(* overtaken after a grace period and runs on beside its successor; it     *)
(* stops at its next check of its token and signal.  A command may await a *)
(* plugin between a check and what it then does to the operator.           *)
(*                                                                         *)
(* A command is named by the epoch of its token.  abortOperator takes an   *)
(* epoch too.  removeOperator and clear have no caller and are left out.   *)
(***************************************************************************)
EXTENDS Naturals, Sequences

CONSTANTS
  Priorities,  \* the values of PRIORITY
  MaxEpoch     \* bound on the epochs issued

ASSUME PrioritiesAssumption == Priorities \subseteq Nat \ {0}

ASSUME MaxEpochAssumption == MaxEpoch \in Nat

Epochs == 1..MaxEpoch
None   == 0

Job == [
  pc      : {"unused", "pending", "running", "settled", "done"},
  aborted : BOOLEAN,      \* its AbortController has fired
  cleared : BOOLEAN,      \* its last check let it go on: it may act on the operator
  outcome : {"none", "completed", "superseded", "rejected"} ]

VARIABLES
  issued,    \* what took each epoch: the priority of a command, 0 for an abort
  auth,      \* authoritativeEpoch
  active,    \* lane.active, or None
  pending,   \* lane.pending, or None
  takeover,  \* lane.takeover: the command it waits for, and whether it is over
  job

vars == <<issued, auth, active, pending, takeover, job>>

Init ==
  /\ issued = <<>>
  /\ auth = 0 /\ active = None /\ pending = None
  /\ takeover = [of |-> None, over |-> FALSE]
  /\ job = [e \in Epochs |-> [pc |-> "unused", aborted |-> FALSE, cleared |-> FALSE,
                             outcome |-> "none"]]

-----------------------------------------------------------------------------
IsCurrent(e) == auth = e

\* What the checks of a command ask for.
Unrevoked(e) == IsCurrent(e) /\ ~job[e].aborted

Start(js, e) == [js EXCEPT ![e].pc = "running"]

Superseded(js, e) == [js EXCEPT ![e].pc = "done", ![e].outcome = "superseded"]

Abort(js, e) == IF e = None THEN js ELSE [js EXCEPT ![e].aborted = TRUE]

\* Waits for the active command to end, no longer than the grace period.
EnsureTakeover(e) ==
  takeover' = IF takeover.of # None THEN takeover ELSE [of |-> e, over |-> FALSE]

Supersedes(e, f) == issued'[f] >= issued'[e]

\* The waiting command gives way, unless it matters more.
Replaces(e) == pending = None \/ issued'[e] >= issued[pending]

\* Another command is running.
Wait(e) ==
  LET js == IF pending = None THEN job ELSE Superseded(job, pending)
      ks == [js EXCEPT ![e].pc = "pending"]
  IN  /\ pending' = e
      /\ IF Supersedes(active, e)
         THEN auth' = e /\ job' = Abort(ks, active) /\ EnsureTakeover(active)
         ELSE job' = ks /\ UNCHANGED <<auth, takeover>>
      /\ UNCHANGED active

Submit(p) ==
  /\ Len(issued) < MaxEpoch
  /\ issued' = Append(issued, p)
  /\ LET e == Len(issued) + 1
     IN  IF active = None
         THEN /\ active' = e /\ auth' = e /\ job' = Start(job, e)
              /\ UNCHANGED <<pending, takeover>>
         ELSE IF Replaces(e) THEN Wait(e)
         ELSE job' = Superseded(job, e) /\ UNCHANGED <<auth, active, pending, takeover>>

\* Mutant: the waiting command is kept.
AbortOperatorKeepsPending ==
  /\ Len(issued) < MaxEpoch
  /\ issued' = Append(issued, 0)
  /\ auth' = Len(issued) + 1
  /\ job' = Abort(job, active)
  /\ UNCHANGED <<active, pending, takeover>>

\* Mutant: the waiting command is dropped and not answered.
AbortOperatorForgetsPending ==
  /\ Len(issued) < MaxEpoch
  /\ issued' = Append(issued, 0)
  /\ auth' = Len(issued) + 1
  /\ pending' = None
  /\ job' = Abort(job, active)
  /\ UNCHANGED <<active, takeover>>

AbortOperator ==
  /\ Len(issued) < MaxEpoch
  /\ issued' = Append(issued, 0)
  /\ auth' = Len(issued) + 1
  /\ pending' = None
  /\ job' = Abort(IF pending = None THEN job ELSE Superseded(job, pending), active)
  /\ UNCHANGED <<active, takeover>>

\* Mutant: the signal is not looked at.
CheckIgnored(e) ==
  /\ job[e].pc = "running"
  /\ job' = [job EXCEPT ![e].cleared = TRUE]
  /\ UNCHANGED <<issued, auth, active, pending, takeover>>

\* A running command comes to a check, isCommandCurrent.  One that passes starts or stops
\* the operator or has its frame encoded again at any point until its next check or its
\* end: hooks of plugins are awaited in between, and it may be revoked meanwhile.
Check(e) ==
  /\ job[e].pc = "running"
  /\ job' = [job EXCEPT ![e].cleared = Unrevoked(e)]
  /\ UNCHANGED <<issued, auth, active, pending, takeover>>

\* The promise of its run settled: ok, or with an error.
Settle(e, ok) ==
  /\ job[e].pc = "running"
  /\ job' = [job EXCEPT ![e].pc = "settled", ![e].cleared = FALSE,
               ![e].outcome = IF ~Unrevoked(e) THEN "superseded"
                              ELSE IF ok THEN "completed" ELSE "rejected"]
  /\ UNCHANGED <<issued, auth, active, pending, takeover>>

\* The active command is over: the waiting one, if any, runs.
Advance(js) ==
  /\ active' = pending
  /\ pending' = None
  /\ auth' = IF pending = None THEN auth ELSE pending
  /\ job' = IF pending = None THEN js ELSE Start(js, pending)

\* Mutant: the end of an overtaken command frees the lane.
FinishAny(e) ==
  /\ job[e].pc = "settled"
  /\ Advance([job EXCEPT ![e].pc = "done"])
  /\ UNCHANGED <<issued, takeover>>

Finish(e) ==
  /\ job[e].pc = "settled"
  /\ LET js == [job EXCEPT ![e].pc = "done"]
     IN  IF active = e THEN Advance(js)
         ELSE job' = js /\ UNCHANGED <<auth, active, pending>>
  /\ UNCHANGED <<issued, takeover>>

\* The command the takeover waits for has ended in time.
TakeoverWon ==
  /\ takeover.of # None /\ ~takeover.over
  /\ job[takeover.of].pc = "done"
  /\ takeover' = [takeover EXCEPT !.over = TRUE]
  /\ UNCHANGED <<issued, auth, active, pending, job>>

\* abortGraceMs has passed.
TakeoverTimesOut ==
  /\ takeover.of # None /\ ~takeover.over
  /\ takeover' = [takeover EXCEPT !.over = TRUE]
  /\ IF active = takeover.of THEN Advance(job)
     ELSE UNCHANGED <<auth, active, pending, job>>
  /\ UNCHANGED <<issued>>

\* Mutant: what was superseded meanwhile is not looked after.
TakeoverClearedForGood ==
  /\ takeover.of # None /\ takeover.over
  /\ takeover' = [of |-> None, over |-> FALSE]
  /\ UNCHANGED <<issued, auth, active, pending, job>>

\* Its finally block.
TakeoverCleared ==
  /\ takeover.of # None /\ takeover.over
  /\ takeover' = [of |-> IF active # None /\ pending # None /\ job[active].aborted
                         THEN active ELSE None,
                  over |-> FALSE]
  /\ UNCHANGED <<issued, auth, active, pending, job>>

Next ==
  \/ \E p \in Priorities : Submit(p)
  \/ AbortOperator
  \/ \E e \in Epochs : Check(e) \/ Finish(e) \/ \E ok \in BOOLEAN : Settle(e, ok)
  \/ TakeoverWon \/ TakeoverTimesOut \/ TakeoverCleared

Spec == Init /\ [][Next]_vars

\* Timers and continuations run; a command's own run may never settle.
Fairness ==
  /\ \A e \in Epochs : WF_vars(Finish(e))
  /\ WF_vars(TakeoverTimesOut) /\ WF_vars(TakeoverCleared)

FairSpec == Spec /\ Fairness

-----------------------------------------------------------------------------
(* Properties                                                              *)

TypeOK ==
  /\ issued \in Seq(Priorities \cup {0}) /\ Len(issued) <= MaxEpoch
  /\ auth \in 0..Len(issued) /\ active \in 0..Len(issued) /\ pending \in 0..Len(issued)
  /\ takeover \in [of : 0..Len(issued), over : BOOLEAN]
  /\ job \in [Epochs -> Job]

Running(e) == job[e].pc = "running"

\* The command may be acting on the operator.
MayAct(e) == Running(e) /\ job[e].cleared

\* No later epoch revoked e: there was no abort, and no later command of its priority or
\* a higher one.
Newest(e) == \A f \in Epochs : (e < f /\ f <= Len(issued)) => issued[f] \in 1..(issued[e] - 1)

\* The inductive invariant behind the safety properties.
\* Only an epoch given to a command has a job; the job of a waiting command is the
\* pending one, untouched.
JobsAreIssued ==
  /\ \A e \in Epochs : job[e].pc # "unused" => e <= Len(issued) /\ issued[e] # 0
  /\ \A e \in Epochs : job[e].pc = "unused" => ~job[e].aborted
  /\ \A e \in Epochs : job[e].pc = "pending" => pending = e

\* What runs unrevoked is the active command, with the token of the lane.
ActiveHolds ==
  /\ \A e \in Epochs : (Running(e) /\ ~job[e].aborted) => active = e
  /\ active # None => job[active].pc \in {"running", "settled"}
  /\ (active # None /\ ~job[active].aborted) => auth = active /\ Newest(active)

\* What waits outranks everything after it, and will not turn the token back.
PendingHolds ==
  pending # None =>
    /\ job[pending].pc = "pending" /\ ~job[pending].aborted
    /\ active # None /\ auth <= pending /\ Newest(pending)

\* No run is newer than the active command, and the token is not older.
TurnsHold ==
  active # None => active <= auth /\ \A e \in Epochs : Running(e) => e <= active

IInv ==
  /\ TypeOK /\ JobsAreIssued /\ ActiveHolds /\ PendingHolds /\ TurnsHold
  /\ takeover.of # None => job[takeover.of].aborted

\* Commands of one operator run side by side only after a takeover, and then at most one
\* of them still holds a valid token and an unfired signal.
OneUnrevoked ==
  \A e, f \in Epochs :
    (Running(e) /\ Running(f) /\ ~job[e].aborted /\ ~job[f].aborted) => e = f

\* The token and the signal agree for the command that runs: nothing makes a running
\* command's token stale without firing its signal.
SignalFollowsToken == \A e \in Epochs : (Running(e) /\ ~job[e].aborted) => IsCurrent(e)

\* A command passes a check, or completes, only while nothing that was asked for after
\* it outranks it: not after a stop, not after a newer command of its own priority,
\* through any sequence of overtaken runs.
OnlyNewestPasses ==
  [][\A e \in Epochs :
       (\/ job'[e].cleared /\ ~job[e].cleared
        \/ job'[e].outcome = "completed" /\ job[e].outcome # "completed") => Newest(e)]_vars

\* What may act beside the command that has the lane is older and has been revoked: a
\* run that outlived the grace period and has not come to its next check.
ActsInTurn ==
  \A e \in Epochs :
    MayAct(e) => e = active \/ (job[e].aborted /\ (active = None \/ e < active))

\* A command that revoked the running one does not wait for it for ever, although the
\* running one may never return.
RevokerRuns ==
  \A e \in Epochs : (pending = e /\ auth = e) ~> pending # e

\* If every run returns, every command is answered.
EveryCommandAnswered ==
  (\A e \in Epochs : Running(e) ~> ~Running(e))
    => \A e \in Epochs : (job[e].pc # "unused") ~> (job[e].outcome # "none")
=============================================================================
