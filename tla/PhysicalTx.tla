----------------------------- MODULE PhysicalTx -----------------------------
(***************************************************************************)
(* PhysicalTxCoordinator: one physical transmitter, leased to one source   *)
(* at a time (digital frame, voice, CW, tune tone, manual PTT).            *)
(*                                                                         *)
(* acquireLease, releaseInternal, forceInterrupt and runIdleMaintenance    *)
(* are asynchronous functions.  A field of the lease record says at which  *)
(* `await' each of them is suspended, and an action is the whole           *)
(* synchronous segment from the settlement of that await (the operation    *)
(* answers, fails, or its timer fires) to the next one.  An operation whose *)
(* timer fired is still running in the backend: it stays in the record     *)
(* until it settles, possibly under a newer lease.                         *)
(***************************************************************************)
EXTENDS Naturals

CONSTANTS
  MaxLeases,   \* bound on the leases granted in one behaviour
  MaxRetries,  \* bound on the calls of retryUnknownStop in one behaviour
  Requests     \* the kinds of lease the sources ask for

\* prepares: beforeStart or prepareAudioPlayback runs first; cleans: interrupt or
\* stopCurrentPlayback runs when the lease is cut; shift: txDialShiftHz # 0; defer:
\* deferActiveUntilAudio.
Request == [assertPtt : BOOLEAN, shift : BOOLEAN, prepares : BOOLEAN, cleans : BOOLEAN,
            defer : BOOLEAN]

ASSUME BoundsAssumption == MaxLeases \in Nat /\ MaxRetries \in Nat
ASSUME RequestsAssumption == Requests \subseteq Request

Leases == 1..MaxLeases   \* a lease is named by its epoch
None   == 0              \* activeLease = null

Outcome == {"none", "success", "failure"}

Lease == [
  req        : Request,
  acq        : {"unused", "preparing", "dialing", "rechecking", "keying",
                "checking", "granted", "failed"},       \* await of acquireLease
  prep       : {"none", "running", "late"},              \* pre-start operation
  phase      : {"starting", "active", "draining", "stopping", "unknown"},
  stopReq    : BOOLEAN,                                  \* stopRequested
  start      : {"none", "sent", "accepted", "rejected",  \* setPTT(true) and its
                "compensating", "compensated",           \*   settlement promise
                "abandoned", "refused"},
  confirmed  : BOOLEAN,                                  \* pttConfirmed
  ever       : BOOLEAN,                                  \* everPttConfirmed
  dialSet    : {"none", "sent", "applied", "compensating",  \* settlement of the TX
                "settled", "failed", "forgotten"},       \*   dial offset
  dialDropped: BOOLEAN,                                  \* settlement moved to a fence
  rel        : {"none", "awaitStart", "stopPtt", "awaitComp", "awaitDial",
                "clearDial", "clearing", "unknown", "done"},  \* await of releaseInternal
  ok         : BOOLEAN,                                  \* its success argument
  cleanup    : {"none", "running", "late"},              \* forceInterrupt cleanup
  lateStops  : Nat,                                      \* timed-out setPTT(false)
  lateClears : Nat,                                      \* timed-out clearTxDialOffset
  terminal   : Outcome ]                                 \* the terminal event

VARIABLES
  epoch,    \* leases granted so far
  current,  \* the epoch of activeLease, or None
  lease,    \* every lease object, the ended ones included
  maint,    \* idle maintenance: "none", "running", or "late" (timed out, fenced)
  retries,  \* retryUnknownStop calls so far
  keyed,    \* the radio: CAT PTT is on
  dial,     \* the radio: lease whose dial offset is applied, or None
  offset    \* txDialOffsetActive: an offset to clear is remembered

vars == <<epoch, current, lease, maint, retries, keyed, dial, offset>>

NewLease(q, acq) ==
  [req |-> q, acq |-> acq, prep |-> IF q.prepares THEN "running" ELSE "none",
   phase |-> "starting", stopReq |-> FALSE, start |-> "none",
   confirmed |-> FALSE, ever |-> FALSE, dialSet |-> "none", dialDropped |-> FALSE,
   rel |-> "none", ok |-> FALSE, cleanup |-> "none",
   lateStops |-> 0, lateClears |-> 0, terminal |-> "none"]

Unused == NewLease([assertPtt |-> FALSE, shift |-> FALSE, prepares |-> FALSE,
                    cleans |-> FALSE, defer |-> FALSE], "unused")

Init ==
  /\ epoch = 0
  /\ current = None
  /\ lease = [l \in Leases |-> Unused]
  /\ maint = "none"
  /\ retries = 0
  /\ keyed = FALSE
  /\ dial = None
  /\ offset = FALSE

-----------------------------------------------------------------------------
(* pendingOperationFences: timed-out operations that have not settled.     *)

\* Mutant: a timed-out setPTT(false) is not tracked.
HasFenceButForStops(r) ==
  \/ r.prep = "late" \/ r.cleanup = "late" \/ r.lateClears > 0
  \/ r.dialDropped /\ r.dialSet \in {"sent", "compensating"}

HasFence(r) ==
  \/ r.prep = "late"
  \/ r.cleanup = "late"
  \/ r.lateStops > 0
  \/ r.lateClears > 0
  \/ r.dialDropped /\ r.dialSet \in {"sent", "compensating"}

Fenced == maint = "late" \/ \E l \in Leases : HasFence(lease[l])

Available == current = None /\ maint # "running" /\ ~Fenced

CanContinue(l) == current = l /\ ~lease[l].stopReq   \* assertLeaseCanContinue

Put(l, r) == lease' = [lease EXCEPT ![l] = r]

(* The steps of releaseInternal, as functions of the lease record.         *)

EmitOnce(r, result) ==
  [r EXCEPT !.terminal = IF @ = "none" THEN result ELSE @]

Unconfirmed(r) == EmitOnce([r EXCEPT !.phase = "unknown", !.rel = "unknown"], "failure")

Closed(r) ==
  EmitOnce([r EXCEPT !.confirmed = FALSE, !.rel = "done"],
           IF r.ok THEN "success" ELSE "failure")

AwaitDial(r) ==
  IF r.dialDropped \/ r.dialSet \in {"none", "applied", "settled", "forgotten"}
  THEN [r EXCEPT !.rel = "clearDial"]
  ELSE IF r.dialSet = "failed" THEN Unconfirmed([r EXCEPT !.dialDropped = TRUE])
  ELSE [r EXCEPT !.rel = "awaitDial"]

\* Mutant: the release does not wait for the settlement of the PTT start.
AfterStopAtOnce(r) == AwaitDial(r)

AfterStop(r) ==
  IF r.start \in {"sent", "compensating"} THEN [r EXCEPT !.rel = "awaitComp"]
  ELSE AwaitDial(r)

Confirmed(r) == [r EXCEPT !.confirmed = TRUE, !.ever = TRUE]

BeginRelease(r, ok) ==
  LET s == [r EXCEPT !.stopReq = TRUE, !.phase = "stopping", !.ok = ok] IN
  CASE r.start = "none"     -> AwaitDial(s)
    [] r.start = "sent"     -> [s EXCEPT !.rel = "awaitStart"]
    [] r.start = "rejected" -> [s EXCEPT !.rel = "stopPtt"]
    [] OTHER                -> [Confirmed(s) EXCEPT !.rel = "stopPtt"]

\* The release promise is memoised: the second caller joins the first release.
EnsureReleased(r, ok) == IF r.rel = "none" THEN BeginRelease(r, ok) ELSE r

\* The catch block of acquireLease.
Thrown(l, r) ==
  [ (IF current = l /\ r.phase # "unknown" THEN EnsureReleased(r, FALSE) ELSE r)
    EXCEPT !.acq = "failed" ]

-----------------------------------------------------------------------------
(* acquireLease                                                            *)

AcquireLease(q) ==
  /\ Available
  /\ epoch < MaxLeases
  /\ epoch' = epoch + 1
  /\ current' = epoch + 1
  /\ Put(epoch + 1, NewLease(q, "preparing"))
  /\ UNCHANGED <<maint, retries, keyed, dial, offset>>

Granted(r) ==
  [r EXCEPT !.acq = "granted", !.confirmed = r.req.assertPtt, !.ever = r.req.assertPtt,
            !.phase = IF r.req.defer THEN @ ELSE "active"]

\* setPTT(true), or straight to the owner when the source keys the radio itself.
KeyUp(r) ==
  IF r.req.assertPtt THEN [r EXCEPT !.acq = "keying", !.start = "sent"] ELSE Granted(r)

\* setTxDialOffset: the offset is remembered and the rig told to tune, unless an offset
\* is still remembered: that one is taken for the new one.
OffsetSet(r) ==
  IF offset THEN [r EXCEPT !.acq = "rechecking", !.dialSet = "applied"]
  ELSE [r EXCEPT !.acq = "dialing", !.dialSet = "sent"]

\* beforeStart, prepareAudioPlayback, afterAudioDrain and validateStart are over.
PreparationDone(l) ==
  /\ lease[l].acq = "preparing"
  /\ LET r == [lease[l] EXCEPT !.prep = "none"]
     IN  Put(l, IF ~CanContinue(l) THEN Thrown(l, r)
                ELSE IF r.req.shift THEN OffsetSet(r)
                ELSE KeyUp(r))
  /\ offset' = (offset \/ (CanContinue(l) /\ lease[l].req.shift))
  /\ UNCHANGED <<epoch, current, maint, retries, keyed, dial>>

\* setTxDialOffset returns false at once: no radio, or its dial is not known.
DialRefused(l) ==
  /\ lease[l].acq = "preparing"
  /\ CanContinue(l) /\ lease[l].req.shift
  /\ Put(l, Thrown(l, [lease[l] EXCEPT !.prep = "none", !.dialSet = "settled"]))
  /\ UNCHANGED <<epoch, current, maint, retries, keyed, dial, offset>>

\* One of them failed: output not ready, frame no longer valid, radio not connected.
PreparationFails(l) ==
  /\ lease[l].acq = "preparing"
  /\ Put(l, Thrown(l, [lease[l] EXCEPT !.prep = "none"]))
  /\ UNCHANGED <<epoch, current, maint, retries, keyed, dial, offset>>

\* Mutant: the timeout is not thrown to acquireLease.
PreparationTimesOutSilently(l) ==
  /\ lease[l].acq = "preparing" /\ lease[l].prep = "running"
  /\ Put(l, [lease[l] EXCEPT !.prep = "late"])
  /\ UNCHANGED <<epoch, current, maint, retries, keyed, dial, offset>>

PreparationTimesOut(l) ==
  /\ lease[l].acq = "preparing" /\ lease[l].prep = "running"
  /\ Put(l, Thrown(l, [lease[l] EXCEPT !.prep = "late"]))
  /\ UNCHANGED <<epoch, current, maint, retries, keyed, dial, offset>>

\* The settlement handler of setTxDialOffset clears an offset that comes too late; the
\* clear does nothing when a clear of the release was faster and the offset is forgotten.
AppliedAs(l, tuned) ==
  CASE CanContinue(l) -> "applied"
    [] ~CanContinue(l) /\ offset -> "compensating"
    [] ~CanContinue(l) /\ ~offset -> IF tuned THEN "forgotten" ELSE "settled"

\* A release that waits for the settlement of the offset goes on.
DialSettled(r) == IF r.rel = "awaitDial" THEN AwaitDial(r) ELSE r

\* setFrequency resolves: the rig is tuned, unless a clear reached it after the offset.
DialAnswers(l, tuned) ==
  /\ lease[l].dialSet = "sent"
  /\ CanContinue(l) => tuned
  /\ dial' = IF tuned THEN l ELSE dial
  /\ LET r == lease[l]
         s == DialSettled([r EXCEPT !.dialSet = AppliedAs(l, tuned)])
     IN  Put(l, IF r.acq # "dialing" THEN s
                ELSE IF CanContinue(l) THEN [s EXCEPT !.acq = "rechecking"]
                ELSE Thrown(l, s))
  /\ UNCHANGED <<epoch, current, maint, retries, keyed, offset>>

\* setFrequency rejects: setTxDialOffset forgets the offset and resolves with false,
\* although the rig may have tuned.  Every later clear then does nothing.
DialNotApplied(l, tuned) ==
  /\ lease[l].dialSet = "sent"
  /\ dial' = IF tuned THEN l ELSE dial
  /\ offset' = FALSE
  /\ LET r == lease[l]
         s == DialSettled([r EXCEPT !.dialSet = IF tuned THEN "forgotten" ELSE "settled"])
     IN  Put(l, IF r.acq = "dialing" THEN Thrown(l, s) ELSE s)
  /\ UNCHANGED <<epoch, current, maint, retries, keyed>>

DialTimesOut(l) ==
  /\ lease[l].acq = "dialing"
  /\ Put(l, Thrown(l, lease[l]))
  /\ UNCHANGED <<epoch, current, maint, retries, keyed, dial, offset>>

\* The rig was tuned to an offset that setTxDialOffset has forgotten.
Forgotten == \E l \in Leases : lease[l].dialSet = "forgotten"

\* What a clear tunes the rig back to: the frequency monitor may have taken the dial
\* of a forgotten offset for the frequency of reception.
Cleared == IF Forgotten THEN {None, dial} ELSE {None}

\* clearTxDialOffset settles: the offset is forgotten only when the rig has confirmed.
ClearSettles(ok) ==
  /\ dial' \in IF ok THEN Cleared ELSE {dial, None}
  /\ offset' = (offset /\ ~ok)

\* The clear issued for a dial offset that arrived after its lease was cut.
DialCompensated(l, ok) ==
  /\ lease[l].dialSet = "compensating"
  /\ ClearSettles(ok)
  /\ Put(l, DialSettled([lease[l] EXCEPT !.dialSet = IF ok THEN "settled" ELSE "failed"]))
  /\ UNCHANGED <<epoch, current, maint, retries, keyed>>

\* validateStart after the dial moved, and the audio readiness check before PTT.
Recheck(l, valid) ==
  /\ lease[l].acq = "rechecking"
  /\ Put(l, IF valid /\ CanContinue(l) THEN KeyUp(lease[l]) ELSE Thrown(l, lease[l]))
  /\ UNCHANGED <<epoch, current, maint, retries, keyed, dial, offset>>

\* handleLatePttStart: what becomes of an accepted start.
AcceptedAs(l) ==
  IF CanContinue(l) THEN "accepted"
  ELSE IF current \notin {None, l} THEN "refused"
  ELSE "compensating"

\* setPTT(true) resolves; handleLatePttStart runs before every other continuation.
StartAccepted(l) ==
  /\ lease[l].start = "sent"
  /\ keyed' = TRUE
  /\ LET r == lease[l]
         s == [r EXCEPT
                !.start = AcceptedAs(l),
                !.acq = IF @ = "keying" THEN "checking" ELSE @]
     IN  Put(l, IF r.rel = "awaitStart" THEN [Confirmed(s) EXCEPT !.rel = "stopPtt"] ELSE s)
  /\ UNCHANGED <<epoch, current, maint, retries, dial, offset>>

\* setPTT(true) rejects.  The radio may have keyed all the same, except after it
\* confirmed a later stop: "a rejected start is safe once the explicit stop succeeds".
StartRejected(l) ==
  /\ lease[l].start = "sent"
  /\ keyed' \in IF lease[l].rel = "awaitComp" THEN {keyed} ELSE {keyed, TRUE}
  /\ LET r == [lease[l] EXCEPT !.start = "rejected"]
         s == CASE r.rel = "awaitStart" -> [r EXCEPT !.rel = "stopPtt"]
                [] r.rel = "awaitComp"  -> AwaitDial(r)
                [] OTHER                -> r
     IN  Put(l, IF s.acq = "keying" THEN Thrown(l, s) ELSE s)
  /\ UNCHANGED <<epoch, current, maint, retries, dial, offset>>

StartTimesOut(l) ==
  /\ lease[l].acq = "keying"
  /\ Put(l, Thrown(l, lease[l]))
  /\ UNCHANGED <<epoch, current, maint, retries, keyed, dial, offset>>

\* The last validateStart; the lease goes to its owner, or is released.
Check(l, valid) ==
  /\ lease[l].acq = "checking"
  /\ Put(l, IF valid /\ CanContinue(l) THEN Granted(lease[l]) ELSE Thrown(l, lease[l]))
  /\ UNCHANGED <<epoch, current, maint, retries, keyed, dial, offset>>

-----------------------------------------------------------------------------
(* The settlement of a PTT start whose lease was cut: setPTT(false).       *)

CompensationDone(l) ==
  /\ lease[l].start = "compensating"
  /\ keyed' = FALSE
  /\ LET s == [lease[l] EXCEPT !.start = "compensated"] IN
     IF current = l /\ s.phase = "unknown"
     THEN /\ current' = None
          /\ Put(l, EmitOnce([s EXCEPT !.confirmed = FALSE], "failure"))
     ELSE /\ current' = current
          /\ Put(l, IF s.rel = "awaitComp" THEN AwaitDial(s) ELSE s)
  /\ UNCHANGED <<epoch, maint, retries, dial, offset>>

\* Mutant: the lease is given up although its compensation failed.
CompensationFailsAndFrees(l) ==
  /\ lease[l].start = "compensating"
  /\ keyed' \in {keyed, FALSE}
  /\ current' = None
  /\ Put(l, EmitOnce([lease[l] EXCEPT !.start = "abandoned"], "failure"))
  /\ UNCHANGED <<epoch, maint, retries, dial, offset>>

\* The error is swallowed, so a release that waits for the settlement goes on.
CompensationFails(l) ==
  /\ lease[l].start = "compensating"
  /\ keyed' \in {keyed, FALSE}
  /\ LET s == [lease[l] EXCEPT !.start = "abandoned"]
     IN  Put(l, IF s.rel = "awaitComp" THEN AwaitDial(s) ELSE s)
  /\ UNCHANGED <<epoch, current, maint, retries, dial, offset>>

-----------------------------------------------------------------------------
(* releaseInternal                                                         *)

AwaitStartTimesOut(l) ==
  /\ lease[l].rel = "awaitStart"
  /\ Put(l, [lease[l] EXCEPT !.rel = "stopPtt"])
  /\ UNCHANGED <<epoch, current, maint, retries, keyed, dial, offset>>

StopDone(l) ==
  /\ lease[l].rel = "stopPtt"
  /\ keyed' = FALSE
  /\ Put(l, AfterStop(lease[l]))
  /\ UNCHANGED <<epoch, current, maint, retries, dial, offset>>

\* Mutant: a rejected stop is taken for a stop.
StopFailsIgnored(l) ==
  /\ lease[l].rel = "stopPtt"
  /\ keyed' \in {keyed, FALSE}
  /\ Put(l, AfterStop(lease[l]))
  /\ UNCHANGED <<epoch, current, maint, retries, dial, offset>>

StopFails(l) ==
  /\ lease[l].rel = "stopPtt"
  /\ keyed' \in {keyed, FALSE}
  /\ Put(l, Unconfirmed(lease[l]))
  /\ UNCHANGED <<epoch, current, maint, retries, dial, offset>>

StopTimesOut(l) ==
  /\ lease[l].rel = "stopPtt"
  /\ Put(l, Unconfirmed([lease[l] EXCEPT !.lateStops = @ + 1]))
  /\ UNCHANGED <<epoch, current, maint, retries, keyed, dial, offset>>

AwaitCompTimesOut(l) ==
  /\ lease[l].rel = "awaitComp"
  /\ Put(l, Unconfirmed(lease[l]))
  /\ UNCHANGED <<epoch, current, maint, retries, keyed, dial, offset>>

AwaitDialTimesOut(l) ==
  /\ lease[l].rel = "awaitDial"
  /\ Put(l, Unconfirmed([lease[l] EXCEPT !.dialDropped = TRUE]))
  /\ UNCHANGED <<epoch, current, maint, retries, keyed, dial, offset>>

\* clearTxDialOffset resolved, or had no offset to clear: the release is complete.
EndRelease(l) ==
  /\ Put(l, Closed(lease[l]))
  /\ current' = IF current = l THEN None ELSE current

\* clearTxDialOffset is called.
ClearCalled(l) ==
  /\ lease[l].rel = "clearDial"
  /\ IF offset THEN Put(l, [lease[l] EXCEPT !.rel = "clearing"]) /\ current' = current
     ELSE EndRelease(l)
  /\ UNCHANGED <<epoch, maint, retries, keyed, dial, offset>>

ClearDone(l) ==
  /\ lease[l].rel = "clearing"
  /\ ClearSettles(TRUE)
  /\ EndRelease(l)
  /\ UNCHANGED <<epoch, maint, retries, keyed>>

ClearFails(l) ==
  /\ lease[l].rel = "clearing"
  /\ ClearSettles(FALSE)
  /\ Put(l, Unconfirmed(lease[l]))
  /\ UNCHANGED <<epoch, current, maint, retries, keyed>>

ClearTimesOut(l) ==
  /\ lease[l].rel = "clearing"
  /\ Put(l, Unconfirmed([lease[l] EXCEPT !.lateClears = @ + 1]))
  /\ UNCHANGED <<epoch, current, maint, retries, keyed, dial, offset>>

-----------------------------------------------------------------------------
(* The calls of the sources                                                *)

\* releaseLease, and every end of a playback: a success or a failure of the owner.  A
\* replacement that waits for the activation can fail a lease before it is granted.
ReleaseLease(l, ok) ==
  /\ current = l
  /\ lease[l].acq = "granted" \/ (~ok /\ lease[l].req.prepares)
  /\ Put(l, EnsureReleased(lease[l], ok))
  /\ UNCHANGED <<epoch, current, maint, retries, keyed, dial, offset>>

\* markSelfKeyedLeaseActive, markStreamingLeaseActive
MarkActive(l) ==
  /\ CanContinue(l) /\ lease[l].acq = "granted"
  /\ lease[l].req.assertPtt => lease[l].confirmed
  /\ Put(l, [Confirmed(lease[l]) EXCEPT !.phase = "active"])
  /\ UNCHANGED <<epoch, current, maint, retries, keyed, dial, offset>>

\* A playback on the lease starts, or has drained (startPlaybackGenerationLocked,
\* observePlaybackGeneration).
PlaybackPhase(l, phase) ==
  /\ CanContinue(l) /\ lease[l].acq = "granted" /\ lease[l].req.prepares
  /\ Put(l, [lease[l] EXCEPT !.phase = phase])
  /\ UNCHANGED <<epoch, current, maint, retries, keyed, dial, offset>>

\* One cleanup per lease is in flight: a second interrupt that overlaps the first
\* repeats the same cleanup and joins the same release.
ForceInterrupt(l) ==
  /\ current = l /\ lease[l].rel = "none" /\ lease[l].cleanup = "none"
  /\ LET r == [lease[l] EXCEPT !.stopReq = TRUE, !.phase = "stopping"]
     IN  Put(l, IF r.req.cleans THEN [r EXCEPT !.cleanup = "running"]
                ELSE EnsureReleased(r, FALSE))
  /\ UNCHANGED <<epoch, current, maint, retries, keyed, dial, offset>>

CleanupDone(l) ==
  /\ lease[l].cleanup = "running"
  /\ Put(l, EnsureReleased([lease[l] EXCEPT !.cleanup = "none"], FALSE))
  /\ UNCHANGED <<epoch, current, maint, retries, keyed, dial, offset>>

\* Mutant: the timeout of the cleanup ends forceInterrupt.
CleanupTimesOutForGood(l) ==
  /\ lease[l].cleanup = "running"
  /\ Put(l, [lease[l] EXCEPT !.cleanup = "late"])
  /\ UNCHANGED <<epoch, current, maint, retries, keyed, dial, offset>>

CleanupTimesOut(l) ==
  /\ lease[l].cleanup = "running"
  /\ Put(l, EnsureReleased([lease[l] EXCEPT !.cleanup = "late"], FALSE))
  /\ UNCHANGED <<epoch, current, maint, retries, keyed, dial, offset>>

\* A new releaseInternal replaces the memoised one.
RetryUnknownStop(l) ==
  /\ current = l /\ lease[l].phase = "unknown"
  /\ retries < MaxRetries
  /\ retries' = retries + 1
  /\ Put(l, BeginRelease(lease[l], FALSE))
  /\ UNCHANGED <<epoch, current, maint, keyed, dial, offset>>

-----------------------------------------------------------------------------
(* Timed-out operations settle, and idle maintenance.                      *)

LatePreparationSettles(l) ==
  /\ lease[l].prep = "late"
  /\ Put(l, [lease[l] EXCEPT !.prep = "none"])
  /\ UNCHANGED <<epoch, current, maint, retries, keyed, dial, offset>>

LateCleanupSettles(l) ==
  /\ lease[l].cleanup = "late"
  /\ Put(l, [lease[l] EXCEPT !.cleanup = "none"])
  /\ UNCHANGED <<epoch, current, maint, retries, keyed, dial, offset>>

LateStopSettles(l) ==
  /\ lease[l].lateStops > 0
  /\ keyed' \in {keyed, FALSE}
  /\ Put(l, [lease[l] EXCEPT !.lateStops = @ - 1])
  /\ UNCHANGED <<epoch, current, maint, retries, dial, offset>>

LateClearSettles(l, ok) ==
  /\ lease[l].lateClears > 0
  /\ ClearSettles(ok)
  /\ Put(l, [lease[l] EXCEPT !.lateClears = @ - 1])
  /\ UNCHANGED <<epoch, current, maint, retries, keyed>>

StartMaintenance ==
  /\ Available
  /\ maint' = "running"
  /\ UNCHANGED <<epoch, current, lease, retries, keyed, dial, offset>>

MaintenanceTimesOut ==
  /\ maint = "running"
  /\ maint' = "late"
  /\ UNCHANGED <<epoch, current, lease, retries, keyed, dial, offset>>

MaintenanceSettles ==
  /\ maint \in {"running", "late"}
  /\ maint' = "none"
  /\ UNCHANGED <<epoch, current, lease, retries, keyed, dial, offset>>

-----------------------------------------------------------------------------
Acquiring(l) ==
  \/ PreparationDone(l) \/ PreparationFails(l) \/ PreparationTimesOut(l)
  \/ DialRefused(l) \/ DialTimesOut(l)
  \/ \E tuned \in BOOLEAN : DialAnswers(l, tuned) \/ DialNotApplied(l, tuned)
  \/ \E ok \in BOOLEAN : DialCompensated(l, ok) \/ Recheck(l, ok) \/ Check(l, ok)
  \/ StartAccepted(l) \/ StartRejected(l) \/ StartTimesOut(l)
  \/ CompensationDone(l) \/ CompensationFails(l)

Releasing(l) ==
  \/ AwaitStartTimesOut(l)
  \/ StopDone(l) \/ StopFails(l) \/ StopTimesOut(l)
  \/ AwaitCompTimesOut(l) \/ AwaitDialTimesOut(l)
  \/ ClearCalled(l) \/ ClearDone(l) \/ ClearFails(l) \/ ClearTimesOut(l)

Owner(l) ==
  \/ \E ok \in BOOLEAN : ReleaseLease(l, ok)
  \/ \E phase \in {"active", "draining"} : PlaybackPhase(l, phase)
  \/ MarkActive(l) \/ ForceInterrupt(l) \/ RetryUnknownStop(l)
  \/ CleanupDone(l) \/ CleanupTimesOut(l)

LateSettlement(l) ==
  \/ LatePreparationSettles(l) \/ LateCleanupSettles(l)
  \/ LateStopSettles(l) \/ \E ok \in BOOLEAN : LateClearSettles(l, ok)

Maintenance == StartMaintenance \/ MaintenanceTimesOut \/ MaintenanceSettles

Next ==
  \/ \E q \in Requests : AcquireLease(q)
  \/ \E l \in Leases : Acquiring(l) \/ Releasing(l) \/ Owner(l) \/ LateSettlement(l)
  \/ Maintenance

Spec == Init /\ [][Next]_vars

\* Timers fire; nothing is assumed of the radio or the audio backend.  validateStart
\* has no timer: its callers return from it at once.
Timers(l) ==
  /\ WF_vars(PreparationTimesOut(l))
  /\ WF_vars(lease[l].prep = "none" /\ PreparationDone(l))
  /\ WF_vars(DialTimesOut(l)) /\ WF_vars(Recheck(l, TRUE))
  /\ WF_vars(StartTimesOut(l)) /\ WF_vars(Check(l, TRUE))
  /\ WF_vars(CleanupTimesOut(l)) /\ WF_vars(AwaitStartTimesOut(l))
  /\ WF_vars(StopTimesOut(l)) /\ WF_vars(AwaitCompTimesOut(l))
  /\ WF_vars(AwaitDialTimesOut(l))
  /\ WF_vars(ClearCalled(l)) /\ WF_vars(ClearTimesOut(l))

FairSpec == Spec /\ \A l \in Leases : Timers(l)
-----------------------------------------------------------------------------
(* Properties                                                              *)

TypeOK ==
  /\ epoch \in 0..MaxLeases
  /\ current \in 0..epoch
  /\ lease \in [Leases -> Lease]
  /\ maint \in {"none", "running", "late"}
  /\ retries \in Nat
  /\ keyed \in BOOLEAN
  /\ dial \in 0..MaxLeases
  /\ offset \in BOOLEAN

\* A PTT or dial command of lease l that can still reach the radio.
CommandInFlight(r) ==
  \/ r.start \in {"sent", "compensating"}
  \/ r.rel \in {"awaitStart", "stopPtt", "awaitComp", "awaitDial", "clearDial", "clearing"}
  \/ r.lateStops > 0
  \/ r.lateClears > 0
  \/ r.dialSet \in {"sent", "compensating"}

\* The commands a lease has sent to the radio, timed-out ones included, have all
\* settled before another lease is granted: no late PTT-on, PTT-off or dial command
\* ever reaches the radio under a newer lease (the fences, the unknown phase and
\* handleLatePttStart together).
CommandsAreOwn ==
  \A l \in Leases : CommandInFlight(lease[l]) => current \in {None, l}

\* While a lease is held and not being released, the radio it keyed stays keyed:
\* nothing left over from an earlier lease unkeys it.
HeldMeansKeyed ==
  \A l \in Leases :
    (CanContinue(l) /\ lease[l].acq = "granted" /\ lease[l].req.assertPtt) => keyed

\* With no lease the radio is unkeyed, whatever was rejected, late or timed out,
\* unless the compensation of a late PTT start failed (CompensationFails).
IdleMeansUnkeyed ==
  (current = None /\ keyed) => \E l \in Leases : lease[l].start = "abandoned"

\* When a lease can be granted the dial is back, except after the three ends that skip
\* or lose the clear: the late compensation that closes a lease in phase unknown, a
\* failed clear of a dial offset that arrived after its lease was over, and an offset
\* the rig tuned to although it was forgotten (a rejected setFrequency, or one that
\* was overtaken by the clear of its release).
AvailableMeansDialRestored ==
  (Available /\ dial # None) =>
    \E l \in Leases : lease[l].rel = "unknown" \/ lease[l].dialSet \in {"failed", "forgotten"}

\* Idle maintenance, even one that timed out and still runs, never overlaps a lease.
MaintenanceIsExclusive == maint # "none" => current = None

\* A lease whose stop is unconfirmed is given up only by a confirmed PTT-off.
UnknownIsHeld ==
  [][\A l \in Leases :
       (current = l /\ lease[l].phase = "unknown" /\ current' # l) => ~keyed']_vars

\* A lease that was told to stop is released or declared unknown, even when neither
\* the radio nor the audio backend ever answers.
StopIsBounded ==
  \A l \in Leases : lease[l].stopReq ~> lease[l].rel \in {"unknown", "done"}

\* acquireLease returns or throws, even when the backends never answer.
AcquireIsBounded ==
  \A l \in Leases : lease[l].acq = "preparing" ~> lease[l].acq \in {"granted", "failed"}

-----------------------------------------------------------------------------
(* The inductive invariant behind the safety properties, checked by TLC    *)
(* here and proved in PhysicalTxProofs.                                    *)

\* What holds of any lease object, by the order of the steps above.
StepOrder(r) ==
  /\ r.acq = "unused" => r.rel = "none" /\ r.prep = "none" /\ r.cleanup = "none"
  /\ r.acq \in {"unused", "preparing"} => r.dialSet = "none"
  /\ r.acq = "rechecking" => r.dialSet = "applied"
  /\ r.rel # "none" => r.stopReq
  /\ r.phase = "unknown" <=> r.rel = "unknown"
  /\ r.start # "none" => r.req.assertPtt /\ r.dialSet \in {"none", "applied"}
  /\ r.acq = "keying" => r.start = "sent"
  /\ r.acq \in {"unused", "preparing", "dialing", "rechecking"} => r.start = "none"
  /\ r.rel \in {"awaitDial", "clearDial", "clearing"} => r.start \notin {"sent", "compensating"}
  /\ r.rel = "awaitComp" => r.start \in {"sent", "compensating"}
  /\ r.rel \in {"awaitStart", "stopPtt", "awaitComp"} => r.start # "none"
  /\ r.rel \in {"clearDial", "clearing"} =>
       r.dialDropped \/ r.dialSet \notin {"sent", "compensating"}
  /\ r.lateStops > 0 \/ r.lateClears > 0 \/ r.dialDropped => r.rel # "none"
  /\ r.dialSet = "compensating" => r.stopReq
  /\ r.rel \in {"unknown", "done"} => r.terminal # "none"
  /\ r.rel = "none" => r.terminal = "none" /\ ~r.ok
  /\ r.ok => r.acq = "granted"
  /\ r.terminal = "success" => r.rel = "done" /\ r.acq = "granted"

\* A lease that is not current has nothing left to send, but for fenced operations.
Quiet(r) ==
  /\ r.start \notin {"sent", "compensating"}
  /\ r.rel \in {"none", "unknown", "done"}
  /\ r.rel = "none" => r.acq = "unused"
  /\ r.dialSet \in {"sent", "compensating"} => r.dialDropped

\* The radio commands a lease has left to its fences.
LateCommand(r) ==
  r.lateStops > 0 \/ r.lateClears > 0 \/ r.dialSet \in {"sent", "compensating"}

\* The transmitter may be keyed on behalf of this lease.
MayBeKeyed(r) ==
  /\ r.start # "none"
  /\ r.rel \notin {"awaitDial", "clearDial", "clearing", "done"}
  /\ ~(r.rel = "awaitComp" /\ r.start = "sent")

Stray == \E l \in Leases : lease[l].start = "abandoned"

IInv ==
  /\ TypeOK
  /\ \A l \in Leases : StepOrder(lease[l])
  /\ \A l \in Leases : l > epoch => lease[l].acq = "unused"
  /\ current # None => lease[current].acq # "unused" /\ lease[current].rel # "done"
  /\ \A l \in Leases : current # l => Quiet(lease[l])
  /\ \A l \in Leases : LateCommand(lease[l]) => current \in {None, l}
  /\ \A l \in Leases :
       (CanContinue(l) /\ lease[l].req.assertPtt /\ lease[l].acq \in {"checking", "granted"})
         => lease[l].start = "accepted"
  /\ \A l \in Leases : (CanContinue(l) /\ lease[l].start = "accepted") => keyed
  /\ keyed => Stray \/ (current # None /\ MayBeKeyed(lease[current]))
  /\ dial # None \/ offset =>
       \/ current # None
       \/ \E l \in Leases : lease[l].rel = "unknown"
                            \/ lease[l].dialSet \in {"compensating", "failed", "forgotten"}
  /\ dial # None /\ ~offset => Forgotten
  /\ \A l \in Leases : lease[l].dialSet = "sent" =>
       l = epoch /\ (CanContinue(l) => offset) /\ (dial # None => Forgotten)
  /\ current \in {None, epoch}
  /\ maint # "none" => current = None

-----------------------------------------------------------------------------
\* The coordinator implements the ownership it promises: every step grants, serves
\* or ends the one lease that owns the transmitter, or leaves it all unchanged.
Ownership == INSTANCE TxOwnership WITH
  granted <- epoch, owner <- current, lost <- Stray,
  report <- [l \in Leases |-> lease[l].terminal]

ImplementsOwnership == Ownership!Spec

=============================================================================
