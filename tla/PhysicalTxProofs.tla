-------------------------- MODULE PhysicalTxProofs --------------------------
(***************************************************************************)
(* Proofs about PhysicalTx, for every number of leases, retries and every  *)
(* set of requests.                                                        *)
(***************************************************************************)
EXTENDS PhysicalTx, TLAPS

(* The steps of releaseInternal and of acquireLease map lease objects to   *)
(* lease objects.                                                          *)

LEMMA SetRelType ==
  ASSUME NEW r \in Lease,
         NEW x \in {"awaitStart", "stopPtt", "awaitComp", "awaitDial", "clearDial",
                    "clearing", "unknown", "done"}
  PROVE  [r EXCEPT !.rel = x] \in Lease
BY DEF Lease

LEMMA SetPhaseType ==
  ASSUME NEW r \in Lease, NEW x \in {"starting", "active", "draining", "stopping",
                                    "unknown"}
  PROVE  [r EXCEPT !.phase = x] \in Lease
BY DEF Lease

LEMMA EmitOnceType ==
  ASSUME NEW r \in Lease, NEW result \in Outcome PROVE EmitOnce(r, result) \in Lease
BY DEF EmitOnce, Lease, Outcome

LEMMA ConfirmedType ==
  ASSUME NEW r \in Lease PROVE Confirmed(r) \in Lease
BY DEF Confirmed, Lease

LEMMA UnconfirmedType ==
  ASSUME NEW r \in Lease PROVE Unconfirmed(r) \in Lease
<1>1. [r EXCEPT !.phase = "unknown", !.rel = "unknown"] \in Lease
  BY SetPhaseType, SetRelType
<1>2. QED
  BY <1>1, EmitOnceType DEF Unconfirmed, Outcome

LEMMA ClosedType ==
  ASSUME NEW r \in Lease PROVE Closed(r) \in Lease
<1>1. [r EXCEPT !.confirmed = FALSE, !.rel = "done"] \in Lease
  BY DEF Lease
<1>2. QED
  BY <1>1, EmitOnceType DEF Closed, Outcome

LEMMA AwaitDialType ==
  ASSUME NEW r \in Lease PROVE AwaitDial(r) \in Lease
<1>1. [r EXCEPT !.dialDropped = TRUE] \in Lease
  BY DEF Lease
<1>2. Unconfirmed([r EXCEPT !.dialDropped = TRUE]) \in Lease
  BY <1>1, UnconfirmedType
<1>3. QED
  BY <1>2, SetRelType DEF AwaitDial

LEMMA AfterStopType ==
  ASSUME NEW r \in Lease PROVE AfterStop(r) \in Lease
BY SetRelType, AwaitDialType DEF AfterStop

LEMMA BeginReleaseType ==
  ASSUME NEW r \in Lease, NEW ok \in BOOLEAN PROVE BeginRelease(r, ok) \in Lease
<1> DEFINE s == [r EXCEPT !.stopReq = TRUE, !.phase = "stopping", !.ok = ok]
<1>1. s \in Lease
  BY DEF Lease
<1> HIDE DEF s
<1>2. AwaitDial(s) \in Lease
  BY <1>1, AwaitDialType
<1>3. [s EXCEPT !.rel = "awaitStart"] \in Lease /\ [s EXCEPT !.rel = "stopPtt"] \in Lease
  BY <1>1, SetRelType
<1>4. [Confirmed(s) EXCEPT !.rel = "stopPtt"] \in Lease
  BY <1>1, ConfirmedType, SetRelType
<1>5. QED
  BY <1>2, <1>3, <1>4 DEF BeginRelease, s

LEMMA EnsureReleasedType ==
  ASSUME NEW r \in Lease, NEW ok \in BOOLEAN PROVE EnsureReleased(r, ok) \in Lease
BY BeginReleaseType DEF EnsureReleased

LEMMA SetAcqType ==
  ASSUME NEW r \in Lease,
         NEW x \in {"unused", "preparing", "dialing", "rechecking", "keying", "checking",
                    "granted", "failed"}
  PROVE  [r EXCEPT !.acq = x] \in Lease
BY DEF Lease

LEMMA ThrownType ==
  ASSUME NEW l, NEW r \in Lease PROVE Thrown(l, r) \in Lease
<1>1. EnsureReleased(r, FALSE) \in Lease
  BY EnsureReleasedType
<1>2. QED
  BY <1>1, SetAcqType DEF Thrown

LEMMA GrantedType ==
  ASSUME NEW r \in Lease PROVE Granted(r) \in Lease
<1>1. r.req.assertPtt \in BOOLEAN
  BY DEF Lease, Request
<1>2. [r EXCEPT !.acq = "granted", !.confirmed = r.req.assertPtt,
                !.ever = r.req.assertPtt] \in Lease
  BY <1>1 DEF Lease
<1>3. r.phase \in {"starting", "active", "draining", "stopping", "unknown"}
  BY DEF Lease
<1>4. QED
  BY <1>2, <1>3, SetPhaseType DEF Granted

LEMMA KeyUpType ==
  ASSUME NEW r \in Lease PROVE KeyUp(r) \in Lease
<1>1. [r EXCEPT !.acq = "keying", !.start = "sent"] \in Lease
  BY ZenonT(40) DEF Lease
<1>2. QED
  BY <1>1, GrantedType DEF KeyUp

LEMMA SetDialSetType ==
  ASSUME NEW r \in Lease,
         NEW x \in {"sent", "applied", "compensating", "settled", "failed", "forgotten"}
  PROVE  [r EXCEPT !.dialSet = x] \in Lease
BY DEF Lease

LEMMA OffsetSetType ==
  ASSUME NEW r \in Lease PROVE OffsetSet(r) \in Lease
<1>1. [r EXCEPT !.acq = "rechecking", !.dialSet = "applied"] \in Lease
  BY SetAcqType, SetDialSetType
<1>2. [r EXCEPT !.acq = "dialing", !.dialSet = "sent"] \in Lease
  BY SetAcqType, SetDialSetType
<1>3. QED
  BY <1>1, <1>2 DEF OffsetSet

LEMMA DialSettledType ==
  ASSUME NEW r \in Lease PROVE DialSettled(r) \in Lease
BY AwaitDialType DEF DialSettled

LEMMA NewLeaseType ==
  ASSUME NEW q \in Request, NEW x \in {"unused", "preparing"}
  PROVE  NewLease(q, x) \in Lease
BY DEF NewLease, Lease, Request, Outcome

(* The single-field updates the actions make.                              *)

LEMMA SetPrepType ==
  ASSUME NEW r \in Lease, NEW x \in {"none", "late"} PROVE [r EXCEPT !.prep = x] \in Lease
BY DEF Lease

LEMMA SetStartType ==
  ASSUME NEW r \in Lease,
         NEW x \in {"accepted", "rejected", "compensating", "compensated", "abandoned",
                    "refused"}
  PROVE  [r EXCEPT !.start = x] \in Lease
BY DEF Lease

LEMMA SetCleanupType ==
  ASSUME NEW r \in Lease, NEW x \in {"none", "running", "late"}
  PROVE  [r EXCEPT !.cleanup = x] \in Lease
BY DEF Lease

LEMMA PutType ==
  ASSUME NEW l \in Leases, NEW r \in Lease, lease \in [Leases -> Lease], Put(l, r)
  PROVE  lease' \in [Leases -> Lease]
BY DEF Put

LEMMA ClearSettlesType ==
  ASSUME TypeOK, NEW ok \in BOOLEAN, ClearSettles(ok)
  PROVE  dial' \in 0..MaxLeases /\ offset' \in BOOLEAN
BY BoundsAssumption DEF ClearSettles, Cleared, TypeOK, None

(* The groups of actions preserve the type invariant.                      *)

LEMMA AcquiringType ==
  ASSUME NEW l \in Leases, TypeOK, Acquiring(l) PROVE TypeOK'
<1> DEFINE r == lease[l]
<1>1. r \in Lease
  BY DEF TypeOK
<1>a. l \in 0..MaxLeases /\ MaxLeases \in Nat
  BY BoundsAssumption DEF Leases
<1>2. CASE PreparationDone(l)
  <2>1. [r EXCEPT !.prep = "none"] \in Lease
    BY <1>1, SetPrepType
  <2>2. Thrown(l, [r EXCEPT !.prep = "none"]) \in Lease
    BY <2>1, ThrownType
  <2>3. OffsetSet([r EXCEPT !.prep = "none"]) \in Lease
    BY <2>1, OffsetSetType
  <2>4. KeyUp([r EXCEPT !.prep = "none"]) \in Lease
    BY <2>1, KeyUpType
  <2>5. offset' \in BOOLEAN
    BY <1>2 DEF PreparationDone
  <2>6. lease' \in [Leases -> Lease]
    BY <1>2, <2>2, <2>3, <2>4, PutType DEF PreparationDone, TypeOK
  <2>7. QED
    BY <1>2, <2>5, <2>6 DEF PreparationDone, TypeOK
<1>3. CASE PreparationFails(l)
  <2>1. Thrown(l, [r EXCEPT !.prep = "none"]) \in Lease
    BY <1>1, SetPrepType, ThrownType
  <2>2. QED
    BY <1>3, <2>1, PutType DEF PreparationFails, TypeOK
<1>4. CASE PreparationTimesOut(l)
  <2>1. Thrown(l, [r EXCEPT !.prep = "late"]) \in Lease
    BY <1>1, SetPrepType, ThrownType
  <2>2. QED
    BY <1>4, <2>1, PutType DEF PreparationTimesOut, TypeOK
<1>5. ASSUME NEW tuned \in BOOLEAN, DialAnswers(l, tuned) PROVE TypeOK'
  <2> DEFINE d == [r EXCEPT !.dialSet = AppliedAs(l, tuned)]
             s == DialSettled(d)
  <2>1. d \in Lease
    BY <1>1, SetDialSetType DEF AppliedAs
  <2> HIDE DEF d
  <2>2. s \in Lease
    BY <2>1, DialSettledType
  <2>3. Put(l, IF r.acq # "dialing" THEN s
               ELSE IF CanContinue(l) THEN [s EXCEPT !.acq = "rechecking"]
               ELSE Thrown(l, s))
    BY <1>5 DEF DialAnswers, d
  <2> HIDE DEF s
  <2>4. [s EXCEPT !.acq = "rechecking"] \in Lease /\ Thrown(l, s) \in Lease
    BY <2>2, SetAcqType, ThrownType
  <2>5. lease' \in [Leases -> Lease]
    BY <2>2, <2>3, <2>4, PutType DEF TypeOK
  <2>6. QED
    BY <1>5, <1>a, <2>5 DEF DialAnswers, TypeOK
<1>6. ASSUME NEW tuned \in BOOLEAN, DialNotApplied(l, tuned) PROVE TypeOK'
  <2> DEFINE d == [r EXCEPT !.dialSet = IF tuned THEN "forgotten" ELSE "settled"]
             s == DialSettled(d)
  <2>1. d \in Lease
    BY <1>1, SetDialSetType
  <2> HIDE DEF d
  <2>2. s \in Lease
    BY <2>1, DialSettledType
  <2>3. Put(l, IF r.acq = "dialing" THEN Thrown(l, s) ELSE s)
    BY <1>6 DEF DialNotApplied, d
  <2> HIDE DEF s
  <2>4. Thrown(l, s) \in Lease
    BY <2>2, ThrownType
  <2>5. lease' \in [Leases -> Lease]
    BY <2>2, <2>3, <2>4, PutType DEF TypeOK
  <2>6. QED
    BY <1>6, <1>a, <2>5 DEF DialNotApplied, TypeOK
<1>r. CASE DialRefused(l)
  <2> DEFINE d == [r EXCEPT !.prep = "none", !.dialSet = "settled"]
  <2>0. [r EXCEPT !.prep = "none"] \in Lease
    BY <1>1, SetPrepType
  <2>1. d \in Lease
    BY <2>0, SetDialSetType
  <2>2. Thrown(l, d) \in Lease
    BY <2>1, ThrownType
  <2>3. QED
    BY <1>r, <2>2, PutType DEF DialRefused, TypeOK
<1>7. CASE DialTimesOut(l) \/ StartTimesOut(l)
  <2>1. Thrown(l, r) \in Lease
    BY <1>1, ThrownType
  <2>2. QED
    BY <1>7, <2>1, PutType DEF DialTimesOut, StartTimesOut, TypeOK
<1>8. ASSUME NEW ok \in BOOLEAN, DialCompensated(l, ok) PROVE TypeOK'
  <2> DEFINE d == [r EXCEPT !.dialSet = IF ok THEN "settled" ELSE "failed"]
  <2>1. d \in Lease
    BY <1>1, SetDialSetType
  <2>2. Put(l, DialSettled(d))
    BY <1>8 DEF DialCompensated
  <2> HIDE DEF d
  <2>3. lease' \in [Leases -> Lease]
    BY <2>1, <2>2, DialSettledType, PutType DEF TypeOK
  <2>4. dial' \in 0..MaxLeases /\ offset' \in BOOLEAN
    BY <1>8, ClearSettlesType DEF DialCompensated
  <2>5. QED
    BY <1>8, <2>3, <2>4 DEF DialCompensated, TypeOK
<1>9. ASSUME NEW valid \in BOOLEAN, Recheck(l, valid) \/ Check(l, valid) PROVE TypeOK'
  <2>1. KeyUp(r) \in Lease /\ Granted(r) \in Lease /\ Thrown(l, r) \in Lease
    BY <1>1, KeyUpType, GrantedType, ThrownType
  <2>2. QED
    BY <1>9, <2>1, PutType DEF Recheck, Check, TypeOK
<1>10. CASE StartAccepted(l)
  <2> DEFINE t == [r EXCEPT !.start = AcceptedAs(l)]
             s == [t EXCEPT !.acq = IF r.acq = "keying" THEN "checking" ELSE r.acq]
  <2>1. t \in Lease
    BY <1>1, SetStartType DEF AcceptedAs
  <2>2. s \in Lease
    <3>1. (IF r.acq = "keying" THEN "checking" ELSE r.acq) \in
            {"unused", "preparing", "dialing", "rechecking", "keying", "checking",
             "granted", "failed"}
      BY <1>1 DEF Lease
    <3> HIDE DEF t
    <3>2. QED
      BY <2>1, <3>1, SetAcqType
  <2>3. [Confirmed(s) EXCEPT !.rel = "stopPtt"] \in Lease
    BY <2>2, ConfirmedType, SetRelType
  <2>4. s = [r EXCEPT !.start = AcceptedAs(l),
                      !.acq = IF @ = "keying" THEN "checking" ELSE @]
    OBVIOUS
  <2> HIDE DEF t, s
  <2>5. QED
    BY <1>10, <2>2, <2>3, <2>4, PutType DEF StartAccepted, TypeOK
<1>11. CASE StartRejected(l)
  <2> DEFINE x == [r EXCEPT !.start = "rejected"]
             s == CASE x.rel = "awaitStart" -> [x EXCEPT !.rel = "stopPtt"]
                    [] x.rel = "awaitComp"  -> AwaitDial(x)
                    [] OTHER                -> x
  <2>1. x \in Lease
    BY <1>1, SetStartType
  <2>2. [x EXCEPT !.rel = "stopPtt"] \in Lease /\ AwaitDial(x) \in Lease
    BY <2>1, SetRelType, AwaitDialType
  <2>3. s \in Lease
    BY <2>1, <2>2
  <2>4. Thrown(l, s) \in Lease
    BY <2>3, ThrownType
  <2>5. Put(l, IF s.acq = "keying" THEN Thrown(l, s) ELSE s)
    BY <1>11 DEF StartRejected
  <2> HIDE DEF s
  <2>6. QED
    BY <1>11, <2>3, <2>4, <2>5, PutType DEF StartRejected, TypeOK
<1>12. CASE CompensationDone(l)
  <2> DEFINE s == [r EXCEPT !.start = "compensated"]
  <2>1. s \in Lease
    BY <1>1, SetStartType
  <2>2. [s EXCEPT !.confirmed = FALSE] \in Lease
    BY <2>1 DEF Lease
  <2>3. EmitOnce([s EXCEPT !.confirmed = FALSE], "failure") \in Lease
    BY <2>2, EmitOnceType DEF Outcome
  <2>4. AwaitDial(s) \in Lease
    BY <2>1, AwaitDialType
  <2>5. lease' \in [Leases -> Lease]
    BY <1>12, <2>1, <2>3, <2>4, PutType DEF CompensationDone, TypeOK
  <2>6. current' \in {current, None} /\ keyed' = FALSE
        /\ UNCHANGED <<epoch, maint, retries, dial, offset>>
    BY <1>12 DEF CompensationDone
  <2>7. current' \in 0..epoch'
    BY <1>a, <2>6 DEF TypeOK, None
  <2>8. QED
    BY <1>a, <2>5, <2>6, <2>7 DEF TypeOK
<1>13. CASE CompensationFails(l)
  <2>1. [r EXCEPT !.start = "abandoned"] \in Lease
    BY <1>1, SetStartType
  <2>2. AwaitDial([r EXCEPT !.start = "abandoned"]) \in Lease
    BY <2>1, AwaitDialType
  <2>3. QED
    BY <1>13, <2>1, <2>2, PutType DEF CompensationFails, TypeOK
<1>14. QED
  BY <1>2, <1>3, <1>4, <1>5, <1>6, <1>r, <1>7, <1>8, <1>9, <1>10, <1>11, <1>12, <1>13
     DEF Acquiring

LEMMA ReleasingType ==
  ASSUME NEW l \in Leases, TypeOK, Releasing(l) PROVE TypeOK'
<1> DEFINE r == lease[l]
<1>1. r \in Lease
  BY DEF TypeOK
<1>2. MaxLeases \in Nat
  BY BoundsAssumption
<1>3. CASE AwaitStartTimesOut(l)
  <2>1. [r EXCEPT !.rel = "stopPtt"] \in Lease
    BY <1>1, SetRelType
  <2>2. QED
    BY <1>3, <2>1, PutType DEF AwaitStartTimesOut, TypeOK
<1>4. CASE StopDone(l)
  <2>1. AfterStop(r) \in Lease
    BY <1>1, AfterStopType
  <2>2. QED
    BY <1>4, <2>1, PutType DEF StopDone, TypeOK
<1>5. CASE StopFails(l) \/ AwaitCompTimesOut(l) \/ ClearFails(l)
  <2>1. Unconfirmed(r) \in Lease
    BY <1>1, UnconfirmedType
  <2>2. lease' \in [Leases -> Lease]
    BY <1>5, <2>1, PutType DEF StopFails, AwaitCompTimesOut, ClearFails, TypeOK
  <2>3. keyed' \in BOOLEAN /\ UNCHANGED <<epoch, current, maint, retries>>
    BY <1>5 DEF StopFails, AwaitCompTimesOut, ClearFails, TypeOK
  <2>4. dial' \in 0..MaxLeases /\ offset' \in BOOLEAN
    BY <1>5, ClearSettlesType DEF StopFails, AwaitCompTimesOut, ClearFails, TypeOK
  <2>5. QED
    BY <2>2, <2>3, <2>4 DEF TypeOK
<1>6. CASE StopTimesOut(l)
  <2>1. [r EXCEPT !.lateStops = @ + 1] \in Lease
    BY <1>1 DEF Lease
  <2>2. Unconfirmed([r EXCEPT !.lateStops = @ + 1]) \in Lease
    BY <2>1, UnconfirmedType
  <2>3. QED
    BY <1>6, <2>2, PutType DEF StopTimesOut, TypeOK
<1>7. CASE AwaitDialTimesOut(l)
  <2>1. [r EXCEPT !.dialDropped = TRUE] \in Lease
    BY <1>1 DEF Lease
  <2>2. Unconfirmed([r EXCEPT !.dialDropped = TRUE]) \in Lease
    BY <2>1, UnconfirmedType
  <2>3. QED
    BY <1>7, <2>2, PutType DEF AwaitDialTimesOut, TypeOK
<1>8. CASE ClearDone(l) \/ (ClearCalled(l) /\ ~offset)
  <2>1. EndRelease(l) /\ UNCHANGED <<epoch, maint, retries, keyed>>
    BY <1>8 DEF ClearDone, ClearCalled
  <2>2. lease' \in [Leases -> Lease]
    BY <1>1, <2>1, ClosedType, PutType DEF EndRelease, TypeOK
  <2>3. current' \in 0..epoch'
    BY <1>2, <2>1 DEF EndRelease, TypeOK, None
  <2>4. dial' \in 0..MaxLeases /\ offset' \in BOOLEAN
    BY <1>8, ClearSettlesType DEF ClearDone, ClearCalled, TypeOK
  <2>5. QED
    BY <2>1, <2>2, <2>3, <2>4 DEF TypeOK
<1>c. CASE ClearCalled(l) /\ offset
  <2>1. [r EXCEPT !.rel = "clearing"] \in Lease
    BY <1>1, SetRelType
  <2>2. QED
    BY <1>c, <2>1, PutType DEF ClearCalled, TypeOK
<1>9. CASE ClearTimesOut(l)
  <2>1. [r EXCEPT !.lateClears = @ + 1] \in Lease
    BY <1>1 DEF Lease
  <2>2. Unconfirmed([r EXCEPT !.lateClears = @ + 1]) \in Lease
    BY <2>1, UnconfirmedType
  <2>3. QED
    BY <1>9, <2>2, PutType DEF ClearTimesOut, TypeOK
<1>10. QED
  BY <1>3, <1>4, <1>5, <1>6, <1>7, <1>8, <1>c, <1>9 DEF Releasing

LEMMA OwnerType ==
  ASSUME NEW l \in Leases, TypeOK, Owner(l) PROVE TypeOK'
<1> DEFINE r == lease[l]
<1>1. r \in Lease
  BY DEF TypeOK
<1>2. ASSUME NEW ok \in BOOLEAN, ReleaseLease(l, ok) PROVE TypeOK'
  <2>1. EnsureReleased(r, ok) \in Lease
    BY <1>1, EnsureReleasedType
  <2>2. QED
    BY <1>2, <2>1, PutType DEF ReleaseLease, TypeOK
<1>3. ASSUME NEW phase \in {"active", "draining"}, PlaybackPhase(l, phase) PROVE TypeOK'
  <2>1. [r EXCEPT !.phase = phase] \in Lease
    BY <1>1, SetPhaseType
  <2>2. QED
    BY <1>3, <2>1, PutType DEF PlaybackPhase, TypeOK
<1>4. CASE MarkActive(l)
  <2>1. [Confirmed(r) EXCEPT !.phase = "active"] \in Lease
    BY <1>1, ConfirmedType, SetPhaseType
  <2>2. QED
    BY <1>4, <2>1, PutType DEF MarkActive, TypeOK
<1>5. CASE ForceInterrupt(l)
  <2> DEFINE s == [r EXCEPT !.stopReq = TRUE, !.phase = "stopping"]
  <2>1. s \in Lease
    BY <1>1 DEF Lease
  <2>2. Put(l, IF s.req.cleans THEN [s EXCEPT !.cleanup = "running"]
               ELSE EnsureReleased(s, FALSE))
    BY <1>5 DEF ForceInterrupt
  <2> HIDE DEF s
  <2>3. [s EXCEPT !.cleanup = "running"] \in Lease /\ EnsureReleased(s, FALSE) \in Lease
    BY <2>1, SetCleanupType, EnsureReleasedType
  <2>4. QED
    BY <1>5, <2>2, <2>3, PutType DEF ForceInterrupt, TypeOK
<1>6. CASE RetryUnknownStop(l)
  <2>1. BeginRelease(r, FALSE) \in Lease
    BY <1>1, BeginReleaseType
  <2>2. lease' \in [Leases -> Lease]
    BY <1>6, <2>1, PutType DEF RetryUnknownStop, TypeOK
  <2>3. retries' \in Nat /\ UNCHANGED <<epoch, current, maint, keyed, dial, offset>>
    BY <1>6 DEF RetryUnknownStop, TypeOK
  <2>4. QED
    BY <2>2, <2>3 DEF TypeOK
<1>7. CASE CleanupDone(l)
  <2>1. EnsureReleased([r EXCEPT !.cleanup = "none"], FALSE) \in Lease
    BY <1>1, SetCleanupType, EnsureReleasedType
  <2>2. QED
    BY <1>7, <2>1, PutType DEF CleanupDone, TypeOK
<1>8. CASE CleanupTimesOut(l)
  <2>1. EnsureReleased([r EXCEPT !.cleanup = "late"], FALSE) \in Lease
    BY <1>1, SetCleanupType, EnsureReleasedType
  <2>2. QED
    BY <1>8, <2>1, PutType DEF CleanupTimesOut, TypeOK
<1>9. QED
  BY <1>2, <1>3, <1>4, <1>5, <1>6, <1>7, <1>8 DEF Owner

LEMMA LateSettlementType ==
  ASSUME NEW l \in Leases, TypeOK, LateSettlement(l) PROVE TypeOK'
<1> DEFINE r == lease[l]
<1>1. r \in Lease
  BY DEF TypeOK
<1>2. CASE LatePreparationSettles(l)
  BY <1>1, <1>2, SetPrepType, PutType DEF LatePreparationSettles, TypeOK
<1>3. CASE LateCleanupSettles(l)
  BY <1>1, <1>3, SetCleanupType, PutType DEF LateCleanupSettles, TypeOK
<1>4. CASE LateStopSettles(l)
  <2>1. [r EXCEPT !.lateStops = @ - 1] \in Lease
    BY <1>1, <1>4 DEF LateStopSettles, Lease
  <2>2. QED
    BY <1>4, <2>1, PutType DEF LateStopSettles, TypeOK
<1>5. ASSUME NEW ok \in BOOLEAN, LateClearSettles(l, ok) PROVE TypeOK'
  <2>1. [r EXCEPT !.lateClears = @ - 1] \in Lease
    BY <1>1, <1>5 DEF LateClearSettles, Lease
  <2>2. dial' \in 0..MaxLeases /\ offset' \in BOOLEAN
    BY <1>5, ClearSettlesType DEF LateClearSettles
  <2>3. QED
    BY <1>5, <2>1, <2>2, PutType DEF LateClearSettles, TypeOK
<1>6. QED
  BY <1>2, <1>3, <1>4, <1>5 DEF LateSettlement

LEMMA InitType == Init => TypeOK
<1>1. Unused \in Lease
  BY NewLeaseType DEF Unused, Request
<1>2. Init => lease \in [Leases -> Lease]
  BY <1>1 DEF Init
<1>3. 0 \in 0..0 /\ 0 \in 0..MaxLeases
  BY BoundsAssumption
<1>4. QED
  <2>1. SUFFICES ASSUME Init PROVE TypeOK
    OBVIOUS
  <2>2. /\ epoch = 0 /\ current = 0 /\ dial = 0 /\ maint = "none" /\ retries = 0
        /\ keyed = FALSE /\ offset = FALSE
    BY <2>1 DEF Init, None
  <2>3. QED
    BY <1>2, <1>3, <2>1, <2>2 DEF TypeOK

LEMMA NextType == TypeOK /\ [Next]_vars => TypeOK'
<1> SUFFICES ASSUME TypeOK, [Next]_vars PROVE TypeOK'
  OBVIOUS
<1>1. ASSUME NEW q \in Requests, AcquireLease(q) PROVE TypeOK'
  <2>1. NewLease(q, "preparing") \in Lease
    BY RequestsAssumption, NewLeaseType
  <2>2. epoch + 1 \in Leases /\ epoch + 1 \in 0..MaxLeases
    BY <1>1, BoundsAssumption DEF AcquireLease, TypeOK, Leases
  <2>3. lease' \in [Leases -> Lease]
    BY <1>1, <2>1, <2>2, PutType DEF AcquireLease, TypeOK
  <2>4. QED
    BY <1>1, <2>2, <2>3 DEF AcquireLease, TypeOK
<1>2. CASE Maintenance
  BY <1>2 DEF Maintenance, StartMaintenance, MaintenanceTimesOut, MaintenanceSettles, TypeOK
<1>3. CASE UNCHANGED vars
  BY <1>3 DEF vars, TypeOK
<1>4. QED
  BY <1>1, <1>2, <1>3, AcquiringType, ReleasingType, OwnerType, LateSettlementType DEF Next

\* Every reachable state is well typed: in particular the counters of timed-out
\* commands never go below zero, and activeLease is always a lease that was granted.
THEOREM TypeCorrect == Spec => []TypeOK
<1>1. QED
  BY InitType, NextType, PTL DEF Spec
=============================================================================
