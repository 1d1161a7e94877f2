------------------------ MODULE PhysicalTxInvProofs ------------------------
(***************************************************************************)
(* IInv is an inductive invariant of PhysicalTx.  Every action rewrites    *)
(* one lease object; LocalStep says what such a rewriting must respect for *)
(* the rest of the state to stay consistent, LocalStepKeepsIInv that this  *)
(* is enough, and each action is then shown to be a local step.  The       *)
(* safety properties follow, and that the coordinator implements           *)
(* TxOwnership.                                                            *)
(***************************************************************************)
EXTENDS PhysicalTxProofs

\* The dial offset of this lease may outlive it.
MayStayTuned(r) ==
  r.rel = "unknown" \/ r.dialSet \in {"compensating", "failed", "forgotten"}

\* What the rewriting of lease l to r must respect for the dial and its offset.
DialStep(l, r) ==
  /\ lease[l].dialSet = "forgotten" => r.dialSet = "forgotten"
  /\ (dial' # None \/ offset') =>
       \/ current' # None \/ MayStayTuned(r) \/ Forgotten
       \/ (dial # None \/ offset) /\ current = None /\ ~MayStayTuned(lease[l])
  /\ (dial' # None /\ ~offset') =>
       r.dialSet = "forgotten" \/ Forgotten \/ (dial # None /\ ~offset)
  /\ r.dialSet = "sent" =>
       /\ l = epoch /\ (current' = l /\ ~r.stopReq => offset')
       /\ dial' # None => Forgotten
  /\ offset' = offset \/ offset' \/ current \in {None, l}
  /\ dial' = dial \/ dial' = None \/ lease[l].dialSet = "sent"

LocalStep(l, r) ==
  /\ Put(l, r)
  /\ lease[l].acq # "unused" /\ r.acq # "unused"
  /\ StepOrder(r)
  /\ epoch' = epoch /\ maint' = maint
  /\ current' = current \/ (current = l /\ current' = None)
  /\ current' # l => Quiet(r)
  /\ current' = l => r.rel # "done"
  /\ LateCommand(r) => current' \in {None, l}
  /\ (current' = l /\ ~r.stopReq /\ r.req.assertPtt /\ r.acq \in {"checking", "granted"})
       => r.start = "accepted"
  /\ (current' = l /\ ~r.stopReq /\ r.start = "accepted") => keyed'
  /\ keyed' = keyed \/ current \in {None, l}
  /\ keyed' => \/ keyed /\ (current = l /\ MayBeKeyed(lease[l])
                              => r.start = "abandoned" \/ (current' = l /\ MayBeKeyed(r)))
               \/ current' = l /\ MayBeKeyed(r)
  /\ lease[l].start = "abandoned" => r.start = "abandoned"
  /\ DialStep(l, r)
  /\ keyed' = keyed \/ keyed' = FALSE \/ (current = l /\ current' = l)
  /\ r.start = "abandoned" => lease[l].start = "abandoned" \/ (current = l /\ current' = l)
  /\ \/ r.terminal = lease[l].terminal /\ (current' # current => r.terminal # "none")
     \/ /\ current = l /\ lease[l].terminal = "none"
        /\ r.terminal = "failure" \/ (r.terminal = "success" /\ current' = None)

\* A step of one lease, and of the transmitter as far as it is the lease's, keeps IInv.
LEMMA LocalStepKeepsIInv ==
  ASSUME IInv, TypeOK', NEW l \in Leases, NEW r, LocalStep(l, r)
  PROVE  IInv'
<1>1. lease' = [lease EXCEPT ![l] = r] /\ lease \in [Leases -> Lease]
  BY DEF LocalStep, Put, IInv, TypeOK
<1>2. lease'[l] = r /\ \A k \in Leases : k # l => lease'[k] = lease[k]
  BY <1>1
<1>3. l # None /\ epoch \in Nat /\ current \in Nat /\ Leases \subseteq Nat
  BY BoundsAssumption DEF IInv, TypeOK, None, Leases
<1>4. current # None => current \in Leases
  BY BoundsAssumption DEF IInv, TypeOK, None, Leases
<1>5. (\A k \in Leases : StepOrder(lease[k]))'
  BY <1>2 DEF LocalStep, IInv
<1>6. (\A k \in Leases : k > epoch => lease[k].acq = "unused")'
  BY <1>2 DEF LocalStep, IInv
<1>7. (current # None => lease[current].acq # "unused" /\ lease[current].rel # "done")'
  BY <1>2, <1>4 DEF LocalStep, IInv
<1>8. (\A k \in Leases : current # k => Quiet(lease[k]))'
  BY <1>2 DEF LocalStep, IInv
<1>9. (\A k \in Leases : LateCommand(lease[k]) => current \in {None, k})'
  BY <1>2 DEF LocalStep, IInv
<1>10. (\A k \in Leases :
          (CanContinue(k) /\ lease[k].req.assertPtt /\ lease[k].acq \in {"checking", "granted"})
            => lease[k].start = "accepted")'
  <2> SUFFICES ASSUME NEW k \in Leases, CanContinue(k)', lease'[k].req.assertPtt,
                      lease'[k].acq \in {"checking", "granted"}
               PROVE  lease'[k].start = "accepted"
    OBVIOUS
  <2>1. CASE k = l
    BY <1>2, <2>1 DEF LocalStep, CanContinue
  <2>2. CASE k # l
    <3>1. current = k /\ lease'[k] = lease[k]
      BY <1>2, <1>3, <2>2 DEF LocalStep, CanContinue, None, Leases
    <3>2. QED
      BY <3>1 DEF IInv, CanContinue
  <2>3. QED
    BY <2>1, <2>2
<1>11. (\A k \in Leases : (CanContinue(k) /\ lease[k].start = "accepted") => keyed)'
  <2> SUFFICES ASSUME NEW k \in Leases, CanContinue(k)', lease'[k].start = "accepted"
               PROVE  keyed'
    OBVIOUS
  <2>1. CASE k = l
    BY <1>2, <2>1 DEF LocalStep, CanContinue
  <2>2. CASE k # l
    <3>1. current = k /\ lease'[k] = lease[k]
      BY <1>2, <1>3, <2>2 DEF LocalStep, CanContinue, None, Leases
    <3>2. keyed
      BY <3>1 DEF IInv, CanContinue
    <3>3. current # None
      BY <1>3, <3>1 DEF None, Leases
    <3>4. QED
      BY <2>2, <3>1, <3>2, <3>3 DEF LocalStep
  <2>3. QED
    BY <2>1, <2>2
<1>12. (keyed => Stray \/ (current # None /\ MayBeKeyed(lease[current])))'
  <2> SUFFICES ASSUME keyed' PROVE Stray' \/ (current' # None /\ MayBeKeyed(lease'[current']))
    BY DEF MayBeKeyed
  <2>1. Stray => Stray'
    BY <1>2 DEF LocalStep, Stray
  <2>2. CASE current' = l /\ MayBeKeyed(r)
    BY <1>2, <1>3, <2>2
  <2>3. CASE keyed /\ (current = l /\ MayBeKeyed(lease[l])
                         => r.start = "abandoned" \/ (current' = l /\ MayBeKeyed(r)))
    <3>1. CASE Stray
      BY <2>1, <3>1
    <3>2. CASE current # None /\ MayBeKeyed(lease[current])
      <4>1. CASE current = l
        BY <1>2, <1>3, <2>3, <3>2, <4>1 DEF Stray
      <4>2. CASE current # l
        BY <1>2, <1>4, <3>2, <4>2 DEF LocalStep
      <4>3. QED
        BY <4>1, <4>2
    <3>3. QED
      BY <2>3, <3>1, <3>2 DEF IInv
  <2>4. QED
    BY <2>2, <2>3 DEF LocalStep
<1>f. Forgotten => Forgotten'
  BY <1>2 DEF LocalStep, DialStep, Forgotten
<1>13. (dial # None \/ offset =>
          \/ current # None
          \/ \E k \in Leases :
               lease[k].rel = "unknown"
               \/ lease[k].dialSet \in {"compensating", "failed", "forgotten"})'
  <2> SUFFICES ASSUME dial' # None \/ offset', current' = None
               PROVE  \E k \in Leases : MayStayTuned(lease'[k])
    BY DEF MayStayTuned
  <2>1. CASE MayStayTuned(r)
    BY <1>2, <2>1
  <2>2. CASE Forgotten
    BY <1>f, <2>2 DEF Forgotten, MayStayTuned
  <2>3. CASE (dial # None \/ offset) /\ current = None /\ ~MayStayTuned(lease[l])
    <3>1. PICK k \in Leases : MayStayTuned(lease[k])
      BY <2>3 DEF IInv, MayStayTuned
    <3>2. QED
      BY <1>2, <2>3, <3>1
  <2>4. QED
    BY <2>1, <2>2, <2>3 DEF LocalStep, DialStep
<1>d. (dial # None /\ ~offset => Forgotten)'
  <2>1. r.dialSet = "forgotten" => Forgotten'
    BY <1>2 DEF Forgotten
  <2>2. QED
    BY <1>f, <2>1 DEF LocalStep, DialStep, IInv
<1>s. (\A k \in Leases : lease[k].dialSet = "sent" =>
         k = epoch /\ (CanContinue(k) => offset) /\ (dial # None => Forgotten))'
  <2> SUFFICES ASSUME NEW k \in Leases, lease'[k].dialSet = "sent"
               PROVE  /\ k = epoch' /\ (CanContinue(k)' => offset')
                      /\ dial' # None => Forgotten'
    OBVIOUS
  <2>1. CASE k = l
    BY <1>2, <1>f, <2>1 DEF LocalStep, DialStep, CanContinue
  <2>2. CASE k # l
    <3>1. /\ lease'[k] = lease[k] /\ k = epoch /\ (CanContinue(k) => offset)
          /\ dial # None => Forgotten
      BY <1>2, <2>2 DEF IInv
    <3>2. lease[l].dialSet # "sent"
      BY <2>2, <3>1 DEF IInv
    <3>3. dial' # None => Forgotten'
      BY <1>f, <3>1, <3>2 DEF LocalStep, DialStep
    <3>4. CanContinue(k)' => offset'
      <4> SUFFICES ASSUME CanContinue(k)' PROVE offset'
        OBVIOUS
      <4>1. k # None
        BY <1>3, BoundsAssumption DEF None, Leases
      <4>2. current = k /\ CanContinue(k)
        BY <2>2, <3>1, <4>1 DEF LocalStep, CanContinue
      <4>3. QED
        BY <2>2, <3>1, <4>1, <4>2 DEF LocalStep, DialStep
    <3>5. QED
      BY <3>1, <3>3, <3>4 DEF LocalStep
  <2>3. QED
    BY <2>1, <2>2
<1>e. (current \in {None, epoch})'
  BY DEF LocalStep, IInv
<1>14. (maint # "none" => current = None)'
  BY DEF LocalStep, IInv
<1>15. QED
  BY <1>5, <1>6, <1>7, <1>8, <1>9, <1>10, <1>11, <1>12, <1>13, <1>d, <1>s,
     <1>e, <1>14 DEF IInv

(* Which fields the steps of releaseInternal and acquireLease touch.       *)

Kept(s, r) ==
  /\ s.req = r.req /\ s.start = r.start /\ s.dialSet = r.dialSet
  /\ s.cleanup = r.cleanup /\ s.lateStops = r.lateStops /\ s.lateClears = r.lateClears

\* s is r with its release declared unconfirmed.
GivenUp(s, r) ==
  /\ s.phase = "unknown" /\ s.rel = "unknown"
  /\ s.terminal = IF r.terminal = "none" THEN "failure" ELSE r.terminal

\* s is r with its release at await x.
At(s, r, x) ==
  s.rel = x /\ s.phase = r.phase /\ s.dialDropped = r.dialDropped /\ s.terminal = r.terminal

DialAwaited(s, r) ==
  \/ /\ At(s, r, "clearDial")
     /\ r.dialDropped \/ r.dialSet \in {"none", "applied", "settled", "forgotten"}
  \/ GivenUp(s, r) /\ s.dialDropped = TRUE /\ r.dialSet = "failed"
  \/ At(s, r, "awaitDial") /\ r.dialSet \in {"sent", "compensating"}

\* What a release that is not confirmed writes
LEMMA UnconfirmedFields ==
  ASSUME NEW r \in Lease, NEW s, s = Unconfirmed(r)
  PROVE  /\ Kept(s, r) /\ GivenUp(s, r)
         /\ s.acq = r.acq /\ s.stopReq = r.stopReq /\ s.ok = r.ok
         /\ s.dialDropped = r.dialDropped
BY DEF Unconfirmed, EmitOnce, Lease, Kept, GivenUp

\* What the end of a lease writes
LEMMA ClosedFields ==
  ASSUME NEW r \in Lease, NEW s, s = Closed(r)
  PROVE  /\ Kept(s, r) /\ s.rel = "done" /\ s.phase = r.phase
         /\ s.acq = r.acq /\ s.stopReq = r.stopReq /\ s.ok = r.ok
         /\ s.dialDropped = r.dialDropped
         /\ s.terminal = IF r.terminal # "none" THEN r.terminal
                         ELSE IF r.ok THEN "success" ELSE "failure"
BY DEF Closed, EmitOnce, Lease, Kept

\* What waiting for the dial command writes
LEMMA AwaitDialFields ==
  ASSUME NEW r \in Lease, NEW s, s = AwaitDial(r)
  PROVE  /\ Kept(s, r) /\ DialAwaited(s, r)
         /\ s.acq = r.acq /\ s.stopReq = r.stopReq /\ s.ok = r.ok
<1>1. CASE r.dialDropped \/ r.dialSet \in {"none", "applied", "settled", "forgotten"}
  <2>1. s = [r EXCEPT !.rel = "clearDial"]
    BY <1>1 DEF AwaitDial
  <2>2. QED
    BY <1>1, <2>1 DEF Lease, Kept, DialAwaited, At
<1>2. CASE ~r.dialDropped /\ r.dialSet = "failed"
  <2> DEFINE d == [r EXCEPT !.dialDropped = TRUE]
  <2>1. d \in Lease
    BY DEF Lease
  <2>2. Kept(d, r) /\ d.acq = r.acq /\ d.stopReq = r.stopReq /\ d.ok = r.ok
        /\ d.dialDropped = TRUE /\ d.terminal = r.terminal
    BY DEF Lease, Kept
  <2>3. s = Unconfirmed(d)
    BY <1>2 DEF AwaitDial
  <2> HIDE DEF d
  <2>4. QED
    BY <1>2, <2>1, <2>2, <2>3, UnconfirmedFields DEF Kept, DialAwaited, GivenUp
<1>3. CASE ~r.dialDropped /\ r.dialSet \in {"sent", "compensating"}
  <2>1. s = [r EXCEPT !.rel = "awaitDial"]
    BY <1>3 DEF AwaitDial
  <2>2. QED
    BY <1>3, <2>1 DEF Lease, Kept, DialAwaited, At
<1>4. QED
  BY <1>1, <1>2, <1>3 DEF Lease

\* What follows the PTT-off of a release
LEMMA AfterStopFields ==
  ASSUME NEW r \in Lease, NEW s, s = AfterStop(r)
  PROVE  /\ Kept(s, r)
         /\ \/ r.start \in {"sent", "compensating"} /\ At(s, r, "awaitComp")
            \/ r.start \notin {"sent", "compensating"} /\ DialAwaited(s, r)
         /\ s.acq = r.acq /\ s.stopReq = r.stopReq /\ s.ok = r.ok
<1>1. CASE r.start \in {"sent", "compensating"}
  <2>1. s = [r EXCEPT !.rel = "awaitComp"]
    BY <1>1 DEF AfterStop
  <2>2. QED
    BY <1>1, <2>1 DEF Lease, Kept, At
<1>2. CASE r.start \notin {"sent", "compensating"}
  BY <1>2, AwaitDialFields DEF AfterStop
<1>3. QED
  BY <1>1, <1>2

\* s is r with a release begun.
Begun(s, r, ok) ==
  /\ s.stopReq /\ s.ok = ok
  /\ \/ /\ r.start = "none" /\ s.rel = "clearDial" /\ s.phase = "stopping"
        /\ s.dialDropped = r.dialDropped /\ s.terminal = r.terminal
        /\ r.dialDropped \/ r.dialSet \in {"none", "applied", "settled", "forgotten"}
     \/ /\ r.start = "none" /\ GivenUp(s, r) /\ s.dialDropped /\ r.dialSet = "failed"
     \/ /\ s.phase = "stopping" /\ s.dialDropped = r.dialDropped /\ s.terminal = r.terminal
        /\ \/ r.start = "none" /\ s.rel = "awaitDial" /\ r.dialSet \in {"sent", "compensating"}
           \/ r.start = "sent" /\ s.rel = "awaitStart"
           \/ r.start \notin {"none", "sent"} /\ s.rel = "stopPtt"

\* What the start of a release writes
LEMMA BeginReleaseFields ==
  ASSUME NEW r \in Lease, NEW ok \in BOOLEAN, NEW s, s = BeginRelease(r, ok)
  PROVE  Kept(s, r) /\ s.acq = r.acq /\ Begun(s, r, ok)
<1> DEFINE d == [r EXCEPT !.stopReq = TRUE, !.phase = "stopping", !.ok = ok]
<1>1. d \in Lease
  BY DEF Lease
<1>2. Kept(d, r) /\ d.acq = r.acq /\ d.stopReq = TRUE /\ d.ok = ok /\ d.phase = "stopping"
      /\ d.dialDropped = r.dialDropped /\ d.terminal = r.terminal
  BY DEF Lease, Kept
<1>3. s = CASE r.start = "none"     -> AwaitDial(d)
            [] r.start = "sent"     -> [d EXCEPT !.rel = "awaitStart"]
            [] r.start = "rejected" -> [d EXCEPT !.rel = "stopPtt"]
            [] OTHER                -> [Confirmed(d) EXCEPT !.rel = "stopPtt"]
  BY DEF BeginRelease
<1> HIDE DEF d
<1>4. CASE r.start = "none"
  <2>1. s = AwaitDial(d)
    BY <1>3, <1>4
  <2>2. Kept(s, d) /\ DialAwaited(s, d) /\ s.acq = d.acq /\ s.stopReq = TRUE /\ s.ok = ok
    BY <1>1, <1>2, <2>1, AwaitDialFields
  <2>3. Kept(s, r) /\ s.acq = r.acq
    BY <1>2, <2>2 DEF Kept
  <2>4. Begun(s, r, ok)
    BY <1>2, <1>4, <2>2 DEF DialAwaited, Begun, At, GivenUp, Kept
  <2>5. QED
    BY <2>3, <2>4
<1>5. CASE r.start = "sent"
  <2>1. s = [d EXCEPT !.rel = "awaitStart"]
    BY <1>3, <1>5
  <2>2. QED
    BY <1>1, <1>2, <1>5, <2>1 DEF Lease, Kept, Begun
<1>6. CASE r.start = "rejected"
  <2>1. s = [d EXCEPT !.rel = "stopPtt"]
    BY <1>3, <1>6
  <2>2. QED
    BY <1>1, <1>2, <1>6, <2>1 DEF Lease, Kept, Begun
<1>7. CASE r.start \notin {"none", "sent", "rejected"}
  <2>1. s = [Confirmed(d) EXCEPT !.rel = "stopPtt"]
    BY <1>3, <1>7
  <2>2. QED
    BY <1>1, <1>2, <1>7, <2>1 DEF Lease, Kept, Begun, Confirmed
<1>8. QED
  BY <1>4, <1>5, <1>6, <1>7

\* The release of s is where that of r is.
SameRelease(s, r) ==
  /\ s.rel = r.rel /\ s.phase = r.phase /\ s.stopReq = r.stopReq /\ s.ok = r.ok
  /\ s.dialDropped = r.dialDropped /\ s.terminal = r.terminal

\* ..., which happens once
LEMMA EnsureReleasedFields ==
  ASSUME NEW r \in Lease, NEW ok \in BOOLEAN, NEW s, s = EnsureReleased(r, ok)
  PROVE  /\ Kept(s, r) /\ s.acq = r.acq
         /\ \/ r.rel = "none" /\ Begun(s, r, ok)
            \/ r.rel # "none" /\ SameRelease(s, r)
<1>1. CASE r.rel = "none"
  BY <1>1, BeginReleaseFields DEF EnsureReleased
<1>2. CASE r.rel # "none"
  BY <1>2 DEF EnsureReleased, Kept, SameRelease
<1>3. QED
  BY <1>1, <1>2

\* What the settlement of the dial command writes
LEMMA DialSettledFields ==
  ASSUME NEW r \in Lease, NEW s, s = DialSettled(r)
  PROVE  /\ s \in Lease /\ Kept(s, r)
         /\ s.acq = r.acq /\ s.stopReq = r.stopReq /\ s.ok = r.ok
         /\ \/ r.rel = "awaitDial" /\ DialAwaited(s, r)
            \/ r.rel # "awaitDial" /\ SameRelease(s, r)
<1>1. CASE r.rel = "awaitDial"
  BY <1>1, AwaitDialType, AwaitDialFields DEF DialSettled
<1>2. CASE r.rel # "awaitDial"
  BY <1>2 DEF DialSettled, Kept, SameRelease
<1>3. QED
  BY <1>1, <1>2

\* What a clear leaves of the dial
LEMMA ClearSettlesFields ==
  ASSUME NEW ok \in BOOLEAN, offset \in BOOLEAN, ClearSettles(ok)
  PROVE  /\ dial' = dial \/ dial' = None
         /\ ok => offset' = FALSE /\ (dial' # None => Forgotten)
         /\ ~ok => offset' = offset
BY DEF ClearSettles, Cleared

\* What the next stage of an acquisition writes
LEMMA SetAcqFields ==
  ASSUME NEW r \in Lease, NEW x, NEW s, s = [r EXCEPT !.acq = x]
  PROVE  Kept(s, r) /\ s.acq = x /\ SameRelease(s, r)
BY DEF Lease, Kept, SameRelease

\* What an acquisition that throws writes
LEMMA ThrownFields ==
  ASSUME NEW l, NEW r \in Lease, NEW s, s = Thrown(l, r)
  PROVE  /\ Kept(s, r) /\ s.acq = "failed"
         /\ \/ current = l /\ r.phase # "unknown" /\ r.rel = "none" /\ Begun(s, r, FALSE)
            \/ SameRelease(s, r) /\ (current # l \/ r.phase = "unknown" \/ r.rel # "none")
<1>1. CASE current = l /\ r.phase # "unknown"
  <2> DEFINE t == EnsureReleased(r, FALSE)
  <2>1. t \in Lease
    BY EnsureReleasedType
  <2>2. /\ Kept(t, r)
        /\ \/ r.rel = "none" /\ Begun(t, r, FALSE)
           \/ r.rel # "none" /\ SameRelease(t, r)
    BY EnsureReleasedFields
  <2>3. s = [t EXCEPT !.acq = "failed"]
    BY <1>1 DEF Thrown
  <2> HIDE DEF t
  <2>4. Kept(s, t) /\ s.acq = "failed" /\ SameRelease(s, t)
    BY <2>1, <2>3, SetAcqFields
  <2>5. Kept(s, r)
    BY <2>2, <2>4 DEF Kept
  <2>6. CASE r.rel = "none"
    <3>1. Begun(s, r, FALSE)
      BY <2>2, <2>4, <2>6 DEF Begun, SameRelease, GivenUp
    <3>2. QED
      BY <1>1, <2>4, <2>5, <2>6, <3>1
  <2>7. CASE r.rel # "none"
    <3>1. SameRelease(s, r)
      BY <2>2, <2>4, <2>7 DEF SameRelease
    <3>2. QED
      BY <2>4, <2>5, <2>7, <3>1
  <2>8. QED
    BY <2>6, <2>7
<1>2. CASE ~(current = l /\ r.phase # "unknown")
  <2>1. s = [r EXCEPT !.acq = "failed"]
    BY <1>2 DEF Thrown
  <2>2. QED
    BY <1>2, <2>1, SetAcqFields
<1>3. QED
  BY <1>1, <1>2

\* What an acquisition that is granted writes
LEMMA GrantedFields ==
  ASSUME NEW r \in Lease, NEW s, s = Granted(r)
  PROVE  /\ Kept(s, r) /\ s.acq = "granted" /\ s.phase \in {r.phase, "active"}
         /\ s.rel = r.rel /\ s.stopReq = r.stopReq /\ s.ok = r.ok
         /\ s.dialDropped = r.dialDropped /\ s.terminal = r.terminal
BY DEF Granted, Lease, Kept

\* What the keying of an acquisition writes
LEMMA KeyUpFields ==
  ASSUME NEW r \in Lease, NEW s, s = KeyUp(r)
  PROVE  /\ s.req = r.req /\ s.dialSet = r.dialSet /\ s.cleanup = r.cleanup
         /\ s.lateStops = r.lateStops /\ s.lateClears = r.lateClears
         /\ s.rel = r.rel /\ s.stopReq = r.stopReq /\ s.ok = r.ok
         /\ s.dialDropped = r.dialDropped /\ s.terminal = r.terminal
         /\ s.phase \in {r.phase, "active"}
         /\ \/ r.req.assertPtt /\ s.acq = "keying" /\ s.start = "sent"
            \/ ~r.req.assertPtt /\ s.acq = "granted" /\ s.start = r.start
<1>1. CASE r.req.assertPtt
  <2> DEFINE x == [r EXCEPT !.acq = "keying"]
  <2>1. s = [x EXCEPT !.start = "sent"]
    BY <1>1 DEF KeyUp
  <2>2. x \in Lease
    BY SetAcqType
  <2>3. Kept(x, r) /\ x.acq = "keying" /\ SameRelease(x, r)
    BY SetAcqFields
  <2> HIDE DEF x
  <2>4. /\ s.req = x.req /\ s.dialSet = x.dialSet /\ s.cleanup = x.cleanup
        /\ s.lateStops = x.lateStops /\ s.lateClears = x.lateClears
        /\ s.acq = x.acq /\ s.start = "sent" /\ SameRelease(s, x)
    BY <2>1, <2>2 DEF Lease, SameRelease
  <2>5. QED
    BY <1>1, <2>3, <2>4 DEF Kept, SameRelease
<1>2. CASE ~r.req.assertPtt
  BY <1>2, GrantedFields DEF KeyUp, Kept
<1>3. QED
  BY <1>1, <1>2

\* What IInv says of one lease.
OfLease(l, r) ==
  /\ r = lease[l] /\ r \in Lease /\ StepOrder(r)
  /\ current # l => Quiet(r)
  /\ current = l => r.acq # "unused" /\ r.rel # "done"
  /\ LateCommand(r) => current \in {None, l}
  /\ (current = l /\ ~r.stopReq /\ r.req.assertPtt /\ r.acq \in {"checking", "granted"})
       => r.start = "accepted"
  /\ (current = l /\ ~r.stopReq /\ r.start = "accepted") => keyed
  /\ r.dialSet = "sent" =>
       /\ l = epoch /\ (current = l /\ ~r.stopReq => offset)
       /\ dial # None => Forgotten
  /\ dial # None /\ ~offset => Forgotten
  /\ current \in {None, epoch}
  /\ l # None /\ keyed \in BOOLEAN /\ offset \in BOOLEAN

\* What IInv says of one lease
LEMMA IInvOfLease ==
  ASSUME IInv, NEW l \in Leases
  PROVE  OfLease(l, lease[l])
<1>1. lease[l] \in Lease /\ keyed \in BOOLEAN /\ offset \in BOOLEAN
  BY DEF IInv, TypeOK
<1>2. l # None
  BY BoundsAssumption DEF Leases, None
<1>3. QED
  BY <1>1, <1>2 DEF IInv, OfLease, CanContinue

\* The steps of a release are steps of one lease.
LEMMA ReleasingStep ==
  ASSUME IInv, NEW l \in Leases, Releasing(l) PROVE \E s : LocalStep(l, s)
<1> DEFINE r == lease[l]
<1>1. OfLease(l, r)
  BY IInvOfLease
<1>2. CASE AwaitStartTimesOut(l)
  <2> DEFINE s == [r EXCEPT !.rel = "stopPtt"]
  <2>1. /\ Kept(s, r) /\ At(s, r, "stopPtt")
        /\ s.acq = r.acq /\ s.stopReq = r.stopReq /\ s.ok = r.ok
    BY <1>1 DEF OfLease, Lease, Kept, At
  <2>2. /\ r.rel = "awaitStart" /\ Put(l, s)
        /\ UNCHANGED <<epoch, current, maint, retries, keyed, dial, offset>>
    BY <1>2 DEF AwaitStartTimesOut
  <2> HIDE DEF s, r
  <2>3. StepOrder(s)
    BY <1>1, <2>1, <2>2 DEF OfLease, StepOrder, Kept, At
  <2>4. LocalStep(l, s)
    BY <1>1, <2>1, <2>2, <2>3
       DEF OfLease, LocalStep, StepOrder, Quiet, LateCommand, MayBeKeyed,
           MayStayTuned, DialStep, Kept, At
  <2>5. QED
    BY <2>4
<1>3. CASE StopDone(l)
  <2> DEFINE s == AfterStop(r)
  <2>1. /\ Kept(s, r)
        /\ \/ r.start \in {"sent", "compensating"} /\ At(s, r, "awaitComp")
           \/ r.start \notin {"sent", "compensating"} /\ DialAwaited(s, r)
        /\ s.acq = r.acq /\ s.stopReq = r.stopReq /\ s.ok = r.ok
    BY <1>1, AfterStopFields DEF OfLease
  <2>2. /\ r.rel = "stopPtt" /\ Put(l, s) /\ keyed' = FALSE
        /\ UNCHANGED <<epoch, current, maint, retries, dial, offset>>
    BY <1>3 DEF StopDone
  <2> HIDE DEF s, r
  <2>3. StepOrder(s)
    BY <1>1, <2>1, <2>2 DEF OfLease, StepOrder, Kept, At, DialAwaited, GivenUp
  <2>4. LocalStep(l, s)
    BY <1>1, <2>1, <2>2, <2>3
       DEF OfLease, LocalStep, StepOrder, Quiet, LateCommand, MayBeKeyed,
           MayStayTuned, DialStep, Kept, At, DialAwaited, GivenUp
  <2>5. QED
    BY <2>4
<1>4. CASE StopFails(l) \/ AwaitCompTimesOut(l) \/ ClearFails(l)
  <2> DEFINE s == Unconfirmed(r)
  <2>1. /\ Kept(s, r) /\ GivenUp(s, r) /\ s.dialDropped = r.dialDropped
        /\ s.acq = r.acq /\ s.stopReq = r.stopReq /\ s.ok = r.ok
    BY <1>1, UnconfirmedFields DEF OfLease
  <2>2. /\ r.rel \in {"stopPtt", "awaitComp", "clearing"} /\ Put(l, s)
        /\ keyed' = keyed \/ keyed' = FALSE
        /\ UNCHANGED <<epoch, current, maint, retries>>
    BY <1>4 DEF StopFails, AwaitCompTimesOut, ClearFails
  <2>d. (dial' = dial \/ dial' = None) /\ offset' = offset
    BY <1>1, <1>4, ClearSettlesFields
       DEF OfLease, StopFails, AwaitCompTimesOut, ClearFails
  <2> HIDE DEF s, r
  <2>3. StepOrder(s)
    BY <1>1, <2>1, <2>2 DEF OfLease, StepOrder, Kept, GivenUp
  <2>4. LocalStep(l, s)
    BY <1>1, <2>1, <2>2, <2>d, <2>3
       DEF OfLease, LocalStep, StepOrder, Quiet, LateCommand, MayBeKeyed,
           MayStayTuned, DialStep, Kept, GivenUp
  <2>5. QED
    BY <2>4
<1>5. CASE StopTimesOut(l)
  <2> DEFINE d == [r EXCEPT !.lateStops = @ + 1]
             s == Unconfirmed(d)
  <2>1. d \in Lease
    BY <1>1 DEF OfLease, Lease
  <2>2. /\ d.acq = r.acq /\ d.req = r.req /\ d.start = r.start /\ d.dialSet = r.dialSet
        /\ d.cleanup = r.cleanup /\ d.lateClears = r.lateClears /\ SameRelease(d, r)
    BY <1>1 DEF OfLease, Lease, SameRelease
  <2>3. /\ Kept(s, d) /\ GivenUp(s, d) /\ s.dialDropped = d.dialDropped
        /\ s.acq = d.acq /\ s.stopReq = d.stopReq /\ s.ok = d.ok
    BY <2>1, UnconfirmedFields
  <2>4. /\ r.rel = "stopPtt" /\ Put(l, s)
        /\ UNCHANGED <<epoch, current, maint, retries, keyed, dial, offset>>
    BY <1>5 DEF StopTimesOut
  <2> HIDE DEF s, d, r
  <2>5. StepOrder(s)
    BY <1>1, <2>2, <2>3, <2>4 DEF OfLease, StepOrder, Kept, GivenUp, SameRelease
  <2>6. LocalStep(l, s)
    BY <1>1, <2>2, <2>3, <2>4, <2>5
       DEF OfLease, LocalStep, StepOrder, Quiet, LateCommand, MayBeKeyed,
           MayStayTuned, DialStep, Kept, GivenUp, SameRelease
  <2>7. QED
    BY <2>6
<1>6. CASE ClearTimesOut(l)
  <2> DEFINE d == [r EXCEPT !.lateClears = @ + 1]
             s == Unconfirmed(d)
  <2>1. d \in Lease
    BY <1>1 DEF OfLease, Lease
  <2>2. /\ d.acq = r.acq /\ d.req = r.req /\ d.start = r.start /\ d.dialSet = r.dialSet
        /\ d.cleanup = r.cleanup /\ d.lateStops = r.lateStops /\ SameRelease(d, r)
    BY <1>1 DEF OfLease, Lease, SameRelease
  <2>3. /\ Kept(s, d) /\ GivenUp(s, d) /\ s.dialDropped = d.dialDropped
        /\ s.acq = d.acq /\ s.stopReq = d.stopReq /\ s.ok = d.ok
    BY <2>1, UnconfirmedFields
  <2>4. /\ r.rel = "clearing" /\ Put(l, s)
        /\ UNCHANGED <<epoch, current, maint, retries, keyed, dial, offset>>
    BY <1>6 DEF ClearTimesOut
  <2> HIDE DEF s, d, r
  <2>5. StepOrder(s)
    BY <1>1, <2>2, <2>3, <2>4 DEF OfLease, StepOrder, Kept, GivenUp, SameRelease
  <2>6. LocalStep(l, s)
    BY <1>1, <2>2, <2>3, <2>4, <2>5
       DEF OfLease, LocalStep, StepOrder, Quiet, LateCommand, MayBeKeyed,
           MayStayTuned, DialStep, Kept, GivenUp, SameRelease
  <2>7. QED
    BY <2>6
<1>7. CASE AwaitDialTimesOut(l)
  <2> DEFINE d == [r EXCEPT !.dialDropped = TRUE]
             s == Unconfirmed(d)
  <2>1. d \in Lease
    BY <1>1 DEF OfLease, Lease
  <2>2. /\ d.acq = r.acq /\ d.req = r.req /\ d.start = r.start /\ d.dialSet = r.dialSet
        /\ d.cleanup = r.cleanup /\ d.lateStops = r.lateStops /\ d.lateClears = r.lateClears
        /\ d.stopReq = r.stopReq /\ d.ok = r.ok /\ d.dialDropped = TRUE /\ d.terminal = r.terminal
    BY <1>1 DEF OfLease, Lease, SameRelease
  <2>3. /\ Kept(s, d) /\ GivenUp(s, d) /\ s.dialDropped = d.dialDropped
        /\ s.acq = d.acq /\ s.stopReq = d.stopReq /\ s.ok = d.ok
    BY <2>1, UnconfirmedFields
  <2>4. /\ r.rel = "awaitDial" /\ Put(l, s)
        /\ UNCHANGED <<epoch, current, maint, retries, keyed, dial, offset>>
    BY <1>7 DEF AwaitDialTimesOut
  <2> HIDE DEF s, d, r
  <2>5. StepOrder(s)
    BY <1>1, <2>2, <2>3, <2>4 DEF OfLease, StepOrder, Kept, GivenUp, SameRelease
  <2>6. LocalStep(l, s)
    BY <1>1, <2>2, <2>3, <2>4, <2>5
       DEF OfLease, LocalStep, StepOrder, Quiet, LateCommand, MayBeKeyed,
           MayStayTuned, DialStep, Kept, GivenUp, SameRelease
  <2>7. QED
    BY <2>6
<1>8. CASE ClearDone(l) \/ (ClearCalled(l) /\ ~offset)
  <2> DEFINE s == Closed(r)
  <2>1. /\ Kept(s, r) /\ s.rel = "done" /\ s.phase = r.phase /\ s.dialDropped = r.dialDropped
        /\ s.acq = r.acq /\ s.stopReq = r.stopReq /\ s.ok = r.ok
        /\ s.terminal = IF r.terminal # "none" THEN r.terminal
                        ELSE IF r.ok THEN "success" ELSE "failure"
    BY <1>1, ClosedFields DEF OfLease
  <2>2. /\ r.rel \in {"clearDial", "clearing"} /\ Put(l, s)
        /\ current' = IF current = l THEN None ELSE current
        /\ UNCHANGED <<epoch, maint, retries, keyed>>
    BY <1>8 DEF ClearDone, ClearCalled, EndRelease
  <2>d. (dial' = dial \/ dial' = None) /\ offset' = FALSE /\ (dial' # None => Forgotten)
    BY <1>1, <1>8, ClearSettlesFields DEF OfLease, ClearDone, ClearCalled
  <2> HIDE DEF s, r
  <2>3. StepOrder(s)
    BY <1>1, <2>1, <2>2 DEF OfLease, StepOrder, Kept
  <2>4. LocalStep(l, s)
    BY <1>1, <2>1, <2>2, <2>d, <2>3
       DEF OfLease, LocalStep, StepOrder, Quiet, LateCommand, MayBeKeyed,
           MayStayTuned, DialStep, Kept
  <2>5. QED
    BY <2>4
<1>9. CASE ClearCalled(l) /\ offset
  <2> DEFINE s == [r EXCEPT !.rel = "clearing"]
  <2>1. /\ Kept(s, r) /\ At(s, r, "clearing")
        /\ s.acq = r.acq /\ s.stopReq = r.stopReq /\ s.ok = r.ok
    BY <1>1 DEF OfLease, Lease, Kept, At
  <2>2. /\ r.rel = "clearDial" /\ Put(l, s)
        /\ UNCHANGED <<epoch, current, maint, retries, keyed, dial, offset>>
    BY <1>9 DEF ClearCalled
  <2> HIDE DEF s, r
  <2>3. StepOrder(s)
    BY <1>1, <2>1, <2>2 DEF OfLease, StepOrder, Kept, At
  <2>4. LocalStep(l, s)
    BY <1>1, <2>1, <2>2, <2>3
       DEF OfLease, LocalStep, StepOrder, Quiet, LateCommand, MayBeKeyed,
           MayStayTuned, DialStep, Kept, At
  <2>5. QED
    BY <2>4
<1>10. QED
  BY <1>2, <1>3, <1>4, <1>5, <1>6, <1>7, <1>8, <1>9 DEF Releasing

\* So are those that its owner asks for,
LEMMA OwnerStep ==
  ASSUME IInv, NEW l \in Leases, Owner(l) PROVE \E s : LocalStep(l, s)
<1> DEFINE r == lease[l]
<1>1. OfLease(l, r)
  BY IInvOfLease
<1>2. ASSUME NEW ok \in BOOLEAN, ReleaseLease(l, ok) PROVE \E s : LocalStep(l, s)
  <2> DEFINE s == EnsureReleased(r, ok)
  <2>1. /\ Kept(s, r) /\ s.acq = r.acq
        /\ \/ r.rel = "none" /\ Begun(s, r, ok)
           \/ r.rel # "none" /\ SameRelease(s, r)
    BY <1>1, EnsureReleasedFields DEF OfLease
  <2>2. /\ current = l /\ (r.acq = "granted" \/ ok = FALSE) /\ Put(l, s)
        /\ UNCHANGED <<epoch, current, maint, retries, keyed, dial, offset>>
    BY <1>2 DEF ReleaseLease
  <2> HIDE DEF s, r
  <2>3. StepOrder(s)
    BY <1>1, <2>1, <2>2 DEF OfLease, StepOrder, Kept, Begun, GivenUp, SameRelease
  <2>4. LocalStep(l, s)
    BY <1>1, <2>1, <2>2, <2>3
       DEF OfLease, LocalStep, StepOrder, Quiet, LateCommand, MayBeKeyed,
           MayStayTuned, DialStep, Kept, Begun, GivenUp, SameRelease
  <2>5. QED
    BY <2>4
<1>3. ASSUME NEW phase \in {"active", "draining"}, PlaybackPhase(l, phase)
      PROVE  \E s : LocalStep(l, s)
  <2> DEFINE s == [r EXCEPT !.phase = phase]
  <2>1. /\ Kept(s, r) /\ s.acq = r.acq /\ s.stopReq = r.stopReq /\ s.ok = r.ok
        /\ s.rel = r.rel /\ s.dialDropped = r.dialDropped /\ s.terminal = r.terminal
        /\ s.phase = phase
    BY <1>1 DEF OfLease, Lease, Kept
  <2>2. /\ CanContinue(l) /\ r.acq = "granted" /\ phase # "unknown" /\ Put(l, s)
        /\ UNCHANGED <<epoch, current, maint, retries, keyed, dial, offset>>
    BY <1>3 DEF PlaybackPhase
  <2> HIDE DEF s, r
  <2>3. StepOrder(s)
    BY <1>1, <2>1, <2>2 DEF OfLease, StepOrder, Kept, CanContinue
  <2>4. LocalStep(l, s)
    BY <1>1, <2>1, <2>2, <2>3
       DEF OfLease, LocalStep, StepOrder, Quiet, LateCommand, MayBeKeyed,
           MayStayTuned, DialStep, Kept, CanContinue
  <2>5. QED
    BY <2>4
<1>4. CASE MarkActive(l)
  <2> DEFINE s == [Confirmed(r) EXCEPT !.phase = "active"]
  <2>1. /\ Kept(s, r) /\ s.acq = r.acq /\ s.stopReq = r.stopReq /\ s.ok = r.ok
        /\ s.rel = r.rel /\ s.dialDropped = r.dialDropped /\ s.terminal = r.terminal
        /\ s.phase = "active"
    BY <1>1 DEF OfLease, Lease, Kept, Confirmed
  <2>2. /\ CanContinue(l) /\ r.acq = "granted" /\ Put(l, s)
        /\ UNCHANGED <<epoch, current, maint, retries, keyed, dial, offset>>
    BY <1>4 DEF MarkActive
  <2> HIDE DEF s, r
  <2>3. StepOrder(s)
    BY <1>1, <2>1, <2>2 DEF OfLease, StepOrder, Kept, CanContinue
  <2>4. LocalStep(l, s)
    BY <1>1, <2>1, <2>2, <2>3
       DEF OfLease, LocalStep, StepOrder, Quiet, LateCommand, MayBeKeyed,
           MayStayTuned, DialStep, Kept, CanContinue
  <2>5. QED
    BY <2>4
<1>5. CASE ForceInterrupt(l)
  <2> DEFINE d == [r EXCEPT !.stopReq = TRUE, !.phase = "stopping"]
             s == IF d.req.cleans THEN [d EXCEPT !.cleanup = "running"]
                  ELSE EnsureReleased(d, FALSE)
  <2>1. d \in Lease
    BY <1>1 DEF OfLease, Lease
  <2>2. /\ Kept(d, r) /\ d.acq = r.acq /\ d.stopReq = TRUE /\ d.phase = "stopping"
        /\ d.ok = r.ok /\ d.rel = r.rel /\ d.dialDropped = r.dialDropped
        /\ d.terminal = r.terminal
    BY <1>1 DEF OfLease, Lease, Kept
  <2>3. /\ current = l /\ r.rel = "none" /\ Put(l, s)
        /\ UNCHANGED <<epoch, current, maint, retries, keyed, dial, offset>>
    BY <1>5 DEF ForceInterrupt
  <2>4. CASE d.req.cleans
    <3>1. s = [d EXCEPT !.cleanup = "running"]
      BY <2>4
    <3> HIDE DEF s, d
    <3>2. /\ s.req = d.req /\ s.start = d.start /\ s.dialSet = d.dialSet
          /\ s.lateStops = d.lateStops /\ s.lateClears = d.lateClears /\ s.acq = d.acq
          /\ SameRelease(s, d)
      BY <2>1, <3>1 DEF Lease, SameRelease
    <3> HIDE DEF r
    <3>3. StepOrder(s)
      BY <1>1, <2>2, <2>3, <3>2 DEF OfLease, StepOrder, Kept, SameRelease
    <3>4. LocalStep(l, s)
      BY <1>1, <2>2, <2>3, <3>2, <3>3
         DEF OfLease, LocalStep, StepOrder, Quiet, LateCommand, MayBeKeyed,
             MayStayTuned, DialStep, Kept, SameRelease
    <3>5. QED
      BY <3>4
  <2>5. CASE ~d.req.cleans
    <3>1. /\ Kept(s, d) /\ s.acq = d.acq
          /\ \/ d.rel = "none" /\ Begun(s, d, FALSE)
             \/ d.rel # "none" /\ SameRelease(s, d)
      BY <2>1, <2>5, EnsureReleasedFields
    <3> HIDE DEF s, d, r
    <3>2. StepOrder(s)
      BY <1>1, <2>2, <2>3, <3>1 DEF OfLease, StepOrder, Kept, Begun, GivenUp, SameRelease
    <3>3. LocalStep(l, s)
      BY <1>1, <2>2, <2>3, <3>1, <3>2
         DEF OfLease, LocalStep, StepOrder, Quiet, LateCommand, MayBeKeyed,
             MayStayTuned, DialStep, Kept, Begun, GivenUp, SameRelease
    <3>4. QED
      BY <3>3
  <2>6. QED
    BY <2>4, <2>5
<1>6. CASE RetryUnknownStop(l)
  <2> DEFINE s == BeginRelease(r, FALSE)
  <2>1. Kept(s, r) /\ s.acq = r.acq /\ Begun(s, r, FALSE)
    BY <1>1, BeginReleaseFields DEF OfLease
  <2>2. /\ current = l /\ r.phase = "unknown" /\ Put(l, s)
        /\ UNCHANGED <<epoch, current, maint, keyed, dial, offset>>
    BY <1>6 DEF RetryUnknownStop
  <2> HIDE DEF s, r
  <2>3. StepOrder(s)
    BY <1>1, <2>1, <2>2 DEF OfLease, StepOrder, Kept, Begun, GivenUp
  <2>4. LocalStep(l, s)
    BY <1>1, <2>1, <2>2, <2>3
       DEF OfLease, LocalStep, StepOrder, Quiet, LateCommand, MayBeKeyed,
           MayStayTuned, DialStep, Kept, Begun, GivenUp
  <2>5. QED
    BY <2>4
<1>7. CASE CleanupDone(l)
  <2> DEFINE d == [r EXCEPT !.cleanup = "none"]
             s == EnsureReleased(d, FALSE)
  <2>1. d \in Lease
    BY <1>1, SetCleanupType DEF OfLease
  <2>2. /\ d.req = r.req /\ d.start = r.start /\ d.dialSet = r.dialSet
        /\ d.lateStops = r.lateStops /\ d.lateClears = r.lateClears /\ d.acq = r.acq
        /\ SameRelease(d, r)
    BY <1>1 DEF OfLease, Lease, SameRelease
  <2>3. /\ Kept(s, d) /\ s.acq = d.acq
        /\ \/ d.rel = "none" /\ Begun(s, d, FALSE)
           \/ d.rel # "none" /\ SameRelease(s, d)
    BY <2>1, EnsureReleasedFields
  <2>4. /\ r.cleanup = "running" /\ Put(l, s)
        /\ UNCHANGED <<epoch, current, maint, retries, keyed, dial, offset>>
    BY <1>7 DEF CleanupDone
  <2> HIDE DEF s, d, r
  <2>5. StepOrder(s)
    BY <1>1, <2>2, <2>3, <2>4 DEF OfLease, StepOrder, Kept, Begun, GivenUp, SameRelease
  <2>6. LocalStep(l, s)
    BY <1>1, <2>2, <2>3, <2>4, <2>5
       DEF OfLease, LocalStep, StepOrder, Quiet, LateCommand, MayBeKeyed,
           MayStayTuned, DialStep, Kept, Begun, GivenUp, SameRelease
  <2>7. QED
    BY <2>6
<1>8. CASE CleanupTimesOut(l)
  <2> DEFINE d == [r EXCEPT !.cleanup = "late"]
             s == EnsureReleased(d, FALSE)
  <2>1. d \in Lease
    BY <1>1, SetCleanupType DEF OfLease
  <2>2. /\ d.req = r.req /\ d.start = r.start /\ d.dialSet = r.dialSet
        /\ d.lateStops = r.lateStops /\ d.lateClears = r.lateClears /\ d.acq = r.acq
        /\ SameRelease(d, r)
    BY <1>1 DEF OfLease, Lease, SameRelease
  <2>3. /\ Kept(s, d) /\ s.acq = d.acq
        /\ \/ d.rel = "none" /\ Begun(s, d, FALSE)
           \/ d.rel # "none" /\ SameRelease(s, d)
    BY <2>1, EnsureReleasedFields
  <2>4. /\ r.cleanup = "running" /\ Put(l, s)
        /\ UNCHANGED <<epoch, current, maint, retries, keyed, dial, offset>>
    BY <1>8 DEF CleanupTimesOut
  <2> HIDE DEF s, d, r
  <2>5. StepOrder(s)
    BY <1>1, <2>2, <2>3, <2>4 DEF OfLease, StepOrder, Kept, Begun, GivenUp, SameRelease
  <2>6. LocalStep(l, s)
    BY <1>1, <2>2, <2>3, <2>4, <2>5
       DEF OfLease, LocalStep, StepOrder, Quiet, LateCommand, MayBeKeyed,
           MayStayTuned, DialStep, Kept, Begun, GivenUp, SameRelease
  <2>7. QED
    BY <2>6
<1>9. QED
  BY <1>2, <1>3, <1>4, <1>5, <1>6, <1>7, <1>8 DEF Owner

\* the late answers to its commands,
LEMMA LateSettlementStep ==
  ASSUME IInv, NEW l \in Leases, LateSettlement(l) PROVE \E s : LocalStep(l, s)
<1> DEFINE r == lease[l]
<1>1. OfLease(l, r)
  BY IInvOfLease
<1>2. CASE LatePreparationSettles(l)
  <2> DEFINE s == [r EXCEPT !.prep = "none"]
  <2>1. /\ s.req = r.req /\ s.start = r.start /\ s.dialSet = r.dialSet /\ s.acq = r.acq
        /\ s.cleanup = r.cleanup /\ s.lateStops = r.lateStops /\ s.lateClears = r.lateClears
        /\ SameRelease(s, r) /\ s.prep = "none"
    BY <1>1 DEF OfLease, Lease, SameRelease
  <2>2. /\ r.prep = "late" /\ Put(l, s)
        /\ UNCHANGED <<epoch, current, maint, retries, keyed, dial, offset>>
    BY <1>2 DEF LatePreparationSettles
  <2> HIDE DEF s, r
  <2>3. StepOrder(s)
    BY <1>1, <2>1, <2>2 DEF OfLease, StepOrder, SameRelease
  <2>4. LocalStep(l, s)
    BY <1>1, <2>1, <2>2, <2>3
       DEF OfLease, LocalStep, StepOrder, Quiet, LateCommand, MayBeKeyed,
           MayStayTuned, DialStep, SameRelease
  <2>5. QED
    BY <2>4
<1>3. CASE LateCleanupSettles(l)
  <2> DEFINE s == [r EXCEPT !.cleanup = "none"]
  <2>1. /\ s.req = r.req /\ s.start = r.start /\ s.dialSet = r.dialSet /\ s.acq = r.acq
        /\ s.prep = r.prep /\ s.lateStops = r.lateStops /\ s.lateClears = r.lateClears
        /\ SameRelease(s, r) /\ s.cleanup = "none"
    BY <1>1 DEF OfLease, Lease, SameRelease
  <2>2. /\ r.cleanup = "late" /\ Put(l, s)
        /\ UNCHANGED <<epoch, current, maint, retries, keyed, dial, offset>>
    BY <1>3 DEF LateCleanupSettles
  <2> HIDE DEF s, r
  <2>3. StepOrder(s)
    BY <1>1, <2>1, <2>2 DEF OfLease, StepOrder, SameRelease
  <2>4. LocalStep(l, s)
    BY <1>1, <2>1, <2>2, <2>3
       DEF OfLease, LocalStep, StepOrder, Quiet, LateCommand, MayBeKeyed,
           MayStayTuned, DialStep, SameRelease
  <2>5. QED
    BY <2>4
<1>4. CASE LateStopSettles(l)
  <2> DEFINE s == [r EXCEPT !.lateStops = @ - 1]
  <2>1. /\ s.req = r.req /\ s.start = r.start /\ s.dialSet = r.dialSet /\ s.acq = r.acq
        /\ s.cleanup = r.cleanup /\ s.prep = r.prep /\ s.lateClears = r.lateClears
        /\ SameRelease(s, r)
    BY <1>1 DEF OfLease, Lease, SameRelease
  <2>2. /\ r.lateStops > 0 /\ Put(l, s) /\ (keyed' = keyed \/ keyed' = FALSE)
        /\ UNCHANGED <<epoch, current, maint, retries, dial, offset>>
    BY <1>4 DEF LateStopSettles
  <2> HIDE DEF s, r
  <2>3. StepOrder(s)
    BY <1>1, <2>1, <2>2 DEF OfLease, StepOrder, SameRelease
  <2>4. LocalStep(l, s)
    BY <1>1, <2>1, <2>2, <2>3
       DEF OfLease, LocalStep, StepOrder, Quiet, LateCommand, MayBeKeyed,
           MayStayTuned, DialStep, SameRelease
  <2>5. QED
    BY <2>4
<1>5. ASSUME NEW ok \in BOOLEAN, LateClearSettles(l, ok) PROVE \E s : LocalStep(l, s)
  <2> DEFINE s == [r EXCEPT !.lateClears = @ - 1]
  <2>1. /\ s.req = r.req /\ s.start = r.start /\ s.dialSet = r.dialSet /\ s.acq = r.acq
        /\ s.cleanup = r.cleanup /\ s.prep = r.prep /\ s.lateStops = r.lateStops
        /\ SameRelease(s, r)
    BY <1>1 DEF OfLease, Lease, SameRelease
  <2>2. /\ r.lateClears > 0 /\ Put(l, s)
        /\ UNCHANGED <<epoch, current, maint, retries, keyed>>
    BY <1>5 DEF LateClearSettles
  <2>d. /\ dial' = dial \/ dial' = None
        /\ ok => offset' = FALSE /\ (dial' # None => Forgotten)
        /\ ~ok => offset' = offset
    BY <1>1, <1>5, ClearSettlesFields DEF OfLease, LateClearSettles
  <2> HIDE DEF s, r
  <2>3. StepOrder(s)
    BY <1>1, <2>1, <2>2 DEF OfLease, StepOrder, SameRelease
  <2>4. LocalStep(l, s)
    BY <1>1, <2>1, <2>2, <2>d, <2>3
       DEF OfLease, LocalStep, StepOrder, Quiet, LateCommand, MayBeKeyed,
           MayStayTuned, DialStep, SameRelease
  <2>5. QED
    BY <2>4
<1>6. QED
  BY <1>2, <1>3, <1>4, <1>5 DEF LateSettlement

\* and those of its acquisition.
LEMMA AcquiringStep ==
  ASSUME IInv, NEW l \in Leases, Acquiring(l) PROVE \E s : LocalStep(l, s)
<1> DEFINE r == lease[l]
<1>1. OfLease(l, r)
  BY IInvOfLease
<1>2. CASE PreparationDone(l)
  <2> DEFINE d == [r EXCEPT !.prep = "none"]
  <2>1. d \in Lease
    BY <1>1, SetPrepType DEF OfLease
  <2>2. /\ d.req = r.req /\ d.start = r.start /\ d.dialSet = r.dialSet /\ d.cleanup = r.cleanup
        /\ d.lateStops = r.lateStops /\ d.lateClears = r.lateClears /\ d.acq = r.acq
        /\ SameRelease(d, r)
    BY <1>1 DEF OfLease, Lease, SameRelease
  <2>3. /\ r.acq = "preparing" /\ UNCHANGED <<epoch, current, maint, retries, keyed, dial>>
        /\ offset' = (offset \/ (CanContinue(l) /\ d.req.shift))
    BY <1>2, <2>2 DEF PreparationDone
  <2>4. CASE ~CanContinue(l)
    <3> DEFINE s == Thrown(l, d)
    <3>1. /\ Kept(s, d) /\ s.acq = "failed"
          /\ \/ /\ current = l /\ d.phase # "unknown" /\ d.rel = "none"
                /\ Begun(s, d, FALSE)
             \/ /\ SameRelease(s, d)
                /\ current # l \/ d.phase = "unknown" \/ d.rel # "none"
      BY <2>1, ThrownFields
    <3>2. Put(l, s)
      BY <1>2, <2>4 DEF PreparationDone
    <3> HIDE DEF s, d, r
    <3>3. StepOrder(s)
      BY <1>1, <2>2, <2>3, <3>1, <3>2 DEF OfLease, StepOrder, Kept, Begun, GivenUp, SameRelease
    <3>o. offset' = offset
      BY <1>1, <2>3, <2>4 DEF OfLease
    <3>4. LocalStep(l, s)
      BY <1>1, <2>2, <2>3, <3>1, <3>2, <3>3, <3>o
         DEF OfLease, LocalStep, StepOrder, Quiet, LateCommand, MayBeKeyed,
             MayStayTuned, DialStep, Kept, Begun, GivenUp, SameRelease
    <3>5. QED
      BY <3>4
  <2>5. CASE CanContinue(l) /\ d.req.shift
    <3> DEFINE s == OffsetSet(d)
    <3>1. Put(l, s)
      BY <1>2, <2>5 DEF PreparationDone
    <3> HIDE DEF d
    <3>2. /\ s.req = d.req /\ s.start = d.start
          /\ \/ offset /\ s.dialSet = "applied" /\ s.acq = "rechecking"
             \/ ~offset /\ s.dialSet = "sent" /\ s.acq = "dialing"
          /\ s.cleanup = d.cleanup /\ s.lateStops = d.lateStops
          /\ s.lateClears = d.lateClears /\ SameRelease(s, d)
      BY <1>1, <2>1 DEF OfLease, OffsetSet, Lease, SameRelease
    <3> HIDE DEF s, r
    <3>3. StepOrder(s)
      BY <1>1, <2>2, <2>3, <2>5, <3>1, <3>2 DEF OfLease, StepOrder, SameRelease, CanContinue
    <3>4. l = epoch /\ offset' = TRUE
      BY <1>1, <2>3, <2>5 DEF OfLease, CanContinue
    <3>5. LocalStep(l, s)
      BY <1>1, <2>2, <2>3, <2>5, <3>1, <3>2, <3>3, <3>4
         DEF OfLease, LocalStep, StepOrder, Quiet, LateCommand, MayBeKeyed,
             MayStayTuned, DialStep, SameRelease, CanContinue
    <3>6. QED
      BY <3>5
  <2>6. CASE CanContinue(l) /\ ~d.req.shift
    <3> DEFINE s == KeyUp(d)
    <3>1. Put(l, s)
      BY <1>2, <2>6 DEF PreparationDone
    <3>2. /\ s.req = d.req /\ s.dialSet = d.dialSet /\ s.cleanup = d.cleanup
          /\ s.lateStops = d.lateStops /\ s.lateClears = d.lateClears
          /\ s.rel = d.rel /\ s.stopReq = d.stopReq /\ s.ok = d.ok
          /\ s.dialDropped = d.dialDropped /\ s.terminal = d.terminal
          /\ s.phase \in {d.phase, "active"}
          /\ \/ d.req.assertPtt /\ s.acq = "keying" /\ s.start = "sent"
             \/ ~d.req.assertPtt /\ s.acq = "granted" /\ s.start = d.start
      BY <2>1, KeyUpFields
    <3> HIDE DEF s, d, r
    <3>3. StepOrder(s)
      BY <1>1, <2>2, <2>3, <2>6, <3>1, <3>2 DEF OfLease, StepOrder, SameRelease, CanContinue
    <3>4. LocalStep(l, s)
      BY <1>1, <2>2, <2>3, <2>6, <3>1, <3>2, <3>3
         DEF OfLease, LocalStep, StepOrder, Quiet, LateCommand, MayBeKeyed,
             MayStayTuned, DialStep, SameRelease, CanContinue
    <3>5. QED
      BY <3>4
  <2>7. QED
    BY <2>4, <2>5, <2>6
<1>3. CASE PreparationFails(l)
  <2> DEFINE d == [r EXCEPT !.prep = "none"]
             s == Thrown(l, d)
  <2>1. d \in Lease
    BY <1>1, SetPrepType DEF OfLease
  <2>2. /\ d.req = r.req /\ d.start = r.start /\ d.dialSet = r.dialSet /\ d.cleanup = r.cleanup
        /\ d.lateStops = r.lateStops /\ d.lateClears = r.lateClears /\ d.acq = r.acq
        /\ SameRelease(d, r)
    BY <1>1 DEF OfLease, Lease, SameRelease
  <2>3. /\ Kept(s, d) /\ s.acq = "failed"
        /\ \/ /\ current = l /\ d.phase # "unknown" /\ d.rel = "none"
              /\ Begun(s, d, FALSE)
           \/ /\ SameRelease(s, d)
              /\ current # l \/ d.phase = "unknown" \/ d.rel # "none"
    BY <2>1, ThrownFields
  <2>4. /\ r.acq = "preparing" /\ Put(l, s)
        /\ UNCHANGED <<epoch, current, maint, retries, keyed, dial, offset>>
    BY <1>3 DEF PreparationFails
  <2> HIDE DEF s, d, r
  <2>5. StepOrder(s)
    BY <1>1, <2>2, <2>3, <2>4 DEF OfLease, StepOrder, Kept, Begun, GivenUp, SameRelease
  <2>6. LocalStep(l, s)
    BY <1>1, <2>2, <2>3, <2>4, <2>5
       DEF OfLease, LocalStep, StepOrder, Quiet, LateCommand, MayBeKeyed,
           MayStayTuned, DialStep, Kept, Begun, GivenUp, SameRelease
  <2>7. QED
    BY <2>6
<1>4. CASE PreparationTimesOut(l)
  <2> DEFINE d == [r EXCEPT !.prep = "late"]
             s == Thrown(l, d)
  <2>1. d \in Lease
    BY <1>1, SetPrepType DEF OfLease
  <2>2. /\ d.req = r.req /\ d.start = r.start /\ d.dialSet = r.dialSet /\ d.cleanup = r.cleanup
        /\ d.lateStops = r.lateStops /\ d.lateClears = r.lateClears /\ d.acq = r.acq
        /\ SameRelease(d, r)
    BY <1>1 DEF OfLease, Lease, SameRelease
  <2>3. /\ Kept(s, d) /\ s.acq = "failed"
        /\ \/ /\ current = l /\ d.phase # "unknown" /\ d.rel = "none"
              /\ Begun(s, d, FALSE)
           \/ /\ SameRelease(s, d)
              /\ current # l \/ d.phase = "unknown" \/ d.rel # "none"
    BY <2>1, ThrownFields
  <2>4. /\ r.acq = "preparing" /\ Put(l, s)
        /\ UNCHANGED <<epoch, current, maint, retries, keyed, dial, offset>>
    BY <1>4 DEF PreparationTimesOut
  <2> HIDE DEF s, d, r
  <2>5. StepOrder(s)
    BY <1>1, <2>2, <2>3, <2>4 DEF OfLease, StepOrder, Kept, Begun, GivenUp, SameRelease
  <2>6. LocalStep(l, s)
    BY <1>1, <2>2, <2>3, <2>4, <2>5
       DEF OfLease, LocalStep, StepOrder, Quiet, LateCommand, MayBeKeyed,
           MayStayTuned, DialStep, Kept, Begun, GivenUp, SameRelease
  <2>7. QED
    BY <2>6
<1>5. ASSUME NEW tuned \in BOOLEAN, DialAnswers(l, tuned) PROVE \E s : LocalStep(l, s)
  <2> DEFINE d == [r EXCEPT !.dialSet = AppliedAs(l, tuned)]
             e == DialSettled(d)
  <2>1. d \in Lease
    BY <1>1, SetDialSetType DEF OfLease, AppliedAs
  <2>2. /\ d.req = r.req /\ d.start = r.start /\ d.cleanup = r.cleanup
        /\ d.lateStops = r.lateStops /\ d.lateClears = r.lateClears /\ d.acq = r.acq
        /\ SameRelease(d, r)
        /\ \/ CanContinue(l) /\ d.dialSet = "applied"
           \/ ~CanContinue(l) /\ offset /\ d.dialSet = "compensating"
           \/ /\ ~CanContinue(l) /\ ~offset
              /\ d.dialSet = IF tuned THEN "forgotten" ELSE "settled"
    BY <1>1 DEF OfLease, Lease, SameRelease, AppliedAs
  <2>3. /\ r.dialSet = "sent" /\ UNCHANGED <<epoch, current, maint, retries, keyed, offset>>
        /\ (CanContinue(l) => tuned) /\ dial' = IF tuned THEN l ELSE dial
    BY <1>5 DEF DialAnswers
  <2>p. Put(l, IF r.acq # "dialing" THEN e
               ELSE IF CanContinue(l) THEN [e EXCEPT !.acq = "rechecking"]
               ELSE Thrown(l, e))
    BY <1>5 DEF DialAnswers
  <2> HIDE DEF d
  <2>e. /\ e \in Lease /\ Kept(e, d)
        /\ e.acq = d.acq /\ e.stopReq = d.stopReq /\ e.ok = d.ok
        /\ \/ d.rel = "awaitDial" /\ DialAwaited(e, d)
           \/ d.rel # "awaitDial" /\ SameRelease(e, d)
    BY <2>1, DialSettledFields
  <2> HIDE DEF e
  <2>4. CASE r.acq # "dialing"
    <3>1. Put(l, e)
      BY <2>4, <2>p
    <3> HIDE DEF r
    <3>2. StepOrder(e)
      BY <1>1, <2>2, <2>3, <2>4, <2>e
         DEF OfLease, StepOrder, Quiet, CanContinue, Kept, At, DialAwaited, GivenUp, SameRelease
    <3>3. LocalStep(l, e)
      BY <1>1, <2>2, <2>3, <2>4, <2>e, <3>1, <3>2
         DEF OfLease, LocalStep, StepOrder, Quiet, LateCommand, MayBeKeyed, MayStayTuned,
             DialStep, CanContinue, Kept, At, DialAwaited, GivenUp, SameRelease
    <3>4. QED
      BY <3>3
  <2>5. CASE r.acq = "dialing" /\ CanContinue(l)
    <3> DEFINE s == [e EXCEPT !.acq = "rechecking"]
    <3>1. Put(l, s)
      BY <2>5, <2>p
    <3>2. Kept(s, e) /\ s.acq = "rechecking" /\ SameRelease(s, e)
      BY <2>e, SetAcqFields
    <3> HIDE DEF s, r
    <3>3. StepOrder(s)
      BY <1>1, <2>2, <2>3, <2>5, <2>e, <3>2
         DEF OfLease, StepOrder, CanContinue, Kept, At, DialAwaited, GivenUp, SameRelease
    <3>4. LocalStep(l, s)
      BY <1>1, <2>2, <2>3, <2>5, <2>e, <3>1, <3>2, <3>3
         DEF OfLease, LocalStep, StepOrder, Quiet, LateCommand, MayBeKeyed, MayStayTuned,
             DialStep, CanContinue, Kept, At, DialAwaited, GivenUp, SameRelease
    <3>5. QED
      BY <3>4
  <2>6. CASE r.acq = "dialing" /\ ~CanContinue(l)
    <3> DEFINE s == Thrown(l, e)
    <3>1. /\ Kept(s, e) /\ s.acq = "failed"
          /\ \/ /\ current = l /\ e.phase # "unknown" /\ e.rel = "none"
                /\ Begun(s, e, FALSE)
             \/ /\ SameRelease(s, e)
                /\ current # l \/ e.phase = "unknown" \/ e.rel # "none"
      BY <2>e, ThrownFields
    <3>2. Put(l, s)
      BY <2>6, <2>p
    <3> HIDE DEF s, r
    <3>3. StepOrder(s)
      BY <1>1, <2>2, <2>3, <2>6, <2>e, <3>1
         DEF OfLease, StepOrder, Quiet, CanContinue, Kept, At, DialAwaited, Begun, GivenUp,
             SameRelease
    <3>4. LocalStep(l, s)
      BY <1>1, <2>2, <2>3, <2>6, <2>e, <3>1, <3>2, <3>3
         DEF OfLease, LocalStep, StepOrder, Quiet, LateCommand, MayBeKeyed, MayStayTuned,
             DialStep, CanContinue, Kept, At, DialAwaited, Begun, GivenUp, SameRelease
    <3>5. QED
      BY <3>4
  <2>7. QED
    BY <2>4, <2>5, <2>6
<1>6. ASSUME NEW tuned \in BOOLEAN, DialNotApplied(l, tuned) PROVE \E s : LocalStep(l, s)
  <2> DEFINE d == [r EXCEPT !.dialSet = IF tuned THEN "forgotten" ELSE "settled"]
             e == DialSettled(d)
  <2>1. d \in Lease
    BY <1>1, SetDialSetType DEF OfLease
  <2>2. /\ d.req = r.req /\ d.start = r.start /\ d.cleanup = r.cleanup
        /\ d.lateStops = r.lateStops /\ d.lateClears = r.lateClears /\ d.acq = r.acq
        /\ SameRelease(d, r)
        /\ d.dialSet = IF tuned THEN "forgotten" ELSE "settled"
    BY <1>1 DEF OfLease, Lease, SameRelease
  <2>3. /\ r.dialSet = "sent" /\ UNCHANGED <<epoch, current, maint, retries, keyed>>
        /\ offset' = FALSE /\ dial' = IF tuned THEN l ELSE dial
    BY <1>6 DEF DialNotApplied
  <2>p. Put(l, IF r.acq = "dialing" THEN Thrown(l, e) ELSE e)
    BY <1>6 DEF DialNotApplied
  <2> HIDE DEF d
  <2>e. /\ e \in Lease /\ Kept(e, d)
        /\ e.acq = d.acq /\ e.stopReq = d.stopReq /\ e.ok = d.ok
        /\ \/ d.rel = "awaitDial" /\ DialAwaited(e, d)
           \/ d.rel # "awaitDial" /\ SameRelease(e, d)
    BY <2>1, DialSettledFields
  <2> HIDE DEF e
  <2>c. current \in {None, l}
    BY <1>1, <2>3 DEF OfLease, LateCommand
  <2>4. CASE r.acq # "dialing"
    <3>1. Put(l, e)
      BY <2>4, <2>p
    <3> HIDE DEF r
    <3>2. StepOrder(e)
      BY <1>1, <2>2, <2>3, <2>4, <2>e
         DEF OfLease, StepOrder, Quiet, Kept, At, DialAwaited, GivenUp, SameRelease
    <3>3. LocalStep(l, e)
      BY <1>1, <2>2, <2>3, <2>4, <2>c, <2>e, <3>1, <3>2
         DEF OfLease, LocalStep, StepOrder, Quiet, LateCommand, MayBeKeyed, MayStayTuned,
             DialStep, Kept, At, DialAwaited, GivenUp, SameRelease
    <3>4. QED
      BY <3>3
  <2>5. CASE r.acq = "dialing"
    <3> DEFINE s == Thrown(l, e)
    <3>1. /\ Kept(s, e) /\ s.acq = "failed"
          /\ \/ /\ current = l /\ e.phase # "unknown" /\ e.rel = "none"
                /\ Begun(s, e, FALSE)
             \/ /\ SameRelease(s, e)
                /\ current # l \/ e.phase = "unknown" \/ e.rel # "none"
      BY <2>e, ThrownFields
    <3>2. Put(l, s)
      BY <2>5, <2>p
    <3> HIDE DEF s, r
    <3>3. StepOrder(s)
      BY <1>1, <2>2, <2>3, <2>5, <2>e, <3>1
         DEF OfLease, StepOrder, Quiet, Kept, At, DialAwaited, Begun, GivenUp, SameRelease
    <3>4. LocalStep(l, s)
      BY <1>1, <2>2, <2>3, <2>5, <2>c, <2>e, <3>1, <3>2, <3>3
         DEF OfLease, LocalStep, StepOrder, Quiet, LateCommand, MayBeKeyed, MayStayTuned,
             DialStep, Kept, At, DialAwaited, Begun, GivenUp, SameRelease
    <3>5. QED
      BY <3>4
  <2>6. QED
    BY <2>4, <2>5
<1>r. CASE DialRefused(l)
  <2> DEFINE c == [r EXCEPT !.prep = "none"]
             d == [c EXCEPT !.dialSet = "settled"]
             s == Thrown(l, d)
  <2>1. c \in Lease /\ d \in Lease
    BY <1>1, SetPrepType, SetDialSetType DEF OfLease
  <2>2. /\ d.req = r.req /\ d.start = r.start /\ d.dialSet = "settled" /\ d.cleanup = r.cleanup
        /\ d.lateStops = r.lateStops /\ d.lateClears = r.lateClears /\ d.acq = r.acq
        /\ SameRelease(d, r)
    BY <1>1 DEF OfLease, Lease, SameRelease
  <2>3. /\ Kept(s, d) /\ s.acq = "failed"
        /\ \/ /\ current = l /\ d.phase # "unknown" /\ d.rel = "none"
              /\ Begun(s, d, FALSE)
           \/ /\ SameRelease(s, d)
              /\ current # l \/ d.phase = "unknown" \/ d.rel # "none"
    BY <2>1, ThrownFields
  <2>4. /\ r.acq = "preparing" /\ CanContinue(l) /\ Put(l, s)
        /\ UNCHANGED <<epoch, current, maint, retries, keyed, dial, offset>>
    BY <1>r DEF DialRefused
  <2> HIDE DEF s, d, r
  <2>5. StepOrder(s)
    BY <1>1, <2>2, <2>3, <2>4 DEF OfLease, StepOrder, Kept, Begun, GivenUp, SameRelease
  <2>6. LocalStep(l, s)
    BY <1>1, <2>2, <2>3, <2>4, <2>5
       DEF OfLease, LocalStep, StepOrder, Quiet, LateCommand, MayBeKeyed, MayStayTuned,
           DialStep, CanContinue, Kept, Begun, GivenUp, SameRelease
  <2>7. QED
    BY <2>6
<1>7. CASE DialTimesOut(l) \/ StartTimesOut(l)
  <2> DEFINE s == Thrown(l, r)
  <2>1. /\ Kept(s, r) /\ s.acq = "failed"
        /\ \/ /\ current = l /\ r.phase # "unknown" /\ r.rel = "none"
              /\ Begun(s, r, FALSE)
           \/ /\ SameRelease(s, r)
              /\ current # l \/ r.phase = "unknown" \/ r.rel # "none"
    BY <1>1, ThrownFields DEF OfLease
  <2>2. /\ r.acq \in {"dialing", "keying"} /\ Put(l, s)
        /\ UNCHANGED <<epoch, current, maint, retries, keyed, dial, offset>>
    BY <1>7 DEF DialTimesOut, StartTimesOut
  <2> HIDE DEF s, r
  <2>3. StepOrder(s)
    BY <1>1, <2>1, <2>2 DEF OfLease, StepOrder, Kept, Begun, GivenUp, SameRelease
  <2>4. LocalStep(l, s)
    BY <1>1, <2>1, <2>2, <2>3
       DEF OfLease, LocalStep, StepOrder, Quiet, LateCommand, MayBeKeyed,
           MayStayTuned, DialStep, Kept, Begun, GivenUp, SameRelease
  <2>5. QED
    BY <2>4
<1>8. ASSUME NEW ok \in BOOLEAN, DialCompensated(l, ok) PROVE \E s : LocalStep(l, s)
  <2> DEFINE d == [r EXCEPT !.dialSet = IF ok THEN "settled" ELSE "failed"]
             s == DialSettled(d)
  <2>1. d \in Lease
    BY <1>1, SetDialSetType DEF OfLease
  <2>2. /\ d.req = r.req /\ d.start = r.start /\ d.cleanup = r.cleanup
        /\ d.lateStops = r.lateStops /\ d.lateClears = r.lateClears /\ d.acq = r.acq
        /\ SameRelease(d, r)
        /\ d.dialSet = IF ok THEN "settled" ELSE "failed"
    BY <1>1 DEF OfLease, Lease, SameRelease
  <2>3. /\ r.dialSet = "compensating" /\ Put(l, s)
        /\ UNCHANGED <<epoch, current, maint, retries, keyed>>
    BY <1>8 DEF DialCompensated
  <2>d. /\ dial' = dial \/ dial' = None
        /\ ok => offset' = FALSE /\ (dial' # None => Forgotten)
        /\ ~ok => offset' = offset
    BY <1>1, <1>8, ClearSettlesFields DEF OfLease, DialCompensated
  <2> HIDE DEF d
  <2>e. /\ Kept(s, d) /\ s.acq = d.acq /\ s.stopReq = d.stopReq /\ s.ok = d.ok
        /\ \/ d.rel = "awaitDial" /\ DialAwaited(s, d)
           \/ d.rel # "awaitDial" /\ SameRelease(s, d)
    BY <2>1, DialSettledFields
  <2> HIDE DEF s, r
  <2>4. StepOrder(s)
    BY <1>1, <2>2, <2>3, <2>e
       DEF OfLease, StepOrder, Kept, DialAwaited, At, GivenUp, SameRelease
  <2>5. LocalStep(l, s)
    BY <1>1, <2>2, <2>3, <2>d, <2>e, <2>4
       DEF OfLease, LocalStep, StepOrder, Quiet, LateCommand, MayBeKeyed, MayStayTuned,
           DialStep, Kept, DialAwaited, At, GivenUp, SameRelease
  <2>6. QED
    BY <2>5
<1>9. ASSUME NEW valid \in BOOLEAN, Recheck(l, valid) \/ Check(l, valid)
      PROVE  \E s : LocalStep(l, s)
  <2>1. /\ r.acq \in {"rechecking", "checking"}
        /\ UNCHANGED <<epoch, current, maint, retries, keyed, dial, offset>>
    BY <1>9 DEF Recheck, Check
  <2>2. CASE Put(l, Thrown(l, r))
    <3> DEFINE s == Thrown(l, r)
    <3>1. /\ Kept(s, r) /\ s.acq = "failed"
          /\ \/ /\ current = l /\ r.phase # "unknown" /\ r.rel = "none"
                /\ Begun(s, r, FALSE)
             \/ /\ SameRelease(s, r)
                /\ current # l \/ r.phase = "unknown" \/ r.rel # "none"
      BY <1>1, ThrownFields DEF OfLease
    <3>2. Put(l, s)
      BY <2>2
    <3> HIDE DEF s, r
    <3>3. StepOrder(s)
      BY <1>1, <2>1, <3>1, <3>2 DEF OfLease, StepOrder, Kept, Begun, GivenUp, SameRelease
    <3>4. LocalStep(l, s)
      BY <1>1, <2>1, <3>1, <3>2, <3>3
         DEF OfLease, LocalStep, StepOrder, Quiet, LateCommand, MayBeKeyed,
             MayStayTuned, DialStep, Kept, Begun, GivenUp, SameRelease
    <3>5. QED
      BY <3>4
  <2>3. CASE r.acq = "rechecking" /\ CanContinue(l) /\ Put(l, KeyUp(r))
    <3> DEFINE s == KeyUp(r)
    <3>1. /\ s.req = r.req /\ s.dialSet = r.dialSet /\ s.cleanup = r.cleanup
          /\ s.lateStops = r.lateStops /\ s.lateClears = r.lateClears
          /\ s.rel = r.rel /\ s.stopReq = r.stopReq /\ s.ok = r.ok
          /\ s.dialDropped = r.dialDropped /\ s.terminal = r.terminal
          /\ s.phase \in {r.phase, "active"}
          /\ \/ r.req.assertPtt /\ s.acq = "keying" /\ s.start = "sent"
             \/ ~r.req.assertPtt /\ s.acq = "granted" /\ s.start = r.start
      BY <1>1, KeyUpFields DEF OfLease
    <3>2. Put(l, s)
      BY <2>3
    <3> HIDE DEF s, r
    <3>3. StepOrder(s)
      BY <1>1, <2>1, <2>3, <3>1, <3>2 DEF OfLease, StepOrder, CanContinue
    <3>4. LocalStep(l, s)
      BY <1>1, <2>1, <2>3, <3>1, <3>2, <3>3
         DEF OfLease, LocalStep, StepOrder, Quiet, LateCommand, MayBeKeyed,
             MayStayTuned, DialStep, CanContinue
    <3>5. QED
      BY <3>4
  <2>4. CASE r.acq = "checking" /\ CanContinue(l) /\ Put(l, Granted(r))
    <3> DEFINE s == Granted(r)
    <3>1. /\ Kept(s, r) /\ s.acq = "granted" /\ s.phase \in {r.phase, "active"}
          /\ s.rel = r.rel /\ s.stopReq = r.stopReq /\ s.ok = r.ok
          /\ s.dialDropped = r.dialDropped /\ s.terminal = r.terminal
      BY <1>1, GrantedFields DEF OfLease
    <3>2. Put(l, s)
      BY <2>4
    <3> HIDE DEF s, r
    <3>3. StepOrder(s)
      BY <1>1, <2>1, <2>4, <3>1, <3>2 DEF OfLease, StepOrder, CanContinue, Kept
    <3>4. LocalStep(l, s)
      BY <1>1, <2>1, <2>4, <3>1, <3>2, <3>3
         DEF OfLease, LocalStep, StepOrder, Quiet, LateCommand, MayBeKeyed,
             MayStayTuned, DialStep, CanContinue, Kept
    <3>5. QED
      BY <3>4
  <2>5. QED
    BY <1>9, <2>2, <2>3, <2>4 DEF Recheck, Check
<1>10. CASE StartAccepted(l)
  <2> DEFINE c == [r EXCEPT !.start = AcceptedAs(l)]
             d == [c EXCEPT !.acq = IF r.acq = "keying" THEN "checking" ELSE r.acq]
             s == IF r.rel = "awaitStart" THEN [Confirmed(d) EXCEPT !.rel = "stopPtt"] ELSE d
  <2>1. c \in Lease
    BY <1>1, SetStartType DEF OfLease, AcceptedAs
  <2>2. /\ c.req = r.req /\ c.dialSet = r.dialSet /\ c.cleanup = r.cleanup
        /\ c.lateStops = r.lateStops /\ c.lateClears = r.lateClears /\ c.acq = r.acq
        /\ c.start = AcceptedAs(l) /\ SameRelease(c, r)
    BY <1>1 DEF OfLease, Lease, SameRelease
  <2>3. d \in Lease
    <3>1. (IF r.acq = "keying" THEN "checking" ELSE r.acq) \in
            {"unused", "preparing", "dialing", "rechecking", "keying", "checking",
             "granted", "failed"}
      BY <1>1 DEF OfLease, Lease
    <3> HIDE DEF c
    <3>2. QED
      BY <2>1, <3>1, SetAcqType
  <2>4. /\ Kept(d, c) /\ SameRelease(d, c)
        /\ d.acq = IF r.acq = "keying" THEN "checking" ELSE r.acq
    <3> HIDE DEF c
    <3>1. QED
      BY <2>1, SetAcqFields
  <2>5. /\ r.start = "sent" /\ keyed' = TRUE
        /\ UNCHANGED <<epoch, current, maint, retries, dial, offset>>
    BY <1>10 DEF StartAccepted
  <2>6. Put(l, s)
    <3>1. d = [r EXCEPT !.start = AcceptedAs(l),
                        !.acq = IF @ = "keying" THEN "checking" ELSE @]
      OBVIOUS
    <3> HIDE DEF d
    <3>2. QED
      BY <1>10, <3>1 DEF StartAccepted
  <2> HIDE DEF c, d
  <2>7. /\ Kept(s, d) /\ s.acq = d.acq
        /\ \/ r.rel = "awaitStart" /\ At(s, d, "stopPtt")
           \/ r.rel # "awaitStart" /\ s.rel = d.rel
        /\ s.phase = d.phase /\ s.stopReq = d.stopReq /\ s.ok = d.ok
        /\ s.dialDropped = d.dialDropped /\ s.terminal = d.terminal
    <3>1. CASE r.rel = "awaitStart"
      <4>1. s = [Confirmed(d) EXCEPT !.rel = "stopPtt"]
        BY <3>1
      <4>2. QED
        BY <2>3, <3>1, <4>1 DEF Lease, Kept, At, Confirmed
    <3>2. CASE r.rel # "awaitStart"
      BY <3>2 DEF Kept
    <3>3. QED
      BY <3>1, <3>2
  <2> HIDE DEF s, r
  <2>8. current = l
    BY <1>1, <2>5 DEF OfLease, Quiet
  <2>9. s.start \in {"accepted", "compensating"} /\ (s.start = "accepted" <=> ~r.stopReq)
    BY <1>1, <2>2, <2>4, <2>7, <2>8 DEF OfLease, AcceptedAs, CanContinue, Kept
  <2>10. StepOrder(s)
    BY <1>1, <2>2, <2>4, <2>5, <2>7, <2>8, <2>9
       DEF OfLease, StepOrder, Kept, SameRelease, At
  <2>11. LocalStep(l, s)
    BY <1>1, <2>2, <2>4, <2>5, <2>6, <2>7, <2>8, <2>9, <2>10
       DEF OfLease, LocalStep, StepOrder, LateCommand, MayBeKeyed, DialStep, Kept,
           SameRelease, At
  <2>12. QED
    BY <2>11
<1>11. CASE StartRejected(l)
  <2> DEFINE d == [r EXCEPT !.start = "rejected"]
             e == CASE d.rel = "awaitStart" -> [d EXCEPT !.rel = "stopPtt"]
                    [] d.rel = "awaitComp"  -> AwaitDial(d)
                    [] OTHER                -> d
             s == IF e.acq = "keying" THEN Thrown(l, e) ELSE e
  <2>1. d \in Lease
    BY <1>1, SetStartType DEF OfLease
  <2>2. /\ d.req = r.req /\ d.dialSet = r.dialSet /\ d.cleanup = r.cleanup
        /\ d.lateStops = r.lateStops /\ d.lateClears = r.lateClears /\ SameRelease(d, r)
        /\ d.start = "rejected" /\ d.acq = r.acq
    BY <1>1 DEF OfLease, Lease, SameRelease
  <2>3. /\ r.start = "sent" /\ Put(l, s)
        /\ keyed' = keyed \/ (keyed' = TRUE /\ r.rel # "awaitComp")
        /\ UNCHANGED <<epoch, current, maint, retries, dial, offset>>
    BY <1>11 DEF StartRejected
  <2> HIDE DEF d
  <2>4. /\ e \in Lease /\ Kept(e, d)
        /\ \/ d.rel = "awaitStart" /\ At(e, d, "stopPtt")
           \/ d.rel = "awaitComp" /\ DialAwaited(e, d)
           \/ d.rel \notin {"awaitStart", "awaitComp"} /\ SameRelease(e, d)
        /\ e.acq = d.acq /\ e.stopReq = d.stopReq /\ e.ok = d.ok
    <3>1. CASE d.rel = "awaitStart"
      <4>1. e = [d EXCEPT !.rel = "stopPtt"]
        BY <3>1
      <4>2. e \in Lease
        BY <2>1, <4>1, SetRelType
      <4>3. QED
        BY <2>1, <3>1, <4>1, <4>2 DEF Lease, Kept, At
    <3>2. CASE d.rel = "awaitComp"
      <4>1. e = AwaitDial(d)
        BY <3>2
      <4>2. QED
        BY <2>1, <3>2, <4>1, AwaitDialType, AwaitDialFields
    <3>3. CASE d.rel \notin {"awaitStart", "awaitComp"}
      BY <2>1, <3>3 DEF Kept, SameRelease
    <3>4. QED
      BY <3>1, <3>2, <3>3
  <2> HIDE DEF e
  <2>5. current = l
    BY <1>1, <2>3 DEF OfLease, Quiet
  <2>6. \/ e.acq # "keying" /\ s = e
        \/ /\ e.acq = "keying" /\ Kept(s, e) /\ s.acq = "failed"
           /\ \/ e.rel = "none" /\ Begun(s, e, FALSE)
              \/ SameRelease(s, e) /\ (e.phase = "unknown" \/ e.rel # "none")
    BY <2>4, <2>5, ThrownFields
  <2> HIDE DEF s, r
  <2>7. StepOrder(s)
    <3>1. CASE e.acq # "keying"
      <4>1. s = e
        BY <2>6, <3>1
      <4>2. CASE d.rel = "awaitStart" /\ At(e, d, "stopPtt")
        BY <1>1, <2>2, <2>3, <2>4, <3>1, <4>1, <4>2
           DEF OfLease, StepOrder, Kept, At, SameRelease
      <4>3. CASE d.rel = "awaitComp" /\ DialAwaited(e, d)
        BY <1>1, <2>2, <2>3, <2>4, <3>1, <4>1, <4>3
           DEF OfLease, StepOrder, Kept, At, DialAwaited, GivenUp, SameRelease
      <4>4. CASE d.rel \notin {"awaitStart", "awaitComp"} /\ SameRelease(e, d)
        BY <1>1, <2>2, <2>3, <2>4, <3>1, <4>1, <4>4
           DEF OfLease, StepOrder, Kept, SameRelease
      <4>5. QED
        BY <2>4, <4>2, <4>3, <4>4
    <3>2. CASE e.acq = "keying" /\ e.rel = "none" /\ Begun(s, e, FALSE)
      BY <1>1, <2>2, <2>3, <2>4, <2>6, <3>2
         DEF OfLease, StepOrder, Kept, At, DialAwaited, Begun, GivenUp, SameRelease
    <3>3. CASE e.acq = "keying" /\ SameRelease(s, e)
      BY <1>1, <2>2, <2>3, <2>4, <2>6, <3>3
         DEF OfLease, StepOrder, Kept, At, DialAwaited, GivenUp, SameRelease
    <3>4. QED
      BY <2>6, <3>1, <3>2, <3>3
  <2>8. LocalStep(l, s)
    BY <1>1, <2>2, <2>3, <2>4, <2>5, <2>6, <2>7
       DEF OfLease, LocalStep, StepOrder, LateCommand, MayBeKeyed,
           MayStayTuned, DialStep, Kept, At, DialAwaited, Begun, GivenUp, SameRelease
  <2>9. QED
    BY <2>8
<1>12. CASE CompensationDone(l)
  <2> DEFINE d == [r EXCEPT !.start = "compensated"]
  <2>1. d \in Lease
    BY <1>1, SetStartType DEF OfLease
  <2>2. /\ d.req = r.req /\ d.dialSet = r.dialSet /\ d.cleanup = r.cleanup
        /\ d.lateStops = r.lateStops /\ d.lateClears = r.lateClears /\ SameRelease(d, r)
        /\ d.start = "compensated" /\ d.acq = r.acq
    BY <1>1 DEF OfLease, Lease, SameRelease
  <2>3. /\ r.start = "compensating" /\ keyed' = FALSE
        /\ UNCHANGED <<epoch, maint, retries, dial, offset>>
    BY <1>12 DEF CompensationDone
  <2>4. CASE current = l /\ d.phase = "unknown"
    <3> DEFINE e == [d EXCEPT !.confirmed = FALSE]
               s == EmitOnce(e, "failure")
    <3>1. e \in Lease
      BY ZenonT(40), <2>1 DEF Lease
    <3>2. Kept(e, d) /\ e.acq = d.acq /\ SameRelease(e, d)
      BY <2>1 DEF Lease, Kept, SameRelease
    <3>3. Put(l, s) /\ current' = None
      BY <1>12, <2>4 DEF CompensationDone
    <3> HIDE DEF e
    <3>4. /\ Kept(s, e) /\ s.acq = e.acq /\ s.rel = e.rel /\ s.phase = e.phase
          /\ s.stopReq = e.stopReq /\ s.ok = e.ok /\ s.dialDropped = e.dialDropped
          /\ s.terminal = IF e.terminal = "none" THEN "failure" ELSE e.terminal
      BY <3>1 DEF EmitOnce, Lease, Kept
    <3> HIDE DEF s, d, r
    <3>5. StepOrder(s)
      BY <1>1, <2>2, <2>3, <2>4, <3>2, <3>4 DEF OfLease, StepOrder, Kept, SameRelease
    <3>6. LocalStep(l, s)
      BY <1>1, <2>2, <2>3, <2>4, <3>2, <3>3, <3>4, <3>5
         DEF OfLease, LocalStep, StepOrder, Quiet, LateCommand, MayBeKeyed,
             MayStayTuned, DialStep, Kept, SameRelease
    <3>7. QED
      BY <3>6
  <2>5. CASE ~(current = l /\ d.phase = "unknown") /\ d.rel = "awaitComp"
    <3> DEFINE s == AwaitDial(d)
    <3>1. /\ Kept(s, d) /\ DialAwaited(s, d)
          /\ s.acq = d.acq /\ s.stopReq = d.stopReq /\ s.ok = d.ok
      BY <2>1, AwaitDialFields
    <3>2. Put(l, s)
      BY <1>12, <2>5 DEF CompensationDone
    <3>3. current' = current
      BY <1>12, <2>5 DEF CompensationDone
    <3> HIDE DEF s, d, r
    <3>4. StepOrder(s)
      BY <1>1, <2>2, <2>3, <2>5, <3>1, <3>2, <3>3
         DEF OfLease, StepOrder, Kept, At, DialAwaited, GivenUp, SameRelease
    <3>5. LocalStep(l, s)
      BY <1>1, <2>2, <2>3, <2>5, <3>1, <3>2, <3>3, <3>4
         DEF OfLease, LocalStep, StepOrder, Quiet, LateCommand, MayBeKeyed,
             MayStayTuned, DialStep, Kept, At, DialAwaited, GivenUp, SameRelease
    <3>6. QED
      BY <3>5
  <2>6. CASE ~(current = l /\ d.phase = "unknown") /\ d.rel # "awaitComp"
    <3>1. Put(l, d) /\ current' = current
      BY <1>12, <2>6 DEF CompensationDone
    <3> HIDE DEF d, r
    <3>2. StepOrder(d)
      BY <1>1, <2>2, <2>3, <2>6 DEF OfLease, StepOrder, SameRelease
    <3>3. LocalStep(l, d)
      BY <1>1, <2>2, <2>3, <2>6, <3>1, <3>2
         DEF OfLease, LocalStep, StepOrder, Quiet, LateCommand, MayBeKeyed,
             MayStayTuned, DialStep, SameRelease
    <3>4. QED
      BY <3>3
  <2>7. QED
    BY <2>4, <2>5, <2>6
<1>13. CASE CompensationFails(l)
  <2> DEFINE d == [r EXCEPT !.start = "abandoned"]
  <2>1. d \in Lease
    BY <1>1, SetStartType DEF OfLease
  <2>2. /\ d.req = r.req /\ d.dialSet = r.dialSet /\ d.cleanup = r.cleanup
        /\ d.lateStops = r.lateStops /\ d.lateClears = r.lateClears /\ SameRelease(d, r)
        /\ d.start = "abandoned" /\ d.acq = r.acq
    BY <1>1 DEF OfLease, Lease, SameRelease
  <2>3. /\ r.start = "compensating" /\ (keyed' = keyed \/ keyed' = FALSE)
        /\ UNCHANGED <<epoch, current, maint, retries, dial, offset>>
    BY <1>13 DEF CompensationFails
  <2>4. CASE d.rel = "awaitComp"
    <3> DEFINE s == AwaitDial(d)
    <3>1. /\ Kept(s, d) /\ DialAwaited(s, d)
          /\ s.acq = d.acq /\ s.stopReq = d.stopReq /\ s.ok = d.ok
      BY <2>1, AwaitDialFields
    <3>2. Put(l, s)
      BY <1>13, <2>4 DEF CompensationFails
    <3>3. current' = current
      BY <1>13, <2>4 DEF CompensationFails
    <3> HIDE DEF s, d, r
    <3>4. StepOrder(s)
      BY <1>1, <2>2, <2>3, <2>4, <3>1, <3>2, <3>3
         DEF OfLease, StepOrder, Kept, At, DialAwaited, GivenUp, SameRelease
    <3>5. LocalStep(l, s)
      BY <1>1, <2>2, <2>3, <2>4, <3>1, <3>2, <3>3, <3>4
         DEF OfLease, LocalStep, StepOrder, Quiet, LateCommand, MayBeKeyed,
             MayStayTuned, DialStep, Kept, At, DialAwaited, GivenUp, SameRelease
    <3>6. QED
      BY <3>5
  <2>5. CASE d.rel # "awaitComp"
    <3>1. Put(l, d)
      BY <1>13, <2>5 DEF CompensationFails
    <3> HIDE DEF d, r
    <3>2. StepOrder(d)
      BY <1>1, <2>2, <2>3, <2>5 DEF OfLease, StepOrder, SameRelease
    <3>3. LocalStep(l, d)
      BY <1>1, <2>2, <2>3, <2>5, <3>1, <3>2
         DEF OfLease, LocalStep, StepOrder, Quiet, LateCommand, MayBeKeyed,
             MayStayTuned, DialStep, SameRelease
    <3>4. QED
      BY <3>3
  <2>6. QED
    BY <2>4, <2>5
<1>14. QED
  BY <1>2, <1>3, <1>4, <1>5, <1>6, <1>r, <1>7, <1>8, <1>9, <1>10, <1>11, <1>12, <1>13
     DEF Acquiring

-----------------------------------------------------------------------------
(* The steps that grant a lease or leave the leases alone, and the theorem. *)

\* What a lease is when it is made
LEMMA NewLeaseFields ==
  ASSUME NEW q \in Request, NEW n, n = NewLease(q, "preparing")
  PROVE  /\ n.req = q /\ n.acq = "preparing" /\ n.phase = "starting" /\ n.stopReq = FALSE
         /\ n.start = "none" /\ n.dialSet = "none" /\ n.dialDropped = FALSE
         /\ n.rel = "none" /\ n.ok = FALSE /\ n.cleanup = "none"
         /\ n.lateStops = 0 /\ n.lateClears = 0 /\ n.terminal = "none"
BY DEF NewLease

\* No lease has a command on its way when the transmitter is available.
LEMMA AvailableIsQuiet ==
  ASSUME IInv, Available, NEW l \in Leases
  PROVE  Quiet(lease[l]) /\ ~LateCommand(lease[l]) /\ maint = "none"
<1>1. Quiet(lease[l]) /\ lease[l] \in Lease /\ ~HasFence(lease[l])
  BY BoundsAssumption DEF IInv, TypeOK, Available, Fenced, Leases, None
<1>2. maint = "none"
  BY DEF IInv, TypeOK, Available, Fenced
<1>3. QED
  BY <1>1, <1>2 DEF Quiet, LateCommand, HasFence

\* A new lease finds the transmitter as IInv says.
LEMMA AcquireLeaseStep ==
  ASSUME IInv, TypeOK', NEW q \in Requests, AcquireLease(q)
  PROVE  IInv'
<1> DEFINE e == epoch + 1
           n == NewLease(q, "preparing")
<1>1. e \in Leases /\ epoch \in Nat /\ e # None /\ Leases \subseteq Nat
  BY BoundsAssumption DEF AcquireLease, IInv, TypeOK, Leases, None
<1>2. /\ n.req = q /\ n.acq = "preparing" /\ n.phase = "starting" /\ n.stopReq = FALSE
      /\ n.start = "none" /\ n.dialSet = "none" /\ n.dialDropped = FALSE
      /\ n.rel = "none" /\ n.ok = FALSE /\ n.cleanup = "none"
      /\ n.lateStops = 0 /\ n.lateClears = 0 /\ n.terminal = "none"
  BY ZenonT(40), RequestsAssumption, NewLeaseFields
<1> HIDE DEF n
<1>3. lease \in [Leases -> Lease] /\ lease' = [lease EXCEPT ![e] = n]
  BY DEF AcquireLease, Put, IInv, TypeOK, n
<1>4. lease'[e] = n /\ \A k \in Leases : k # e => lease'[k] = lease[k]
  BY <1>1, <1>3
<1>5. /\ Available /\ current = None /\ current' = e /\ epoch' = e
      /\ maint' = maint /\ keyed' = keyed /\ dial' = dial /\ offset' = offset
  BY DEF AcquireLease, Available
<1>6. \A k \in Leases : Quiet(lease[k]) /\ ~LateCommand(lease[k])
  BY <1>5, AvailableIsQuiet
<1>7. maint = "none"
  BY <1>1, <1>5, AvailableIsQuiet
<1>8. lease[e].acq = "unused"
  BY <1>1 DEF IInv
<1>9. StepOrder(n)
  BY <1>2 DEF StepOrder
<1> HIDE DEF e
<1>10. (\A k \in Leases : StepOrder(lease[k]))'
  BY <1>4, <1>9 DEF IInv
<1>11. (\A k \in Leases : k > epoch => lease[k].acq = "unused")'
  BY <1>1, <1>4, <1>5 DEF IInv, e
<1>12. (current # None => lease[current].acq # "unused" /\ lease[current].rel # "done")'
  BY <1>2, <1>4, <1>5
<1>13. (\A k \in Leases : current # k => Quiet(lease[k]))'
  BY <1>4, <1>5, <1>6
<1>14. (\A k \in Leases : LateCommand(lease[k]) => current \in {None, k})'
  BY <1>4, <1>5, <1>6
<1>15. (\A k \in Leases :
          (CanContinue(k) /\ lease[k].req.assertPtt /\ lease[k].acq \in {"checking", "granted"})
            => lease[k].start = "accepted")'
  BY <1>2, <1>4, <1>5 DEF CanContinue
<1>16. (\A k \in Leases : (CanContinue(k) /\ lease[k].start = "accepted") => keyed)'
  BY <1>2, <1>4, <1>5 DEF CanContinue
<1>17. (keyed => Stray \/ (current # None /\ MayBeKeyed(lease[current])))'
  <2>1. keyed => Stray
    BY <1>5 DEF IInv
  <2>2. lease[e].start # "abandoned"
    BY <1>1, <1>8 DEF IInv, StepOrder
  <2>3. Stray => Stray'
    BY <1>4, <2>2 DEF Stray
  <2>4. QED
    BY <1>5, <2>1, <2>3
<1>18. (dial # None \/ offset =>
          \/ current # None
          \/ \E k \in Leases :
               lease[k].rel = "unknown"
               \/ lease[k].dialSet \in {"compensating", "failed", "forgotten"})'
  BY <1>1, <1>5
<1>d. (dial # None /\ ~offset => Forgotten)'
  <2>1. lease[e].dialSet # "forgotten"
    BY <1>1, <1>8 DEF IInv, StepOrder
  <2>2. Forgotten => Forgotten'
    BY <1>4, <2>1 DEF Forgotten
  <2>3. QED
    BY <1>5, <2>2 DEF IInv
<1>s. (\A k \in Leases : lease[k].dialSet = "sent" =>
         k = epoch /\ (CanContinue(k) => offset) /\ (dial # None => Forgotten))'
  <2>1. \A k \in Leases : lease[k].dialSet # "sent"
    BY <1>6 DEF LateCommand
  <2>2. \A k \in Leases : lease'[k].dialSet # "sent"
    BY <1>2, <1>4, <2>1
  <2>3. QED
    BY <2>2
<1>e. (current \in {None, epoch})'
  BY <1>5
<1>19. (maint # "none" => current = None)'
  BY <1>5, <1>7
<1>20. QED
  BY <1>10, <1>11, <1>12, <1>13, <1>14, <1>15, <1>16, <1>17, <1>18,
     <1>d, <1>s, <1>e, <1>19 DEF IInv

\* Before the first lease
LEMMA InitIInv == Init => IInv
<1> SUFFICES ASSUME Init PROVE IInv
  OBVIOUS
<1>1. TypeOK
  BY InitType
<1>2. ASSUME NEW l \in Leases
      PROVE  /\ lease[l].acq = "unused" /\ lease[l].phase = "starting"
             /\ lease[l].prep = "none" /\ lease[l].stopReq = FALSE
             /\ lease[l].start = "none" /\ lease[l].dialSet = "none"
             /\ lease[l].dialDropped = FALSE /\ lease[l].rel = "none" /\ lease[l].ok = FALSE
             /\ lease[l].cleanup = "none" /\ lease[l].lateStops = 0
             /\ lease[l].lateClears = 0 /\ lease[l].terminal = "none"
  BY <1>2 DEF Init, Unused, NewLease
<1>3. ASSUME NEW l \in Leases
      PROVE  StepOrder(lease[l]) /\ Quiet(lease[l]) /\ ~LateCommand(lease[l])
  <2> DEFINE r == lease[l]
  <2>1. /\ r.acq = "unused" /\ r.phase = "starting" /\ r.prep = "none" /\ r.stopReq = FALSE
        /\ r.start = "none" /\ r.dialSet = "none" /\ r.dialDropped = FALSE
        /\ r.rel = "none" /\ r.ok = FALSE /\ r.cleanup = "none" /\ r.lateStops = 0
        /\ r.lateClears = 0 /\ r.terminal = "none"
    BY <1>2
  <2> HIDE DEF r
  <2>2. StepOrder(r)
    BY <2>1 DEF StepOrder
  <2>3. Quiet(r) /\ ~LateCommand(r)
    BY <2>1 DEF Quiet, LateCommand
  <2>4. QED
    BY <2>2, <2>3 DEF r
<1>4. \A l \in Leases : lease[l].acq = "unused" /\ lease[l].start = "none"
  BY <1>2
<1>5. current = None /\ keyed = FALSE /\ dial = None /\ maint = "none"
      /\ offset = FALSE
  BY DEF Init
<1>6. QED
  BY <1>1, <1>2, <1>3, <1>4, <1>5 DEF IInv

\* Any step of a lease
LEMMA LeaseStep ==
  ASSUME IInv, NEW l \in Leases,
         Acquiring(l) \/ Releasing(l) \/ Owner(l) \/ LateSettlement(l)
  PROVE  \E r : LocalStep(l, r)
BY AcquiringStep, ReleasingStep, OwnerStep, LateSettlementStep

\* A maintenance command, which writes no lease
LEMMA MaintenanceStep == ASSUME IInv, TypeOK', Maintenance PROVE IInv'
<1>1. UNCHANGED <<epoch, current, lease, retries, keyed, dial, offset>>
  BY DEF Maintenance, StartMaintenance, MaintenanceTimesOut, MaintenanceSettles
<1>2. current = None
  BY DEF Maintenance, StartMaintenance, MaintenanceTimesOut, MaintenanceSettles, Available, IInv
<1>3. QED
  BY <1>1, <1>2 DEF IInv, Stray, Forgotten, CanContinue

\* IInv is inductive.
LEMMA NextIInv == IInv /\ [Next]_vars => IInv'
<1> SUFFICES ASSUME IInv, [Next]_vars PROVE IInv'
  OBVIOUS
<1>1. TypeOK'
  BY NextType DEF IInv
<1>2. ASSUME NEW q \in Requests, AcquireLease(q) PROVE IInv'
  BY <1>1, <1>2, AcquireLeaseStep
<1>3. ASSUME NEW l \in Leases,
             Acquiring(l) \/ Releasing(l) \/ Owner(l) \/ LateSettlement(l)
      PROVE  IInv'
  BY <1>1, <1>3, LeaseStep, LocalStepKeepsIInv
<1>4. CASE Maintenance
  BY <1>1, <1>4, MaintenanceStep
<1>5. CASE UNCHANGED vars
  BY <1>1, <1>5 DEF vars, IInv, Stray, Forgotten, CanContinue
<1>6. QED
  BY <1>2, <1>3, <1>4, <1>5 DEF Next

\* The invariant every safety property of the coordinator follows from: what a lease
\* that is over may still send, and on whose behalf the radio may be keyed or tuned.
THEOREM InductiveInvariant == Spec => []IInv
<1>1. QED
  BY InitIInv, NextIInv, PTL DEF Spec

-----------------------------------------------------------------------------
(* What IInv gives, and that the coordinator implements TxOwnership. *)

\* No PTT or dial command of a lease reaches the radio under another one, although
\* every command may time out and settle at any later moment.
THEOREM CommandsStayOwn == Spec => []CommandsAreOwn
<1>1. IInv => CommandsAreOwn
  <2> SUFFICES ASSUME IInv, NEW l \in Leases, CommandInFlight(lease[l]), current # l
               PROVE  current = None
    BY DEF CommandsAreOwn
  <2>1. Quiet(lease[l]) /\ (LateCommand(lease[l]) => current \in {None, l})
    BY DEF IInv
  <2>2. QED
    BY <2>1 DEF CommandInFlight, Quiet, LateCommand
<1>2. QED
  BY <1>1, InductiveInvariant, PTL

\* The owner of the transmitter keeps it keyed until its own release begins.
THEOREM HeldStaysKeyed == Spec => []HeldMeansKeyed
<1>1. IInv => HeldMeansKeyed
  BY DEF IInv, HeldMeansKeyed, CanContinue
<1>2. QED
  BY <1>1, InductiveInvariant, PTL

\* An idle transmitter is unkeyed unless a compensating PTT-off was lost.
THEOREM IdleIsUnkeyed == Spec => []IdleMeansUnkeyed
<1>1. IInv => IdleMeansUnkeyed
  BY DEF IInv, IdleMeansUnkeyed, Stray
<1>2. QED
  BY <1>1, InductiveInvariant, PTL

\* A lease can be granted only on a restored dial, but for the three named losses: a
\* dial that is still shifted is one whose clear was skipped or failed, or one that the
\* radio manager has forgotten.
THEOREM AvailableIsRestored == Spec => []AvailableMeansDialRestored
<1>1. IInv => AvailableMeansDialRestored
  <2> SUFFICES ASSUME IInv, Available, dial # None
               PROVE  \E l \in Leases : lease[l].rel = "unknown"
                                        \/ lease[l].dialSet \in {"failed", "forgotten"}
    BY DEF AvailableMeansDialRestored
  <2>1. PICK l \in Leases : \/ lease[l].rel = "unknown"
                            \/ lease[l].dialSet \in {"compensating", "failed", "forgotten"}
    BY DEF IInv, Available
  <2>2. ~LateCommand(lease[l])
    BY AvailableIsQuiet
  <2>3. QED
    BY <2>1, <2>2 DEF LateCommand
<1>2. QED
  BY <1>1, InductiveInvariant, PTL

\* Idle maintenance and a lease exclude each other.
THEOREM MaintenanceStaysExclusive == Spec => []MaintenanceIsExclusive
<1>1. IInv => MaintenanceIsExclusive
  BY DEF IInv, MaintenanceIsExclusive
<1>2. QED
  BY <1>1, InductiveInvariant, PTL

\* A lease in phase unknown is given up only by a confirmed PTT-off.
THEOREM UnknownStaysHeld == Spec => UnknownIsHeld
<1>1. IInv /\ [Next]_vars =>
        \A l \in Leases :
          (current = l /\ lease[l].phase = "unknown" /\ current' # l) => ~keyed'
  <2> SUFFICES ASSUME IInv, [Next]_vars, NEW l \in Leases,
                      current = l, lease[l].phase = "unknown", current' # l
               PROVE  ~keyed'
    OBVIOUS
  <2>1. l # None /\ lease[l].rel = "unknown"
    BY BoundsAssumption DEF IInv, StepOrder, Leases, None
  <2>2. ASSUME NEW q \in Requests, AcquireLease(q) PROVE FALSE
    BY <2>1, <2>2 DEF AcquireLease, Available
  <2>3. ASSUME NEW k \in Leases, Acquiring(k) PROVE ~keyed'
    BY <2>3 DEF Acquiring, PreparationDone, PreparationFails, PreparationTimesOut,
       DialRefused, DialAnswers, DialNotApplied, DialTimesOut, DialCompensated, Recheck, Check,
       StartAccepted, StartRejected, StartTimesOut, CompensationDone, CompensationFails
  <2>4. ASSUME NEW k \in Leases, Releasing(k) PROVE ~keyed'
    BY <2>1, <2>4 DEF Releasing, AwaitStartTimesOut, StopDone, StopFails, StopTimesOut,
       AwaitCompTimesOut, AwaitDialTimesOut, ClearCalled, ClearDone, ClearFails, ClearTimesOut,
       EndRelease
  <2>5. ASSUME NEW k \in Leases, Owner(k) \/ LateSettlement(k) PROVE FALSE
    BY <2>5 DEF Owner, ReleaseLease, PlaybackPhase, MarkActive, ForceInterrupt,
       RetryUnknownStop, CleanupDone, CleanupTimesOut, LateSettlement,
       LatePreparationSettles, LateCleanupSettles, LateStopSettles, LateClearSettles
  <2>6. ~Maintenance /\ ~UNCHANGED vars
    BY DEF Maintenance, StartMaintenance, MaintenanceTimesOut, MaintenanceSettles, vars
  <2>7. QED
    BY <2>2, <2>3, <2>4, <2>5, <2>6 DEF Next
<1>2. QED
  BY <1>1, InductiveInvariant, PTL DEF Spec, UnknownIsHeld

-----------------------------------------------------------------------------
(* Refinement: the report of every lease, and Stray as the lost PTT-off.   *)

Reports == [l \in Leases |-> lease[l].terminal]

\* The first state of the coordinator is one of TxOwnership.
LEMMA InitOwnership == Init => Ownership!Init
<1> SUFFICES ASSUME Init PROVE Ownership!Init
  OBVIOUS
<1>1. \A l \in Leases : lease[l].terminal = "none" /\ lease[l].start = "none"
  BY DEF Init, Unused, NewLease
<1>2. epoch = 0 /\ current = 0 /\ keyed = FALSE
  BY DEF Init, None
<1>3. QED
  BY <1>1, <1>2 DEF Ownership!Init, Ownership!NoOwner, Ownership!Leases, Leases, Stray

\* A step of one lease is a step of TxOwnership, or none.
LEMMA LocalStepOwnership ==
  ASSUME IInv, IInv', NEW l \in Leases, NEW r, LocalStep(l, r)
  PROVE  [Ownership!Next]_Ownership!vars
<1>1. lease' = [lease EXCEPT ![l] = r] /\ lease \in [Leases -> Lease]
  BY DEF LocalStep, Put, IInv, TypeOK
<1>2. lease'[l] = r /\ \A k \in Leases : k # l => lease'[k] = lease[k]
  BY <1>1
<1>3. l # None
  BY BoundsAssumption DEF Leases, None
<1>4. Stray => Stray'
  BY <1>2 DEF LocalStep, Stray
<1>5. keyed \in BOOLEAN /\ keyed' \in BOOLEAN
  BY DEF IInv, TypeOK
<1>6. \/ Reports' = Reports /\ (current' # current => r.terminal # "none")
      \/ /\ current = l /\ Reports[l] = "none"
         /\ \/ Reports' = [Reports EXCEPT ![l] = "failure"]
            \/ Reports' = [Reports EXCEPT ![l] = "success"] /\ current' = None
  BY <1>2 DEF LocalStep, Reports
<1>7. CASE current # None /\ current' = current
  <2>1. Ownership!Serve
    BY <1>3, <1>4, <1>5, <1>6, <1>7
       DEF LocalStep, Ownership!Serve, Ownership!NoOwner, None, Reports, Stray, Leases
  <2>2. QED
    BY <2>1 DEF Ownership!Next
<1>8. CASE current = l /\ current' = None
  <2>1. Stray' <=> Stray
    BY <1>2, <1>3, <1>4, <1>8 DEF LocalStep, Stray
  <2>2. keyed' => Stray
    BY <1>8, <2>1 DEF IInv
  <2>3. Ownership!GiveUp
    BY <1>2, <1>3, <1>5, <1>6, <1>8, <2>1, <2>2
       DEF LocalStep, Ownership!GiveUp, Ownership!NoOwner, None, Reports, Stray, Leases
  <2>4. QED
    BY <2>3 DEF Ownership!Next
<1>9. CASE current = None /\ current' = None
  <2>1. Reports' = Reports /\ (Stray' <=> Stray) /\ epoch' = epoch
    BY <1>2, <1>3, <1>4, <1>6, <1>9 DEF LocalStep, Stray
  <2>2. keyed' = keyed \/ keyed' = FALSE
    BY <1>3, <1>9 DEF LocalStep
  <2>3. QED
    BY <1>9, <2>1, <2>2 DEF Ownership!LateOff, Ownership!Next, Ownership!vars,
       Ownership!NoOwner, None, Reports, Stray
<1>10. QED
  BY <1>7, <1>8, <1>9 DEF LocalStep

\* So is that which makes a lease,
LEMMA AcquireLeaseOwnership ==
  ASSUME IInv, NEW q \in Requests, AcquireLease(q) PROVE Ownership!Grant
<1>1. /\ current = None /\ epoch < MaxLeases /\ epoch' = epoch + 1 /\ current' = epoch + 1
      /\ keyed' = keyed
  BY DEF AcquireLease, Available
<1>2. /\ lease' = [lease EXCEPT ![epoch + 1] = NewLease(q, "preparing")]
      /\ lease \in [Leases -> Lease] /\ epoch + 1 \in Leases
  BY BoundsAssumption DEF AcquireLease, Put, IInv, TypeOK, Leases
<1>3. /\ lease[epoch + 1].acq = "unused"
      /\ lease[epoch + 1].terminal = "none" /\ lease[epoch + 1].start = "none"
  BY <1>2, BoundsAssumption DEF IInv, TypeOK, StepOrder, Leases
<1>4. lease'[epoch + 1].terminal = "none" /\ lease'[epoch + 1].start = "none"
  BY <1>2 DEF NewLease
<1>5. \A k \in Leases : lease'[k].terminal = lease[k].terminal /\ lease'[k].start = lease[k].start
  BY <1>2, <1>3, <1>4
<1>6. Reports' = Reports /\ (Stray' <=> Stray)
  BY <1>5 DEF Reports, Stray
<1>7. keyed => Stray
  BY <1>1 DEF IInv
<1>8. QED
  BY <1>1, <1>6, <1>7 DEF Ownership!Grant, Ownership!NoOwner, None, Reports, Stray

\* and any step.
LEMMA NextOwnership ==
  ASSUME IInv, IInv', [Next]_vars PROVE [Ownership!Next]_Ownership!vars
<1>1. ASSUME NEW q \in Requests, AcquireLease(q) PROVE Ownership!Next
  BY <1>1, AcquireLeaseOwnership DEF Ownership!Next
<1>2. ASSUME NEW l \in Leases,
             Acquiring(l) \/ Releasing(l) \/ Owner(l) \/ LateSettlement(l)
      PROVE  [Ownership!Next]_Ownership!vars
  <2>1. PICK r : LocalStep(l, r)
    BY <1>2, LeaseStep
  <2>2. QED
    BY <2>1, LocalStepOwnership
<1>3. CASE Maintenance \/ UNCHANGED vars
  <2>1. UNCHANGED <<epoch, current, lease, keyed>>
    BY <1>3 DEF Maintenance, StartMaintenance, MaintenanceTimesOut, MaintenanceSettles, vars
  <2>2. QED
    BY <2>1 DEF Ownership!vars, Stray
<1>4. QED
  BY <1>1, <1>2, <1>3 DEF Next

\* The coordinator implements the ownership of the transmitter it promises.
THEOREM Refinement == Spec => ImplementsOwnership
<1>1. IInv /\ IInv' /\ [Next]_vars => [Ownership!Next]_Ownership!vars
  BY NextOwnership
<1>2. QED
  BY <1>1, InitOwnership, InductiveInvariant, PTL
     DEF Spec, ImplementsOwnership, Ownership!Spec

=============================================================================
