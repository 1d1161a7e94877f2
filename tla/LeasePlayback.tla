---------------------------- MODULE LeasePlayback ----------------------------
(***************************************************************************)
(* The audio of one physical lease: playAudioOnLease, replaceAudioOnLease, *)
(* startPlaybackGenerationLocked and observePlaybackGeneration of          *)
(* PhysicalTxCoordinator.  A replacement takes the running lease over from *)
(* the frame that is on air: it stops the older generation, waits for the  *)
(* output to drain and starts its own, while the older generation's        *)
(* completion, its tail hold, an interruption and the end of the lease     *)
(* are all on their way.                                                   *)
(*                                                                         *)
(* One call plays one frame, so a call is named by its frame; its pc is    *)
(* the await it is suspended at.  The lease itself is PhysicalTx seen from *)
(* here: it is acquired or not, may be told to stop, and its release ends  *)
(* confirmed or unknown.                                                   *)
(***************************************************************************)
EXTENDS Naturals, Sequences, FiniteSets

CONSTANTS
  MaxLeases,  \* bound on the leases granted in one behaviour
  MaxCalls    \* bound on the frames whose audio is asked for

ASSUME BoundsAssumption == MaxLeases \in Nat /\ MaxCalls \in Nat

Leases == 1..MaxLeases
Calls  == 1..MaxCalls
None   == 0

Lease == [
  acq     : {"unused", "acquiring", "granted", "failed"},
  stopReq : BOOLEAN,                                \* stopRequested
  cut     : BOOLEAN,                                \* forceInterrupt awaits its cleanup
  rel     : {"none", "running", "unknown", "done"}, \* releasePromise
  ok      : BOOLEAN,                                \* its success argument
  phase   : {"starting", "active", "draining", "stopping"},
  gen     : Nat,               \* playbackGeneration
  active  : Nat,               \* the generation of activePlayback
  drain   : Nat,               \* drainingGeneration
  frame   : 0..MaxCalls,       \* frameId
  queue   : Seq(Calls),        \* the chain of playbackTransition; its head runs
  spent   : BOOLEAN ]          \* no sample of the slot's waveform is left

Call == [
  lease    : 0..MaxLeases,
  pc       : {"idle", "acquiring", "abandoning", "playQueued", "remixing",
              "replaceQueued", "activation", "stopping", "preparing", "starting", "cleaning", "observing", "tail",
              "releasing", "ended"},
  expGen   : Nat,              \* expectedPlaybackGeneration
  expFrame : 0..MaxCalls,      \* expectedFrameId
  gen      : Nat,              \* the generation it was given
  result   : {"none", "success", "failure", "continues", "deferred",
              "thrown"} ]

VARIABLES
  epoch,    \* leases granted so far
  current,  \* the active lease, or None
  lease,
  call,
  audio,    \* the backend's playback of each call
  fenced    \* calls whose playback is a pending operation fence

vars == <<epoch, current, lease, call, audio, fenced>>

Init ==
  /\ epoch = 0
  /\ current = None
  /\ lease = [l \in Leases |->
       [acq |-> "unused", stopReq |-> FALSE, cut |-> FALSE, rel |-> "none",
        ok |-> FALSE, phase |-> "starting", gen |-> 0, active |-> 0, drain |-> 0,
        frame |-> None, queue |-> <<>>, spent |-> FALSE]]
  /\ call = [c \in Calls |->
       [lease |-> None, pc |-> "idle", expGen |-> 0, expFrame |-> None, gen |-> 0,
        result |-> "none"]]
  /\ audio = [c \in Calls |-> "none"]
  /\ fenced = {}

-----------------------------------------------------------------------------
Of(c) == lease[call[c].lease]    \* the lease of a call

Sounding(c) == audio[c] \in {"requested", "playing"}   \* its promise is pending

CanContinue(l) == current = l /\ ~lease[l].stopReq     \* assertLeaseCanContinue

ForceInterrupted(r) ==
  IF r.rel # "none" THEN r
  ELSE [r EXCEPT !.stopReq = TRUE, !.cut = TRUE, !.phase = "stopping"]

EnsureReleased(r, ok) ==
  IF r.rel # "none" THEN r
  ELSE [r EXCEPT !.stopReq = TRUE, !.phase = "stopping", !.rel = "running", !.ok = ok]

\* Mutant: a transition that is over keeps the chain.
DequeuedNever(r, c) == r

Dequeued(r, c) ==
  IF r.queue # <<>> /\ Head(r.queue) = c THEN [r EXCEPT !.queue = Tail(@)] ELSE r

PutLease(c, r) == lease' = [lease EXCEPT ![call[c].lease] = r]

PutCall(c, r) == call' = [call EXCEPT ![c] = r]

\* A call returns this result, and gives the transition chain up if it held it.
Ends(c, result) ==
  /\ PutLease(c, Dequeued(Of(c), c))
  /\ PutCall(c, [call[c] EXCEPT !.pc = "ended", !.result = result])

\* A call returns what the release returns, its own or the one already running.
Releases(c, ok) ==
  /\ PutLease(c, EnsureReleased(Dequeued(Of(c), c), ok))
  /\ PutCall(c, [call[c] EXCEPT !.pc = "releasing"])

\* Mutant: a failed replacement returns without releasing the lease.
ReplaceFailsQuietly(c) == Ends(c, "failure")

\* The catch block of replaceAudioOnLease.
ReplaceFails(c) ==
  IF current = call[c].lease THEN Releases(c, FALSE) ELSE Ends(c, "failure")

-----------------------------------------------------------------------------
(* The lease, and what the sources ask for                                 *)

\* Calls are numbered in the order in which they begin.
Fresh(c) == call[c].pc = "idle" /\ \A d \in 1..(c - 1) : call[d].pc # "idle"

\* A digital frame acquires the lease it will play on.
Acquire(c) ==
  /\ Fresh(c)
  /\ current = None /\ epoch < MaxLeases
  /\ \A d \in fenced : ~Sounding(d)
  /\ epoch' = epoch + 1
  /\ current' = epoch + 1
  /\ lease' = [lease EXCEPT ![epoch + 1].acq = "acquiring", ![epoch + 1].frame = c]
  /\ PutCall(c, [call[c] EXCEPT !.lease = epoch + 1, !.pc = "acquiring"])
  /\ UNCHANGED <<audio, fenced>>

Grant(l) ==
  /\ lease[l].acq = "acquiring" /\ CanContinue(l)
  /\ lease' = [lease EXCEPT ![l].acq = "granted"]
  /\ UNCHANGED <<epoch, current, call, audio, fenced>>

AcquireFails(c) ==
  /\ call[c].pc = "acquiring" /\ Of(c).acq = "acquiring"
  /\ LET r == [Of(c) EXCEPT !.acq = "failed"]
     IN  PutLease(c, IF current = call[c].lease THEN EnsureReleased(r, FALSE) ELSE r)
  /\ PutCall(c, [call[c] EXCEPT !.pc = "abandoning"])
  /\ UNCHANGED <<epoch, current, audio, fenced>>

Play(c) ==
  /\ call[c].pc = "acquiring" /\ Of(c).acq = "granted"
  /\ IF current = call[c].lease
     THEN /\ PutLease(c, [Of(c) EXCEPT !.queue = Append(@, c)])
          /\ PutCall(c, [call[c] EXCEPT !.pc = "playQueued"])
     ELSE Ends(c, "thrown")
  /\ UNCHANGED <<epoch, current, audio, fenced>>

\* The frame no longer fits after the PTT acknowledgement: forceInterruptLease.
GiveUp(c) ==
  /\ call[c].pc = "acquiring" /\ Of(c).acq = "granted"
  /\ PutLease(c, IF current = call[c].lease THEN ForceInterrupted(Of(c)) ELSE Of(c))
  /\ PutCall(c, [call[c] EXCEPT !.pc = "abandoning"])
  /\ UNCHANGED <<epoch, current, audio, fenced>>

\* Either of them waits for the release before it returns.
Abandoned(c) ==
  /\ call[c].pc = "abandoning" /\ Of(c).rel \in {"unknown", "done"}
  /\ Ends(c, "thrown")
  /\ UNCHANGED <<epoch, current, audio, fenced>>

\* replaceCommittedFrameAudio: a corrected frame looks at the running lease, and mixes
\* what is left of its waveform.
Remix(c, l) ==
  /\ Fresh(c)
  /\ current = l /\ ~lease[l].spent
  /\ PutCall(c, [call[c] EXCEPT !.lease = l, !.pc = "remixing",
                   !.expGen = lease[l].gen, !.expFrame = lease[l].frame])
  /\ UNCHANGED <<epoch, current, lease, audio, fenced>>

\* fits: something is left, and it ends before the slot does.
Replace(c, fits) ==
  /\ call[c].pc = "remixing"
  /\ fits => ~Of(c).spent
  /\ IF fits /\ current = call[c].lease /\ Of(c).gen = call[c].expGen
     THEN /\ PutLease(c, [Of(c) EXCEPT !.queue = Append(@, c)])
          /\ PutCall(c, [call[c] EXCEPT !.pc = "replaceQueued"])
     ELSE Ends(c, "deferred")
  /\ UNCHANGED <<epoch, current, audio, fenced>>

Interrupt(l) ==
  /\ CanContinue(l)
  /\ lease' = [lease EXCEPT ![l] = ForceInterrupted(@)]
  /\ UNCHANGED <<epoch, current, call, audio, fenced>>

\* Its cleanup stopped the audio, or timed out and left it fenced.
InterruptReleases(l) ==
  /\ lease[l].cut
  /\ lease' = [lease EXCEPT ![l] = EnsureReleased([@ EXCEPT !.cut = FALSE], FALSE)]
  /\ fenced' = fenced \cup {c \in Calls : Sounding(c) /\ call[c].lease = l}
  /\ UNCHANGED <<epoch, current, call, audio>>

\* handleAudioOutputIssue
OutputFails(l) ==
  /\ current = l /\ lease[l].phase = "draining" /\ lease[l].active = 0
  /\ lease' = [lease EXCEPT ![l] = EnsureReleased(@, FALSE)]
  /\ UNCHANGED <<epoch, current, call, audio, fenced>>

ReleaseEnds(l, confirmed) ==
  /\ lease[l].rel = "running"
  /\ lease' = [lease EXCEPT ![l].rel = IF confirmed THEN "done" ELSE "unknown"]
  /\ current' = IF confirmed THEN None ELSE current
  /\ UNCHANGED <<epoch, call, audio, fenced>>

RetryUnknownStop(l) ==
  /\ lease[l].rel = "unknown"
  /\ lease' = [lease EXCEPT ![l].rel = "running", ![l].ok = FALSE]
  /\ UNCHANGED <<epoch, current, call, audio, fenced>>

-----------------------------------------------------------------------------
(* runPlaybackTransition: one transition of a lease at a time               *)

\* Mutant: a transition does not wait for the one before it.
FirstAlways(c) == TRUE

First(c) == Of(c).queue # <<>> /\ Head(Of(c).queue) = c

\* A generation is started on the lease record r.
StartsAudio(c, r, generation) ==
  /\ PutLease(c, r)
  /\ PutCall(c, [call[c] EXCEPT !.pc = "starting", !.gen = generation])
  /\ audio' = [audio EXCEPT ![c] = "requested"]

EnterPlay(c) ==
  /\ call[c].pc = "playQueued" /\ First(c)
  /\ IF ~CanContinue(call[c].lease) THEN Ends(c, "thrown") /\ UNCHANGED audio
     ELSE IF Of(c).frame # c THEN Ends(c, "continues") /\ UNCHANGED audio
     ELSE IF Of(c).active # 0 THEN Ends(c, "thrown") /\ UNCHANGED audio
     ELSE StartsAudio(c, [Of(c) EXCEPT !.gen = @ + 1], Of(c).gen + 1)
  /\ UNCHANGED <<epoch, current, fenced>>

\* Mutant: the lease names the new frame before its audio starts.
HandOverNames(c) ==
  /\ PutLease(c, [Of(c) EXCEPT !.gen = @ + 1, !.drain = 0, !.frame = c])
  /\ PutCall(c, [call[c] EXCEPT !.gen = Of(c).gen + 1,
                   !.pc = IF Of(c).active = 0 THEN "preparing" ELSE "stopping"])

\* The rest of the waveform still fits its slot, and the frame is committed.
HandOver(c) ==
  /\ PutLease(c, [Of(c) EXCEPT !.gen = @ + 1, !.drain = 0])
  /\ PutCall(c, [call[c] EXCEPT !.gen = Of(c).gen + 1,
                   !.pc = IF Of(c).active = 0 THEN "preparing" ELSE "stopping"])

AsExpected(c) == Of(c).gen = call[c].expGen /\ Of(c).frame = call[c].expFrame

\* committed: the waveform still fits, and onHandoverCommitted takes the frame.
EnterReplace(c, committed) ==
  /\ call[c].pc = "replaceQueued" /\ First(c)
  /\ committed => ~Of(c).spent
  /\ IF ~CanContinue(call[c].lease) THEN ReplaceFails(c)
     ELSE IF ~AsExpected(c) THEN Ends(c, "continues")
     ELSE IF Of(c).acq # "granted"
          THEN PutCall(c, [call[c] EXCEPT !.pc = "activation"]) /\ UNCHANGED lease
     ELSE IF committed THEN HandOver(c)
     ELSE Ends(c, "continues")
  /\ UNCHANGED <<epoch, current, audio, fenced>>

Activated(c, committed) ==
  /\ call[c].pc = "activation" /\ Of(c).acq = "granted"
  /\ IF ~CanContinue(call[c].lease) THEN ReplaceFails(c)
     ELSE IF committed THEN HandOver(c)
     ELSE Ends(c, "continues")
  /\ UNCHANGED <<epoch, current, audio, fenced>>

\* The acquisition failed, or the replacement waited too long for it.
NotActivated(c) ==
  /\ call[c].pc = "activation" /\ Of(c).acq # "granted"
  /\ ReplaceFails(c)
  /\ UNCHANGED <<epoch, current, audio, fenced>>

Replaced(c) == CHOOSE d \in Calls :
  call[d].lease = call[c].lease /\ call[d].gen = Of(c).active

\* Mutant: the stop of the old audio is not awaited.
OldAudioStopForgotten(c) ==
  /\ call[c].pc = "stopping" /\ CanContinue(call[c].lease)
  /\ PutLease(c, [Of(c) EXCEPT !.active = 0])
  /\ PutCall(c, [call[c] EXCEPT !.pc = "preparing"])
  /\ UNCHANGED <<epoch, current, audio, fenced>>

\* stopCurrentPlayback resolves when the playback it stops has settled.
OldAudioStopped(c) ==
  /\ call[c].pc = "stopping" /\ ~Sounding(Replaced(c))
  /\ IF CanContinue(call[c].lease)
     THEN /\ PutLease(c, [Of(c) EXCEPT !.active = 0])
          /\ PutCall(c, [call[c] EXCEPT !.pc = "preparing"])
     ELSE ReplaceFails(c)
  /\ UNCHANGED <<epoch, current, audio, fenced>>

OldAudioStopTimesOut(c) ==
  /\ call[c].pc = "stopping" /\ Sounding(Replaced(c))
  /\ fenced' = fenced \cup {Replaced(c)}
  /\ ReplaceFails(c)
  /\ UNCHANGED <<epoch, current, audio>>

\* prepareAudioPlayback, and the last look at what is left of the slot.
OutputPrepared(c, ready) ==
  /\ call[c].pc = "preparing"
  /\ IF ready /\ CanContinue(call[c].lease)
     THEN StartsAudio(c, Of(c), call[c].gen)
     ELSE ReplaceFails(c) /\ UNCHANGED audio
  /\ UNCHANGED <<epoch, current, fenced>>

-----------------------------------------------------------------------------
(* startPlaybackGenerationLocked and observePlaybackGeneration              *)

\* The catch block of startPlaybackGenerationLocked.
StartFails(c) ==
  /\ fenced' = fenced \cup {c}
  /\ IF Of(c).stopReq THEN Releases(c, FALSE)
     ELSE UNCHANGED lease /\ PutCall(c, [call[c] EXCEPT !.pc = "cleaning"])

\* The first samples reached the hardware.
AudioStarts(c) ==
  /\ audio[c] = "requested"
  /\ audio' = [audio EXCEPT ![c] = "playing"]
  /\ IF call[c].pc # "starting" THEN UNCHANGED <<lease, call, fenced>>
     ELSE IF ~CanContinue(call[c].lease) THEN StartFails(c)
     ELSE IF Of(c).gen # call[c].gen THEN Ends(c, "continues") /\ UNCHANGED fenced
     ELSE /\ PutLease(c, [Dequeued(Of(c), c) EXCEPT
               !.active = call[c].gen, !.frame = c, !.phase = "active"])
          /\ PutCall(c, [call[c] EXCEPT !.pc = "observing"])
          /\ UNCHANGED fenced
  /\ UNCHANGED <<epoch, current>>

\* playAudio rejects before the hardware acknowledged, or its timer fires.
AudioStartFails(c) ==
  /\ call[c].pc = "starting"
  /\ audio' \in {audio, [audio EXCEPT ![c] = "failed"]}
  /\ StartFails(c)
  /\ UNCHANGED <<epoch, current>>

AudioSettles(c, how) ==
  /\ Sounding(c)
  /\ how = "completed" => audio[c] = "playing"
  /\ call[c].pc # "starting"
  /\ audio' = [audio EXCEPT ![c] = how]
  /\ UNCHANGED <<epoch, current, lease, call, fenced>>

\* The stop after a failed start answered, or timed out.
CleanupEnds(c) ==
  /\ call[c].pc = "cleaning"
  /\ fenced' = fenced \cup (IF Sounding(c) THEN {c} ELSE {})
  /\ Releases(c, FALSE)
  /\ UNCHANGED <<epoch, current, audio>>

PlaybackIsCurrent(c) ==
  current = call[c].lease /\ Of(c).gen = call[c].gen /\ Of(c).active = call[c].gen

\* The stop after a failed playback finds nothing playing and answers at once.
Observe(c) ==
  /\ call[c].pc = "observing" /\ ~Sounding(c)
  /\ IF ~PlaybackIsCurrent(c) THEN Ends(c, "continues")
     ELSE IF Of(c).stopReq \/ audio[c] = "failed" THEN Releases(c, FALSE)
     ELSE /\ PutLease(c, [Of(c) EXCEPT !.active = 0, !.drain = call[c].gen,
                                       !.phase = "draining"])
          /\ PutCall(c, [call[c] EXCEPT !.pc = "tail"])
  /\ UNCHANGED <<epoch, current, audio, fenced>>

\* Mutant: a replacement in the tail hold is not noticed.
TailIsHeld(c) == current = call[c].lease

TailIsCurrent(c) ==
  /\ current = call[c].lease
  /\ Of(c).gen = call[c].gen /\ Of(c).drain = call[c].gen /\ Of(c).active = 0

\* The tail hold is longer than the audio an output holds back: nothing of the slot's
\* waveform is left when it ends.  All holds are DIGITAL_TAIL_HOLD_MS long: they end in
\* the order they began.
TailEnds(c) ==
  /\ call[c].pc = "tail"
  /\ \A d \in Calls : (call[d].pc = "tail" /\ call[d].lease = call[c].lease)
                        => call[c].gen <= call[d].gen
  /\ IF Of(c).rel # "none" THEN Releases(c, FALSE)
     ELSE IF ~TailIsCurrent(c) THEN Ends(c, "continues")
     ELSE /\ PutLease(c, EnsureReleased([Of(c) EXCEPT !.drain = 0, !.spent = TRUE], TRUE))
          /\ PutCall(c, [call[c] EXCEPT !.pc = "releasing"])
  /\ UNCHANGED <<epoch, current, audio, fenced>>

\* The release this call waits for has returned.
Released(c) ==
  /\ call[c].pc = "releasing" /\ Of(c).rel \in {"unknown", "done"}
  /\ Ends(c, IF Of(c).rel = "done" /\ Of(c).ok THEN "success" ELSE "failure")
  /\ UNCHANGED <<epoch, current, audio, fenced>>

-----------------------------------------------------------------------------
Enter(c) == EnterPlay(c) \/ \E committed \in BOOLEAN : EnterReplace(c, committed)

Transition(c) ==
  \/ \E committed \in BOOLEAN : Activated(c, committed)
  \/ NotActivated(c) \/ OldAudioStopped(c) \/ OldAudioStopTimesOut(c)
  \/ \E ready \in BOOLEAN : OutputPrepared(c, ready)

Playback(c) ==
  \/ AudioStarts(c) \/ AudioStartFails(c) \/ CleanupEnds(c) \/ Observe(c)
  \/ \E how \in {"completed", "failed"} : AudioSettles(c, how)
  \/ TailEnds(c) \/ Released(c)

Pipeline(c) ==
  \/ Acquire(c) \/ AcquireFails(c) \/ Play(c) \/ GiveUp(c) \/ Abandoned(c)
  \/ \E l \in Leases : Remix(c, l)
  \/ \E fits \in BOOLEAN : Replace(c, fits)

Physical(l) ==
  \/ Grant(l) \/ Interrupt(l) \/ InterruptReleases(l) \/ OutputFails(l)
  \/ RetryUnknownStop(l)
  \/ \E confirmed \in BOOLEAN : ReleaseEnds(l, confirmed)

\* The transition a lease's chain has come to is a continuation that is already due: it
\* runs before any timer fires and before any answer of the hardware is seen.
Due(c) == call[c].pc \in {"playQueued", "replaceQueued"} /\ First(c)

Next ==
  \/ \E c \in Calls : Enter(c)
  \/ /\ \A c \in Calls : ~Due(c)
     /\ \/ \E c \in Calls : Transition(c) \/ Playback(c) \/ Pipeline(c)
        \/ \E l \in Leases : Physical(l)

Spec == Init /\ [][Next]_vars

\* What a call does next is due: timers fire, the owner of a granted lease plays or gives
\* up, the backend ends what it began, a playback that started comes to an end.
Advance(c) ==
  \/ AcquireFails(c) \/ Play(c) \/ Replace(c, FALSE) \/ Enter(c) \/ Transition(c)
  \/ AudioStartFails(c) \/ CleanupEnds(c) \/ Observe(c)
  \/ AudioSettles(c, "completed") \/ TailEnds(c)

\* A release and an acquisition end (PhysicalTx: StopIsBounded, AcquireIsBounded).  A
\* release that has answered stays answered for the calls that wait for it, whatever
\* RetryUnknownStop starts next: hence the strong fairness.
Fairness ==
  /\ \A c \in Calls : WF_vars(Advance(c)) /\ SF_vars(Abandoned(c) \/ Released(c))
  /\ \A l \in Leases : WF_vars(InterruptReleases(l) \/ ReleaseEnds(l, FALSE))

FairSpec == Spec /\ Fairness

-----------------------------------------------------------------------------
(* Properties                                                              *)

\* The types of the state.
TypeOK ==
  /\ epoch \in 0..MaxLeases /\ current \in 0..epoch
  /\ lease \in [Leases -> Lease]
  /\ call \in [Calls -> Call]
  /\ audio \in [Calls -> {"none", "requested", "playing", "completed", "failed"}]
  /\ fenced \subseteq Calls

\* A replacement never sounds together with what it replaces (the stop, the transition
\* chain and the failure paths together).
OneAudible ==
  \A c, d \in Calls :
    (Sounding(c) /\ Sounding(d) /\ call[c].lease = call[d].lease) => c = d

\* "Its late completion cannot release PTT or overwrite the replacement frame state":
\* a lease is released as a success only by its last generation, played to the end; and
\* a source is told that its frame was transmitted only if its own audio was, although
\* the calls on a lease share one release and its one result.
SuccessIsEarned ==
  /\ \A l \in Leases : lease[l].ok =>
       \E c \in Calls :
         call[c].lease = l /\ call[c].gen = lease[l].gen /\ audio[c] = "completed"
  /\ \A c \in Calls : call[c].result = "success" => audio[c] = "completed"

\* "Keep the starting lease identity immutable while waiting so UI and competing
\* transitions still see the predecessor": while a frame's audio is on, through a whole
\* handover, the lease carries that frame.
FrameIsOnAir ==
  \A c \in Calls :
    (call[c].pc = "observing" /\ Sounding(c) /\ current = call[c].lease) => Of(c).frame = c

\* The inductive invariant behind these.
\* A call that is in the chain is in the queue of its lease, once; a transition that has
\* begun is its head.
Begun == {"activation", "stopping", "preparing", "starting", "cleaning"}

InChain == {"playQueued", "replaceQueued"} \cup Begun

ChainHolds ==
  /\ \A l \in Leases : \A i \in DOMAIN lease[l].queue :
       /\ call[lease[l].queue[i]].lease = l /\ call[lease[l].queue[i]].pc \in InChain
       /\ \A j \in DOMAIN lease[l].queue : lease[l].queue[i] = lease[l].queue[j] => i = j
  /\ \A c \in Calls : call[c].pc \in InChain =>
       \E i \in DOMAIN Of(c).queue : Of(c).queue[i] = c
  /\ \A c \in Calls : call[c].pc \in Begun => First(c)

\* A generation is given once, in the order of the chain, after the acquisition; and it
\* cannot change while the audio of a transition starts: the check after the start
\* acknowledgement never fires.
NumberHolds(c) ==
  /\ call[c].lease \in 0..epoch /\ (call[c].lease = None <=> call[c].pc = "idle")
  /\ call[c].lease # None => call[c].gen <= Of(c).gen
  /\ call[c].pc \in {"idle", "acquiring", "abandoning", "playQueued", "remixing",
                     "replaceQueued", "activation"} => call[c].gen = 0
  /\ call[c].pc = "playQueued" => Of(c).acq = "granted"
  /\ call[c].pc = "activation" => Of(c).gen = 0
  /\ call[c].pc \in {"stopping", "preparing", "starting", "cleaning"} =>
       Of(c).gen = call[c].gen
  /\ call[c].pc \in {"stopping", "preparing", "starting", "cleaning", "observing",
                     "tail"} => call[c].gen # 0

GenerationsHold ==
  /\ \A l \in Leases :
       /\ lease[l].gen # 0 => lease[l].acq = "granted" /\ l <= epoch
       /\ lease[l].active # 0 =>
            \E c \in Calls : call[c].lease = l /\ call[c].gen = lease[l].active
  /\ \A c \in Calls : NumberHolds(c)
  /\ \A c, d \in Calls :
       (call[c].lease = call[d].lease /\ call[c].gen = call[d].gen /\ call[c].gen # 0)
         => c = d

\* What each call knows of its sound; on a lease that goes on, the audio that sounds is
\* being started, or is the active playback of the frame that the lease carries.
SoundHolds(c) ==
  /\ call[c].gen = 0 \/ call[c].pc \in {"stopping", "preparing"} => audio[c] = "none"
  /\ call[c].pc = "starting" => audio[c] = "requested"
  /\ call[c].pc = "observing" => audio[c] \in {"playing", "completed", "failed"}
  /\ call[c].pc = "tail" => audio[c] = "completed"
  /\ call[c].pc \in {"preparing", "starting"} => Of(c).active = 0
  /\ call[c].pc = "stopping" => Of(c).active # 0
  /\ Sounding(c) => call[c].pc \in {"starting", "cleaning", "observing"} \/ Of(c).stopReq
  /\ (call[c].pc = "observing" /\ Sounding(c)) =>
       Of(c).frame = c /\ (Of(c).active = call[c].gen \/ Of(c).stopReq)

SoundsHold == \A c \in Calls : SoundHolds(c)

\* A release that is a success was begun by the last generation, when nothing was left to
\* replace it with: no other call can share its result.
WaitHolds(c) ==
  /\ call[c].pc = "releasing" =>
       Of(c).rel # "none" /\ (Of(c).ok => audio[c] = "completed")
  /\ call[c].pc \in {"replaceQueued"} \cup Begun => ~Of(c).spent

ReleasesHold ==
  /\ \A l \in Leases :
       /\ lease[l].rel # "none" => lease[l].stopReq
       /\ lease[l].ok => lease[l].spent
       /\ lease[l].spent => lease[l].rel # "none"
  /\ \A c \in Calls : WaitHolds(c)

IInv ==
  /\ TypeOK /\ ChainHolds /\ GenerationsHold /\ SoundsHold /\ ReleasesHold
  /\ OneAudible /\ SuccessIsEarned

\* In the end every call on a lease has returned, for none waits for another for ever.
EveryCallReturns == <>[](\A c \in Calls : call[c].pc \in {"idle", "ended"})

\* A transmitter keyed for digital audio is not left keyed: again and again, whoever
\* replaced whom, every lease that was granted is released or declared unknown.
LeaseIsReleased ==
  []<>(\A l \in Leases : lease[l].acq = "granted" => lease[l].rel \in {"unknown", "done"})
=============================================================================
