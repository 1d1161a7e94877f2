------------------------------ MODULE DigitalTx ------------------------------
(***************************************************************************)
(* The way of a digital transmission: the queue of the operators' messages *)
(* (RadioOperatorManager), the frames made of them (DigitalFrames), and    *)
(* TransmissionPipeline, which mixes a frame, takes the transmitter for it *)
(* or hands over the lease of the frame it corrects, and plays it.         *)
(*                                                                         *)
(* A behaviour is a sequence of transmit slots, the same for all           *)
(* operators.  Each frame has one asynchronous call in the pipeline, named *)
(* by its frame; its "at" is the await it is suspended at.  What an        *)
(* operator would send is asked of its strategy: `says' is that it has     *)
(* something.  A message is known by the epoch of the command it belongs   *)
(* to.  The lease is the one of LeasePlayback, as one frame at a time sees *)
(* it; what its audio does is an input.                                    *)
(***************************************************************************)
EXTENDS DigitalFrames

CONSTANTS
  MaxFrames,    \* bound on the frames of a behaviour
  Commands      \* which commands are given to operators, and from outside, in a behaviour

ASSUME MaxFramesAssumption == MaxFrames \in Nat
ASSUME CommandsAssumption ==
  Commands \subseteq {"start", "stop", "edit", "decide", "remove", "force", "interrupt"}

Frames == 1..MaxFrames

Call == [
  at   : {"none", "sched", "mix", "acquire", "final", "play", "starting", "remix",
          "replace", "activation", "handover", "sound", "tail", "wait", "ended"},
  whole: BOOLEAN,               \* the mix has a track of every participant, see HasTracks
  on   : 0..MaxFrames,          \* the lease it is on, named by the frame that acquired it
  seen : 0..MaxFrames,          \* the generation the replaced lease had, see `last'
  by   : SUBSET Operators,      \* whose removal waits for this frame to start
  then : {"none", "finish", "defer", "fail"},     \* when the lease is released
  got  : {"none", "over", "retry"} ]              \* what the release returned

NoCall == [at |-> "none", whole |-> FALSE, on |-> None, seen |-> None, by |-> {},
           then |-> "none", got |-> "none"]
Over   == [NoCall EXCEPT !.at = "ended"]

Lease == [
  phase   : {"idle", "starting", "active", "draining", "stopping", "unknown"},
  owner   : 0..MaxFrames,       \* the frame that acquired it
  frame   : 0..MaxFrames,       \* frameId
  last    : 0..MaxFrames,       \* whose audio has its last generation
  granted : BOOLEAN,            \* acquireLease has returned
  chain   : Seq(Frames),        \* playbackTransition
  end     : {"none", "over", "retry"} ]  \* success and failure are told apart in LeasePlayback

NoLease == [phase |-> "idle", owner |-> None, frame |-> None, last |-> None,
            granted |-> FALSE, chain |-> <<>>, end |-> "none"]

VARIABLES
  slot,      \* the current slot
  started,   \* its encodeStart has been
  op,        \* isTransmitting and the command epoch of each operator
  removal,   \* of each operator from the frame on the air
  queue,     \* pendingTransmissions, at most one of an operator: their epochs
  fc,        \* the digital frame coordinator
  call,
  lease,
  forced     \* the lease forceStopTransmission waits for

vars == <<slot, started, op, removal, queue, fc, call, lease, forced>>

Empty == [o \in {} |-> 0]    \* a queue of nothing

Init ==
  /\ slot = 1 /\ started = FALSE
  /\ op = [o \in Operators |-> [tx |-> TRUE, epoch |-> 0]]
  /\ removal = [o \in Operators |-> [at |-> "none", epoch |-> 0]]
  /\ queue = Empty
  /\ fc = NoFrames
  /\ call = [f \in Frames |-> NoCall]
  /\ lease = NoLease
  /\ forced = None

-----------------------------------------------------------------------------
(* The queue of messages: functions from the queue q, the coordinator c and *)
(* the operators ops to the next queue and coordinator                      *)

Book(c, q) == [fc |-> c, queue |-> q]

Sets(book) == fc' = book.fc /\ queue' = book.queue

\* The bound on frames: each removal that has been asked for may still prepare one.
Room == MaxFrames - Cardinality({o \in Operators : removal[o].at = "asked"})

Writes(book) ==
  /\ Sets(book)
  /\ Len(fc'.frames) > Len(fc.frames) => Len(fc'.frames) <= Room

Dropped(q, o) == Restrict(q, DOMAIN q \ {o})

\* processPendingTransmissions: the frame of the slot is made anew, of all that is queued
\* and of what the frame it has was made of.  fits: see Defers.
Processed(c, q, ops, fits) ==
  LET g       == CurrentFrame(c, slot)
      all     == IF g = None THEN q ELSE Merged(q, Intents(c, g))
      wanted  == {o \in DOMAIN all : ops[o].tx /\ all[o] = ops[o].epoch}
      intents == Restrict(all, wanted)
  IN  IF q = Empty THEN Book(c, q)
      ELSE IF wanted = {} THEN Book(c, Empty)
      ELSE IF Defers(c, slot, fits) THEN Book(c, intents)
      ELSE Book(PrepareFrame(c, slot, intents), Empty)

Pushed(c, q, ops, o, fits) == Processed(c, Merged([p \in {o} |-> ops[o].epoch], q), ops, fits)

\* Mutant: what is put back replaces what was queued since.
RequeuedOver(q, intents, ops) ==
  Merged(Restrict(intents, {o \in DOMAIN intents : ops[o].tx}), q)

\* requeueForNextSlot
Requeued(q, intents, ops) ==
  Merged(q, Restrict(intents, {o \in DOMAIN intents : ops[o].tx}))

\* deferPreparedFrameToNextSlot
Deferred(c, q, f) ==
  LET d == DeferFrame(c, f)
  IN  Book(d, IF Phase(d, f) = "cancelled" THEN Requeued(q, Intents(c, f), op) ELSE q)

\* Mutant: a frame that was replaced on its lease is not completed.
FinishedAlone(c, q, f, result) ==
  Book(IF result = "continues" THEN c ELSE CompleteFrame(c, f), q)

\* finishDigitalFramePlayback, after requeuePhysicalFrameAfterOutputFailure.
Finished(c, q, f, result) ==
  LET current == {o \in Parts(c, f) : Intents(c, f)[o] = op[o].epoch}
  IN  Book(CompleteFrame(c, f),
           IF result = "retry" THEN Requeued(q, Restrict(Intents(c, f), current), op) ELSE q)

\* Mutant: the candidate an operator leaves goes on as it is.
StrategyStopDefers(c, q, ops, o, fits) == Book(c, q)

\* requestStrategyStop: an operator leaves the candidate it is in.
StrategyStop(c, q, ops, o, fits) ==
  LET f      == LatestFrameOf(c, o)
      others == Restrict(Intents(c, f), Parts(c, f) \ {o})
      rest   == Merged(Restrict(others, {p \in DOMAIN others : ops[p].tx}), q)
  IN  IF f = None \/ Phase(c, f) \notin Candidate THEN Book(c, q)
      ELSE IF others = Empty THEN Book(CancelFrame(c, f), q)
      ELSE Processed(CancelFrame(c, f), rest, ops, fits)

-----------------------------------------------------------------------------
(* Operators                                                               *)

Command(o, tx) == [op EXCEPT ![o] = [tx |-> tx, epoch |-> @.epoch + 1]]

\* startOperator.  An operator that starts again is no longer removed.
StartOperator(o, says, fits) ==
  /\ "start" \in Commands
  /\ ~op[o].tx
  /\ op' = [op EXCEPT ![o].tx = TRUE]
  /\ removal' = [removal EXCEPT ![o].at = IF @ = "done" THEN "none" ELSE @]
  /\ Writes(IF says THEN Pushed(fc, queue, op', o, fits) ELSE Book(fc, queue))
  /\ UNCHANGED <<slot, started, call, lease, forced>>

StopOperator(o, fits) ==
  /\ "stop" \in Commands
  /\ op[o].epoch < MaxCommands
  /\ op' = Command(o, FALSE)
  /\ Writes(StrategyStop(fc, Dropped(queue, o), Command(o, TRUE), o, fits))
  /\ UNCHANGED <<slot, started, removal, call, lease, forced>>

\* requestOperatorFrameMutation: the frequency, the cycles or the message was edited.
EditOperator(o, says, fits) ==
  /\ "edit" \in Commands
  /\ op[o].epoch < MaxCommands
  /\ op' = Command(o, op[o].tx)
  /\ Writes(IF says /\ op[o].tx THEN Pushed(fc, Dropped(queue, o), op', o, fits)
            ELSE StrategyStop(fc, Dropped(queue, o), op', o, fits))
  /\ UNCHANGED <<slot, started, removal, call, lease, forced>>

\* A decision on late decodes takes an epoch, and asks for a new frame if it changed the
\* message.  What happens while it is being made happens between one that changed nothing
\* and one that did.
Decide(o, changed, fits) ==
  /\ "decide" \in Commands
  /\ op[o].tx /\ op[o].epoch < MaxCommands
  /\ op' = Command(o, TRUE)
  /\ Writes(IF changed THEN Pushed(fc, queue, op', o, fits) ELSE Book(fc, queue))
  /\ UNCHANGED <<slot, started, removal, call, lease, forced>>

\* handleEncodeStart, the requests it makes, and onEncodeStart.
EncodeStart(says, fits) ==
  /\ ~started
  /\ started' = TRUE
  /\ LET asked == [o \in {o \in says : op[o].tx} |-> op[o].epoch]
     IN  Writes(Processed(fc, Merged(asked, queue), op, fits))
  /\ UNCHANGED <<slot, op, removal, call, lease, forced>>

\* clearSlotCache: the mixer forgets what is not retained, and the scheduled mix.
CacheCleared(c) ==
  [c EXCEPT !.frames = [f \in DOMAIN @ |->
     IF @[f].phase \in Live THEN @[f] ELSE [@[f] EXCEPT !.tracks = {}]]]

Unscheduled == [f \in Frames |-> IF call[f].at = "sched" THEN Over ELSE call[f]]

NextSlot ==
  /\ slot < MaxSlot
  /\ slot' = slot + 1 /\ started' = FALSE
  /\ LET c == CancelPreCommitOutside(fc, slot')
     IN  IF lease.phase = "idle" THEN fc' = CacheCleared(c) /\ call' = Unscheduled
         ELSE fc' = c /\ UNCHANGED call
  /\ UNCHANGED <<op, removal, queue, lease, forced>>

-----------------------------------------------------------------------------
(* The lease                                                               *)

Running == {"starting", "active", "draining"}

Stopped(l, end) ==
  IF l.phase \in Running THEN [l EXCEPT !.phase = "stopping", !.end = end] ELSE l

OnLease(f)     == lease.phase # "idle" /\ lease.owner = call[f].on
CanContinue(f) == OnLease(f) /\ lease.phase \in Running
First(f)       == OnLease(f) => Head(lease.chain) = f

Left(l, f) == IF l.chain # <<>> /\ Head(l.chain) = f THEN [l EXCEPT !.chain = Tail(@)] ELSE l

\* What is left of the frame's waveform ends before its slot does.
MayFit(f) == fc.frames[f].slot = slot

Puts(f, at) == call' = [call EXCEPT ![f].at = at]

\* Mutant: a removal that was not carried out keeps its turn.
ReturnsHeld(f, book) == Writes(book) /\ call' = [call EXCEPT ![f] = [Over EXCEPT !.by = call[f].by]]

Returns(f, book) == Writes(book) /\ call' = [call EXCEPT ![f] = Over]

\* The call waits for the release of its lease.
Waits(f, then) ==
  call' = [call EXCEPT ![f].at = "wait", ![f].then = then,
             ![f].got = IF OnLease(f) /\ lease.phase = "unknown" THEN "over" ELSE @]

\* The lease is cut, or was, and the call waits for its end; or it is over.
CutsLease(f, then) ==
  IF OnLease(f)
  THEN Waits(f, then) /\ lease' = Stopped(Left(lease, f), "over") /\ UNCHANGED <<fc, queue>>
  ELSE /\ UNCHANGED lease
       /\ Returns(f, IF then = "defer" THEN Deferred(fc, queue, f)
                     ELSE Finished(fc, queue, f, "over"))

\* A user, the PTT monitor or the duration limit: forceInterrupt.
Interrupt ==
  /\ "interrupt" \in Commands
  /\ lease.phase \in Running
  /\ lease' = Stopped(lease, "over")
  /\ UNCHANGED <<slot, started, op, removal, queue, fc, call, forced>>

\* handleAudioOutputIssue
OutputFails ==
  /\ lease.phase = "draining"
  /\ \A f \in Frames : ~(call[f].at = "sound" /\ OnLease(f))
  /\ lease' = Stopped(lease, "retry")
  /\ UNCHANGED <<slot, started, op, removal, queue, fc, call, forced>>

ForceStopTransmission ==
  /\ "force" \in Commands
  /\ forced = None
  /\ lease' = Stopped(lease, "over")
  /\ IF lease.phase \in {"idle", "unknown"}
     THEN fc' = CacheCleared(fc) /\ call' = Unscheduled /\ UNCHANGED forced
     ELSE forced' = lease.owner /\ UNCHANGED <<fc, call>>
  /\ UNCHANGED <<slot, started, op, removal, queue>>

ForcedIsOver == forced # None /\ (lease.owner # forced \/ lease.phase = "unknown")

ForceStopEnds ==
  /\ ForcedIsOver
  /\ forced' = None
  /\ fc' = CacheCleared(fc) /\ call' = Unscheduled
  /\ UNCHANGED <<slot, started, op, removal, queue, lease>>

\* The release of the lease ends, and every call on it has the result.
Released(confirmed) ==
  /\ lease.phase = "stopping"
  /\ lease' = IF confirmed THEN NoLease ELSE [lease EXCEPT !.phase = "unknown"]
  /\ call' = [f \in Frames |->
       IF call[f].on = lease.owner /\ call[f].got = "none"
       THEN [call[f] EXCEPT !.got = IF confirmed THEN lease.end ELSE "over"]
       ELSE call[f]]
  /\ UNCHANGED <<slot, started, op, removal, queue, fc, forced>>

RetryUnknownStop ==
  /\ lease.phase = "unknown"
  /\ lease' = [lease EXCEPT !.phase = "stopping", !.end = "over"]
  /\ UNCHANGED <<slot, started, op, removal, queue, fc, call, forced>>

-----------------------------------------------------------------------------
(* Encoding and mixing a frame                                             *)

HasTracks(c, f) == c.frames[f].tracks = Parts(c, f)

\* The mix of a frame starts with the tracks there are.
MixStarts(calls, c, f) ==
  [calls EXCEPT ![f] =
     IF c.frames[f].tracks = {} THEN Over
     ELSE [@ EXCEPT !.at = "mix", !.whole = HasTracks(c, f)]]

\* handleEncodeComplete.  soon: the slot's playback time has come.  The mixer has one
\* scheduled frame.
EncodeDone(f, o, soon) ==
  /\ f \in DOMAIN fc.frames /\ o \in Parts(fc, f) \ fc.frames[f].encoded
  /\ fc' = AcceptEncode(fc, f, o)
  /\ call' = IF Phase(fc', f) # "ready" \/ Phase(fc, f) = "ready" THEN call
             ELSE IF soon \/ fc.frames[f].replaces # None THEN MixStarts(call, fc', f)
             ELSE [Unscheduled EXCEPT ![f].at = "sched"]
  /\ UNCHANGED <<slot, started, op, removal, queue, lease, forced>>

\* handleEncodeError
EncodeFails(f) ==
  /\ f \in DOMAIN fc.frames /\ Phase(fc, f) = "encoding"
  /\ fc' = CancelFrame(fc, f)
  /\ UNCHANGED <<slot, started, op, removal, queue, call, lease, forced>>

TriggerScheduledMix(f) ==
  /\ call[f].at = "sched"
  /\ call' = MixStarts(call, fc, f)
  /\ UNCHANGED <<slot, started, op, removal, queue, fc, lease, forced>>

\* The frame is committed, and acquireLease is called: it throws PhysicalTxBusyError or
\* it has the transmitter.
AcquiresLease(f, refused) ==
  LET c == Commit(SetPhase(fc, f, "prepared"), f)
  IN  IF refused THEN Returns(f, Deferred(c, queue, f)) /\ UNCHANGED lease
      ELSE /\ Writes(Book(c, queue))
           /\ lease' = [NoLease EXCEPT !.phase = "starting", !.owner = f, !.frame = f]
           /\ call' = [call EXCEPT ![f] = [NoCall EXCEPT !.at = "acquire", !.on = f]]

\* Mutant: the participants of the mix are not compared with the frame's.
WholeAlways(f) == TRUE

Whole(f) == call[f].whole

ReplacesLease(f) == fc.frames[f].replaces # None /\ lease.frame = fc.frames[f].replaces

\* handleMixedAudioReady, to its first await
HandleMixed(f, fits, refused) ==
  IF Phase(fc, f) # "ready" THEN Returns(f, Book(fc, queue)) /\ UNCHANGED lease
  ELSE IF ~Whole(f)
       THEN Returns(f, Book(CompleteFrame(fc, f), queue)) /\ UNCHANGED lease
  ELSE IF ~fits \/ (lease.phase # "idle" /\ ~ReplacesLease(f))
       THEN Returns(f, Deferred(fc, queue, f)) /\ UNCHANGED lease
  ELSE IF lease.phase = "idle" THEN AcquiresLease(f, refused)
  ELSE /\ Writes(Book(SetPhase(fc, f, "prepared"), queue))
       /\ call' = [call EXCEPT ![f] = [NoCall EXCEPT
                      !.at = "remix", !.whole = HasTracks(fc, f),
                      !.on = lease.owner, !.seen = lease.last, !.by = call[f].by]]
       /\ UNCHANGED lease

\* The mix is done.  left: some of the waveform is left to play.
Mixed(f, left, fits, refused) ==
  /\ call[f].at = "mix" /\ call[f].by = {}
  /\ fits => MayFit(f)
  /\ IF left THEN HandleMixed(f, fits, refused)
     ELSE Returns(f, Book(fc, queue)) /\ UNCHANGED lease
  /\ UNCHANGED <<slot, started, op, removal, forced>>

-----------------------------------------------------------------------------
(* Taking the transmitter: the rest of handleMixedAudioReady               *)

Acquired(f) ==
  /\ call[f].at = "acquire" /\ CanContinue(f)
  /\ lease' = [lease EXCEPT !.granted = TRUE]
  /\ call' = [call EXCEPT ![f].at = "final", ![f].whole = HasTracks(fc, f)]
  /\ UNCHANGED <<slot, started, op, removal, queue, fc, forced>>

\* PhysicalTxPreparationError and CompleteFrameBudgetExceededError defer the frame.
AcquireFails(f, defers) ==
  /\ call[f].at = "acquire"
  /\ CutsLease(f, IF defers /\ CanContinue(f) THEN "defer" ELSE "fail")
  /\ UNCHANGED <<slot, started, op, removal, forced>>

\* The mix made when the transmitter is keyed: of all the tracks, or of none, if they were
\* cleared before the frame was committed.  No replacement can have started before it: a
\* replacement waits for the acquisition, too.
FinalMixed(f, fits) ==
  /\ call[f].at = "final"
  /\ fits => MayFit(f) /\ Whole(f)
  /\ IF ~fits THEN CutsLease(f, "defer")
     ELSE IF ~OnLease(f) THEN CutsLease(f, "fail")
     ELSE /\ lease' = [lease EXCEPT !.chain = Append(@, f)]
          /\ Puts(f, "play")
          /\ UNCHANGED <<fc, queue>>
  /\ UNCHANGED <<slot, started, op, removal, forced>>

\* Mutant: a frame plays on its lease although a later one has taken it over.
PlaysLease(f) == TRUE

HoldsLease(f) == lease.frame = f

\* playAudioOnLease
EnterPlay(f) ==
  /\ call[f].at = "play" /\ First(f)
  /\ IF ~CanContinue(f) THEN CutsLease(f, "fail")
     ELSE IF ~HoldsLease(f)
          THEN Returns(f, Finished(fc, queue, f, "continues")) /\ lease' = Left(lease, f)
     ELSE /\ lease' = [lease EXCEPT !.last = f]
          /\ Puts(f, "starting")
          /\ UNCHANGED <<fc, queue>>
  /\ UNCHANGED <<slot, started, op, removal, forced>>

-----------------------------------------------------------------------------
(* replaceCommittedFrameAudio and replaceAudioOnLease                      *)

\* The handover failed: what is not yet released is.
ReplaceFails(f, end) ==
  IF OnLease(f)
  THEN Waits(f, "finish") /\ lease' = Stopped(Left(lease, f), end) /\ UNCHANGED <<fc, queue>>
  ELSE Returns(f, Finished(fc, queue, f, "over")) /\ UNCHANGED lease

\* It is refused, and the lease goes on without it.
ReplaceRefused(f) ==
  LET d == Deferred(fc, queue, f)
  IN  Returns(f, Finished(d.fc, d.queue, f, "continues")) /\ lease' = Left(lease, f)

Unchanged(f) == OnLease(f) /\ lease.last = call[f].seen

Remixed(f, fits) ==
  /\ call[f].at = "remix"
  /\ fits => MayFit(f) /\ Whole(f)
  /\ IF fits /\ Unchanged(f)
     THEN /\ lease' = [lease EXCEPT !.chain = Append(@, f)]
          /\ Puts(f, "replace")
          /\ UNCHANGED <<fc, queue>>
     ELSE Returns(f, Deferred(fc, queue, f)) /\ UNCHANGED lease
  /\ UNCHANGED <<slot, started, op, removal, forced>>

\* Mutant: the handover does not ask whether the frame is still wanted.
CommitsAnyway(f) == SetPhase(fc, f, "committed")

\* onHandoverCommitted
Commits(f) == Commit(fc, f)

HandOver(f, fits) ==
  IF fits /\ Phase(Commits(f), f) = "committed"
  THEN /\ Writes(Book(Commits(f), queue))
       /\ lease' = [lease EXCEPT !.last = f]
       /\ call' = [call EXCEPT ![f].at = "handover", ![f].seen = None]
  ELSE ReplaceRefused(f)

EnterReplace(f, fits) ==
  /\ call[f].at = "replace" /\ First(f)
  /\ fits => MayFit(f)
  /\ IF ~CanContinue(f) THEN ReplaceFails(f, "over")
     ELSE IF ~Unchanged(f) \/ lease.frame # fc.frames[f].replaces THEN ReplaceRefused(f)
     ELSE IF ~lease.granted THEN Puts(f, "activation") /\ UNCHANGED <<fc, queue, lease>>
     ELSE HandOver(f, fits)
  /\ UNCHANGED <<slot, started, op, removal, forced>>

Activated(f, fits) ==
  /\ call[f].at = "activation" /\ (OnLease(f) => lease.granted)
  /\ fits => MayFit(f)
  /\ IF CanContinue(f) THEN HandOver(f, fits) ELSE ReplaceFails(f, "over")
  /\ UNCHANGED <<slot, started, op, removal, forced>>

\* The acquisition failed, or takes too long.
NotActivated(f) ==
  /\ call[f].at = "activation" /\ OnLease(f) /\ ~lease.granted
  /\ ReplaceFails(f, "over")
  /\ UNCHANGED <<slot, started, op, removal, forced>>

\* The older audio was stopped and the output drained and prepared, or not.
OutputPrepared(f, ready, end) ==
  /\ call[f].at = "handover"
  /\ ready => \A g \in Frames : ~(call[g].at = "sound" /\ call[g].on = call[f].on)
  /\ IF ready /\ CanContinue(f) THEN Puts(f, "starting") /\ UNCHANGED <<fc, queue, lease>>
     ELSE ReplaceFails(f, end)
  /\ UNCHANGED <<slot, started, op, removal, forced>>

-----------------------------------------------------------------------------
(* The audio                                                               *)

\* The first samples are out: the lease is the frame's, phaseChanged says active.
AudioStarts(f) ==
  /\ call[f].at = "starting" /\ CanContinue(f)
  /\ fc' = MarkOnAir(fc, f)
  /\ lease' = [Left(lease, f) EXCEPT !.frame = f, !.phase = "active"]
  /\ call' = [call EXCEPT ![f].at = "sound", ![f].by = {}]
  /\ UNCHANGED <<slot, started, op, removal, queue, forced>>

AudioStartFails(f, end) ==
  /\ call[f].at = "starting"
  /\ Waits(f, "finish")
  /\ lease' = IF OnLease(f) THEN Stopped(Left(lease, f), end) ELSE lease
  /\ UNCHANGED <<slot, started, op, removal, queue, fc, forced>>

\* It has played to its end, or was stopped.
AudioEnds(f) ==
  /\ call[f].at = "sound"
  /\ IF ~OnLease(f) \/ lease.last # f
     THEN Returns(f, Finished(fc, queue, f, "continues")) /\ UNCHANGED lease
     ELSE IF ~CanContinue(f) THEN Waits(f, "finish") /\ UNCHANGED <<fc, queue, lease>>
     ELSE /\ Writes(Book(MarkDraining(fc, lease.frame), queue))
          /\ lease' = [lease EXCEPT !.phase = "draining"]
          /\ Puts(f, "tail")
  /\ UNCHANGED <<slot, started, op, removal, forced>>

AudioFails(f, end) ==
  /\ call[f].at = "sound" /\ CanContinue(f) /\ lease.last = f
  /\ Waits(f, "finish")
  /\ lease' = Stopped(lease, end)
  /\ UNCHANGED <<slot, started, op, removal, queue, fc, forced>>

TailEnds(f) ==
  /\ call[f].at = "tail"
  /\ IF ~CanContinue(f) THEN Waits(f, "finish") /\ UNCHANGED <<fc, queue, lease>>
     ELSE IF lease.last # f
          THEN Returns(f, Finished(fc, queue, f, "continues")) /\ UNCHANGED lease
     ELSE /\ Waits(f, "finish")
          /\ lease' = Stopped(lease, "over")
          /\ UNCHANGED <<fc, queue>>
  /\ UNCHANGED <<slot, started, op, removal, forced>>

\* What a call does when the release it waited for has its result.
LeaseEnded(f) ==
  /\ call[f].at = "wait" /\ call[f].got # "none"
  /\ Returns(f, IF call[f].then = "defer" THEN Deferred(fc, queue, f)
                ELSE Finished(fc, queue, f,
                              IF call[f].then = "finish" THEN call[f].got ELSE "over"))
  /\ UNCHANGED <<slot, started, op, removal, lease, forced>>

-----------------------------------------------------------------------------
(* Removing an operator from what is on the air                            *)

\* removeOperatorFromTransmission: a manual command, which first stops the operator.
RemoveOperator(o) ==
  /\ "remove" \in Commands
  /\ op[o].epoch < MaxCommands /\ Len(fc.frames) < Room
  /\ removal[o].at \in {"none", "done"}
  /\ op' = Command(o, FALSE)
  /\ removal' = [removal EXCEPT ![o] = [at |-> "asked", epoch |-> op'[o].epoch]]
  /\ UNCHANGED <<slot, started, queue, fc, call, lease, forced>>

\* operatorRemovalTransition: the one before has started what is to replace the frame, or
\* has stopped the lease.
MayRemove ==
  /\ \A f \in Frames : call[f].by = {}
  /\ \A o \in Operators : removal[o].at # "stopping"

IsRemovalCommandCurrent(o) == removal[o].epoch = op[o].epoch

Removal(o, at) == removal' = [removal EXCEPT ![o].at = at]

\* performOperatorRemoval, for the participant of a frame that is on its lease.  The tracks
\* of the others are cloned, and mixed.
RemovesParticipant(o) ==
  LET f == lease.frame
      c == PrepareRemoval(fc, f, o)
      g == Len(c.frames)
      action == RemovalAction(fc, f, o)
  IN  IF action = "stop-physical"
      THEN lease' = Stopped(lease, "over") /\ Removal(o, "stopping") /\ UNCHANGED <<fc, queue, call>>
      ELSE IF action # "replace-current"
           THEN Removal(o, "done") /\ UNCHANGED <<fc, queue, call, lease>>
      ELSE IF ~HasTracks(c, g)
           THEN Sets(Deferred(c, queue, g)) /\ Removal(o, "done") /\ UNCHANGED <<call, lease>>
      ELSE /\ Sets(Book(c, queue))
           /\ call' = [MixStarts(call, c, g) EXCEPT ![g].by = {o}]
           /\ Removal(o, "mixing")
           /\ UNCHANGED lease

RemovalDue(o) == removal[o].at = "asked" /\ MayRemove

RunRemoval(o, fits) ==
  /\ RemovalDue(o)
  /\ IF ~IsRemovalCommandCurrent(o)
     THEN Removal(o, "none") /\ UNCHANGED <<fc, queue, call, lease>>
     ELSE IF lease.phase # "idle" /\ o \in Parts(fc, lease.frame) THEN RemovesParticipant(o)
     ELSE /\ Sets(StrategyStop(fc, queue, op, o, fits))
          /\ Removal(o, "done")
          /\ UNCHANGED <<call, lease>>
  /\ UNCHANGED <<slot, started, op, forced>>

RemovalStops(o) == removal[o].at = "stopping" /\ lease.phase # "stopping"

\* The lease of the last participant is released, or cannot be.
RemovalStopped(o) ==
  /\ RemovalStops(o)
  /\ Removal(o, "done")
  /\ UNCHANGED <<slot, started, op, queue, fc, call, lease, forced>>

\* The mix of those that stay.
RemovalMixed(f, left, fits, refused) ==
  /\ call[f].at = "mix" /\ call[f].by # {}
  /\ fits => MayFit(f)
  /\ \E o \in call[f].by :
       IF ~IsRemovalCommandCurrent(o)
       THEN /\ Returns(f, Book(CancelFrame(fc, f), queue))
            /\ Removal(o, "none") /\ UNCHANGED lease
       ELSE /\ Removal(o, "done")
            /\ IF left THEN HandleMixed(f, fits, refused)
               ELSE Returns(f, Deferred(fc, queue, f)) /\ UNCHANGED lease
  /\ UNCHANGED <<slot, started, op, forced>>

-----------------------------------------------------------------------------
Operator(o) ==
  \/ RemoveOperator(o)
  \/ \E fits \in BOOLEAN :
       \/ StopOperator(o, fits)
       \/ \E b \in BOOLEAN : StartOperator(o, b, fits) \/ EditOperator(o, b, fits)
                             \/ Decide(o, b, fits)

Slot == NextSlot \/ \E says \in SUBSET Operators, fits \in BOOLEAN : EncodeStart(says, fits)

Mixing(f) ==
  \/ \E o \in Operators, soon \in BOOLEAN : EncodeDone(f, o, soon)
  \/ EncodeFails(f) \/ TriggerScheduledMix(f)
  \/ \E left, fits, refused \in BOOLEAN :
       Mixed(f, left, fits, refused) \/ RemovalMixed(f, left, fits, refused)

Taking(f) ==
  \/ Acquired(f) \/ EnterPlay(f) \/ NotActivated(f)
  \/ \E b \in BOOLEAN :
       \/ AcquireFails(f, b) \/ FinalMixed(f, b) \/ Remixed(f, b) \/ EnterReplace(f, b)
       \/ Activated(f, b) \/ \E end \in {"over", "retry"} : OutputPrepared(f, b, end)

Audio(f) ==
  \/ AudioStarts(f) \/ AudioEnds(f) \/ TailEnds(f)
  \/ \E end \in {"over", "retry"} : AudioStartFails(f, end) \/ AudioFails(f, end)

Physical ==
  \/ Interrupt \/ OutputFails \/ ForceStopTransmission \/ RetryUnknownStop
  \/ \E confirmed \in BOOLEAN : Released(confirmed)

\* What waited for a release that has its result, or for its turn, goes on before anything
\* else does: these are continuations that are already due.
Due ==
  \/ ForcedIsOver
  \/ \E f \in Frames : call[f].at = "wait" /\ call[f].got # "none"
  \/ \E o \in Operators : RemovalDue(o) \/ RemovalStops(o)

Continue ==
  \/ ForceStopEnds
  \/ \E f \in Frames : LeaseEnded(f)
  \/ \E o \in Operators :
       RemovalStopped(o) \/ \E fits \in BOOLEAN : RunRemoval(o, fits)

Next ==
  \/ Continue
  \/ /\ ~Due
     /\ \/ \E o \in Operators : Operator(o)
        \/ \E f \in Frames : Mixing(f) \/ Taking(f) \/ Audio(f)
        \/ Slot \/ Physical

Spec == Init /\ [][Next]_vars

\* The step that a call takes at the latest, at each of its awaits.
Proceeds(f) ==
  \/ Mixed(f, FALSE, FALSE, FALSE) \/ RemovalMixed(f, FALSE, FALSE, FALSE)
  \/ AcquireFails(f, FALSE) \/ FinalMixed(f, FALSE) \/ EnterPlay(f)
  \/ Remixed(f, FALSE) \/ EnterReplace(f, FALSE) \/ Activated(f, FALSE) \/ NotActivated(f)
  \/ OutputPrepared(f, FALSE, "over") \/ AudioStartFails(f, "over")
  \/ AudioEnds(f) \/ TailEnds(f)

\* A mix ends, an acquisition and a release end, timers fire, a playback that started
\* comes to an end (LeasePlayback); nothing is assumed of encoders and operators.  A step
\* of a call is put off while another continuation is due, and cannot be put off for ever:
\* hence the strong fairness.
Fairness ==
  /\ WF_vars(Continue)
  /\ \A f \in Frames : SF_vars(~Due /\ Proceeds(f))
  /\ SF_vars(~Due /\ Released(FALSE))

FairSpec == Spec /\ Fairness

-----------------------------------------------------------------------------
(* Properties                                                              *)

\* The types; and the slots refer to the frames they should, see Indexed.
TypeOK ==
  /\ slot \in Slots /\ started \in BOOLEAN
  /\ op \in [Operators -> [tx : BOOLEAN, epoch : 0..MaxCommands]]
  /\ removal \in [Operators -> [at : {"none", "asked", "mixing", "stopping", "done"}, epoch : 0..MaxCommands]]
  /\ queue \in Messages
  /\ fc \in Coordinator /\ Len(fc.frames) <= MaxFrames /\ Indexed(fc)
  /\ call \in [Frames -> Call]
  /\ lease \in Lease
  /\ forced \in 0..MaxFrames

Exists(f) == f \in DOMAIN fc.frames

\* A frame that has been prepared is the candidate of the current slot, or of the slot
\* before if it is made of what is on the air: none is left behind by a newer one or by
\* the slot's end.
CandidateIsCurrent ==
  \A f \in DOMAIN fc.frames : Phase(fc, f) \in Candidate =>
    /\ fc.cand[fc.frames[f].slot] = f
    /\ fc.frames[f].slot = slot \/ call[f].at \in {"mix", "remix", "replace", "activation"}

\* A committed frame is ended by its call, whatever happened to its lease: none stays
\* committed or on the air with nobody left to end it.
LiveIsCarried ==
  \A f \in DOMAIN fc.frames :
    Phase(fc, f) \in Live => call[f].at \notin {"none", "sched", "mix", "ended"}

\* Of the frames of one lease, at most one is on the air.
OneOnAir ==
  \A f, g \in DOMAIN fc.frames :
    (/\ Phase(fc, f) \in {"on_air", "draining"} /\ Phase(fc, g) \in {"on_air", "draining"}
     /\ OnLease(f) /\ OnLease(g)) => f = g

\* The frame whose audio is out is the frame on the air, and the one the lease carries.
SoundIsOnAir ==
  \A f \in Frames :
    (call[f].at = "sound" /\ CanContinue(f) /\ lease.last = f)
      => Phase(fc, f) = "on_air" /\ lease.frame = f

\* "a mixed frame is atomic": the mixer holds the tracks of all the participants of the
\* frame on the air, through a forced stop, a slot's end and a removal.
WholeOnAir ==
  \A f \in DOMAIN fc.frames : Phase(fc, f) \in {"on_air", "draining"} => HasTracks(fc, f)

\* A frame that has ended stays as it is, however late its encodes, its mix or its lease
\* answer.
EndedIsFinal ==
  [][\A f \in DOMAIN fc.frames :
       Phase(fc, f) \in Ended => Phase(fc', f) = Phase(fc, f)]_vars

\* "does not let a delayed old frame overwrite a newer queued intent"
QueueNeverGoesBack ==
  [][\A o \in DOMAIN queue \cap DOMAIN queue' : queue'[o] >= queue[o]]_vars

CommitsNow(f) == Exists(f) /\ Phase(fc, f) \in Candidate /\ Phase(fc', f) = "committed"

\* The frame that f replaces, which is on its lease, sends o's message already.
SentAlready(f, o) ==
  LET p == fc.frames[f].replaces
  IN  p # None /\ o \in Parts(fc, p) /\ Intents(fc, p)[o] = Intents(fc, f)[o]

\* The last command of o is a removal: it may have looked in what is on the air only.
Removed(o) == removal[o].at # "none" /\ removal[o].epoch = op[o].epoch

\* A newer frame of o was made of what an older slot has on the air: a stop finds that one.
Outrun(f, o) ==
  \E g \in DOMAIN fc.frames :
    f < g /\ o \in Parts(fc, g) /\ fc.frames[g].slot < fc.frames[f].slot

MaySend(f, o) == op[o].tx \/ SentAlready(f, o) \/ Removed(o) \/ Outrun(f, o)

\* The transmitter is not taken, or handed over, for an operator that was stopped, unless
\* it was sending that message already or is in one of the gaps named above.
StoppedStaysOff ==
  [][\A f \in Frames : CommitsNow(f) => \A o \in Parts(fc, f) : MaySend(f, o)]_vars

\* A committed frame ends.
LiveFramesEnd == \A f \in Frames :
  (Exists(f) /\ Phase(fc, f) \in Live) ~> (Exists(f) /\ Phase(fc, f) \in Ended)

\* A removal is not kept waiting for ever by the one before it.
RemovalEnds == \A o \in Operators : removal[o].at = "asked" ~> removal[o].at # "asked"

=============================================================================
