---------------------------- MODULE DigitalSafety ----------------------------
(***************************************************************************)
(* What makes the safety properties of DigitalTx inductive: what a frame   *)
(* can be while its call is at each of its awaits, what the lease and its  *)
(* chain of transitions are to the frames on it, and where the tracks of a *)
(* frame still are.                                                        *)
(***************************************************************************)
EXTENDS DigitalTx

Asked == {o \in Operators : removal[o].at = "asked"}

\* Each removal that was asked for can still prepare its frame.
RoomHolds == Len(fc.frames) + Cardinality(Asked) <= MaxFrames

\* No message is newer than its operator's last command.
NotNewer(messages, ops) == \A o \in DOMAIN messages : messages[o] <= ops[o].epoch

EpochsHold ==
  /\ NotNewer(queue, op)
  /\ \A f \in DOMAIN fc.frames : NotNewer(Intents(fc, f), op)

\* A candidate is of the current slot, unless it is being made of what an older slot has
\* on the air.
SlotsHold ==
  \A f \in DOMAIN fc.frames : Phase(fc, f) \in Candidate =>
    fc.frames[f].slot = slot \/ (call[f].at = "mix" /\ call[f].by # {})

\* A call that is not on a lease, or no longer is.
OffLease == {"none", "sched", "mix", "ended"}
Before   == {"none", "sched", "mix"}

\* What a frame can be while its call is at an await; it may have ended at any of them.
PhaseFits(at, phase) ==
  \/ phase \in Ended
  \/ at = "none" /\ phase = "encoding"
  \/ at \in {"sched", "mix", "ended"} /\ phase = "ready"
  \/ at \in {"remix", "replace", "activation"} /\ phase = "prepared"
  \/ at \in {"acquire", "final", "play", "handover", "starting"} /\ phase = "committed"
  \/ at = "sound" /\ phase = "on_air"
  \/ at = "tail" /\ phase = "draining"
  \/ at = "wait" /\ phase \in {"prepared"} \cup Live

AwaitHolds(f) ==
  /\ f \notin DOMAIN fc.frames => call[f] = NoCall
  /\ f \in DOMAIN fc.frames => PhaseFits(call[f].at, Phase(fc, f))
  /\ (call[f].at \in OffLease) <=> (call[f].on = None)
  /\ (call[f].at = "wait" /\ call[f].then = "defer")
       => Phase(fc, f) \in {"committed"} \cup Ended

\* The transitions of a lease: those that wait for their turn, and the one that has it.
Queued  == {"play", "replace"}
Heading == {"activation", "handover", "starting"}

Listed(chain, f) == \E i \in DOMAIN chain : chain[i] = f

\* The lease is that of a frame that acquired it, and each of its transitions is listed once.
LeaseHolds ==
  /\ lease.phase = "idle" => lease = NoLease
  /\ lease.phase # "idle" => /\ {lease.owner, lease.frame} \subseteq DOMAIN fc.frames
                             /\ call[lease.owner].at \notin Before
  /\ IsInjective(lease.chain)
  /\ forced # None => /\ lease.phase \in {"stopping", "unknown", "idle"}
                      /\ lease.phase = "stopping" => lease.owner = forced

\* The lease carries the frame on the air; what is started on it replaces that one, has its
\* turn, and its audio is the last.
ShareHolds(f) ==
  /\ call[f].on # None => call[call[f].on].at \notin Before
  /\ Listed(lease.chain, f) <=> (OnLease(f) /\ call[f].at \in Queued \cup Heading)
  /\ OnLease(f) =>
       /\ call[f].at \in Heading => Head(lease.chain) = f
       /\ Phase(fc, f) \in {"on_air", "draining"} => lease.frame = f
  /\ CanContinue(f) =>
       /\ (call[f].at \in {"acquire", "final", "play"} /\ lease.frame = f)
            => Phase(fc, f) = "committed"
       /\ call[f].at \in Heading => lease.frame \in {f, fc.frames[f].replaces}
       /\ call[f].at \in {"handover", "starting"}
            => Phase(fc, f) = "committed" /\ lease.last = f
       /\ (call[f].at = "sound" /\ lease.last = f)
            => Phase(fc, f) = "on_air" /\ lease.frame = f

\* The tracks of a frame are there when the transmitter is taken for it.
TracksHold(f) ==
  f \in DOMAIN fc.frames =>
    /\ Phase(fc, f) \in {"on_air", "draining"} => HasTracks(fc, f)
    /\ (/\ \/ call[f].at \in {"play", "handover", "starting"}
           \/ call[f].at = "final" /\ call[f].whole
        /\ Phase(fc, f) = "committed")
         => HasTracks(fc, f)
    /\ (/\ \/ call[f].at \in {"replace", "activation"}
           \/ call[f].at = "remix" /\ call[f].whole
        /\ CanContinue(f) /\ Phase(fc, f) = "prepared")
         => HasTracks(fc, f)

CallHolds(f) == AwaitHolds(f) /\ ShareHolds(f) /\ TracksHold(f)

\* This part is inductive by itself: what carries the frames.
CarryInv ==
  /\ TypeOK /\ RoomHolds /\ EpochsHold /\ SlotsHold /\ LeaseHolds
  /\ \A f \in Frames : CallHolds(f)

\* A candidate is the newest frame of its slot, and made of what it may send.
OffHolds ==
  \A f \in DOMAIN fc.frames :
    /\ fc.frames[f].slot <= slot
    /\ Phase(fc, f) \in Candidate =>
         /\ \A o \in Parts(fc, f) : MaySend(f, o)
         /\ fc.frames[f].slot = slot \/ \A o \in Parts(fc, f) : SentAlready(f, o)
         /\ \A g \in DOMAIN fc.frames : f < g => fc.frames[g].slot # fc.frames[f].slot

\* The invariant is inductive.
IInv == CarryInv /\ OffHolds
=============================================================================
