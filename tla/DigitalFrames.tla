---------------------------- MODULE DigitalFrames ----------------------------
(***************************************************************************)
(* DigitalFrameCoordinator: the frames of the digital operators, each a    *)
(* mix of their transmissions in one slot, from the request to its end.    *)
(* A slot has at most one frame on the air and one candidate that will     *)
(* take its place, or start it.                                            *)
(*                                                                         *)
(* The operations are functions from a coordinator's state to the next,    *)
(* so that a handler can be written as the calls it makes.  A frame is     *)
(* named by its place in the sequence of frames: frames never change       *)
(* their revision.  Events that only report are left out, and so is        *)
(* forgetting ended frames (the 256 latest are kept).                      *)
(***************************************************************************)
EXTENDS Naturals, Sequences, FiniteSets, Functions

CONSTANTS
  Operators,
  MaxSlot,     \* bound on the slots of a behaviour
  MaxCommands  \* bound on the commands each operator is given

ASSUME OperatorsAssumption == IsFiniteSet(Operators)
ASSUME BoundsAssumption    == MaxSlot \in Nat \ {0} /\ MaxCommands \in Nat

Slots == 1..MaxSlot
None  == 0

Candidate == {"requested", "encoding", "ready", "prepared"}   \* CANDIDATE_PHASES
Live      == {"committed", "on_air", "draining"}              \* LIVE_PHASES
Ended     == {"terminal", "cancelled"}

\* f, and what g has where f has nothing
Merged(f, g) == [x \in DOMAIN f \cup DOMAIN g |-> IF x \in DOMAIN f THEN f[x] ELSE g[x]]

\* The coordinator before its first frame.
NoFrames == [
  frames |-> <<>>,
  phys   |-> [s \in Slots |-> None],     \* physicalFrameBySlot
  cand   |-> [s \in Slots |-> None] ]    \* candidateFrameBySlot

Phase(c, f)   == c.frames[f].phase
Intents(c, f) == c.frames[f].intents
Parts(c, f)   == DOMAIN Intents(c, f)    \* participantOperatorIds

SetPhase(c, f, phase) == [c EXCEPT !.frames[f].phase = phase]

Without(index, f) == [s \in Slots |-> IF index[s] = f THEN None ELSE index[s]]

\* A frame that has ended: the mixer drops its tracks.
AsEnded(frame, phase) == [frame EXCEPT !.phase = phase, !.encoded = {}, !.tracks = {}]

\* Mutant: the slot goes on referring to a frame that has ended.
EndFrameReferred(c, f, phase) ==
  IF Phase(c, f) \in Ended THEN c ELSE [c EXCEPT !.frames[f] = AsEnded(@, phase)]

\* cancelFrameInternal and terminalize
EndFrame(c, f, phase) ==
  IF Phase(c, f) \in Ended THEN c
  ELSE [frames |-> [c.frames EXCEPT ![f] = AsEnded(@, phase)],
        phys   |-> Without(c.phys, f),
        cand   |-> Without(c.cand, f)]

CancelFrame(c, f) == IF Phase(c, f) \in Candidate THEN EndFrame(c, f, "cancelled") ELSE c

DeferFrame(c, f) ==
  IF Phase(c, f) \in Candidate \cup {"committed"} THEN EndFrame(c, f, "cancelled") ELSE c

CompleteFrame(c, f) ==
  EndFrame(c, f, IF Phase(c, f) \in Candidate THEN "cancelled" ELSE "terminal")

\* Mutant: the candidates of an older slot are kept.
CancelNoneOutside(c, slot) == c

CancelPreCommitOutside(c, slot) ==
  LET old == {f \in DOMAIN c.frames : Phase(c, f) \in Candidate /\ c.frames[f].slot # slot}
  IN  [frames |-> [f \in DOMAIN c.frames |->
                     IF f \in old THEN AsEnded(c.frames[f], "cancelled") ELSE c.frames[f]],
       phys   |-> [s \in Slots |-> IF c.phys[s] \in old THEN None ELSE c.phys[s]],
       cand   |-> [s \in Slots |-> IF c.cand[s] \in old THEN None ELSE c.cand[s]]]

-----------------------------------------------------------------------------
(* Preparing a frame                                                       *)

CurrentFrame(c, slot) == IF c.cand[slot] # None THEN c.cand[slot] ELSE c.phys[slot]

\* What a new frame of the slot has to take over from.
Predecessor(c, slot) ==
  IF c.phys[slot] # None THEN c.phys[slot]
  ELSE IF c.cand[slot] # None /\ Phase(c, c.cand[slot]) \in Live THEN c.cand[slot]
  ELSE None

\* fits: what is left of the waveform, the start and the tail end before the slot does.
Defers(c, slot, fits) ==
  LET p == Predecessor(c, slot)
      q == c.cand[slot]
  IN  /\ p # None
      /\ \/ Phase(c, p) = "draining"
         \/ q # None /\ q # p /\ Phase(c, q) = "committed"
         \/ ~fits

\* Its preparationAction is 'restart-current' if it replaces another, and 'encode' if not.
NewFrame(slot, intents, phase, replaces) ==
  [slot |-> slot, intents |-> intents, phase |-> phase, replaces |-> replaces,
   encoded |-> {},                   \* completedEncodeOperators
   tracks |-> {}]                    \* the tracks the mixer holds for the frame

\* The new candidate of its slot; an older one is superseded.
Added(c, slot, frame) ==
  LET q == c.cand[slot]
      d == IF q = None THEN c ELSE CancelFrame(c, q)
  IN  [d EXCEPT !.frames = Append(@, frame), !.cand[slot] = Len(c.frames) + 1]

\* prepareFrame, which does not defer, and beginEncoding.
PrepareFrame(c, slot, intents) ==
  Added(c, slot, NewFrame(slot, intents, "encoding", Predecessor(c, slot)))

\* acceptEncodeResult, and the track given to the mixer.  An encode of a frame answers
\* once and carries the frame's identity: only the phase can have changed.
AcceptEncode(c, f, o) ==
  IF Phase(c, f) # "encoding" THEN c
  ELSE LET done == c.frames[f].encoded \cup {o}
  IN  [c EXCEPT !.frames[f].encoded = done,
                !.frames[f].tracks = @ \cup {o},
                !.frames[f].phase = IF done = Parts(c, f) THEN "ready" ELSE @]

-----------------------------------------------------------------------------
(* The physical frame                                                      *)

Commit(c, f) == IF Phase(c, f) = "prepared" THEN SetPhase(c, f, "committed") ELSE c

\* Mutant: the frame that was replaced is left as it was.
MarkOnAirBeside(c, f) ==
  IF Phase(c, f) # "committed" THEN c
  ELSE LET s == c.frames[f].slot
       IN  [SetPhase(c, f, "on_air") EXCEPT
              !.phys[s] = f, !.cand[s] = IF @ = f THEN None ELSE @]

MarkOnAir(c, f) ==
  IF Phase(c, f) # "committed" THEN c
  ELSE LET s == c.frames[f].slot
           p == c.frames[f].replaces
           d == [SetPhase(c, f, "on_air") EXCEPT
                   !.phys[s] = f, !.cand[s] = IF @ = f THEN None ELSE @]
       IN  IF p = None THEN d ELSE EndFrame(d, p, "terminal")

MarkDraining(c, f) == IF Phase(c, f) = "on_air" THEN SetPhase(c, f, "draining") ELSE c

\* prepareParticipantRemoval: what it answers, ...
RemovalAction(c, f, o) ==
  IF o \notin Parts(c, f) THEN "not-found"
  ELSE IF Parts(c, f) = {o} THEN "stop-physical"
  ELSE IF Phase(c, f) \notin Live \ {"draining"} THEN "deferred"
  ELSE "replace-current"

\* ... and the frame of those that stay, made of the tracks of the frame they are in.
PrepareRemoval(c, f, o) ==
  LET s    == c.frames[f].slot
      rest == Parts(c, f) \ {o}
      new  == NewFrame(s, Restrict(Intents(c, f), rest), "ready", f)
  IN  IF c.cand[s] = f
      THEN [c EXCEPT !.frames = Append(@, [new EXCEPT !.tracks = rest \cap c.frames[f].tracks]),
                     !.cand[s] = Len(c.frames) + 1]
      ELSE Added(c, s, [new EXCEPT !.tracks = rest \cap c.frames[f].tracks])

\* findLatestFrameForOperator
LatestFrameOf(c, o) ==
  LET live == {f \in DOMAIN c.frames : o \in Parts(c, f) /\ Phase(c, f) \notin Ended}
  IN  IF live = {} THEN None ELSE CHOOSE f \in live : \A g \in live : g <= f

-----------------------------------------------------------------------------
(* Types                                                                   *)

\* Messages of operators, known by the epochs of their commands.
Messages == UNION {[S -> 0..MaxCommands] : S \in SUBSET Operators}

Frame == [slot : Slots, intents : Messages, phase : Candidate \cup Live \cup Ended,
          replaces : Nat, encoded : SUBSET Operators, tracks : SUBSET Operators]

Coordinator == [frames : Seq(Frame), phys : [Slots -> Nat], cand : [Slots -> Nat]]

\* The slots refer to frames of theirs that have not ended, and to every candidate: a frame
\* that is over does not keep its slot's next one from being sent, or make it replace what
\* is no longer there, and no candidate is left behind by a newer one.  The mixer keeps no
\* tracks of a frame that has ended.
Indexed(c) ==
  /\ \A s \in Slots :
       /\ c.phys[s] # None =>
            /\ c.phys[s] \in DOMAIN c.frames /\ c.frames[c.phys[s]].slot = s
            /\ Phase(c, c.phys[s]) \in Live
       /\ c.cand[s] # None =>
            /\ c.cand[s] \in DOMAIN c.frames /\ c.frames[c.cand[s]].slot = s
            /\ Phase(c, c.cand[s]) \notin Ended
  /\ \A f \in DOMAIN c.frames :
       /\ c.frames[f].replaces < f
       /\ Phase(c, f) \in Candidate => c.cand[c.frames[f].slot] = f
       /\ Phase(c, f) \in Ended => c.frames[f].tracks = {}
=============================================================================
