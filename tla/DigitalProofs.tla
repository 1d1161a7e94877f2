---------------------------- MODULE DigitalProofs ----------------------------
(***************************************************************************)
(* IInv is an invariant of DigitalTx, for any number of operators, slots,  *)
(* frames and commands: first what each operation of the digital frame     *)
(* coordinator does to its frames and to the indexes of its slots, then    *)
(* the queue, the lease and every step; and what follows from it.          *)
(***************************************************************************)
EXTENDS DigitalSafety, SequenceTheorems, FiniteSetTheorems, TLAPS

(***************************************************************************)
(* One frame of a coordinator                                              *)
(***************************************************************************)

Good(c) == c \in Coordinator /\ Indexed(c)

\* f is not what it was, and the other frames are.
Alone(c, d, f) ==
  /\ Len(d.frames) = Len(c.frames)
  /\ \A g \in DOMAIN c.frames \ {f} : d.frames[g] = c.frames[g]
  /\ d.frames[f].slot = c.frames[f].slot
  /\ d.frames[f].intents = c.frames[f].intents
  /\ d.frames[f].replaces = c.frames[f].replaces

\* The domain of a sequence of frames
LEMMA Places ==
  ASSUME NEW c \in Coordinator
  PROVE  /\ Len(c.frames) \in Nat /\ DOMAIN c.frames = 1..Len(c.frames)
         /\ \A f \in DOMAIN c.frames : f \in Nat /\ f # None /\ f <= Len(c.frames)
                                       /\ c.frames[f] \in Frame
         /\ c.frames \in Seq(Frame)
<1>1. c.frames \in Seq(Frame)
  BY DEF Coordinator
<1>2. QED
  BY <1>1 DEF None

\* A frame that is put in the place of another
WithFrame(c, f, x, phys, cand) ==
  [frames |-> [c.frames EXCEPT ![f] = x], phys |-> phys, cand |-> cand]

\* ..., leaves the others and the slots as they are given.
LEMMA Put ==
  ASSUME NEW c \in Coordinator, NEW f \in DOMAIN c.frames, NEW x \in Frame,
         NEW phys \in [Slots -> Nat], NEW cand \in [Slots -> Nat]
  PROVE  LET d == WithFrame(c, f, x, phys, cand)
         IN  /\ d \in Coordinator /\ DOMAIN d.frames = DOMAIN c.frames
             /\ Len(d.frames) = Len(c.frames)
             /\ d.frames[f] = x /\ d.phys = phys /\ d.cand = cand
             /\ \A g \in DOMAIN c.frames \ {f} : d.frames[g] = c.frames[g]
<1> DEFINE d == WithFrame(c, f, x, phys, cand)
<1>1. c.frames \in Seq(Frame)
  BY DEF Coordinator
<1> DEFINE s == [c.frames EXCEPT ![f] = x]
<1>2. s \in Seq(Frame) /\ Len(s) = Len(c.frames) /\ DOMAIN s = DOMAIN c.frames
  BY <1>1
<1>3. s[f] = x /\ \A g \in DOMAIN c.frames \ {f} : s[g] = c.frames[g]
  BY <1>1
<1>4. d.frames = s /\ d.phys = phys /\ d.cand = cand
  BY DEF WithFrame
<1>5. d \in Coordinator
  BY <1>2 DEF Coordinator, WithFrame
<1> HIDE DEF s, d
<1>6. QED
  BY <1>2, <1>3, <1>4, <1>5 DEF d

\* A coordinator is its three fields.
LEMMA Written ==
  ASSUME NEW c \in Coordinator, NEW s
  PROVE  /\ [c EXCEPT !.frames = s] = [frames |-> s, phys |-> c.phys, cand |-> c.cand]
         /\ c = [frames |-> c.frames, phys |-> c.phys, cand |-> c.cand]
BY DEF Coordinator

\* A write of both references of the slots
LEMMA WrittenIndexes ==
  ASSUME NEW c \in Coordinator, NEW p, NEW q
  PROVE  [[c EXCEPT !.phys = p] EXCEPT !.cand = q] = [frames |-> c.frames, phys |-> p, cand |-> q]
<1> DEFINE b == [c EXCEPT !.phys = p]
<1>1. b = [frames |-> c.frames, phys |-> p, cand |-> c.cand]
  BY DEF Coordinator
<1> HIDE DEF b
<1>2. [b EXCEPT !.cand = q] = [frames |-> c.frames, phys |-> p, cand |-> q]
  BY <1>1
<1>3. QED
  BY <1>2 DEF b

\* The fields of a frame
LEMMA FrameFields ==
  ASSUME NEW x \in Frame
  PROVE  /\ x.slot \in Slots /\ x.intents \in Messages
         /\ x.phase \in Candidate \cup Live \cup Ended /\ x.replaces \in Nat
         /\ x.encoded \in SUBSET Operators /\ x.tracks \in SUBSET Operators
BY DEF Frame

\* SetPhase changes the phase of one frame.
LEMMA SetPhaseSets ==
  ASSUME NEW c, Good(c), NEW f \in DOMAIN c.frames,
         NEW phase \in Candidate \cup Live \cup Ended
  PROVE  LET d == SetPhase(c, f, phase)
         IN  /\ d \in Coordinator /\ Alone(c, d, f)
             /\ Phase(d, f) = phase /\ d.phys = c.phys /\ d.cand = c.cand
             /\ d.frames[f].tracks = c.frames[f].tracks
<1> DEFINE d == SetPhase(c, f, phase)
           x == [c.frames[f] EXCEPT !.phase = phase]
<1>0. c \in Coordinator /\ c.phys \in [Slots -> Nat] /\ c.cand \in [Slots -> Nat]
  BY DEF Good, Coordinator
<1>1. c.frames[f] \in Frame
  BY <1>0, Places
<1>2. x \in Frame
  BY <1>1 DEF Frame
<1>3. d = WithFrame(c, f, x, c.phys, c.cand)
  <2> DEFINE s == [c.frames EXCEPT ![f] = x]
  <2>1. d = [c EXCEPT !.frames = s]
    BY DEF SetPhase
  <2> HIDE DEF s, d
  <2>2. d = [frames |-> s, phys |-> c.phys, cand |-> c.cand]
    BY <1>0, <2>1, Written
  <2>3. QED
    BY <2>2 DEF s, WithFrame
<1>4. /\ x.phase = phase /\ x.slot = c.frames[f].slot /\ x.intents = c.frames[f].intents
      /\ x.replaces = c.frames[f].replaces /\ x.tracks = c.frames[f].tracks
  BY <1>1 DEF Frame
<1> HIDE DEF d, x
<1>5. /\ d \in Coordinator /\ DOMAIN d.frames = DOMAIN c.frames
      /\ Len(d.frames) = Len(c.frames)
      /\ d.frames[f] = x /\ d.phys = c.phys /\ d.cand = c.cand
      /\ \A g \in DOMAIN c.frames \ {f} : d.frames[g] = c.frames[g]
  <2>1. c.phys \in [Slots -> Nat] /\ c.cand \in [Slots -> Nat] /\ c \in Coordinator
    BY <1>0
  <2>2. QED
    BY <2>1, <1>2, <1>3, Put
<1>6. QED
  BY <1>4, <1>5 DEF Alone, Phase, d, x

\* A phase of a frame that does not end it
LEMMA SetPhaseIsGood ==
  ASSUME NEW c, Good(c), NEW f \in DOMAIN c.frames, NEW phase \in Candidate \cup Live,
         \/ phase \in Candidate /\ Phase(c, f) \in Candidate
         \/ phase \in Live /\ Phase(c, f) \in Candidate \cup Live
  PROVE  Good(SetPhase(c, f, phase))
<1> DEFINE d == SetPhase(c, f, phase)
<1>1. /\ d \in Coordinator /\ Alone(c, d, f) /\ Phase(d, f) = phase
      /\ d.phys = c.phys /\ d.cand = c.cand
      /\ d.frames[f].tracks = c.frames[f].tracks
  <2>1. phase \in Candidate \cup Live \cup Ended
    OBVIOUS
  <2>2. QED
    BY <2>1, SetPhaseSets
<1> HIDE DEF d
<1>2. DOMAIN d.frames = DOMAIN c.frames
  BY <1>1, Places DEF Alone, Good
<1>3. Candidate \cap Live = {} /\ Candidate \cap Ended = {} /\ Live \cap Ended = {}
  BY DEF Candidate, Live, Ended
<1>4. \A g \in DOMAIN c.frames : /\ d.frames[g].slot = c.frames[g].slot
                                 /\ d.frames[g].replaces = c.frames[g].replaces
                                 /\ d.frames[g].tracks = c.frames[g].tracks
                                 /\ g # f => Phase(d, g) = Phase(c, g)
  BY <1>1 DEF Alone, Phase
<1>5. Indexed(c)
  BY DEF Good
<1>6. Indexed(d)
  <2>1. ASSUME NEW s \in Slots
        PROVE  /\ d.phys[s] # None => /\ d.phys[s] \in DOMAIN d.frames
                                      /\ d.frames[d.phys[s]].slot = s
                                      /\ Phase(d, d.phys[s]) \in Live
               /\ d.cand[s] # None => /\ d.cand[s] \in DOMAIN d.frames
                                      /\ d.frames[d.cand[s]].slot = s
                                      /\ Phase(d, d.cand[s]) \notin Ended
    BY <1>1, <1>2, <1>3, <1>4, <1>5 DEF Indexed
  <2>2. ASSUME NEW g \in DOMAIN d.frames
        PROVE  /\ d.frames[g].replaces < g
               /\ Phase(d, g) \in Candidate => d.cand[d.frames[g].slot] = g
               /\ Phase(d, g) \in Ended => d.frames[g].tracks = {}
    BY <1>1, <1>2, <1>3, <1>4, <1>5 DEF Indexed
  <2>3. QED
    BY <2>1, <2>2 DEF Indexed
<1>7. QED
  BY <1>1, <1>6 DEF Good, d

\* Without forgets one frame.
LEMMA WithoutForgets ==
  ASSUME NEW index \in [Slots -> Nat], NEW f
  PROVE  /\ Without(index, f) \in [Slots -> Nat]
         /\ \A s \in Slots : /\ Without(index, f)[s] \in {index[s], None}
                             /\ Without(index, f)[s] # index[s] => index[s] = f
                             /\ f # None => Without(index, f)[s] # f
BY DEF Without, None

\* A frame that has ended has the phase it ended with and no tracks.
LEMMA AsEndedFields ==
  ASSUME NEW x \in Frame, NEW phase \in Ended
  PROVE  LET y == AsEnded(x, phase)
         IN  /\ y \in Frame /\ y.phase = phase /\ y.tracks = {}
             /\ y.slot = x.slot /\ y.intents = x.intents /\ y.replaces = x.replaces
BY DEF Frame, AsEnded

\* The end of a frame
LEMMA EndFrameEnds ==
  ASSUME NEW c, Good(c), NEW f \in DOMAIN c.frames, NEW phase \in Ended
  PROVE  LET d == EndFrame(c, f, phase)
         IN  /\ Good(d) /\ Alone(c, d, f) /\ Phase(d, f) \in Ended
             /\ Phase(c, f) \in Ended => d = c
             /\ Phase(c, f) \notin Ended => d.frames[f] = AsEnded(c.frames[f], phase)
             /\ \A s \in Slots : /\ d.cand[s] \in {c.cand[s], None}
                                 /\ d.cand[s] # c.cand[s] => c.cand[s] = f
                                 /\ d.phys[s] \in {c.phys[s], None}
<1> DEFINE d == EndFrame(c, f, phase)
           x == AsEnded(c.frames[f], phase)
<1>0. c \in Coordinator /\ c.phys \in [Slots -> Nat] /\ c.cand \in [Slots -> Nat] /\ Indexed(c)
  BY DEF Good, Coordinator
<1>1. CASE Phase(c, f) \in Ended
  BY <1>0, <1>1 DEF EndFrame, Good, Alone
<1>2. CASE Phase(c, f) \notin Ended
  <2>1. c.frames[f] \in Frame /\ f # None
    BY <1>0, Places
  <2>2. /\ x \in Frame /\ x.phase = phase /\ x.tracks = {} /\ x.slot = c.frames[f].slot
        /\ x.intents = c.frames[f].intents /\ x.replaces = c.frames[f].replaces
    BY <2>1, AsEndedFields
  <2> DEFINE p == Without(c.phys, f)
             q == Without(c.cand, f)
  <2>3. /\ p \in [Slots -> Nat] /\ q \in [Slots -> Nat]
        /\ \A s \in Slots : /\ p[s] \in {c.phys[s], None} /\ p[s] # f
                            /\ q[s] \in {c.cand[s], None} /\ q[s] # f
                            /\ q[s] # c.cand[s] => c.cand[s] = f
    <3>1. /\ p \in [Slots -> Nat]
          /\ \A s \in Slots : p[s] \in {c.phys[s], None} /\ p[s] # f
      BY <1>0, <2>1, WithoutForgets
    <3>2. /\ q \in [Slots -> Nat]
          /\ \A s \in Slots : /\ q[s] \in {c.cand[s], None} /\ q[s] # f
                              /\ q[s] # c.cand[s] => c.cand[s] = f
      BY <1>0, <2>1, WithoutForgets
    <3>3. QED
      BY <3>1, <3>2
  <2>4. d = WithFrame(c, f, x, p, q)
    BY <1>2 DEF EndFrame, WithFrame
  <2> HIDE DEF d, x, p, q
  <2>5. /\ d \in Coordinator /\ DOMAIN d.frames = DOMAIN c.frames
        /\ Len(d.frames) = Len(c.frames)
        /\ d.frames[f] = x /\ d.phys = p /\ d.cand = q
        /\ \A g \in DOMAIN c.frames \ {f} : d.frames[g] = c.frames[g]
    <3>1. c \in Coordinator /\ x \in Frame /\ p \in [Slots -> Nat] /\ q \in [Slots -> Nat]
      BY <1>0, <2>2, <2>3
    <3>2. QED
      BY <3>1, <2>4, Put
  <2>6. Alone(c, d, f) /\ Phase(d, f) = phase
    BY <2>2, <2>5 DEF Alone, Phase
  <2>7. Candidate \cap Ended = {} /\ phase \in Ended
    BY DEF Candidate, Ended
  <2>8. Indexed(d)
    <3>1. ASSUME NEW s \in Slots
          PROVE  /\ d.phys[s] # None => /\ d.phys[s] \in DOMAIN d.frames
                                        /\ d.frames[d.phys[s]].slot = s
                                        /\ Phase(d, d.phys[s]) \in Live
                 /\ d.cand[s] # None => /\ d.cand[s] \in DOMAIN d.frames
                                        /\ d.frames[d.cand[s]].slot = s
                                        /\ Phase(d, d.cand[s]) \notin Ended
      BY <1>0, <2>3, <2>5 DEF Indexed, Phase
    <3>2. ASSUME NEW g \in DOMAIN d.frames
          PROVE  /\ d.frames[g].replaces < g
                 /\ Phase(d, g) \in Candidate => d.cand[d.frames[g].slot] = g
                 /\ Phase(d, g) \in Ended => d.frames[g].tracks = {}
      <4>1. CASE g = f
        BY <4>1, <1>0, <2>2, <2>5, <2>6, <2>7 DEF Indexed
      <4>2. CASE g # f
        <5>1. d.frames[g] = c.frames[g] /\ Phase(d, g) = Phase(c, g) /\ g \in DOMAIN c.frames
          BY <4>2, <2>5 DEF Phase
        <5>2. c.frames[g].slot \in Slots
          BY <5>1, <1>0, Places, FrameFields
        <5>3. Phase(d, g) \in Candidate => q[c.frames[g].slot] = c.cand[c.frames[g].slot]
          BY <5>1, <5>2, <4>2, <1>0, <2>3 DEF Indexed
        <5>4. QED
          BY <5>1, <5>3, <2>5, <1>0 DEF Indexed
      <4>3. QED
        BY <4>1, <4>2
    <3>3. QED
      BY <3>1, <3>2 DEF Indexed
  <2>9. QED
    BY <1>2, <2>3, <2>5, <2>6, <2>8 DEF Good, d, x
<1>3. QED
  BY <1>1, <1>2

\* f has ended, or nothing has happened.
Ends(c, d, f) ==
  /\ Good(d) /\ Alone(c, d, f)
  /\ d = c \/ (Phase(d, f) \in Ended /\ Phase(c, f) \notin Ended)

\* A frame stays as it is, unless it is a candidate that is cancelled.
Stays(x, y) == y = x \/ (x.phase \in Candidate /\ y = AsEnded(x, "cancelled"))

\* Nothing is a phase of two kinds.
LEMMA PhasesDiffer ==
  /\ Candidate \cap Live = {} /\ Candidate \cap Ended = {} /\ Live \cap Ended = {}
  /\ {"terminal", "cancelled"} \subseteq Ended /\ {"committed", "on_air", "draining"} \subseteq Live
  /\ {"encoding", "ready", "prepared"} \subseteq Candidate
BY DEF Candidate, Live, Ended

\* A frame that nothing happens to is alone in that.
LEMMA AloneItself == ASSUME NEW c, NEW f PROVE Alone(c, c, f)
BY DEF Alone

\* EndFrame ends its frame, or finds it ended.
LEMMA EndFrameIsEnd ==
  ASSUME NEW c, Good(c), NEW f \in DOMAIN c.frames, NEW phase \in Ended
  PROVE  Ends(c, EndFrame(c, f, phase), f) /\ Phase(EndFrame(c, f, phase), f) \in Ended
<1>1. CASE Phase(c, f) \in Ended
  BY <1>1, AloneItself DEF EndFrame, Ends
<1>2. CASE Phase(c, f) \notin Ended
  BY <1>2, EndFrameEnds DEF Ends
<1>3. QED
  BY <1>1, <1>2

\* CancelFrame cancels a candidate.
LEMMA CancelCancels ==
  ASSUME NEW c, Good(c), NEW f \in DOMAIN c.frames
  PROVE  LET d == CancelFrame(c, f)
         IN  /\ Ends(c, d, f) /\ Phase(d, f) \notin Candidate
             /\ Stays(c.frames[f], d.frames[f])
             /\ \A s \in Slots : d.cand[s] \in {c.cand[s], None} /\ d.phys[s] \in {c.phys[s], None}
             /\ Phase(c, f) \notin Candidate => d = c
<1>0. "cancelled" \in Ended
  BY PhasesDiffer
<1>1. CASE Phase(c, f) \in Candidate
  <2> DEFINE d == EndFrame(c, f, "cancelled")
  <2>1. CancelFrame(c, f) = d
    BY <1>1 DEF CancelFrame
  <2>2. Phase(c, f) \notin Ended
    BY <1>1, PhasesDiffer
  <2>3. Ends(c, d, f) /\ Phase(d, f) \in Ended
    BY <1>0, EndFrameIsEnd
  <2>4. /\ d.frames[f] = AsEnded(c.frames[f], "cancelled")
        /\ \A s \in Slots : d.cand[s] \in {c.cand[s], None} /\ d.phys[s] \in {c.phys[s], None}
    BY <1>0, <2>2, EndFrameEnds
  <2> HIDE DEF d
  <2>5. Phase(d, f) \notin Candidate
    BY <2>3, PhasesDiffer
  <2>6. Stays(c.frames[f], d.frames[f])
    BY <2>4, <1>1 DEF Stays, Phase
  <2>7. QED
    BY <2>1, <2>3, <2>4, <2>5, <2>6, <1>1
<1>2. CASE Phase(c, f) \notin Candidate
  BY <1>2, AloneItself DEF CancelFrame, Ends, Stays
<1>3. QED
  BY <1>1, <1>2

\* DeferFrame ends a candidate, and a committed frame.
LEMMA DeferDefers ==
  ASSUME NEW c, Good(c), NEW f \in DOMAIN c.frames
  PROVE  /\ Ends(c, DeferFrame(c, f), f)
         /\ Phase(c, f) \in Candidate \cup {"committed"} \cup Ended
              => Phase(DeferFrame(c, f), f) \in Ended
<1>0. "cancelled" \in Ended
  BY PhasesDiffer
<1>1. CASE Phase(c, f) \in Candidate \cup {"committed"}
  BY <1>0, <1>1, EndFrameIsEnd DEF DeferFrame
<1>2. CASE Phase(c, f) \notin Candidate \cup {"committed"}
  BY <1>2, AloneItself DEF DeferFrame, Ends
<1>3. QED
  BY <1>1, <1>2

\* CompleteFrame ends a frame.
LEMMA CompleteCompletes ==
  ASSUME NEW c, Good(c), NEW f \in DOMAIN c.frames
  PROVE  Ends(c, CompleteFrame(c, f), f) /\ Phase(CompleteFrame(c, f), f) \in Ended
<1>1. CompleteFrame(c, f) = EndFrame(c, f, IF Phase(c, f) \in Candidate THEN "cancelled" ELSE "terminal")
  BY DEF CompleteFrame
<1>2. (IF Phase(c, f) \in Candidate THEN "cancelled" ELSE "terminal") \in Ended
  BY PhasesDiffer
<1>3. QED
  BY <1>1, <1>2, EndFrameIsEnd

(***************************************************************************)
(* All the frames of a coordinator                                         *)
(***************************************************************************)

\* Frames stay or are cancelled, and what is added is being encoded, for one slot.
Evolves(c, d, s) ==
  /\ Len(d.frames) \in {Len(c.frames), Len(c.frames) + 1}
  /\ \A g \in DOMAIN c.frames : g \in DOMAIN d.frames /\ Stays(c.frames[g], d.frames[g])
  /\ \A g \in DOMAIN d.frames \ DOMAIN c.frames :
       Phase(d, g) = "encoding" /\ d.frames[g].slot = s

\* Ending one frame that may only be a candidate is an evolution.
LEMMA CancelEvolves ==
  ASSUME NEW c, Good(c), NEW f \in DOMAIN c.frames, NEW s
  PROVE  Evolves(c, CancelFrame(c, f), s) /\ Len(CancelFrame(c, f).frames) = Len(c.frames)
<1> DEFINE d == CancelFrame(c, f)
<1>1. Ends(c, d, f) /\ Stays(c.frames[f], d.frames[f])
  BY CancelCancels
<1> HIDE DEF d
<1>2. DOMAIN d.frames = DOMAIN c.frames /\ Len(d.frames) = Len(c.frames)
  BY <1>1, Places DEF Ends, Alone, Good
<1>3. \A g \in DOMAIN c.frames : Stays(c.frames[g], d.frames[g])
  BY <1>1 DEF Ends, Alone, Stays
<1>4. QED
  BY <1>2, <1>3 DEF Evolves, d

\* An evolution after a cancellation is one.
LEMMA EvolvesOn ==
  ASSUME NEW b, NEW c, NEW d, NEW s, Good(b), Good(c), Good(d), Evolves(b, c, s),
         Len(c.frames) = Len(b.frames), Evolves(c, d, s)
  PROVE  Evolves(b, d, s)
<1>1. DOMAIN c.frames = DOMAIN b.frames
  BY Places DEF Good
<1>2. \A g \in DOMAIN b.frames : g \in DOMAIN d.frames
  BY <1>1 DEF Evolves
<1>3. ASSUME NEW g \in DOMAIN b.frames
      PROVE  Stays(b.frames[g], d.frames[g])
  <2>1. Stays(b.frames[g], c.frames[g]) /\ Stays(c.frames[g], d.frames[g])
    BY <1>1 DEF Evolves
  <2>2. CASE c.frames[g] = b.frames[g]
    BY <2>1, <2>2
  <2>3. CASE b.frames[g].phase \in Candidate /\ c.frames[g] = AsEnded(b.frames[g], "cancelled")
    <3>1. b.frames[g] \in Frame
      BY Places DEF Good
    <3>2. c.frames[g].phase = "cancelled"
      BY <3>1, <2>3, PhasesDiffer, AsEndedFields
    <3>3. c.frames[g].phase \notin Candidate
      BY <3>2 DEF Candidate
    <3>4. QED
      BY <3>3, <2>1, <2>3 DEF Stays
  <2>4. QED
    BY <2>1, <2>2, <2>3 DEF Stays
<1>4. QED
  BY <1>1, <1>2, <1>3 DEF Evolves

\* A frame that is added, as the candidate of its slot
WithNext(c, x) ==
  [frames |-> Append(c.frames, x), phys |-> c.phys,
   cand |-> [c.cand EXCEPT ![x.slot] = Len(c.frames) + 1]]

\* ..., and is the candidate of its slot.
LEMMA NextIsGood ==
  ASSUME NEW c, Good(c), NEW x \in Frame,
         x.phase \in Candidate, x.replaces <= Len(c.frames),
         c.cand[x.slot] # None => Phase(c, c.cand[x.slot]) \notin Candidate
  PROVE  LET d == WithNext(c, x)
         IN  /\ Good(d) /\ Len(d.frames) = Len(c.frames) + 1 /\ d.phys = c.phys
             /\ DOMAIN d.frames = DOMAIN c.frames \cup {Len(c.frames) + 1}
             /\ \A g \in DOMAIN c.frames : d.frames[g] = c.frames[g]
             /\ d.frames[Len(c.frames) + 1] = x
             /\ d.cand[x.slot] = Len(c.frames) + 1
<1> DEFINE d == WithNext(c, x)
           n == Len(c.frames)
           s == Append(c.frames, x)
           k == [c.cand EXCEPT ![x.slot] = n + 1]
<1>1. c \in Coordinator /\ Indexed(c)
  BY DEF Good
<1>2. /\ n \in Nat /\ DOMAIN c.frames = 1..n /\ c.frames \in Seq(Frame)
      /\ \A f \in DOMAIN c.frames : f \in Nat /\ f # None /\ f <= n /\ c.frames[f] \in Frame
  BY <1>1, Places
<1>3. /\ s \in Seq(Frame) /\ Len(s) = n + 1 /\ DOMAIN s = 1..(n + 1) /\ s[n + 1] = x
      /\ \A g \in 1..n : s[g] = c.frames[g]
  BY <1>2, AppendProperties
<1>4. c.phys \in [Slots -> Nat] /\ c.cand \in [Slots -> Nat] /\ x.slot \in Slots
  BY <1>1, FrameFields DEF Coordinator
<1>5. /\ k \in [Slots -> Nat] /\ k[x.slot] = n + 1
      /\ \A t \in Slots \ {x.slot} : k[t] = c.cand[t]
  BY <1>4, <1>2
<1>6. d.frames = s /\ d.phys = c.phys /\ d.cand = k
  BY DEF WithNext
<1>7. d \in Coordinator
  BY <1>3, <1>4, <1>5 DEF WithNext, Coordinator
<1> HIDE DEF d, n, s, k
<1>8. n + 1 # None /\ n + 1 \in 1..(n + 1) /\ n + 1 \notin 1..n /\ 1..(n + 1) = 1..n \cup {n + 1}
  BY <1>2 DEF None
<1>9. Indexed(d)
  <2>1. ASSUME NEW t \in Slots
        PROVE  /\ d.phys[t] # None => /\ d.phys[t] \in DOMAIN d.frames
                                      /\ d.frames[d.phys[t]].slot = t
                                      /\ Phase(d, d.phys[t]) \in Live
               /\ d.cand[t] # None => /\ d.cand[t] \in DOMAIN d.frames
                                      /\ d.frames[d.cand[t]].slot = t
                                      /\ Phase(d, d.cand[t]) \notin Ended
    <3>1. c.phys[t] # None => /\ c.phys[t] \in 1..n /\ c.frames[c.phys[t]].slot = t
                              /\ c.frames[c.phys[t]].phase \in Live
      BY <1>1, <1>2 DEF Indexed, Phase
    <3>2. d.phys[t] # None => /\ d.phys[t] \in DOMAIN d.frames
                              /\ d.frames[d.phys[t]].slot = t
                              /\ Phase(d, d.phys[t]) \in Live
      BY <3>1, <1>3, <1>6, <1>8 DEF Phase
    <3>3. CASE t = x.slot
      BY <3>2, <3>3, <1>3, <1>5, <1>6, <1>8, PhasesDiffer DEF Phase
    <3>4. CASE t # x.slot
      <4>1. c.cand[t] # None => /\ c.cand[t] \in 1..n /\ c.frames[c.cand[t]].slot = t
                                /\ c.frames[c.cand[t]].phase \notin Ended
        BY <1>1, <1>2 DEF Indexed, Phase
      <4>2. QED
        BY <4>1, <3>2, <3>4, <1>3, <1>5, <1>6, <1>8 DEF Phase
    <3>5. QED
      BY <3>3, <3>4
  <2>2. ASSUME NEW g \in DOMAIN d.frames
        PROVE  /\ d.frames[g].replaces < g
               /\ Phase(d, g) \in Candidate => d.cand[d.frames[g].slot] = g
               /\ Phase(d, g) \in Ended => d.frames[g].tracks = {}
    <3>1. CASE g = n + 1
      <4>1. x.replaces \in Nat
        BY FrameFields
      <4>2. x.replaces < n + 1
        BY <4>1, <1>2 DEF n
      <4>3. QED
        BY <3>1, <4>2, <1>3, <1>5, <1>6, PhasesDiffer DEF Phase
    <3>2. CASE g # n + 1
      <4>1. g \in DOMAIN c.frames /\ d.frames[g] = c.frames[g]
        BY <3>2, <1>2, <1>3, <1>6, <1>8
      <4>2. /\ c.frames[g].replaces < g
            /\ Phase(c, g) \in Candidate => c.cand[c.frames[g].slot] = g
            /\ Phase(c, g) \in Ended => c.frames[g].tracks = {}
            /\ g # None /\ c.frames[g].slot \in Slots
        BY <4>1, <1>1, <1>2, FrameFields DEF Indexed
      <4>3. Phase(c, g) \in Candidate => c.frames[g].slot # x.slot
        BY <4>2
      <4>4. Phase(d, g) = Phase(c, g)
        BY <4>1 DEF Phase
      <4>5. QED
        BY <4>1, <4>2, <4>3, <4>4, <1>5, <1>6
    <3>3. QED
      BY <3>1, <3>2
  <2>3. QED
    BY <2>1, <2>2 DEF Indexed
<1>10. QED
  BY <1>2, <1>3, <1>5, <1>6, <1>7, <1>8, <1>9 DEF Good, d, n

\* A new frame that was made of typed messages
LEMMA NewFrameIsFrame ==
  ASSUME NEW s \in Slots, NEW m \in Messages, NEW phase \in Candidate, NEW r \in Nat
  PROVE  LET x == NewFrame(s, m, phase, r)
         IN  /\ x \in Frame /\ x.slot = s /\ x.intents = m /\ x.phase = phase
             /\ x.replaces = r /\ x.tracks = {}
BY DEF NewFrame, Frame

\* Added adds a frame, and cancels the candidate before it.
LEMMA AddedIsGood ==
  ASSUME NEW c, Good(c), NEW x \in Frame,
         x.phase \in Candidate, x.replaces <= Len(c.frames)
  PROVE  LET d == Added(c, x.slot, x)
         IN  /\ Good(d) /\ Len(d.frames) = Len(c.frames) + 1
             /\ DOMAIN d.frames = DOMAIN c.frames \cup {Len(c.frames) + 1}
             /\ \A g \in DOMAIN c.frames : Stays(c.frames[g], d.frames[g])
             /\ d.frames[Len(c.frames) + 1] = x
             /\ d.cand[x.slot] = Len(c.frames) + 1
<1> DEFINE q == c.cand[x.slot]
           b == IF q = None THEN c ELSE CancelFrame(c, q)
<1>1. x.slot \in Slots /\ c \in Coordinator /\ Indexed(c)
  BY FrameFields DEF Good
<1>2. /\ Good(b) /\ Len(b.frames) = Len(c.frames) /\ DOMAIN b.frames = DOMAIN c.frames
      /\ \A g \in DOMAIN c.frames : Stays(c.frames[g], b.frames[g])
      /\ b.cand[x.slot] # None => Phase(b, b.cand[x.slot]) \notin Candidate
  <2>1. CASE q = None
    BY <2>1, <1>1 DEF Stays
  <2>2. CASE q # None
    <3>1. q \in DOMAIN c.frames
      BY <2>2, <1>1 DEF Indexed
    <3>2. /\ Ends(c, CancelFrame(c, q), q) /\ Phase(CancelFrame(c, q), q) \notin Candidate
          /\ Stays(c.frames[q], CancelFrame(c, q).frames[q])
          /\ CancelFrame(c, q).cand[x.slot] \in {q, None}
      BY <3>1, <1>1, CancelCancels
    <3>3. b = CancelFrame(c, q)
      BY <2>2
    <3> HIDE DEF b, q
    <3>4. Good(b) /\ Len(b.frames) = Len(c.frames) /\ b \in Coordinator
      BY <3>2, <3>3 DEF Ends, Alone, Good
    <3>5. DOMAIN b.frames = DOMAIN c.frames
      BY <3>4, <1>1, Places
    <3>6. \A g \in DOMAIN c.frames : Stays(c.frames[g], b.frames[g])
      BY <3>2, <3>3 DEF Ends, Alone, Stays
    <3>7. QED
      BY <3>2, <3>3, <3>4, <3>5, <3>6
  <2>3. QED
    BY <2>1, <2>2
<1>3. Added(c, x.slot, x) = WithNext(b, x)
  <2> DEFINE s == Append(b.frames, x)
             k == [b.cand EXCEPT ![x.slot] = Len(c.frames) + 1]
  <2>1. Added(c, x.slot, x) = [[b EXCEPT !.frames = s] EXCEPT !.cand = k]
    <3>1. b \in Coordinator
      BY <1>2 DEF Good
    <3> HIDE DEF b
    <3>2. [b EXCEPT !.frames = s].cand = b.cand
      BY <3>1 DEF Coordinator
    <3>3. QED
      BY <3>2 DEF Added, b
  <2>2. [b EXCEPT !.frames = s] = [frames |-> s, phys |-> b.phys, cand |-> b.cand]
    <3>1. b \in Coordinator
      BY <1>2 DEF Good
    <3> HIDE DEF b, s
    <3>2. QED
      BY <3>1, Written
  <2> HIDE DEF b, s, k
  <2>3. QED
    BY <2>1, <2>2, <1>2 DEF WithNext, s, k
<1> HIDE DEF b, q
<1>4. x.replaces <= Len(b.frames)
  BY <1>2
<1>5. LET d == WithNext(b, x)
      IN  /\ Good(d) /\ Len(d.frames) = Len(b.frames) + 1 /\ d.phys = b.phys
          /\ DOMAIN d.frames = DOMAIN b.frames \cup {Len(b.frames) + 1}
          /\ \A g \in DOMAIN b.frames : d.frames[g] = b.frames[g]
          /\ d.frames[Len(b.frames) + 1] = x
          /\ d.cand[x.slot] = Len(b.frames) + 1
  BY <1>2, <1>4, NextIsGood
<1>6. QED
  BY <1>2, <1>3, <1>5

\* PrepareFrame adds a frame that is being encoded.
LEMMA PrepareEvolves ==
  ASSUME NEW c, Good(c), NEW s \in Slots, NEW m \in Messages
  PROVE  LET d == PrepareFrame(c, s, m)
         IN  /\ Good(d) /\ Evolves(c, d, s) /\ Len(d.frames) = Len(c.frames) + 1
             /\ d.frames[Len(c.frames) + 1].intents = m
<1> DEFINE r == Predecessor(c, s)
           x == NewFrame(s, m, "encoding", r)
           d == PrepareFrame(c, s, m)
           n == Len(c.frames)
<1>1. c \in Coordinator /\ Indexed(c) /\ n \in Nat /\ DOMAIN c.frames = 1..n
  BY Places DEF Good
<1>2. r \in Nat /\ r <= n
  <2>1. c.phys[s] = None \/ c.phys[s] \in 1..n
    BY <1>1 DEF Indexed
  <2>2. c.cand[s] = None \/ c.cand[s] \in 1..n
    BY <1>1 DEF Indexed
  <2> HIDE DEF n
  <2>3. QED
    BY <1>1, <2>1, <2>2 DEF Predecessor, None
<1>3. "encoding" \in Candidate
  BY DEF Candidate
<1> HIDE DEF r
<1>4. /\ x \in Frame /\ x.slot = s /\ x.intents = m /\ x.phase = "encoding"
      /\ x.replaces = r
  BY <1>2, <1>3, NewFrameIsFrame
<1>5. d = Added(c, x.slot, x)
  BY <1>4 DEF PrepareFrame, r
<1> HIDE DEF x, d
<1>6. /\ Good(d) /\ Len(d.frames) = n + 1
      /\ DOMAIN d.frames = DOMAIN c.frames \cup {n + 1}
      /\ \A g \in DOMAIN c.frames : Stays(c.frames[g], d.frames[g])
      /\ d.frames[n + 1] = x
  <2>1. x.phase \in Candidate /\ x.replaces <= Len(c.frames) /\ x \in Frame
    BY <1>2, <1>3, <1>4
  <2>2. QED
    BY <2>1, <1>5, AddedIsGood
<1>7. Evolves(c, d, s)
  BY <1>4, <1>6 DEF Evolves, Phase
<1>8. QED
  BY <1>4, <1>6, <1>7 DEF d

\* AcceptEncode gives a track to a frame that is being encoded.
LEMMA AcceptAccepts ==
  ASSUME NEW c, Good(c), NEW f \in DOMAIN c.frames, NEW o \in Parts(c, f)
  PROVE  LET d == AcceptEncode(c, f, o)
         IN  /\ Good(d) /\ Alone(c, d, f)
             /\ Phase(c, f) # "encoding" => d = c
             /\ Phase(c, f) = "encoding" => Phase(d, f) \in {"encoding", "ready"}
<1>1. CASE Phase(c, f) # "encoding"
  BY <1>1, AloneItself DEF AcceptEncode
<1>2. CASE Phase(c, f) = "encoding"
  <2> DEFINE done == c.frames[f].encoded \cup {o}
             ph == IF done = Parts(c, f) THEN "ready" ELSE Phase(c, f)
             x == [[[c.frames[f] EXCEPT !.encoded = done] EXCEPT !.tracks = @ \cup {o}]
                      EXCEPT !.phase = ph]
             d == AcceptEncode(c, f, o)
  <2>1. c \in Coordinator /\ Indexed(c) /\ c.frames[f] \in Frame
        /\ c.phys \in [Slots -> Nat] /\ c.cand \in [Slots -> Nat]
    BY Places DEF Good, Coordinator
  <2>2. o \in Operators
    <3>1. c.frames[f].intents \in Messages
      BY <2>1, FrameFields
    <3>2. QED
      BY <3>1 DEF Messages, Parts, Intents
  <2>3. ph \in {"encoding", "ready"}
    BY <1>2
  <2>4. done \in SUBSET Operators /\ c.frames[f].tracks \cup {o} \in SUBSET Operators
    BY <2>1, <2>2, FrameFields
  <2> HIDE DEF ph, done
  <2>5. /\ x \in Frame /\ x.phase = ph /\ x.slot = c.frames[f].slot
        /\ x.intents = c.frames[f].intents /\ x.replaces = c.frames[f].replaces
    BY <2>1, <2>3, <2>4, PhasesDiffer DEF Frame
  <2>6. d = WithFrame(c, f, x, c.phys, c.cand)
    <3> DEFINE s == c.frames
               y == [c.frames[f] EXCEPT !.encoded = done]
               z == [y EXCEPT !.tracks = @ \cup {o}]
               s1 == [c.frames EXCEPT ![f] = y]
               s2 == [s1 EXCEPT ![f] = z]
               s3 == [s2 EXCEPT ![f] = x]
    <3>0. s \in Seq(Frame)
      BY <2>1 DEF Coordinator
    <3>1. y.tracks = c.frames[f].tracks /\ y.phase = c.frames[f].phase
          /\ z.phase = c.frames[f].phase
      BY <2>1 DEF Frame
    <3>2. s1[f] = y /\ s2[f] = z /\ s3 = [c.frames EXCEPT ![f] = x]
      BY <3>0
    <3>3. d = [[[c EXCEPT !.frames = s1] EXCEPT !.frames = s2] EXCEPT !.frames = s3]
      <4>1. /\ [c EXCEPT !.frames = s1].frames = s1
            /\ [[c EXCEPT !.frames = s1] EXCEPT !.frames = s2].frames = s2
        BY <2>1 DEF Coordinator
      <4>2. d = [c EXCEPT !.frames[f].encoded = done,
                          !.frames[f].tracks = @ \cup {o},
                          !.frames[f].phase = IF done = Parts(c, f) THEN "ready" ELSE @]
        BY <1>2 DEF AcceptEncode, done
      <4> DEFINE c1 == [c EXCEPT !.frames = s1]
                 c2 == [c1 EXCEPT !.frames = s2]
      <4>3. [c EXCEPT !.frames[f].encoded = done] = c1
        OBVIOUS
      <4>4. [c1 EXCEPT !.frames[f].tracks = c.frames[f].tracks \cup {o}] = c2
        BY <4>1, <3>1, <3>2
      <4>5. [c2 EXCEPT !.frames[f].phase = IF done = Parts(c, f) THEN "ready" ELSE c.frames[f].phase]
              = [c2 EXCEPT !.frames = s3]
        BY <4>1, <3>1, <3>2 DEF ph, Phase
      <4>6. QED
        BY <4>2, <4>3, <4>4, <4>5
    <3> HIDE DEF s1, s2, s3, x, y, z, d
    <3>4. d = [frames |-> s3, phys |-> c.phys, cand |-> c.cand]
      BY <3>3, <2>1 DEF Coordinator
    <3>5. QED
      BY <3>2, <3>4 DEF WithFrame
  <2> HIDE DEF x, d
  <2>7. /\ d \in Coordinator /\ DOMAIN d.frames = DOMAIN c.frames
        /\ Len(d.frames) = Len(c.frames)
        /\ d.frames[f] = x /\ d.phys = c.phys /\ d.cand = c.cand
        /\ \A g \in DOMAIN c.frames \ {f} : d.frames[g] = c.frames[g]
    <3>1. c \in Coordinator /\ x \in Frame /\ c.phys \in [Slots -> Nat] /\ c.cand \in [Slots -> Nat]
      BY <2>1, <2>5
    <3>2. QED
      BY <3>1, <2>6, Put
  <2>8. Alone(c, d, f) /\ Phase(d, f) \in {"encoding", "ready"}
    BY <2>3, <2>5, <2>7 DEF Alone, Phase
  <2>9. {"encoding", "ready"} \subseteq Candidate \ Ended
    BY DEF Candidate, Ended
  <2>10. Indexed(d)
    <3>0. \A g \in DOMAIN c.frames : /\ d.frames[g].slot = c.frames[g].slot
                                     /\ d.frames[g].replaces = c.frames[g].replaces
                                     /\ g # f => /\ Phase(d, g) = Phase(c, g)
                                                 /\ d.frames[g].tracks = c.frames[g].tracks
      BY <2>5, <2>7 DEF Phase
    <3>a. Phase(c, f) \in Candidate /\ Phase(c, f) \notin Live
          /\ Phase(d, f) \in Candidate /\ Phase(d, f) \notin Ended
      BY <1>2, <2>8, <2>9, PhasesDiffer
    <3>1. ASSUME NEW s \in Slots
          PROVE  /\ d.phys[s] # None => /\ d.phys[s] \in DOMAIN d.frames
                                        /\ d.frames[d.phys[s]].slot = s
                                        /\ Phase(d, d.phys[s]) \in Live
                 /\ d.cand[s] # None => /\ d.cand[s] \in DOMAIN d.frames
                                        /\ d.frames[d.cand[s]].slot = s
                                        /\ Phase(d, d.cand[s]) \notin Ended
      BY <2>1, <2>7, <3>0, <3>a DEF Indexed
    <3>2. ASSUME NEW g \in DOMAIN d.frames
          PROVE  /\ d.frames[g].replaces < g
                 /\ Phase(d, g) \in Candidate => d.cand[d.frames[g].slot] = g
                 /\ Phase(d, g) \in Ended => d.frames[g].tracks = {}
      BY <2>1, <2>7, <3>0, <3>a DEF Indexed
    <3>3. QED
      BY <3>1, <3>2 DEF Indexed
  <2>11. QED
    BY <1>2, <2>7, <2>8, <2>10 DEF Good, d
<1>3. QED
  BY <1>1, <1>2

\* Commit commits a prepared frame.
LEMMA CommitCommits ==
  ASSUME NEW c, Good(c), NEW f \in DOMAIN c.frames
  PROVE  LET d == Commit(c, f)
         IN  /\ Good(d) /\ Alone(c, d, f) /\ d.frames[f].tracks = c.frames[f].tracks
             /\ Phase(c, f) = "prepared" => Phase(d, f) = "committed"
             /\ Phase(c, f) # "prepared" => d = c
<1>1. CASE Phase(c, f) = "prepared"
  <2>1. "committed" \in Live /\ Phase(c, f) \in Candidate
    BY <1>1, PhasesDiffer
  <2>2. Good(SetPhase(c, f, "committed"))
    BY <2>1, SetPhaseIsGood
  <2>3. "committed" \in Candidate \cup Live \cup Ended
    BY <2>1
  <2>4. /\ Alone(c, SetPhase(c, f, "committed"), f)
        /\ Phase(SetPhase(c, f, "committed"), f) = "committed"
        /\ SetPhase(c, f, "committed").frames[f].tracks = c.frames[f].tracks
    BY <2>3, SetPhaseSets
  <2>5. QED
    BY <1>1, <2>2, <2>4 DEF Commit
<1>2. CASE Phase(c, f) # "prepared"
  BY <1>2, AloneItself DEF Commit
<1>3. QED
  BY <1>1, <1>2

\* MarkDraining lets a frame on the air drain.
LEMMA DrainingDrains ==
  ASSUME NEW c, Good(c), NEW f \in DOMAIN c.frames
  PROVE  LET d == MarkDraining(c, f)
         IN  /\ Good(d) /\ Alone(c, d, f) /\ d.frames[f].tracks = c.frames[f].tracks
             /\ Phase(c, f) = "on_air" => Phase(d, f) = "draining"
             /\ Phase(c, f) # "on_air" => d = c
<1>1. CASE Phase(c, f) = "on_air"
  <2>1. "draining" \in Live /\ Phase(c, f) \in Candidate \cup Live
    BY <1>1, PhasesDiffer
  <2>2. Good(SetPhase(c, f, "draining"))
    BY <2>1, SetPhaseIsGood
  <2>3. "draining" \in Candidate \cup Live \cup Ended
    BY <2>1
  <2>4. /\ Alone(c, SetPhase(c, f, "draining"), f)
        /\ Phase(SetPhase(c, f, "draining"), f) = "draining"
        /\ SetPhase(c, f, "draining").frames[f].tracks = c.frames[f].tracks
    BY <2>3, SetPhaseSets
  <2>5. QED
    BY <1>1, <2>2, <2>4 DEF MarkDraining
<1>2. CASE Phase(c, f) # "on_air"
  BY <1>2, AloneItself DEF MarkDraining
<1>3. QED
  BY <1>1, <1>2

\* MarkOnAir puts a committed frame on the air, and ends the one it replaces.
LEMMA OnAirMarks ==
  ASSUME NEW c, Good(c), NEW f \in DOMAIN c.frames, Phase(c, f) = "committed"
  PROVE  LET d == MarkOnAir(c, f)
             p == c.frames[f].replaces
         IN  /\ Good(d) /\ Len(d.frames) = Len(c.frames)
             /\ Phase(d, f) = "on_air" /\ d.frames[f].tracks = c.frames[f].tracks
             /\ \A g \in DOMAIN c.frames :
                  /\ d.frames[g].slot = c.frames[g].slot
                  /\ d.frames[g].intents = c.frames[g].intents
                  /\ d.frames[g].replaces = c.frames[g].replaces
                  /\ g \notin {f, p} => d.frames[g] = c.frames[g]
                  /\ Phase(c, g) \in Ended => d.frames[g] = c.frames[g]
             /\ p # None => p \in DOMAIN c.frames /\ p # f /\ Phase(d, p) \in Ended
<1> DEFINE b == SetPhase(c, f, "on_air")
           x == b.frames[f]
           s == c.frames[f].slot
           p == c.frames[f].replaces
           ph == [c.phys EXCEPT ![s] = f]
           ca == [c.cand EXCEPT ![s] = IF @ = f THEN None ELSE @]
           d == [frames |-> b.frames, phys |-> ph, cand |-> ca]
<1>1. c \in Coordinator /\ Indexed(c) /\ c.phys \in [Slots -> Nat] /\ c.cand \in [Slots -> Nat]
  BY DEF Good, Coordinator
<1>2. /\ f \in Nat /\ f # None /\ c.frames[f] \in Frame /\ DOMAIN c.frames = 1..Len(c.frames)
      /\ Len(c.frames) \in Nat /\ \A g \in DOMAIN c.frames : c.frames[g] \in Frame
  BY <1>1, Places
<1>3. s \in Slots /\ p \in Nat /\ p < f
  BY <1>1, <1>2, FrameFields DEF Indexed
<1>4. "on_air" \in Live /\ "on_air" \in Candidate \cup Live \cup Ended
  BY PhasesDiffer
<1>5. Phase(c, f) \in Live
  BY PhasesDiffer
<1>6. /\ b \in Coordinator /\ Alone(c, b, f) /\ Phase(b, f) = "on_air"
      /\ b.phys = c.phys /\ b.cand = c.cand /\ b.frames[f].tracks = c.frames[f].tracks
  BY <1>4, SetPhaseSets
<1>7. /\ b.frames \in Seq(Frame) /\ DOMAIN b.frames = DOMAIN c.frames
      /\ Len(b.frames) = Len(c.frames)
      /\ \A g \in DOMAIN c.frames \ {f} : b.frames[g] = c.frames[g]
  BY <1>1, <1>6, Places DEF Alone
<1>8. /\ ph \in [Slots -> Nat] /\ ph[s] = f /\ \A t \in Slots \ {s} : ph[t] = c.phys[t]
      /\ ca \in [Slots -> Nat] /\ \A t \in Slots : /\ ca[t] \in {c.cand[t], None}
                                                   /\ ca[t] # c.cand[t] => c.cand[t] = f
  BY <1>1, <1>2, <1>3 DEF None
<1>9. /\ d \in Coordinator /\ d.frames = b.frames /\ d.phys = ph /\ d.cand = ca
  BY <1>7, <1>8 DEF Coordinator
<1>10. [b EXCEPT !.phys[s] = f, !.cand[s] = IF @ = f THEN None ELSE @] = d
  <2>1. [[b EXCEPT !.phys = ph] EXCEPT !.cand = ca] = d
    <3>1. b \in Coordinator
      BY <1>6
    <3> HIDE DEF b, ph, ca
    <3>2. QED
      BY <3>1, WrittenIndexes
  <2>2. [b EXCEPT !.phys = ph].cand = b.cand
    <3> HIDE DEF b, ph, ca
    <3>1. QED
      BY <1>6 DEF Coordinator
  <2> HIDE DEF b, d
  <2>3. QED
    BY <2>1, <2>2, <1>6
<1> HIDE DEF b, ph, ca, d, x
<1>11. Good(d)
  <2>1. ASSUME NEW t \in Slots
        PROVE  /\ d.phys[t] # None => /\ d.phys[t] \in DOMAIN d.frames
                                      /\ d.frames[d.phys[t]].slot = t
                                      /\ Phase(d, d.phys[t]) \in Live
               /\ d.cand[t] # None => /\ d.cand[t] \in DOMAIN d.frames
                                      /\ d.frames[d.cand[t]].slot = t
                                      /\ Phase(d, d.cand[t]) \notin Ended
    <3>1. /\ \A g \in DOMAIN c.frames : d.frames[g].slot = c.frames[g].slot
          /\ \A g \in DOMAIN c.frames : g # f => Phase(d, g) = Phase(c, g)
          /\ Phase(d, f) = "on_air"
      BY <1>6, <1>7, <1>9 DEF Alone, Phase
    <3>a. DOMAIN d.frames = DOMAIN c.frames /\ d.phys = ph /\ d.cand = ca
      BY <1>7, <1>9
    <3>b. c.cand[t] # None => /\ c.cand[t] \in DOMAIN c.frames /\ c.frames[c.cand[t]].slot = t
                              /\ Phase(c, c.cand[t]) \notin Ended
      BY <1>1 DEF Indexed
    <3>c. Phase(d, f) \in Live /\ Phase(d, f) \notin Ended
      BY <3>1, <1>4, PhasesDiffer
    <3>2. d.cand[t] # None => /\ d.cand[t] \in DOMAIN d.frames
                              /\ d.frames[d.cand[t]].slot = t
                              /\ Phase(d, d.cand[t]) \notin Ended
      BY <3>1, <3>a, <3>b, <3>c, <1>8
    <3>3. CASE t = s
      BY <3>1, <3>2, <3>3, <3>a, <3>c, <1>8
    <3>4. CASE t # s
      <4>1. c.phys[t] # None => /\ c.phys[t] \in DOMAIN c.frames
                                /\ c.frames[c.phys[t]].slot = t
                                /\ Phase(c, c.phys[t]) \in Live
        BY <1>1 DEF Indexed
      <4>2. d.phys[t] = c.phys[t]
        BY <3>4, <3>a, <1>8
      <4>3. QED
        BY <3>1, <3>2, <3>a, <3>c, <4>1, <4>2
    <3>5. QED
      BY <3>3, <3>4
  <2>2. ASSUME NEW g \in DOMAIN d.frames
        PROVE  /\ d.frames[g].replaces < g
               /\ Phase(d, g) \in Candidate => d.cand[d.frames[g].slot] = g
               /\ Phase(d, g) \in Ended => d.frames[g].tracks = {}
    <3>1. CASE g = f
      <4>1. Phase(d, f) = "on_air" /\ d.frames[f].replaces = p
        BY <1>6, <1>9 DEF Alone, Phase
      <4>2. QED
        BY <3>1, <4>1, <1>3, <1>4, PhasesDiffer
    <3>2. CASE g # f
      <4>1. g \in DOMAIN c.frames /\ d.frames[g] = c.frames[g] /\ Phase(d, g) = Phase(c, g)
        BY <3>2, <1>7, <1>9 DEF Phase
      <4>2. c.frames[g].slot \in Slots
        BY <4>1, <1>2, FrameFields
      <4>3. QED
        BY <3>2, <4>1, <4>2, <1>1, <1>8, <1>9 DEF Indexed
    <3>3. QED
      BY <3>1, <3>2
  <2>3. QED
    BY <1>9, <2>1, <2>2 DEF Good, Indexed
<1>12. Phase(d, f) = "on_air" /\ d.frames[f].tracks = c.frames[f].tracks
       /\ Len(d.frames) = Len(c.frames) /\ DOMAIN d.frames = DOMAIN c.frames
       /\ \A g \in DOMAIN c.frames :
            /\ d.frames[g].slot = c.frames[g].slot
            /\ d.frames[g].intents = c.frames[g].intents
            /\ d.frames[g].replaces = c.frames[g].replaces
            /\ g # f => d.frames[g] = c.frames[g]
  BY <1>6, <1>7, <1>9 DEF Alone, Phase
<1>13. MarkOnAir(c, f) = IF p = None THEN d ELSE EndFrame(d, p, "terminal")
  BY <1>10 DEF MarkOnAir, b
<1>14. CASE p = None
  BY <1>5, <1>11, <1>12, <1>13, <1>14, PhasesDiffer
<1>15. CASE p # None
  <2>1. p \in DOMAIN c.frames /\ p # f /\ "terminal" \in Ended
    BY <1>2, <1>3, <1>15, PhasesDiffer DEF None
  <2> DEFINE e == EndFrame(d, p, "terminal")
  <2>2. p \in DOMAIN d.frames
    BY <2>1, <1>12
  <2>3. Ends(d, e, p) /\ Phase(e, p) \in Ended
    BY <2>1, <2>2, <1>11, EndFrameIsEnd
  <2> HIDE DEF e
  <2>4. Good(e) /\ Alone(d, e, p) /\ (e = d \/ Phase(d, p) \notin Ended)
    BY <2>3 DEF Ends
  <2>5. /\ Len(e.frames) = Len(c.frames) /\ e.frames[f] = d.frames[f]
        /\ \A g \in DOMAIN c.frames :
            /\ e.frames[g].slot = c.frames[g].slot
            /\ e.frames[g].intents = c.frames[g].intents
            /\ e.frames[g].replaces = c.frames[g].replaces
            /\ g \notin {f, p} => e.frames[g] = c.frames[g]
    BY <2>1, <2>4, <1>12 DEF Alone
  <2>6. Phase(c, p) \in Ended => e.frames[p] = c.frames[p]
    BY <2>1, <2>4, <1>12 DEF Phase
  <2>7. Phase(e, f) = "on_air" /\ e.frames[f].tracks = c.frames[f].tracks
    BY <2>5, <1>12 DEF Phase
  <2>8. \A g \in DOMAIN c.frames : Phase(c, g) \in Ended => e.frames[g] = c.frames[g]
    BY <2>5, <2>6, <1>5, PhasesDiffer
  <2>9. MarkOnAir(c, f) = e
    BY <1>13, <1>15 DEF e
  <2>10. QED
    BY <2>1, <2>3, <2>4, <2>5, <2>7, <2>8, <2>9
<1>16. QED
  BY <1>14, <1>15

\* A sequence of frames is what is a function of the same places.
LEMMA FramesAgain ==
  ASSUME NEW c \in Coordinator, NEW s, s \in [DOMAIN c.frames -> Frame]
  PROVE  s \in Seq(Frame) /\ Len(s) = Len(c.frames) /\ DOMAIN s = DOMAIN c.frames
<1>1. DOMAIN c.frames = 1..Len(c.frames) /\ Len(c.frames) \in Nat
  BY Places
<1> DEFINE n == Len(c.frames)
<1>2. s \in [1..n -> Frame] /\ n \in Nat
  BY <1>1
<1> HIDE DEF n
<1>3. s \in Seq(Frame) /\ Len(s) = n /\ DOMAIN s = 1..n
  BY <1>2
<1>4. QED
  BY <1>1, <1>3 DEF n

\* The frames that are kept, and those of a set that is cancelled
AllCancelled(c, old) ==
  [f \in DOMAIN c.frames |-> IF f \in old THEN AsEnded(c.frames[f], "cancelled") ELSE c.frames[f]]

\* At the end of a slot the candidates of the others are cancelled.
LEMMA CancelOutsideCancels ==
  ASSUME NEW c, Good(c), NEW s
  PROVE  LET d == CancelPreCommitOutside(c, s)
         IN  /\ Good(d) /\ Len(d.frames) = Len(c.frames) /\ DOMAIN d.frames = DOMAIN c.frames
             /\ \A g \in DOMAIN c.frames : Stays(c.frames[g], d.frames[g])
             /\ \A g \in DOMAIN d.frames : Phase(d, g) \in Candidate => d.frames[g].slot = s
<1> DEFINE old == {f \in DOMAIN c.frames : Phase(c, f) \in Candidate /\ c.frames[f].slot # s}
           fs == AllCancelled(c, old)
           ph == [t \in Slots |-> IF c.phys[t] \in old THEN None ELSE c.phys[t]]
           ca == [t \in Slots |-> IF c.cand[t] \in old THEN None ELSE c.cand[t]]
           d == [frames |-> fs, phys |-> ph, cand |-> ca]
<1>1. c \in Coordinator /\ Indexed(c) /\ c.phys \in [Slots -> Nat] /\ c.cand \in [Slots -> Nat]
  BY DEF Good, Coordinator
<1>2. \A f \in DOMAIN c.frames : c.frames[f] \in Frame /\ f # None
  BY <1>1, Places
<1>3. CancelPreCommitOutside(c, s) = d
  BY DEF CancelPreCommitOutside, AllCancelled
<1>4. \A f \in old : f \in DOMAIN c.frames /\ Phase(c, f) \in Candidate /\ c.frames[f].slot # s
  OBVIOUS
<1>5. \A f \in DOMAIN c.frames : Phase(c, f) \in Candidate /\ c.frames[f].slot # s => f \in old
  OBVIOUS
<1>6. /\ ph \in [Slots -> Nat] /\ ca \in [Slots -> Nat]
      /\ \A t \in Slots : /\ ph[t] = IF c.phys[t] \in old THEN None ELSE c.phys[t]
                          /\ ca[t] = IF c.cand[t] \in old THEN None ELSE c.cand[t]
  BY <1>1 DEF None
<1> HIDE DEF old, ph, ca
<1>7. ASSUME NEW f \in DOMAIN c.frames
      PROVE  /\ f \notin old => fs[f] = c.frames[f]
             /\ f \in old => /\ fs[f] = AsEnded(c.frames[f], "cancelled")
                             /\ fs[f].phase = "cancelled" /\ fs[f].tracks = {}
                             /\ fs[f].slot = c.frames[f].slot
                             /\ fs[f].replaces = c.frames[f].replaces
             /\ fs[f] \in Frame
  <2>1. c.frames[f] \in Frame /\ "cancelled" \in Ended
    BY <1>2, PhasesDiffer
  <2>2. LET y == AsEnded(c.frames[f], "cancelled")
        IN  /\ y \in Frame /\ y.phase = "cancelled" /\ y.tracks = {}
            /\ y.slot = c.frames[f].slot /\ y.replaces = c.frames[f].replaces
    BY <2>1, AsEndedFields
  <2>3. fs[f] = IF f \in old THEN AsEnded(c.frames[f], "cancelled") ELSE c.frames[f]
    BY DEF AllCancelled
  <2> HIDE DEF fs
  <2>4. QED
    BY <2>1, <2>2, <2>3
<1>8. fs \in [DOMAIN c.frames -> Frame]
  <2>1. DOMAIN fs = DOMAIN c.frames /\ fs = [f \in DOMAIN fs |-> fs[f]]
    BY DEF AllCancelled
  <2> HIDE DEF fs
  <2>2. QED
    BY <2>1, <1>7
<1> HIDE DEF fs
<1>9. fs \in Seq(Frame) /\ Len(fs) = Len(c.frames) /\ DOMAIN fs = DOMAIN c.frames
  BY <1>1, <1>8, FramesAgain
<1>10. d \in Coordinator /\ d.frames = fs /\ d.phys = ph /\ d.cand = ca
  BY <1>6, <1>9 DEF Coordinator
<1> HIDE DEF d
<1>11. \A g \in DOMAIN c.frames : Stays(c.frames[g], d.frames[g])
  BY <1>4, <1>7, <1>10 DEF Stays, Phase
<1>12. \A g \in DOMAIN c.frames : d.frames[g].phase \in Candidate => d.frames[g].slot = s
  BY <1>5, <1>7, <1>10, PhasesDiffer DEF Phase
<1>13. ASSUME NEW t \in Slots
       PROVE  /\ d.phys[t] # None => /\ d.phys[t] \in DOMAIN d.frames
                                     /\ d.frames[d.phys[t]].slot = t
                                     /\ Phase(d, d.phys[t]) \in Live
              /\ d.cand[t] # None => /\ d.cand[t] \in DOMAIN d.frames
                                     /\ d.frames[d.cand[t]].slot = t
                                     /\ Phase(d, d.cand[t]) \notin Ended
  <2>1. d.phys[t] # None => d.phys[t] = c.phys[t] /\ c.phys[t] \notin old
    BY <1>6, <1>10
  <2>2. d.cand[t] # None => d.cand[t] = c.cand[t] /\ c.cand[t] \notin old
    BY <1>6, <1>10
  <2>3. /\ c.phys[t] # None => /\ c.phys[t] \in DOMAIN c.frames
                               /\ c.frames[c.phys[t]].slot = t
                               /\ Phase(c, c.phys[t]) \in Live
        /\ c.cand[t] # None => /\ c.cand[t] \in DOMAIN c.frames
                               /\ c.frames[c.cand[t]].slot = t
                               /\ Phase(c, c.cand[t]) \notin Ended
    BY <1>1 DEF Indexed
  <2>4. QED
    BY <2>1, <2>2, <2>3, <1>7, <1>9, <1>10 DEF Phase
<1>14. ASSUME NEW g \in DOMAIN d.frames
       PROVE  /\ d.frames[g].replaces < g
              /\ Phase(d, g) \in Candidate => d.cand[d.frames[g].slot] = g
              /\ Phase(d, g) \in Ended => d.frames[g].tracks = {}
  <2>1. g \in DOMAIN c.frames /\ c.frames[g].slot \in Slots
    BY <1>2, <1>9, <1>10, FrameFields
  <2>2. /\ c.frames[g].replaces < g
        /\ Phase(c, g) \in Candidate => c.cand[c.frames[g].slot] = g
        /\ Phase(c, g) \in Ended => c.frames[g].tracks = {}
    BY <2>1, <1>1 DEF Indexed
  <2>3. CASE g \in old
    BY <2>1, <2>2, <2>3, <1>7, <1>10, PhasesDiffer DEF Phase
  <2>4. CASE g \notin old
    BY <2>1, <2>2, <2>4, <1>6, <1>7, <1>10 DEF Phase
  <2>5. QED
    BY <2>3, <2>4
<1>15. Good(d)
  BY <1>10, <1>13, <1>14 DEF Good, Indexed
<1>16. QED
  BY <1>3, <1>9, <1>10, <1>11, <1>12, <1>15 DEF Phase

\* The mixer forgets the tracks of all but the frames that are retained.
LEMMA CacheClears ==
  ASSUME NEW c, Good(c)
  PROVE  LET d == CacheCleared(c)
         IN  /\ Good(d) /\ Len(d.frames) = Len(c.frames) /\ DOMAIN d.frames = DOMAIN c.frames
             /\ \A g \in DOMAIN c.frames :
                  /\ d.frames[g].slot = c.frames[g].slot
                  /\ d.frames[g].intents = c.frames[g].intents
                  /\ d.frames[g].replaces = c.frames[g].replaces
                  /\ Phase(d, g) = Phase(c, g)
                  /\ Phase(c, g) \in Live => d.frames[g] = c.frames[g]
<1> DEFINE fs == [f \in DOMAIN c.frames |->
                    IF c.frames[f].phase \in Live THEN c.frames[f]
                    ELSE [c.frames[f] EXCEPT !.tracks = {}]]
           d == CacheCleared(c)
<1>1. c \in Coordinator /\ Indexed(c) /\ c.phys \in [Slots -> Nat] /\ c.cand \in [Slots -> Nat]
  BY DEF Good, Coordinator
<1>2. d = [c EXCEPT !.frames = fs]
  BY DEF CacheCleared
<1>3. ASSUME NEW f \in DOMAIN c.frames
      PROVE  /\ fs[f] \in Frame /\ fs[f].phase = c.frames[f].phase
             /\ fs[f].slot = c.frames[f].slot /\ fs[f].intents = c.frames[f].intents
             /\ fs[f].replaces = c.frames[f].replaces
             /\ c.frames[f].phase \in Live => fs[f] = c.frames[f]
             /\ fs[f].tracks \in {c.frames[f].tracks, {}}
  <2>1. c.frames[f] \in Frame
    BY <1>1, Places
  <2>2. fs[f] = c.frames[f] \/ fs[f] = [c.frames[f] EXCEPT !.tracks = {}]
    OBVIOUS
  <2>b. c.frames[f].phase \in Live => fs[f] = c.frames[f]
    OBVIOUS
  <2> HIDE DEF fs
  <2>3. CASE fs[f] = c.frames[f]
    BY <2>1, <2>3
  <2>a. \A x \in Frame : LET y == [x EXCEPT !.tracks = {}]
                         IN  /\ y \in Frame /\ y.phase = x.phase /\ y.slot = x.slot
                             /\ y.intents = x.intents /\ y.replaces = x.replaces
                             /\ y.tracks = {}
    BY DEF Frame
  <2>4. CASE fs[f] = [c.frames[f] EXCEPT !.tracks = {}]
    <3> DEFINE x == c.frames[f]
               y == [x EXCEPT !.tracks = {}]
    <3>1. /\ y \in Frame /\ y.phase = x.phase /\ y.slot = x.slot
          /\ y.intents = x.intents /\ y.replaces = x.replaces /\ y.tracks = {}
      BY <2>1, <2>a
    <3>2. fs[f] = y
      BY <2>4
    <3> HIDE DEF y
    <3>3. QED
      BY <3>1, <3>2, <2>b
  <2>5. QED
    BY <2>2, <2>3, <2>4
<1>4. fs \in [DOMAIN c.frames -> Frame]
  BY <1>3
<1> HIDE DEF fs
<1>5. fs \in Seq(Frame) /\ Len(fs) = Len(c.frames) /\ DOMAIN fs = DOMAIN c.frames
  BY <1>1, <1>4, FramesAgain
<1> HIDE DEF d
<1>6. d = [frames |-> fs, phys |-> c.phys, cand |-> c.cand]
  BY <1>1, <1>2, Written
<1>7. d \in Coordinator /\ d.frames = fs /\ d.phys = c.phys /\ d.cand = c.cand
  BY <1>1, <1>5, <1>6 DEF Coordinator
<1>8. ASSUME NEW t \in Slots
      PROVE  /\ d.phys[t] # None => /\ d.phys[t] \in DOMAIN d.frames
                                    /\ d.frames[d.phys[t]].slot = t
                                    /\ Phase(d, d.phys[t]) \in Live
             /\ d.cand[t] # None => /\ d.cand[t] \in DOMAIN d.frames
                                    /\ d.frames[d.cand[t]].slot = t
                                    /\ Phase(d, d.cand[t]) \notin Ended
  BY <1>1, <1>3, <1>5, <1>7 DEF Indexed, Phase
<1>9. ASSUME NEW g \in DOMAIN d.frames
      PROVE  /\ d.frames[g].replaces < g
             /\ Phase(d, g) \in Candidate => d.cand[d.frames[g].slot] = g
             /\ Phase(d, g) \in Ended => d.frames[g].tracks = {}
  BY <1>1, <1>3, <1>5, <1>7 DEF Indexed, Phase
<1>10. Good(d)
  BY <1>7, <1>8, <1>9 DEF Good, Indexed
<1>11. QED
  BY <1>3, <1>5, <1>7, <1>10 DEF d, Phase

(***************************************************************************)
(* Messages                                                                *)
(***************************************************************************)

\* The operators and the epochs of messages
LEMMA MessageFields ==
  ASSUME NEW m \in Messages
  PROVE  /\ DOMAIN m \in SUBSET Operators
         /\ \A o \in DOMAIN m : m[o] \in 0..MaxCommands
BY DEF Messages

\* What has epochs of operators is messages.
LEMMA IsMessages ==
  ASSUME NEW S \in SUBSET Operators, NEW m, m \in [S -> 0..MaxCommands]
  PROVE  m \in Messages /\ DOMAIN m = S
BY DEF Messages

\* Some of the messages
LEMMA RestrictIsMessages ==
  ASSUME NEW m \in Messages, NEW S, S \subseteq DOMAIN m
  PROVE  /\ Restrict(m, S) \in Messages /\ DOMAIN Restrict(m, S) = S
         /\ \A o \in S : Restrict(m, S)[o] = m[o]
<1>1. DOMAIN m \in SUBSET Operators /\ \A o \in DOMAIN m : m[o] \in 0..MaxCommands
  BY MessageFields
<1>2. Restrict(m, S) \in [S -> 0..MaxCommands]
  BY <1>1 DEF Restrict
<1>3. S \in SUBSET Operators
  BY <1>1
<1>4. \A o \in S : Restrict(m, S)[o] = m[o]
  BY DEF Restrict
<1>5. QED
  BY <1>2, <1>3, <1>4, IsMessages

\* The messages of two
LEMMA MergedIsMessages ==
  ASSUME NEW m \in Messages, NEW k \in Messages
  PROVE  /\ Merged(m, k) \in Messages /\ DOMAIN Merged(m, k) = DOMAIN m \cup DOMAIN k
         /\ \A o \in DOMAIN m : Merged(m, k)[o] = m[o]
         /\ \A o \in DOMAIN k \ DOMAIN m : Merged(m, k)[o] = k[o]
<1>1. /\ DOMAIN m \in SUBSET Operators /\ \A o \in DOMAIN m : m[o] \in 0..MaxCommands
      /\ DOMAIN k \in SUBSET Operators /\ \A o \in DOMAIN k : k[o] \in 0..MaxCommands
  BY MessageFields
<1> DEFINE S == DOMAIN m \cup DOMAIN k
<1>2. Merged(m, k) \in [S -> 0..MaxCommands]
  BY <1>1 DEF Merged
<1>3. S \in SUBSET Operators
  BY <1>1
<1>4. /\ \A o \in DOMAIN m : Merged(m, k)[o] = m[o]
      /\ \A o \in DOMAIN k \ DOMAIN m : Merged(m, k)[o] = k[o]
  BY DEF Merged
<1>5. QED
  BY <1>2, <1>3, <1>4, IsMessages

\* The queue of nothing
LEMMA EmptyIsMessages == Empty \in Messages /\ DOMAIN Empty = {}
<1>1. Empty \in [{} -> 0..MaxCommands]
  BY DEF Empty
<1>2. QED
  BY <1>1, IsMessages

\* Messages that are none are the queue of nothing.
LEMMA NoMessages ==
  ASSUME NEW m \in Messages, DOMAIN m = {}
  PROVE  m = Empty
BY DEF Messages, Empty

\* The intents of a frame are messages.
LEMMA IntentsAre ==
  ASSUME NEW c \in Coordinator, NEW f \in DOMAIN c.frames
  PROVE  Intents(c, f) \in Messages /\ Parts(c, f) \in SUBSET Operators
         /\ Parts(c, f) = DOMAIN Intents(c, f)
<1>1. c.frames[f].intents \in Messages
  BY Places, FrameFields
<1>2. QED
  BY <1>1, MessageFields DEF Intents, Parts

\* PrepareRemoval makes a frame of those that stay of one on the air.
LEMMA RemovalPrepares ==
  ASSUME NEW c, Good(c), NEW f \in DOMAIN c.frames, NEW o \in Parts(c, f),
         Phase(c, f) \in Live
  PROVE  LET d == PrepareRemoval(c, f, o)
             n == Len(c.frames) + 1
         IN  /\ Good(d) /\ Len(d.frames) = n
             /\ DOMAIN d.frames = DOMAIN c.frames \cup {n}
             /\ \A g \in DOMAIN c.frames : Stays(c.frames[g], d.frames[g])
             /\ Phase(d, n) = "ready" /\ d.frames[n].slot = c.frames[f].slot
             /\ d.frames[n].replaces = f
             /\ Parts(d, n) = Parts(c, f) \ {o}
             /\ \A p \in Parts(d, n) : Intents(d, n)[p] = Intents(c, f)[p]
<1> DEFINE s == c.frames[f].slot
           rest == Parts(c, f) \ {o}
           m == Restrict(Intents(c, f), rest)
           y == NewFrame(s, m, "ready", f)
           t == rest \cap c.frames[f].tracks
           x == [y EXCEPT !.tracks = t]
           n == Len(c.frames)
           d == PrepareRemoval(c, f, o)
<1>1. /\ c \in Coordinator /\ Indexed(c) /\ f \in Nat /\ f # None /\ f <= n /\ n \in Nat
      /\ c.frames[f] \in Frame
  BY Places DEF Good
<1>2. s \in Slots /\ Intents(c, f) \in Messages /\ rest \in SUBSET Operators
      /\ rest \subseteq DOMAIN Intents(c, f)
  BY <1>1, FrameFields, IntentsAre
<1>3. m \in Messages /\ DOMAIN m = rest /\ \A p \in rest : m[p] = Intents(c, f)[p]
  BY <1>2, RestrictIsMessages
<1>4. "ready" \in Candidate /\ t \in SUBSET Operators
  BY <1>2 DEF Candidate
<1> HIDE DEF m, t
<1>5. y \in Frame /\ y.slot = s /\ y.intents = m /\ y.phase = "ready" /\ y.replaces = f
  BY <1>1, <1>2, <1>3, <1>4, NewFrameIsFrame
<1>6. /\ x \in Frame /\ x.slot = s /\ x.intents = m /\ x.phase = "ready" /\ x.replaces = f
  <2> HIDE DEF y
  <2>1. QED
    BY <1>4, <1>5 DEF Frame
<1> HIDE DEF y, x
<1>7. CASE c.cand[s] = f
  <2>1. d = [c EXCEPT !.frames = Append(@, x), !.cand[s] = n + 1]
    BY <1>7 DEF PrepareRemoval, x, y, t, m
  <2> DEFINE fs == Append(c.frames, x)
             k == [c.cand EXCEPT ![s] = n + 1]
  <2>2. d = [[c EXCEPT !.frames = fs] EXCEPT !.cand = k]
    <3>1. [c EXCEPT !.frames = fs].cand = c.cand
      BY <1>1 DEF Coordinator
    <3> HIDE DEF d
    <3>2. QED
      BY <2>1, <3>1
  <2>3. [c EXCEPT !.frames = fs] = [frames |-> fs, phys |-> c.phys, cand |-> c.cand]
    <3> HIDE DEF fs
    <3>1. QED
      BY <1>1, Written
  <2>4. d = WithNext(c, x)
    <3> HIDE DEF d, fs, k
    <3>1. d = [frames |-> fs, phys |-> c.phys, cand |-> k]
      BY <2>2, <2>3
    <3>2. QED
      BY <3>1, <1>6 DEF WithNext, fs, k
  <2>5. Phase(c, c.cand[x.slot]) \notin Candidate
    BY <1>6, <1>7, PhasesDiffer
  <2> HIDE DEF d, n
  <2>6. x.phase \in Candidate /\ x.replaces <= Len(c.frames)
    BY <1>1, <1>4, <1>6 DEF n
  <2>7. /\ Good(d) /\ Len(d.frames) = Len(c.frames) + 1
        /\ DOMAIN d.frames = DOMAIN c.frames \cup {Len(c.frames) + 1}
        /\ \A g \in DOMAIN c.frames : d.frames[g] = c.frames[g]
        /\ d.frames[Len(c.frames) + 1] = x
    BY <1>6, <2>4, <2>5, <2>6, NextIsGood
  <2>8. QED
    BY <1>3, <1>6, <2>7 DEF Stays, Phase, Parts, Intents, d
<1>8. CASE c.cand[s] # f
  <2>1. d = Added(c, x.slot, x)
    BY <1>8, <1>6 DEF PrepareRemoval, x, y, t, m
  <2> HIDE DEF d, n
  <2>2. x.phase \in Candidate /\ x.replaces <= Len(c.frames)
    BY <1>1, <1>4, <1>6 DEF n
  <2>3. /\ Good(d) /\ Len(d.frames) = Len(c.frames) + 1
        /\ DOMAIN d.frames = DOMAIN c.frames \cup {Len(c.frames) + 1}
        /\ \A g \in DOMAIN c.frames : Stays(c.frames[g], d.frames[g])
        /\ d.frames[Len(c.frames) + 1] = x
    BY <1>6, <2>1, <2>2, AddedIsGood
  <2>4. QED
    BY <1>3, <1>6, <2>3 DEF Phase, Parts, Intents, d
<1>9. QED
  BY <1>7, <1>8

\* A set of places has a last one.
LEMMA Greatest ==
  ASSUME NEW n \in Nat, NEW S, S \subseteq 1..n, S # {}
  PROVE  \E f \in S : \A g \in S : g <= f
<1> DEFINE R == StrictSubsetOrdering(1..n)
           A(f) == {g \in S : g > f}
           T == {A(f) : f \in S}
<1>1. IsFiniteSet(1..n)
  BY FS_Interval
<1>2. IsWellFoundedOn(R, FiniteSubsetsOf(1..n))
  BY <1>1, FS_StrictSubsetOrderingWellFounded
<1>3. \A f \in S : A(f) \in FiniteSubsetsOf(1..n)
  BY <1>1, FS_Subset DEF FiniteSubsetsOf
<1>4. T \subseteq FiniteSubsetsOf(1..n) /\ T # {}
  BY <1>3
<1>a. \A X : \A a, b \in SUBSET X : a \subseteq b /\ a # b => <<a, b>> \in StrictSubsetOrdering(X)
  BY DEF StrictSubsetOrdering
<1>5. ASSUME NEW f \in S, NEW g \in S, g > f
      PROVE  <<A(g), A(f)>> \in R
  <2>1. A(g) \subseteq A(f) /\ g \in A(f) /\ g \notin A(g)
    <3>1. \A h \in S : h \in Int
      OBVIOUS
    <3>2. \A h \in S : h > g => h > f
      BY <3>1, <1>5
    <3>3. ~(g > g)
      BY <3>1
    <3>4. QED
      BY <3>2, <3>3, <1>5
  <2>2. A(g) \in SUBSET (1..n) /\ A(f) \in SUBSET (1..n)
    OBVIOUS
  <2> HIDE DEF A
  <2>3. QED
    BY <2>1, <2>2, <1>a
<1> HIDE DEF R, T, A
<1>6. PICK x \in T : \A y \in T : ~ (<<y, x>> \in R)
  BY <1>2, <1>4, WFMin
<1>7. PICK f \in S : x = A(f)
  BY DEF T
<1>8. ASSUME NEW g \in S PROVE g <= f
  <2>1. ~(g > f)
    BY <1>5, <1>6, <1>7 DEF T
  <2>2. f \in 1..n /\ g \in 1..n
    OBVIOUS
  <2>3. QED
    BY <2>1, <2>2
<1>9. QED
  BY <1>8

\* LatestFrameOf finds a frame of the operator that has not ended, if there is one.
LEMMA LatestIsFrame ==
  ASSUME NEW c \in Coordinator, NEW o
  PROVE  LatestFrameOf(c, o) # None =>
           /\ LatestFrameOf(c, o) \in DOMAIN c.frames
           /\ o \in Parts(c, LatestFrameOf(c, o))
<1> DEFINE live == {f \in DOMAIN c.frames : o \in Parts(c, f) /\ Phase(c, f) \notin Ended}
<1>1. LatestFrameOf(c, o)
        = IF live = {} THEN None ELSE CHOOSE f \in live : \A g \in live : g <= f
  BY DEF LatestFrameOf
<1>2. live \subseteq 1..Len(c.frames) /\ Len(c.frames) \in Nat
  BY Places
<1>3. live # {} => \E f \in live : \A g \in live : g <= f
  <2> HIDE DEF live
  <2>1. QED
    BY <1>2, Greatest
<1>4. live # {} => (CHOOSE f \in live : \A g \in live : g <= f) \in live
  <2> HIDE DEF live
  <2>1. QED
    BY <1>3
<1>5. LatestFrameOf(c, o) # None => LatestFrameOf(c, o) \in live
  <2> HIDE DEF live
  <2>1. QED
    BY <1>1, <1>4
<1>6. QED
  BY <1>5

(***************************************************************************)
(* The queue of messages                                                   *)
(***************************************************************************)

Ops == [Operators -> [tx : BOOLEAN, epoch : 0..MaxCommands]]

\* No frame is made of messages that are newer than their operators' commands.
Timely(c, ops) == \A f \in DOMAIN c.frames : NotNewer(Intents(c, f), ops)

\* What becomes of a coordinator and a queue: a queued message is the one that was, or the
\* operator's last.
Booked(c, q, b, ops) ==
  /\ Good(b.fc) /\ Evolves(c, b.fc, slot) /\ Timely(b.fc, ops)
  /\ b.queue \in Messages
  /\ \A o \in DOMAIN b.queue : \/ b.queue[o] = ops[o].epoch
                               \/ o \in DOMAIN q /\ b.queue[o] = q[o]

LEMMA BookFields == \A c, q : Book(c, q).fc = c /\ Book(c, q).queue = q
BY DEF Book

\* Nothing is an evolution.
LEMMA EvolvesItself == ASSUME NEW c, NEW s, Good(c) PROVE Evolves(c, c, s)
BY DEF Evolves, Stays

\* Frames and a queue that are left as they are
LEMMA BookedItself ==
  ASSUME NEW c, NEW q \in Messages, NEW ops, Good(c), Timely(c, ops)
  PROVE  Booked(c, q, Book(c, q), ops)
BY EvolvesItself, BookFields DEF Booked

\* What stays is made of what it was made of.
LEMMA StaysFields ==
  ASSUME NEW x \in Frame, NEW y, Stays(x, y)
  PROVE  /\ y.slot = x.slot /\ y.intents = x.intents /\ y.replaces = x.replaces
         /\ y.phase = x.phase \/ (x.phase \in Candidate /\ y.phase = "cancelled")
<1>1. CASE y = x
  BY <1>1
<1>2. CASE x.phase \in Candidate /\ y = AsEnded(x, "cancelled")
  BY <1>2, PhasesDiffer, AsEndedFields
<1>3. QED
  BY <1>1, <1>2 DEF Stays

\* An evolution of timely frames is timely, if its new frame is.
LEMMA EvolvesTimely ==
  ASSUME NEW c, NEW d, NEW s, NEW ops, Good(c), Good(d), Evolves(c, d, s), Timely(c, ops),
         \A g \in DOMAIN d.frames \ DOMAIN c.frames : NotNewer(Intents(d, g), ops)
  PROVE  Timely(d, ops)
<1>1. \A g \in DOMAIN c.frames : Intents(d, g) = Intents(c, g)
  <2> TAKE g \in DOMAIN c.frames
  <2>1. c.frames[g] \in Frame
    BY Places DEF Good
  <2>2. Stays(c.frames[g], d.frames[g])
    BY DEF Evolves
  <2>3. QED
    BY <2>1, <2>2, StaysFields DEF Intents
<1>2. QED
  BY <1>1 DEF Timely

\* The messages of an operator's last command are not newer than it.
LEMMA ProcessedBooks ==
  ASSUME NEW c, NEW q \in Messages, NEW ops \in Ops, NEW fits, Good(c), Timely(c, ops),
         slot \in Slots
  PROVE  LET b == Processed(c, q, ops, fits)
         IN  Booked(c, q, b, ops) /\ \A o \in DOMAIN b.queue : b.queue[o] = ops[o].epoch
<1> DEFINE g == CurrentFrame(c, slot)
           all == IF g = None THEN q ELSE Merged(q, Intents(c, g))
           wanted == {o \in DOMAIN all : ops[o].tx /\ all[o] = ops[o].epoch}
           m == Restrict(all, wanted)
           b == Processed(c, q, ops, fits)
           d == PrepareFrame(c, slot, m)
<1>1. c \in Coordinator /\ Indexed(c)
  BY DEF Good
<1>2. g # None => g \in DOMAIN c.frames
  BY <1>1 DEF CurrentFrame, Indexed
<1>3. all \in Messages
  <2>1. g # None => Intents(c, g) \in Messages
    BY <1>1, <1>2, IntentsAre
  <2> HIDE DEF g
  <2>2. QED
    BY <2>1, MergedIsMessages
<1>4. wanted \subseteq DOMAIN all /\ \A o \in wanted : all[o] = ops[o].epoch
  OBVIOUS
<1>5. b = IF q = Empty THEN Book(c, q)
          ELSE IF wanted = {} THEN Book(c, Empty)
          ELSE IF Defers(c, slot, fits) THEN Book(c, m)
          ELSE Book(d, Empty)
  BY DEF Processed
<1> HIDE DEF all, wanted, b
<1>6. m \in Messages /\ DOMAIN m = wanted /\ \A o \in wanted : m[o] = ops[o].epoch
  BY <1>3, <1>4, RestrictIsMessages
<1> HIDE DEF m, d
<1>7. /\ Good(d) /\ Evolves(c, d, slot) /\ Len(d.frames) = Len(c.frames) + 1
      /\ d.frames[Len(c.frames) + 1].intents = m
  BY <1>6, PrepareEvolves DEF d
<1>8. Timely(d, ops)
  <2>1. DOMAIN d.frames \ DOMAIN c.frames \subseteq {Len(c.frames) + 1}
    <3>1. DOMAIN d.frames = 1..Len(d.frames) /\ DOMAIN c.frames = 1..Len(c.frames)
          /\ Len(c.frames) \in Nat
      BY <1>1, <1>7, Places DEF Good
    <3>2. QED
      BY <3>1, <1>7
  <2>2. \A o \in wanted : ops[o].epoch \in Nat
    <3>1. wanted \subseteq Operators
      BY <1>6, MessageFields
    <3>2. QED
      BY <3>1 DEF Ops
  <2>3. NotNewer(m, ops)
    BY <1>6, <2>2 DEF NotNewer
  <2>4. \A f \in DOMAIN d.frames \ DOMAIN c.frames : NotNewer(Intents(d, f), ops)
    BY <2>1, <2>3, <1>7 DEF Intents
  <2>5. QED
    BY <1>7, <2>4, EvolvesTimely
<1>9. Empty \in Messages /\ DOMAIN Empty = {}
  BY EmptyIsMessages
<1>10. Evolves(c, c, slot)
  BY EvolvesItself
<1>11. CASE b = Book(c, Empty)
  BY <1>9, <1>10, <1>11, BookFields DEF Booked, b
<1>12. CASE b = Book(c, m)
  BY <1>6, <1>10, <1>12, BookFields DEF Booked, b
<1>13. CASE b = Book(d, Empty)
  BY <1>7, <1>8, <1>9, <1>13, BookFields DEF Booked, b
<1>14. QED
  BY <1>5, <1>11, <1>12, <1>13 DEF b

\* Messages that operators put in the queue
LEMMA PushedBooks ==
  ASSUME NEW c, NEW q \in Messages, NEW ops \in Ops, NEW fits, Good(c), Timely(c, ops),
         slot \in Slots, NEW o \in Operators
  PROVE  Booked(c, q, Pushed(c, q, ops, o, fits), ops)
<1> DEFINE p == [i \in {o} |-> ops[o].epoch]
<1>1. p \in [{o} -> 0..MaxCommands] /\ {o} \in SUBSET Operators
  BY DEF Ops
<1>2. p \in Messages
  <2> HIDE DEF p
  <2>1. QED
    BY <1>1, IsMessages
<1>3. Merged(p, q) \in Messages
  <2> HIDE DEF p
  <2>1. QED
    BY <1>2, MergedIsMessages
<1>4. Pushed(c, q, ops, o, fits) = Processed(c, Merged(p, q), ops, fits)
  BY DEF Pushed
<1> HIDE DEF p
<1>5. LET b == Processed(c, Merged(p, q), ops, fits)
      IN  Booked(c, Merged(p, q), b, ops) /\ \A i \in DOMAIN b.queue : b.queue[i] = ops[i].epoch
  BY <1>3, ProcessedBooks
<1>6. QED
  BY <1>4, <1>5 DEF Booked

\* An operator leaves its candidate.
LEMMA StrategyStopBooks ==
  ASSUME NEW c, NEW q \in Messages, NEW ops \in Ops, NEW fits, Good(c), Timely(c, ops),
         slot \in Slots, NEW o
  PROVE  Booked(c, q, StrategyStop(c, q, ops, o, fits), ops)
<1> DEFINE f == LatestFrameOf(c, o)
           others == Restrict(Intents(c, f), Parts(c, f) \ {o})
           kept == {p \in DOMAIN others : ops[p].tx}
           rest == Merged(Restrict(others, kept), q)
           d == CancelFrame(c, f)
           b == StrategyStop(c, q, ops, o, fits)
<1>1. b = IF f = None \/ Phase(c, f) \notin Candidate THEN Book(c, q)
          ELSE IF others = Empty THEN Book(d, q)
          ELSE Processed(d, rest, ops, fits)
  BY DEF StrategyStop
<1>2. kept \subseteq DOMAIN others
  OBVIOUS
<1> HIDE DEF kept
<1>3. CASE f = None \/ Phase(c, f) \notin Candidate
  BY <1>1, <1>3, BookedItself DEF b
<1>4. CASE f # None /\ Phase(c, f) \in Candidate
  <2>1. f \in DOMAIN c.frames /\ c \in Coordinator
    BY <1>4, LatestIsFrame DEF Good
  <2> HIDE DEF f
  <2>2. Intents(c, f) \in Messages /\ Parts(c, f) = DOMAIN Intents(c, f)
    BY <2>1, IntentsAre
  <2>3. others \in Messages
    BY <2>2, RestrictIsMessages
  <2> HIDE DEF others
  <2>4. Restrict(others, kept) \in Messages
    BY <1>2, <2>3, RestrictIsMessages
  <2>5. rest \in Messages
    BY <2>4, MergedIsMessages
  <2> HIDE DEF rest
  <2>6. Ends(c, d, f)
    BY <2>1, CancelCancels
  <2>7. Good(d) /\ Evolves(c, d, slot) /\ Len(d.frames) = Len(c.frames)
    BY <2>1, <2>6, CancelEvolves DEF Ends
  <2> HIDE DEF d, b
  <2>8. DOMAIN d.frames = DOMAIN c.frames
    BY <2>7, Places DEF Good
  <2>9. Timely(d, ops)
    BY <2>7, <2>8, EvolvesTimely
  <2>10. Booked(c, q, Book(d, q), ops)
    BY <2>7, <2>9, BookFields DEF Booked
  <2> DEFINE e == Processed(d, rest, ops, fits)
  <2>11. Booked(d, rest, e, ops) /\ \A i \in DOMAIN e.queue : e.queue[i] = ops[i].epoch
    BY <2>5, <2>7, <2>9, ProcessedBooks
  <2> HIDE DEF e
  <2>12. Evolves(c, e.fc, slot)
    BY <2>7, <2>11, EvolvesOn DEF Booked
  <2>13. Booked(c, q, e, ops)
    BY <2>11, <2>12 DEF Booked
  <2>14. QED
    BY <1>1, <1>4, <2>10, <2>13 DEF b, e
<1>5. QED
  BY <1>3, <1>4

\* What becomes of a coordinator and a queue when a frame ends: what is queued stays, and
\* what is put back is not newer than its operator's last command.
Settled(c, q, b, f) ==
  /\ Ends(c, b.fc, f) /\ b.queue \in Messages /\ NotNewer(b.queue, op)
  /\ \A o \in DOMAIN q : o \in DOMAIN b.queue /\ b.queue[o] = q[o]

\* The queue is left.
LEMMA SettledAlone ==
  ASSUME NEW c, NEW d, NEW f, NEW q \in Messages, Ends(c, d, f), NotNewer(q, op)
  PROVE  Settled(c, q, Book(d, q), f)
BY BookFields DEF Settled

\* Messages that are put back
LEMMA RequeuedSettles ==
  ASSUME NEW c, NEW d, NEW f, NEW q \in Messages, NEW m \in Messages,
         Ends(c, d, f), NotNewer(q, op), NotNewer(m, op)
  PROVE  Settled(c, q, Book(d, Requeued(q, m, op)), f)
<1> DEFINE S == {o \in DOMAIN m : op[o].tx}
           k == Restrict(m, S)
<1>1. S \subseteq DOMAIN m
  OBVIOUS
<1>2. Requeued(q, m, op) = Merged(q, k)
  BY DEF Requeued
<1> HIDE DEF S
<1>3. k \in Messages /\ DOMAIN k = S /\ \A o \in S : k[o] = m[o]
  BY <1>1, RestrictIsMessages
<1> HIDE DEF k
<1>4. /\ Merged(q, k) \in Messages /\ DOMAIN Merged(q, k) = DOMAIN q \cup DOMAIN k
      /\ \A o \in DOMAIN q : Merged(q, k)[o] = q[o]
      /\ \A o \in DOMAIN k \ DOMAIN q : Merged(q, k)[o] = k[o]
  BY <1>3, MergedIsMessages
<1>5. NotNewer(Merged(q, k), op)
  BY <1>1, <1>3, <1>4 DEF NotNewer
<1>6. QED
  BY <1>2, <1>4, <1>5, BookFields DEF Settled

\* A frame that is deferred
LEMMA DeferredSettles ==
  ASSUME NEW c, Good(c), NEW f \in DOMAIN c.frames, NEW q \in Messages,
         NotNewer(q, op), Timely(c, op)
  PROVE  LET b == Deferred(c, q, f)
         IN  /\ Settled(c, q, b, f)
             /\ Phase(c, f) \in Candidate \cup {"committed"} \cup Ended => Phase(b.fc, f) \in Ended
<1> DEFINE d == DeferFrame(c, f)
           b == Deferred(c, q, f)
<1>1. Ends(c, d, f) /\ (Phase(c, f) \in Candidate \cup {"committed"} \cup Ended => Phase(d, f) \in Ended)
  BY DeferDefers
<1>2. Intents(c, f) \in Messages /\ NotNewer(Intents(c, f), op)
  BY IntentsAre DEF Good, Timely
<1>3. b = Book(d, q) \/ b = Book(d, Requeued(q, Intents(c, f), op))
  BY DEF Deferred
<1> HIDE DEF d, b
<1>4. Settled(c, q, b, f)
  BY <1>1, <1>2, <1>3, SettledAlone, RequeuedSettles
<1>5. b.fc = d
  BY <1>3, BookFields
<1>6. QED
  BY <1>1, <1>4, <1>5 DEF b

\* A frame whose playback is over
LEMMA FinishedSettles ==
  ASSUME NEW c, Good(c), NEW f \in DOMAIN c.frames, NEW q \in Messages, NEW result,
         NotNewer(q, op), Timely(c, op)
  PROVE  LET b == Finished(c, q, f, result)
         IN  Settled(c, q, b, f) /\ Phase(b.fc, f) \in Ended
<1> DEFINE d == CompleteFrame(c, f)
           b == Finished(c, q, f, result)
           S == {o \in Parts(c, f) : Intents(c, f)[o] = op[o].epoch}
           m == Restrict(Intents(c, f), S)
<1>1. Ends(c, d, f) /\ Phase(d, f) \in Ended
  BY CompleteCompletes
<1>2. Intents(c, f) \in Messages /\ NotNewer(Intents(c, f), op) /\ S \subseteq DOMAIN Intents(c, f)
  BY IntentsAre DEF Good, Timely
<1>3. b = Book(d, q) \/ b = Book(d, Requeued(q, m, op))
  BY DEF Finished
<1> HIDE DEF d, b, S
<1>4. m \in Messages /\ DOMAIN m = S /\ \A o \in S : m[o] = Intents(c, f)[o]
  BY <1>2, RestrictIsMessages
<1>5. NotNewer(m, op)
  BY <1>2, <1>4 DEF NotNewer
<1> HIDE DEF m
<1>6. Settled(c, q, b, f)
  BY <1>1, <1>3, <1>4, <1>5, SettledAlone, RequeuedSettles
<1>7. b.fc = d
  BY <1>3, BookFields
<1>8. QED
  BY <1>1, <1>6, <1>7 DEF b

(***************************************************************************)
(* The lease and its chain of transitions                                  *)
(***************************************************************************)

\* The head of a chain leaves it.
LEMMA ChainLeft ==
  ASSUME NEW ch \in Seq(Frames), IsInjective(ch), NEW f, NEW k,
         k = IF ch # <<>> /\ Head(ch) = f THEN Tail(ch) ELSE ch
  PROVE  /\ k \in Seq(Frames) /\ IsInjective(k)
         /\ \A g : g # f => (Listed(k, g) <=> Listed(ch, g))
         /\ \A g : g # f /\ Listed(ch, g) /\ Head(ch) = g => k = ch
         /\ Listed(k, f) => Listed(ch, f) /\ Head(ch) # f
<1>1. CASE ch # <<>> /\ Head(ch) = f
  <2> DEFINE n == Len(ch)
  <2>1. /\ n \in Nat /\ n # 0 /\ DOMAIN ch = 1..n /\ Head(ch) = ch[1] /\ 1 \in DOMAIN ch
        /\ k = Tail(ch) /\ k \in Seq(Frames)
        /\ Len(k) = n - 1 /\ DOMAIN k = 1..(n - 1)
    BY <1>1
  <2>2. \A i \in 1..(n - 1) : k[i] = ch[i + 1] /\ i + 1 \in 1..n
    <3>1. ch \in Seq(Frames) /\ ch # <<>>
      BY <1>1
    <3>2. \A i \in 1..Len(Tail(ch)) : Tail(ch)[i] = ch[i + 1]
      BY <3>1, HeadTailProperties
    <3>a. n \in Nat
      BY <2>1
    <3> HIDE DEF n
    <3>3. \A i \in 1..(n - 1) : i + 1 \in 1..n
      BY <3>a
    <3>4. QED
      BY <2>1, <3>2, <3>3
  <2> HIDE DEF n
  <2>3. IsInjective(k)
    <3> SUFFICES ASSUME NEW i \in DOMAIN k, NEW j \in DOMAIN k, k[i] = k[j]
                 PROVE  i = j
      BY DEF IsInjective
    <3>1. i + 1 = j + 1
      BY <2>1, <2>2 DEF IsInjective
    <3>2. QED
      BY <3>1, <2>1
  <2>4. \A g : Listed(k, g) => Listed(ch, g)
    BY <2>1, <2>2 DEF Listed
  <2>5. \A g : g # f /\ Listed(ch, g) => Listed(k, g)
    <3> SUFFICES ASSUME NEW g, g # f, NEW i \in 1..n, ch[i] = g
                 PROVE  Listed(k, g)
      BY <2>1 DEF Listed
    <3>1. i # 1
      BY <1>1, <2>1
    <3>2. i - 1 \in 1..(n - 1) /\ (i - 1) + 1 = i
      BY <3>1, <2>1
    <3>3. QED
      BY <3>2, <2>1, <2>2 DEF Listed
  <2>6. ~Listed(k, f)
    <3> SUFFICES ASSUME NEW i \in 1..(n - 1), k[i] = f
                 PROVE  FALSE
      BY <2>1 DEF Listed
    <3>1. ch[i + 1] = ch[1] /\ i + 1 \in DOMAIN ch /\ 1 \in DOMAIN ch
      BY <1>1, <2>1, <2>2
    <3>2. i + 1 = 1
      BY <3>1 DEF IsInjective
    <3>3. QED
      BY <3>2, <2>1
  <2>7. QED
    BY <1>1, <2>1, <2>3, <2>4, <2>5, <2>6
<1>2. CASE ~(ch # <<>> /\ Head(ch) = f)
  <2>1. k = ch
    BY <1>2
  <2>2. Listed(ch, f) => Head(ch) # f
    <3>1. Listed(ch, f) => ch # <<>>
      BY DEF Listed
    <3>2. QED
      BY <3>1, <1>2
  <2>3. QED
    BY <2>1, <2>2
<1>3. QED
  BY <1>1, <1>2

\* A transition is put at the end of a chain.
LEMMA ChainAppends ==
  ASSUME NEW ch \in Seq(Frames), IsInjective(ch), NEW f \in Frames, ~Listed(ch, f)
  PROVE  LET k == Append(ch, f)
         IN  /\ k \in Seq(Frames) /\ IsInjective(k)
             /\ \A g : Listed(k, g) <=> (Listed(ch, g) \/ g = f)
             /\ \A g : Listed(ch, g) => Head(k) = Head(ch)
<1> DEFINE k == Append(ch, f)
           n == Len(ch)
<1>1. n \in Nat /\ DOMAIN ch = 1..n /\ k \in Seq(Frames) /\ Len(k) = n + 1
      /\ DOMAIN k = 1..(n + 1) /\ k[n + 1] = f /\ \A i \in 1..n : k[i] = ch[i]
  OBVIOUS
<1>2. 1..(n + 1) = 1..n \cup {n + 1} /\ n + 1 \notin 1..n
  BY <1>1
<1> HIDE DEF n, k
<1>3. \A i \in 1..n : ch[i] # f
  BY <1>1 DEF Listed
<1>4. IsInjective(k)
  <2> SUFFICES ASSUME NEW i \in 1..(n + 1), NEW j \in 1..(n + 1), k[i] = k[j]
               PROVE  i = j
    BY <1>1 DEF IsInjective
  <2>1. CASE i \in 1..n /\ j \in 1..n
    BY <2>1, <1>1 DEF IsInjective
  <2>2. CASE i = n + 1 \/ j = n + 1
    BY <2>2, <1>1, <1>2, <1>3
  <2>3. QED
    BY <2>1, <2>2, <1>2
<1>5. \A g : Listed(k, g) <=> (Listed(ch, g) \/ g = f)
  BY <1>1, <1>2 DEF Listed
<1>6. \A g : Listed(ch, g) => Head(k) = Head(ch)
  <2> SUFFICES ASSUME NEW i \in 1..n
               PROVE  Head(k) = Head(ch)
    BY <1>1 DEF Listed
  <2>1. 1 \in 1..n /\ k[1] = ch[1] /\ k # <<>> /\ ch # <<>>
    BY <1>1
  <2>2. QED
    BY <2>1, <1>1
<1>7. QED
  BY <1>1, <1>4, <1>5, <1>6 DEF k

\* The fields of a lease
LEMMA LeaseFields ==
  ASSUME NEW l \in Lease
  PROVE  /\ l.phase \in {"idle", "starting", "active", "draining", "stopping", "unknown"}
         /\ l.owner \in 0..MaxFrames /\ l.frame \in 0..MaxFrames /\ l.last \in 0..MaxFrames
         /\ l.granted \in BOOLEAN /\ l.chain \in Seq(Frames) /\ l.end \in {"none", "over", "retry"}
BY DEF Lease

\* Leaving a chain changes nothing else of the lease.
LEMMA LeftLeaves ==
  ASSUME NEW l \in Lease, NEW f
  PROVE  LET k == Left(l, f)
         IN  /\ k \in Lease /\ k.phase = l.phase /\ k.owner = l.owner /\ k.frame = l.frame
             /\ k.last = l.last /\ k.granted = l.granted /\ k.end = l.end
             /\ k.chain = IF l.chain # <<>> /\ Head(l.chain) = f THEN Tail(l.chain) ELSE l.chain
<1>1. l.chain \in Seq(Frames)
  BY LeaseFields
<1>2. CASE l.chain # <<>> /\ Head(l.chain) = f
  <2> DEFINE t == Tail(l.chain)
  <2>1. t \in Seq(Frames)
    BY <1>1, <1>2
  <2>2. Left(l, f) = [l EXCEPT !.chain = t]
    BY <1>2 DEF Left
  <2> HIDE DEF t
  <2>3. LET k == [l EXCEPT !.chain = t]
        IN  /\ k \in Lease /\ k.phase = l.phase /\ k.owner = l.owner /\ k.frame = l.frame
            /\ k.last = l.last /\ k.granted = l.granted /\ k.end = l.end /\ k.chain = t
    BY <2>1 DEF Lease
  <2>4. QED
    BY <1>2, <2>2, <2>3 DEF t
<1>3. CASE ~(l.chain # <<>> /\ Head(l.chain) = f)
  BY <1>3 DEF Left
<1>4. QED
  BY <1>2, <1>3

\* Stopping a lease that is running
LEMMA StoppedStops ==
  ASSUME NEW l \in Lease, NEW end \in {"over", "retry"}
  PROVE  LET k == Stopped(l, end)
         IN  /\ k \in Lease /\ k.owner = l.owner /\ k.frame = l.frame
             /\ k.last = l.last /\ k.granted = l.granted /\ k.chain = l.chain
             /\ k.phase = IF l.phase \in Running THEN "stopping" ELSE l.phase
             /\ l.phase \notin Running => k = l
<1>1. CASE l.phase \in Running
  <2>1. LET k == [[l EXCEPT !.phase = "stopping"] EXCEPT !.end = end]
        IN  /\ k \in Lease /\ k.owner = l.owner /\ k.frame = l.frame
            /\ k.last = l.last /\ k.granted = l.granted /\ k.chain = l.chain
            /\ k.phase = "stopping"
    BY DEF Lease
  <2>2. QED
    BY <1>1, <2>1 DEF Stopped
<1>2. CASE l.phase \notin Running
  BY <1>2 DEF Stopped
<1>3. QED
  BY <1>1, <1>2

(***************************************************************************)
(* What a step leaves alone                                                *)
(***************************************************************************)

\* A frame stays, or ends, or loses its tracks where they are of no more use; what is live
\* ends only where the lease has gone to another.
Fades(g) ==
  /\ fc'.frames[g].slot = fc.frames[g].slot
  /\ fc'.frames[g].intents = fc.frames[g].intents
  /\ fc'.frames[g].replaces = fc.frames[g].replaces
  /\ \/ /\ Phase(fc', g) \in Ended /\ Phase(fc, g) \notin Ended
        /\ \/ Phase(fc, g) \notin Live
           \/ CanContinue(g)' =>
                lease'.frame # g /\ lease'.last # g /\ call[g].at \notin Heading
     \/ /\ Phase(fc', g) = Phase(fc, g)
        /\ \/ fc'.frames[g].tracks = fc.frames[g].tracks
           \/ Phase(fc, g) \notin Live /\ ~CanContinue(g)'

\* A call is at the same await.
SameCall(g) ==
  /\ call'[g].at = call[g].at /\ call'[g].on = call[g].on /\ call'[g].whole = call[g].whole
  /\ call'[g].then = call[g].then
  /\ call[g] = NoCall => call'[g] = NoCall

\* A call does not go back before its mix.
Onward == \A h \in Frames : call[h].at \notin Before => call'[h].at \notin Before

\* The lease is for a call what it was, or it is over.
LeaseKeeps(g) ==
  /\ OnLease(g)' => OnLease(g)
  /\ CanContinue(g)' => CanContinue(g)
  /\ Listed(lease'.chain, g) <=> (Listed(lease.chain, g) /\ OnLease(g)')
  /\ OnLease(g)' /\ call[g].at \in Heading => Head(lease'.chain) = Head(lease.chain)
  /\ OnLease(g)' => \/ lease'.frame = lease.frame
                    \/ /\ Phase(fc', g) \notin {"on_air", "draining"}
                       /\ lease'.frame # g /\ lease'.last # g /\ call[g].at \notin Heading
  /\ CanContinue(g)' => \/ lease'.last = lease.last
                        \/ lease'.last # g /\ call[g].at \notin Heading

\* What is known of a call that is left alone
LEMMA OtherCall ==
  ASSUME CarryInv, NEW g \in Frames, SameCall(g), Onward, LeaseKeeps(g),
         call[g].on \in 0..MaxFrames,
         g \in DOMAIN fc'.frames => g \in DOMAIN fc.frames /\ Fades(g),
         g \in DOMAIN fc.frames => g \in DOMAIN fc'.frames
  PROVE  CallHolds(g)'
<1>1. AwaitHolds(g) /\ ShareHolds(g) /\ TracksHold(g)
  BY DEF CarryInv, CallHolds
<1>2. call'[g].at = call[g].at /\ call'[g].on = call[g].on /\ call'[g].whole = call[g].whole
      /\ call'[g].then = call[g].then
  BY DEF SameCall
<1>3. call[g] # NoCall => g \in DOMAIN fc.frames
  BY <1>1 DEF AwaitHolds
<1>4. /\ NoCall.at = "none" /\ NoCall.on = None /\ NoCall.then = "none"
  BY DEF NoCall
<1>5. call[g].on # None => g \in DOMAIN fc.frames
  BY <1>3, <1>4
<1>6. g \in DOMAIN fc'.frames =>
        Phase(fc', g) \in Ended \/ Phase(fc', g) = Phase(fc, g)
  BY DEF Fades
<1>0. OnLease(g) => g \in DOMAIN fc.frames
  <2>1. OnLease(g) => lease.owner \in DOMAIN fc.frames /\ fc \in Coordinator
    BY DEF CarryInv, LeaseHolds, TypeOK, OnLease
  <2>2. OnLease(g) => lease.owner # None
    BY <2>1, Places
  <2>3. QED
    BY <2>2, <1>5 DEF OnLease
<1>7. AwaitHolds(g)'
  <2>1. (g \notin DOMAIN fc.frames => call[g] = NoCall)'
    BY <1>1 DEF AwaitHolds, SameCall
  <2>2. (g \in DOMAIN fc.frames => PhaseFits(call[g].at, Phase(fc, g)))'
    BY <1>1, <1>2, <1>6 DEF AwaitHolds, PhaseFits
  <2>3. ((call[g].at \in OffLease) <=> (call[g].on = None))'
    BY <1>1, <1>2 DEF AwaitHolds
  <2>4. ((call[g].at = "wait" /\ call[g].then = "defer")
           => Phase(fc, g) \in {"committed"} \cup Ended)'
    <3>1. CASE g \in DOMAIN fc.frames
      BY <3>1, <1>1, <1>2, <1>6 DEF AwaitHolds
    <3>2. CASE g \notin DOMAIN fc.frames
      BY <3>2, <1>2, <1>3, <1>4
    <3>3. QED
      BY <3>1, <3>2
  <2>5. QED
    BY <2>1, <2>2, <2>3, <2>4 DEF AwaitHolds
<1>8. ShareHolds(g)'
  <2>0. OnLease(g)' => OnLease(g)
    BY DEF LeaseKeeps
  <2>1. (call[g].on # None => call[call[g].on].at \notin Before)'
    <3>1. call[g].on # None => call[g].on \in Frames
      BY DEF Frames, None
    <3>2. QED
      BY <3>1, <1>1, <1>2 DEF ShareHolds, Onward
  <2>2. (Listed(lease.chain, g) <=> (OnLease(g) /\ call[g].at \in Queued \cup Heading))'
    BY <2>0, <1>1, <1>2 DEF ShareHolds, LeaseKeeps
  <2>3. ASSUME OnLease(g)'
        PROVE  /\ (call[g].at \in Heading => Head(lease.chain) = g)'
               /\ (Phase(fc, g) \in {"on_air", "draining"} => lease.frame = g)'
    <3>1. OnLease(g) /\ call[g].on = lease.owner /\ lease.phase # "idle"
      BY <2>0, <2>3 DEF OnLease
    <3>2. g \in DOMAIN fc.frames
      BY <3>1, <1>0
    <3>3. (call[g].at \in Heading => Head(lease.chain) = g)'
      BY <2>3, <3>1, <1>1, <1>2 DEF ShareHolds, LeaseKeeps
    <3>4. Phase(fc', g) \in {"on_air", "draining"} => Phase(fc, g) \in {"on_air", "draining"}
      BY <1>6, <3>2, PhasesDiffer
    <3>5. (Phase(fc, g) \in {"on_air", "draining"} => lease.frame = g)'
      BY <2>3, <3>1, <3>4, <1>1 DEF ShareHolds, LeaseKeeps
    <3>6. QED
      BY <3>3, <3>5
  <2>4. ASSUME CanContinue(g)'
        PROVE  /\ ((call[g].at \in {"acquire", "final", "play"} /\ lease.frame = g)
                     => Phase(fc, g) = "committed")'
               /\ (call[g].at \in Heading => lease.frame \in {g, fc.frames[g].replaces})'
               /\ (call[g].at \in {"handover", "starting"}
                     => Phase(fc, g) = "committed" /\ lease.last = g)'
               /\ ((call[g].at = "sound" /\ lease.last = g)
                     => Phase(fc, g) = "on_air" /\ lease.frame = g)'
    <3>1. CanContinue(g) /\ g \in DOMAIN fc.frames
      BY <2>4, <1>0 DEF LeaseKeeps, CanContinue
    <3>2. Fades(g) /\ fc'.frames[g].replaces = fc.frames[g].replaces
      BY <3>1 DEF Fades
    <3>3. \/ lease'.frame = lease.frame
          \/ lease'.frame # g /\ lease'.last # g /\ call[g].at \notin Heading
      BY <2>4 DEF LeaseKeeps, CanContinue
    <3>4. \/ lease'.last = lease.last
          \/ lease'.last # g /\ call[g].at \notin Heading
      BY <2>4 DEF LeaseKeeps
    <3>5. \/ Phase(fc', g) = Phase(fc, g)
          \/ Phase(fc, g) \notin Live
          \/ lease'.frame # g /\ lease'.last # g /\ call[g].at \notin Heading
      BY <2>4, <3>2 DEF Fades
    <3>6. "committed" \in Live /\ "on_air" \in Live /\ {"handover", "starting"} \subseteq Heading
      BY DEF Live, Heading
    <3>7. /\ (call[g].at \in {"acquire", "final", "play"} /\ lease.frame = g)
               => Phase(fc, g) = "committed"
          /\ call[g].at \in Heading => lease.frame \in {g, fc.frames[g].replaces}
          /\ call[g].at \in {"handover", "starting"}
               => Phase(fc, g) = "committed" /\ lease.last = g
          /\ (call[g].at = "sound" /\ lease.last = g)
               => Phase(fc, g) = "on_air" /\ lease.frame = g
      BY <3>1, <1>1 DEF ShareHolds
    <3>8. ((call[g].at \in {"acquire", "final", "play"} /\ lease.frame = g)
             => Phase(fc, g) = "committed")'
      BY <3>3, <3>5, <3>6, <3>7, <1>2
    <3>9. (call[g].at \in Heading => lease.frame \in {g, fc.frames[g].replaces})'
      BY <3>2, <3>3, <3>7, <1>2
    <3>10. (call[g].at \in {"handover", "starting"}
             => Phase(fc, g) = "committed" /\ lease.last = g)'
      BY <3>4, <3>5, <3>6, <3>7, <1>2
    <3>11. ((call[g].at = "sound" /\ lease.last = g)
             => Phase(fc, g) = "on_air" /\ lease.frame = g)'
      BY <3>3, <3>4, <3>5, <3>6, <3>7, <1>2
    <3>12. QED
      BY <3>8, <3>9, <3>10, <3>11
  <2>5. QED
    BY <2>1, <2>2, <2>3, <2>4 DEF ShareHolds
<1>9. TracksHold(g)'
  <2> SUFFICES ASSUME g \in DOMAIN fc'.frames
               PROVE  TracksHold(g)'
    BY DEF TracksHold
  <2>1. g \in DOMAIN fc.frames /\ Fades(g)
    OBVIOUS
  <2>2. Parts(fc', g) = Parts(fc, g)
    BY <2>1 DEF Fades, Parts, Intents
  <2>3. CASE Phase(fc', g) \in Ended
    BY <2>3, PhasesDiffer DEF TracksHold
  <2>4. CASE Phase(fc', g) = Phase(fc, g) /\ fc'.frames[g].tracks = fc.frames[g].tracks
    <3>1. HasTracks(fc', g) <=> HasTracks(fc, g)
      BY <2>2, <2>4 DEF HasTracks
    <3>2. CanContinue(g)' => CanContinue(g)
      BY DEF LeaseKeeps
    <3>3. QED
      BY <2>1, <2>4, <3>1, <3>2, <1>1, <1>2 DEF TracksHold
  <2>5. CASE Phase(fc', g) = Phase(fc, g) /\ Phase(fc, g) \notin Live /\ ~CanContinue(g)'
    BY <2>5, PhasesDiffer DEF TracksHold
  <2>6. QED
    BY <2>1, <2>3, <2>4, <2>5 DEF Fades
<1>10. QED
  BY <1>7, <1>8, <1>9 DEF CallHolds

\* A scheduled mix that is forgotten
LEMMA UnscheduledCall ==
  ASSUME CarryInv, NEW g \in Frames, call[g].at = "sched", call'[g] = Over, LeaseKeeps(g),
         LeaseHolds', Good(fc'),
         g \in DOMAIN fc'.frames => g \in DOMAIN fc.frames /\ Fades(g),
         g \in DOMAIN fc.frames => g \in DOMAIN fc'.frames
  PROVE  CallHolds(g)'
<1>1. AwaitHolds(g) /\ ShareHolds(g)
  BY DEF CarryInv, CallHolds
<1>2. NoCall.at = "none" /\ Over.at = "ended" /\ Over.on = None /\ Over.then = "none"
  BY DEF NoCall, Over
<1>3. g \in DOMAIN fc.frames
  BY <1>1, <1>2 DEF AwaitHolds
<1>4. Phase(fc, g) \in Ended \cup {"ready"}
  BY <1>1, <1>3 DEF AwaitHolds, PhaseFits
<1>5. g \in DOMAIN fc'.frames /\ Phase(fc', g) \in Ended \cup {"ready"}
  BY <1>3, <1>4 DEF Fades
<1>6. AwaitHolds(g)'
  BY <1>2, <1>5 DEF AwaitHolds, PhaseFits, OffLease
<1>7. ~Listed(lease'.chain, g)
  BY <1>1 DEF LeaseKeeps, ShareHolds, Queued, Heading
<1>8. ~OnLease(g)'
  <2>1. lease'.phase # "idle" => lease'.owner \in DOMAIN fc'.frames
    BY DEF LeaseHolds
  <2>2. lease'.phase # "idle" => lease'.owner # None
    BY <2>1, Places DEF Good
  <2>3. QED
    BY <1>2, <2>2 DEF OnLease
<1>9. ShareHolds(g)'
  BY <1>2, <1>7, <1>8 DEF ShareHolds, CanContinue
<1>10. TracksHold(g)'
  BY <1>2, <1>5, PhasesDiffer DEF TracksHold, Ended
<1>11. QED
  BY <1>6, <1>9, <1>10 DEF CallHolds

\* A step that asks for no removal and adds no frame leaves the room there was.
LEMMA RoomKept ==
  ASSUME CarryInv, Asked' \subseteq Asked, Len(fc'.frames) = Len(fc.frames)
  PROVE  RoomHolds'
<1>1. IsFiniteSet(Asked)
  BY OperatorsAssumption, FS_Subset DEF Asked
<1>2. Cardinality(Asked') <= Cardinality(Asked) /\ IsFiniteSet(Asked')
  BY <1>1, FS_Subset
<1>3. Cardinality(Asked) \in Nat /\ Cardinality(Asked') \in Nat
  BY <1>1, <1>2, FS_CardinalityType
<1>4. Len(fc.frames) \in Nat
  BY DEF CarryInv, TypeOK, Coordinator
<1>5. Len(fc.frames) + Cardinality(Asked) <= MaxFrames
  BY DEF CarryInv, RoomHolds
<1> HIDE DEF Asked
<1>6. Len(fc.frames) + Cardinality(Asked') <= MaxFrames
  BY <1>2, <1>3, <1>4, <1>5, MaxFramesAssumption
<1>7. QED
  BY <1>6 DEF RoomHolds

Removals == [Operators -> [at : {"none", "asked", "mixing", "stopping", "done"},
                           epoch : 0..MaxCommands]]

\* No queued message gives way to an older one, and no frame comes back.
QueueKept == \A o \in DOMAIN queue \cap DOMAIN queue' : queue'[o] >= queue[o]

EndedKept == \A g \in DOMAIN fc.frames : Phase(fc, g) \in Ended => Phase(fc', g) = Phase(fc, g)

Kept == CarryInv' /\ QueueKept /\ EndedKept

\* The queue is left.
LEMMA QueueSame ==
  ASSUME queue \in Messages, queue' = queue
  PROVE  QueueKept
<1>1. \A o \in DOMAIN queue : queue[o] \in Nat
  BY MessageFields, BoundsAssumption
<1>2. QED
  BY <1>1 DEF QueueKept

\* A step of one call, and what it has to show
LEMMA CallStep ==
  ASSUME CarryInv, NEW f \in DOMAIN fc.frames, NEW k \in Call, call' = [call EXCEPT ![f] = k],
         slot' = slot, started' = started, op' = op, forced' = forced,
         removal' \in Removals, Asked' \subseteq Asked,
         Good(fc'), Len(fc'.frames) = Len(fc.frames),
         \A g \in DOMAIN fc.frames \ {f} : Fades(g),
         Intents(fc', f) = Intents(fc, f), Phase(fc, f) \in Ended => Phase(fc', f) = Phase(fc, f),
         queue' \in Messages, NotNewer(queue', op), QueueKept,
         lease' \in Lease, LeaseHolds', \A g \in Frames \ {f} : LeaseKeeps(g),
         call[f].at \in Before \/ k.at \notin Before,
         Phase(fc', f) \in Candidate =>
           fc'.frames[f].slot = slot \/ (k.at = "mix" /\ k.by # {}),
         CallHolds(f)'
  PROVE  Kept
<1>1. TypeOK /\ Good(fc)
  BY DEF CarryInv, TypeOK, Good
<1>2. DOMAIN fc'.frames = DOMAIN fc.frames /\ DOMAIN fc.frames \subseteq Frames
  <2>1. Len(fc.frames) <= MaxFrames /\ DOMAIN fc.frames = 1..Len(fc.frames)
        /\ DOMAIN fc'.frames = 1..Len(fc'.frames) /\ Len(fc.frames) \in Nat
    BY <1>1, Places DEF Good, TypeOK
  <2>2. QED
    BY <2>1, MaxFramesAssumption DEF Frames
<1>3. call' \in [Frames -> Call] /\ call'[f] = k
      /\ \A g \in Frames \ {f} : call'[g] = call[g]
  BY <1>1, <1>2 DEF TypeOK
<1>4. TypeOK'
  BY <1>1, <1>3 DEF TypeOK, Good, Removals
<1>5. RoomHolds'
  BY RoomKept
<1>6. EpochsHold'
  <2>1. \A g \in DOMAIN fc.frames : Intents(fc', g) = Intents(fc, g)
    BY DEF Fades, Intents
  <2>2. \A g \in DOMAIN fc.frames : NotNewer(Intents(fc, g), op)
    BY DEF CarryInv, EpochsHold
  <2>3. QED
    BY <1>2, <2>1, <2>2 DEF EpochsHold
<1>7. SlotsHold'
  <2> SUFFICES ASSUME NEW g \in DOMAIN fc'.frames, Phase(fc', g) \in Candidate
               PROVE  fc'.frames[g].slot = slot \/ (call'[g].at = "mix" /\ call'[g].by # {})
    BY DEF SlotsHold
  <2>1. CASE g = f
    BY <2>1, <1>3
  <2>2. CASE g # f
    <3>1. Fades(g) /\ call'[g] = call[g] /\ g \in DOMAIN fc.frames
      BY <2>2, <1>2, <1>3
    <3>2. Phase(fc, g) \in Candidate /\ fc'.frames[g].slot = fc.frames[g].slot
      BY <3>1, PhasesDiffer DEF Fades
    <3>3. QED
      BY <3>1, <3>2 DEF CarryInv, SlotsHold
  <2>3. QED
    BY <2>1, <2>2
<1>8. Onward
  BY <1>2, <1>3 DEF Onward
<1>9. ASSUME NEW g \in Frames \ {f}
      PROVE  CallHolds(g)'
  <2>1. SameCall(g) /\ LeaseKeeps(g) /\ call[g].on \in 0..MaxFrames
    BY <1>1, <1>3 DEF SameCall, TypeOK, Call
  <2>2. g \in DOMAIN fc'.frames => g \in DOMAIN fc.frames /\ Fades(g)
    BY <1>2
  <2>3. g \in DOMAIN fc.frames => g \in DOMAIN fc'.frames
    BY <1>2
  <2>4. QED
    BY <2>1, <2>2, <2>3, <1>8, OtherCall
<1>10. CarryInv'
  BY <1>4, <1>5, <1>6, <1>7, <1>9 DEF CarryInv
<1>11. EndedKept
  BY DEF EndedKept, Fades
<1>12. QED
  BY <1>10, <1>11 DEF Kept

\* The lease goes on, or is stopped, and what else changes of it is f's.
Moves(f) ==
  /\ lease' \in Lease /\ lease'.owner = lease.owner /\ lease'.frame = lease.frame
  /\ \/ lease'.phase = lease.phase
     \/ lease.phase \in Running /\ lease'.phase \in {"draining", "stopping"}
  /\ lease.phase = "idle" => lease' = lease
  /\ IsInjective(lease'.chain)
  /\ \A g : g # f => (Listed(lease'.chain, g) <=> Listed(lease.chain, g))
  /\ \A g : g # f /\ Listed(lease.chain, g) /\ Head(lease.chain) = g
              => Head(lease'.chain) = Head(lease.chain)
  /\ \/ lease'.last = lease.last
     \/ lease'.last = f /\ OnLease(f) /\ Head(lease.chain) = f

\* It is the same to the other frames, ...
LEMMA MovesKeep ==
  ASSUME CarryInv, NEW f, Moves(f), NEW g \in Frames, g # f, call'[g].on = call[g].on
  PROVE  LeaseKeeps(g)
<1>1. ShareHolds(g)
  BY DEF CarryInv, CallHolds
<1>2. OnLease(g)' => OnLease(g)
  BY DEF Moves, OnLease
<1>3. OnLease(g) => OnLease(g)'
  BY DEF Moves, OnLease, Running
<1>4. CanContinue(g)' => CanContinue(g)
  BY <1>2 DEF Moves, CanContinue
<1>5. Listed(lease'.chain, g) <=> (Listed(lease.chain, g) /\ OnLease(g)')
  BY <1>1, <1>3 DEF Moves, ShareHolds
<1>6. OnLease(g) /\ call[g].at \in Heading => Listed(lease.chain, g) /\ Head(lease.chain) = g
  BY <1>1 DEF ShareHolds
<1>7. OnLease(g)' /\ call[g].at \in Heading => Head(lease'.chain) = Head(lease.chain)
  BY <1>2, <1>6 DEF Moves
<1>8. \/ lease'.last = lease.last
      \/ lease'.last # g /\ (OnLease(g) => call[g].at \notin Heading)
  BY <1>6 DEF Moves
<1>9. CanContinue(g)' => \/ lease'.last = lease.last
                         \/ lease'.last # g /\ call[g].at \notin Heading
  BY <1>4, <1>8 DEF CanContinue
<1>10. lease'.frame = lease.frame
  BY DEF Moves
<1>11. QED
  BY <1>2, <1>4, <1>5, <1>7, <1>9, <1>10 DEF LeaseKeeps

\* ... and as sound as it was.
LEMMA MovesHold ==
  ASSUME CarryInv, NEW f, Moves(f), Onward, forced' = forced,
         DOMAIN fc.frames \subseteq DOMAIN fc'.frames
  PROVE  LeaseHolds'
<1>1. LeaseHolds /\ TypeOK
  BY DEF CarryInv
<1>2. lease.phase = "idle" => lease'.phase = "idle" /\ lease' = NoLease
  BY <1>1 DEF Moves, LeaseHolds
<1>3. lease'.phase = "idle" => lease.phase = "idle"
  BY DEF Moves, Running
<1>4. ASSUME lease'.phase # "idle"
      PROVE  /\ {lease'.owner, lease'.frame} \subseteq DOMAIN fc'.frames
             /\ call'[lease'.owner].at \notin Before
  <2>1. lease.phase # "idle"
    BY <1>2, <1>4
  <2>2. {lease.owner, lease.frame} \subseteq DOMAIN fc.frames
        /\ call[lease.owner].at \notin Before
    BY <1>1, <2>1 DEF LeaseHolds
  <2>3. lease.owner # None
    BY <1>1, <2>2, Places DEF TypeOK
  <2>4. lease.owner \in Frames
    BY <1>1, <2>3, LeaseFields DEF TypeOK, Frames, None
  <2>5. QED
    BY <2>2, <2>4 DEF Moves, Onward
<1>5. forced' # None => /\ lease'.phase \in {"stopping", "unknown", "idle"}
                        /\ lease'.phase = "stopping" => lease'.owner = forced'
  BY <1>1 DEF LeaseHolds, Moves, Running
<1>6. QED
  BY <1>2, <1>3, <1>4, <1>5 DEF Moves, LeaseHolds

\* A lease that is left alone
LEMMA SameMoves ==
  ASSUME CarryInv, NEW f, lease' = lease
  PROVE  Moves(f)
BY DEF CarryInv, TypeOK, LeaseHolds, Moves

\* A lease whose chain f leaves, and that may be stopped
LEMMA LeavingMoves ==
  ASSUME CarryInv, NEW f, NEW end \in {"over", "retry"},
         lease' = Left(lease, f) \/ lease' = Stopped(Left(lease, f), end)
  PROVE  /\ Moves(f) /\ lease'.frame = lease.frame /\ lease'.last = lease.last
         /\ Listed(lease'.chain, f) => Listed(lease.chain, f) /\ Head(lease.chain) # f
<1> DEFINE l == Left(lease, f)
           ch == lease.chain
<1>1. lease \in Lease /\ LeaseHolds
  BY DEF CarryInv, TypeOK
<1>2. /\ l \in Lease /\ l.phase = lease.phase /\ l.owner = lease.owner /\ l.frame = lease.frame
      /\ l.last = lease.last
      /\ l.chain = IF ch # <<>> /\ Head(ch) = f THEN Tail(ch) ELSE ch
  BY <1>1, LeftLeaves
<1>3. ch \in Seq(Frames) /\ IsInjective(ch)
  BY <1>1, LeaseFields DEF LeaseHolds
<1>4. lease.phase = "idle" => l = lease
  <2>1. lease.phase = "idle" => ch = <<>>
    BY <1>1 DEF LeaseHolds, NoLease
  <2>2. QED
    BY <2>1 DEF Left
<1> HIDE DEF l
<1>5. /\ lease' \in Lease /\ lease'.owner = lease.owner /\ lease'.frame = lease.frame
      /\ lease'.last = lease.last /\ lease'.chain = l.chain
      /\ lease'.phase = lease.phase \/ (lease.phase \in Running /\ lease'.phase = "stopping")
      /\ lease.phase = "idle" => lease' = lease
  <2>1. CASE lease' = l
    BY <2>1, <1>2, <1>4
  <2>2. CASE lease' = Stopped(l, end)
    <3>1. /\ lease' \in Lease /\ lease'.owner = l.owner /\ lease'.frame = l.frame
          /\ lease'.last = l.last /\ lease'.chain = l.chain
          /\ lease'.phase = IF l.phase \in Running THEN "stopping" ELSE l.phase
          /\ l.phase \notin Running => lease' = l
      BY <2>2, <1>2, StoppedStops
    <3>2. lease.phase = "idle" => l.phase \notin Running
      BY <1>2 DEF Running
    <3>3. QED
      BY <3>1, <3>2, <1>2, <1>4
  <2>3. QED
    BY <2>1, <2>2 DEF l
<1> HIDE DEF ch
<1>6. /\ IsInjective(lease'.chain)
      /\ \A g : g # f => (Listed(lease'.chain, g) <=> Listed(ch, g))
      /\ \A g : g # f /\ Listed(ch, g) /\ Head(ch) = g => lease'.chain = ch
      /\ Listed(lease'.chain, f) => Listed(ch, f) /\ Head(ch) # f
  <2> DEFINE k == lease'.chain
  <2>1. k = IF ch # <<>> /\ Head(ch) = f THEN Tail(ch) ELSE ch
    BY <1>2, <1>5
  <2> HIDE DEF k
  <2>2. /\ IsInjective(k)
        /\ \A g : g # f => (Listed(k, g) <=> Listed(ch, g))
        /\ \A g : g # f /\ Listed(ch, g) /\ Head(ch) = g => k = ch
        /\ Listed(k, f) => Listed(ch, f) /\ Head(ch) # f
    BY ONLY <1>3, <2>1, ChainLeft, Zenon
  <2>3. QED
    BY <2>2 DEF k
<1>7. Moves(f)
  BY <1>5, <1>6 DEF Moves, ch
<1>8. QED
  BY <1>5, <1>6, <1>7 DEF ch

\* A lease that is stopped
LEMMA StoppedMoves ==
  ASSUME CarryInv, NEW f, NEW end \in {"over", "retry"}, lease' = Stopped(lease, end)
  PROVE  Moves(f) /\ lease'.chain = lease.chain /\ lease'.frame = lease.frame
<1>1. lease \in Lease /\ LeaseHolds
  BY DEF CarryInv, TypeOK
<1>2. /\ lease' \in Lease /\ lease'.owner = lease.owner /\ lease'.frame = lease.frame
      /\ lease'.last = lease.last /\ lease'.chain = lease.chain
      /\ lease'.phase = IF lease.phase \in Running THEN "stopping" ELSE lease.phase
      /\ lease.phase \notin Running => lease' = lease
  BY <1>1, StoppedStops
<1>3. lease.phase = "idle" => lease' = lease
  BY <1>2 DEF Running
<1>4. IsInjective(lease'.chain)
  BY <1>1, <1>2 DEF LeaseHolds
<1>5. QED
  BY <1>2, <1>3, <1>4 DEF Moves

(***************************************************************************)
(* Steps of one call, whose frame alone changes, on a lease that goes on   *)
(* or is stopped                                                           *)
(***************************************************************************)

\* What such a step leaves alone
Calm ==
  /\ slot' = slot /\ started' = started /\ op' = op /\ forced' = forced
  /\ removal' \in Removals /\ Asked' \subseteq Asked

\* ..., as where the removals stay.
LEMMA CalmRemoval ==
  ASSUME CarryInv, slot' = slot, started' = started, op' = op, forced' = forced, removal' = removal
  PROVE  Calm
BY DEF CarryInv, TypeOK, Removals, Calm, Asked

\* The frames of the coordinator and the types of its parts
LEMMA InvTypes ==
  ASSUME CarryInv
  PROVE  /\ TypeOK /\ Good(fc) /\ queue \in Messages /\ lease \in Lease /\ op \in Ops
         /\ slot \in Slots /\ removal \in Removals /\ forced \in 0..MaxFrames
         /\ Timely(fc, op) /\ NotNewer(queue, op) /\ LeaseHolds /\ SlotsHold
         /\ DOMAIN fc.frames \subseteq Frames
         /\ \A f \in Frames : call[f] \in Call
         /\ \A f \in DOMAIN fc.frames :
              /\ f \in Frames /\ f # None /\ fc.frames[f] \in Frame /\ call[f] \in Call
              /\ AwaitHolds(f) /\ ShareHolds(f) /\ TracksHold(f)
<1>1. TypeOK /\ Good(fc) /\ queue \in Messages /\ lease \in Lease /\ op \in Ops
      /\ slot \in Slots /\ removal \in Removals /\ forced \in 0..MaxFrames
  BY DEF CarryInv, TypeOK, Good, Ops, Removals
<1>2. Timely(fc, op) /\ NotNewer(queue, op) /\ LeaseHolds /\ SlotsHold
  BY DEF CarryInv, EpochsHold, Timely
<1>3. DOMAIN fc.frames \subseteq Frames /\ \A f \in DOMAIN fc.frames : f # None /\ fc.frames[f] \in Frame
  <2>1. Len(fc.frames) <= MaxFrames /\ DOMAIN fc.frames = 1..Len(fc.frames)
        /\ Len(fc.frames) \in Nat /\ \A f \in DOMAIN fc.frames : fc.frames[f] \in Frame
    BY <1>1, Places DEF Good, TypeOK
  <2>2. QED
    BY <2>1, MaxFramesAssumption DEF Frames, None
<1>4. \A f \in Frames : call[f] \in Call
  BY <1>1 DEF TypeOK
<1>5. \A f \in Frames : AwaitHolds(f) /\ ShareHolds(f) /\ TracksHold(f)
  BY DEF CarryInv, CallHolds
<1>6. QED
  BY <1>1, <1>2, <1>3, <1>4, <1>5

\* A step of one call, whatever becomes of the lease
LEMMA CallMoves ==
  ASSUME CarryInv, Calm, NEW f \in DOMAIN fc.frames, NEW k \in Call,
         call' = [call EXCEPT ![f] = k], Good(fc'), Alone(fc, fc', f),
         Phase(fc, f) \in Ended => Phase(fc', f) = Phase(fc, f),
         queue' \in Messages, NotNewer(queue', op), QueueKept, Moves(f),
         call[f].at \in Before \/ k.at \notin Before,
         Phase(fc', f) \in Candidate =>
           fc.frames[f].slot = slot \/ (k.at = "mix" /\ k.by # {}),
         CallHolds(f)'
  PROVE  Kept
<1>1. /\ slot' = slot /\ started' = started /\ op' = op /\ forced' = forced
      /\ removal' \in Removals /\ Asked' \subseteq Asked
  BY DEF Calm
<1>2. Len(fc'.frames) = Len(fc.frames) /\ Intents(fc', f) = Intents(fc, f)
      /\ fc'.frames[f].slot = fc.frames[f].slot
  BY DEF Alone, Intents
<1>3. \A g \in DOMAIN fc.frames \ {f} : Fades(g)
  BY DEF Alone, Fades, Phase
<1>4. call \in [Frames -> Call] /\ f \in Frames
  BY InvTypes DEF TypeOK
<1>5. call'[f] = k /\ \A g \in Frames \ {f} : call'[g] = call[g]
  BY <1>4
<1>6. \A g \in Frames \ {f} : LeaseKeeps(g)
  BY <1>5, MovesKeep
<1>7. LeaseHolds'
  <2>1. Onward
    BY <1>4, <1>5 DEF Onward
  <2>2. DOMAIN fc'.frames = DOMAIN fc.frames
    BY <1>2, InvTypes, Places DEF Good
  <2>3. QED
    BY <2>1, <2>2, <1>1, MovesHold
<1>8. lease' \in Lease
  BY DEF Moves
<1>9. Phase(fc', f) \in Candidate =>
        fc'.frames[f].slot = slot \/ (k.at = "mix" /\ k.by # {})
  BY <1>2
<1>10. QED
  BY <1>1, <1>2, <1>3, <1>6, <1>7, <1>8, <1>9, CallStep

\* The calls that have not been made, and that have returned
LEMMA NoCallIsCall ==
  /\ NoCall \in Call /\ NoCall.at = "none" /\ NoCall.whole = FALSE /\ NoCall.on = None
  /\ NoCall.seen = None /\ NoCall.by = {} /\ NoCall.then = "none" /\ NoCall.got = "none"
<1>1. None \in 0..MaxFrames
  BY MaxFramesAssumption DEF None
<1>2. QED
  BY <1>1 DEF NoCall, Call

\* The call that is over
LEMMA OverIsCall ==
  Over \in Call /\ Over.at = "ended" /\ Over.on = None /\ Over.then = "none" /\ Over.by = {}
<1>1. ASSUME NEW k \in Call
      PROVE  LET l == [k EXCEPT !.at = "ended"]
             IN  l \in Call /\ l.at = "ended" /\ l.on = k.on /\ l.then = k.then /\ l.by = k.by
  BY DEF Call
<1>2. QED
  BY <1>1, NoCallIsCall DEF Over

\* A call returns when its frame has ended, or stays ready in its slot.
LEMMA ReturnsStep ==
  ASSUME CarryInv, Calm, NEW f \in DOMAIN fc.frames, NEW book, Returns(f, book),
         Settled(fc, queue, book, f), Moves(f), ~Listed(lease'.chain, f),
         \/ Phase(book.fc, f) \in Ended
         \/ Phase(book.fc, f) = "ready" /\ fc.frames[f].slot = slot
  PROVE  Kept
<1>1. fc' = book.fc /\ queue' = book.queue /\ call' = [call EXCEPT ![f] = Over]
  BY DEF Returns, Writes, Sets
<1>2. Good(fc') /\ Alone(fc, fc', f) /\ queue' \in Messages /\ NotNewer(queue', op)
  BY <1>1 DEF Settled, Ends
<1>3. Over \in Call /\ Over.at = "ended" /\ Over.on = None /\ Over.then = "none"
  BY OverIsCall
<1>4. f \in Frames /\ call \in [Frames -> Call] /\ f # None
  BY InvTypes DEF TypeOK
<1>5. call'[f] = Over
  BY <1>1, <1>4
<1>6. DOMAIN fc'.frames = DOMAIN fc.frames
  BY <1>2, InvTypes, Places DEF Good, Alone
<1>7. CallHolds(f)'
  <2>1. AwaitHolds(f)'
    BY <1>1, <1>3, <1>5, <1>6 DEF AwaitHolds, PhaseFits, OffLease
  <2>2. ~OnLease(f)'
    <3>1. lease'.phase # "idle" => lease.phase # "idle" /\ lease'.owner = lease.owner
      BY DEF Moves, Running
    <3>2. lease.phase # "idle" => lease.owner # None
      BY InvTypes DEF LeaseHolds
    <3>3. QED
      BY <3>1, <3>2, <1>3, <1>5 DEF OnLease
  <2>3. ShareHolds(f)'
    BY <2>2, <1>3, <1>5 DEF ShareHolds, CanContinue
  <2>4. TracksHold(f)'
    BY <1>1, <1>3, <1>5, PhasesDiffer DEF TracksHold, Ended
  <2>5. QED
    BY <2>1, <2>3, <2>4 DEF CallHolds
<1>8. Over.at \notin Before
  BY <1>3 DEF Before
<1>9. Phase(fc', f) \in Candidate => fc.frames[f].slot = slot
  BY <1>1, PhasesDiffer
<1>10. QueueKept
  <2>1. \A o \in DOMAIN queue : queue[o] \in Nat
    BY InvTypes, MessageFields, BoundsAssumption
  <2>2. QED
    BY <1>1, <2>1 DEF Settled, QueueKept
<1>11. Phase(fc, f) \in Ended => Phase(fc', f) = Phase(fc, f)
  BY <1>1 DEF Settled, Ends
<1>12. QED
  BY <1>1, <1>2, <1>3, <1>7, <1>8, <1>9, <1>10, <1>11, CallMoves

\* A call waits for the release of its lease.
LEMMA WaitsStep ==
  ASSUME CarryInv, Calm, NEW f \in DOMAIN fc.frames, NEW then \in {"finish", "defer", "fail"},
         Waits(f, then), UNCHANGED <<fc, queue>>, Moves(f), ~Listed(lease'.chain, f),
         call[f].at \notin OffLease,
         then = "defer" => Phase(fc, f) \in {"committed"} \cup Ended
  PROVE  Kept
<1> DEFINE got == IF OnLease(f) /\ lease.phase = "unknown" THEN "over" ELSE call[f].got
           k == [[[call[f] EXCEPT !.at = "wait"] EXCEPT !.then = then] EXCEPT !.got = got]
<1>1. f \in Frames /\ call \in [Frames -> Call] /\ call[f] \in Call /\ Good(fc)
  BY InvTypes DEF TypeOK
<1>2. got \in {"none", "over", "retry"}
  BY <1>1 DEF Call
<1> HIDE DEF got
<1>3. /\ k \in Call /\ k.at = "wait" /\ k.then = then /\ k.on = call[f].on
      /\ k.whole = call[f].whole
  BY <1>1, <1>2 DEF Call
<1>4. call' = [call EXCEPT ![f] = k]
  BY <1>1 DEF Waits, got
<1> HIDE DEF k
<1>5. call'[f] = k /\ \A g \in Frames \ {f} : call'[g] = call[g]
  BY <1>1, <1>4
<1>6. AwaitHolds(f) /\ ShareHolds(f) /\ TracksHold(f)
  BY InvTypes
<1>7. call[f].on # None
  BY <1>6 DEF AwaitHolds
<1>8. AwaitHolds(f)'
  <2>1. PhaseFits("wait", Phase(fc, f))
    BY <1>6 DEF AwaitHolds, PhaseFits, Live, OffLease
  <2>2. QED
    BY <2>1, <1>3, <1>5, <1>7 DEF AwaitHolds, OffLease
<1>9. ShareHolds(f)'
  <2>1. call[f].on \in Frames
    BY <1>1, <1>7 DEF Call, Frames, None
  <2>2. call'[call[f].on].at \notin Before
    BY <2>1, <1>3, <1>5, <1>6, <1>7 DEF ShareHolds, Before
  <2>3. OnLease(f)' => OnLease(f)
    BY <1>3, <1>5 DEF Moves, OnLease
  <2>4. OnLease(f)' => (Phase(fc', f) \in {"on_air", "draining"} => lease'.frame = f)
    BY <2>3, <1>6 DEF ShareHolds, Moves
  <2>5. QED
    BY <2>2, <2>4, <1>3, <1>5 DEF ShareHolds, Queued, Heading
<1>10. TracksHold(f)'
  BY <1>3, <1>5, <1>6 DEF TracksHold, HasTracks, Parts, Intents
<1>11. Phase(fc, f) \in Candidate => fc.frames[f].slot = slot
  <2>1. Phase(fc, f) \in Candidate => fc.frames[f].slot = slot \/ call[f].at = "mix"
    BY InvTypes DEF SlotsHold
  <2>2. QED
    BY <2>1 DEF OffLease
<1>12. k.at \notin Before /\ Alone(fc, fc', f) /\ fc' = fc /\ queue' \in Messages
       /\ NotNewer(queue', op)
  BY <1>3, AloneItself, InvTypes DEF Before
<1>13. CallHolds(f)'
  BY <1>8, <1>9, <1>10 DEF CallHolds
<1>14. QueueKept
  BY <1>1, InvTypes, QueueSame
<1>15. QED
  BY <1>1, <1>3, <1>4, <1>11, <1>12, <1>13, <1>14, CallMoves

\* A call that is being made has a frame.
LEMMA HasFrame ==
  ASSUME CarryInv, NEW f \in Frames, call[f].at # "none"
  PROVE  f \in DOMAIN fc.frames
<1>1. AwaitHolds(f)
  BY DEF CarryInv, CallHolds
<1>2. QED
  BY <1>1, NoCallIsCall DEF AwaitHolds

\* What a frame can be while its call is on a lease
LEMMA Fits ==
  ASSUME CarryInv, NEW f \in DOMAIN fc.frames
  PROVE  /\ call[f].at \in {"acquire", "final", "play", "handover", "starting"}
              => Phase(fc, f) \in {"committed"} \cup Ended
         /\ call[f].at \in {"remix", "replace", "activation"}
              => Phase(fc, f) \in {"prepared"} \cup Ended
         /\ call[f].at \in {"sched", "mix", "ended"} => Phase(fc, f) \in {"ready"} \cup Ended
         /\ call[f].at = "sound" => Phase(fc, f) \in {"on_air"} \cup Ended
         /\ call[f].at = "tail" => Phase(fc, f) \in {"draining"} \cup Ended
         /\ Listed(lease.chain, f) => OnLease(f) /\ call[f].at \in Queued \cup Heading
         /\ OnLease(f) /\ call[f].at \in Heading => Head(lease.chain) = f
         /\ call[f].at \in Before => ~OnLease(f) /\ call[f].on = None
<1>1. AwaitHolds(f) /\ ShareHolds(f) /\ LeaseHolds
  BY InvTypes
<1>2. call[f].on = None => ~OnLease(f)
  BY <1>1, InvTypes DEF OnLease, LeaseHolds
<1>3. call[f].at \in Before => call[f].on = None
  BY <1>1 DEF AwaitHolds, Before, OffLease
<1>4. PhaseFits(call[f].at, Phase(fc, f))
  BY <1>1 DEF AwaitHolds
<1>5. QED
  BY <1>1, <1>2, <1>3, <1>4 DEF PhaseFits, ShareHolds

\* The lease of a call is cut, or was.
LEMMA CutsStep ==
  ASSUME CarryInv, Calm, NEW f \in DOMAIN fc.frames, NEW then \in {"defer", "fail"},
         CutsLease(f, then), call[f].at \in {"acquire", "final", "play"},
         call[f].at = "play" => First(f)
  PROVE  Kept
<1>1. Phase(fc, f) \in {"committed"} \cup Ended
  BY Fits
<1>2. Listed(lease.chain, f) => OnLease(f) /\ Head(lease.chain) = f
  BY Fits DEF First, Queued, Heading
<1>3. CASE OnLease(f)
  <2>1. Waits(f, then) /\ lease' = Stopped(Left(lease, f), "over") /\ UNCHANGED <<fc, queue>>
    BY <1>3 DEF CutsLease
  <2>2. Moves(f) /\ ~Listed(lease'.chain, f)
    BY <2>1, <1>2, LeavingMoves
  <2>3. QED
    BY <2>1, <2>2, <1>1, WaitsStep DEF OffLease
<1>4. CASE ~OnLease(f)
  <2> DEFINE book == IF then = "defer" THEN Deferred(fc, queue, f) ELSE Finished(fc, queue, f, "over")
  <2>1. Returns(f, book) /\ lease' = lease
    BY <1>4 DEF CutsLease
  <2>2. Settled(fc, queue, book, f) /\ Phase(book.fc, f) \in Ended
    BY <1>1, InvTypes, DeferredSettles, FinishedSettles
  <2>3. Moves(f) /\ ~Listed(lease'.chain, f)
    BY <2>1, <1>2, <1>4, SameMoves
  <2> HIDE DEF book
  <2>4. QED
    BY <2>1, <2>2, <2>3, ReturnsStep
<1>5. QED
  BY <1>3, <1>4

\* A call returns when its playback is over, and its frame ends.
LEMMA FinishedStep ==
  ASSUME CarryInv, Calm, NEW f \in DOMAIN fc.frames, NEW result,
         Returns(f, Finished(fc, queue, f, result)), Moves(f), ~Listed(lease'.chain, f)
  PROVE  Kept
<1> DEFINE book == Finished(fc, queue, f, result)
<1>1. Settled(fc, queue, book, f) /\ Phase(book.fc, f) \in Ended
  BY InvTypes, FinishedSettles
<1>2. Returns(f, book)
  OBVIOUS
<1> HIDE DEF book
<1>3. QED
  BY <1>1, <1>2, ReturnsStep

\* A call returns when its frame is deferred.
LEMMA DeferredStep ==
  ASSUME CarryInv, Calm, NEW f \in DOMAIN fc.frames,
         Returns(f, Deferred(fc, queue, f)), Moves(f), ~Listed(lease'.chain, f),
         Phase(fc, f) \in Candidate \cup {"committed"} \cup Ended
  PROVE  Kept
<1> DEFINE book == Deferred(fc, queue, f)
<1>1. Settled(fc, queue, book, f) /\ Phase(book.fc, f) \in Ended
  BY InvTypes, DeferredSettles
<1>2. Returns(f, book)
  OBVIOUS
<1> HIDE DEF book
<1>3. QED
  BY <1>1, <1>2, ReturnsStep

\* A frame that has ended is settled when it is settled again.
LEMMA SettledTwice ==
  ASSUME CarryInv, NEW f \in DOMAIN fc.frames, NEW b, NEW d, Settled(fc, queue, b, f),
         Settled(b.fc, b.queue, d, f)
  PROVE  Settled(fc, queue, d, f)
<1>1. Ends(fc, b.fc, f) /\ Ends(b.fc, d.fc, f)
  BY DEF Settled
<1>2. DOMAIN b.fc.frames = DOMAIN fc.frames
  BY <1>1, InvTypes, Places DEF Ends, Alone, Good
<1>3. Good(d.fc) /\ Alone(fc, d.fc, f)
  BY <1>1, <1>2 DEF Ends, Alone
<1>4. d.fc = fc \/ (Phase(d.fc, f) \in Ended /\ Phase(fc, f) \notin Ended)
  BY <1>1 DEF Ends
<1>5. QED
  BY <1>3, <1>4 DEF Settled, Ends

\* A handover fails, or is refused.
LEMMA ReplaceFailsStep ==
  ASSUME CarryInv, Calm, NEW f \in DOMAIN fc.frames, NEW end \in {"over", "retry"},
         ReplaceFails(f, end), call[f].at \in {"replace"} \cup Heading,
         call[f].at = "replace" => First(f)
  PROVE  Kept
<1>1. Listed(lease.chain, f) => OnLease(f) /\ Head(lease.chain) = f
  BY Fits DEF First
<1>2. CASE OnLease(f)
  <2>1. Waits(f, "finish") /\ lease' = Stopped(Left(lease, f), end) /\ UNCHANGED <<fc, queue>>
    BY <1>2 DEF ReplaceFails
  <2>2. Moves(f) /\ ~Listed(lease'.chain, f)
    BY <2>1, <1>1, LeavingMoves
  <2>3. QED
    BY <2>1, <2>2, WaitsStep DEF OffLease, Heading
<1>3. CASE ~OnLease(f)
  <2>1. Returns(f, Finished(fc, queue, f, "over")) /\ lease' = lease
    BY <1>3 DEF ReplaceFails
  <2>2. Moves(f) /\ ~Listed(lease'.chain, f)
    BY <2>1, <1>1, <1>3, SameMoves
  <2>3. QED
    BY <2>1, <2>2, FinishedStep
<1>4. QED
  BY <1>2, <1>3

\* A transition that is refused leaves its frame waiting, or defers it.
LEMMA ReplaceRefusedStep ==
  ASSUME CarryInv, Calm, NEW f \in DOMAIN fc.frames, ReplaceRefused(f),
         call[f].at \in {"replace"} \cup Heading, call[f].at = "replace" => First(f)
  PROVE  Kept
<1> DEFINE d == Deferred(fc, queue, f)
           book == Finished(d.fc, d.queue, f, "continues")
<1>1. Listed(lease.chain, f) => Head(lease.chain) = f
  BY Fits DEF First
<1>2. Settled(fc, queue, d, f)
  BY InvTypes, DeferredSettles
<1>3. Returns(f, book) /\ lease' = Left(lease, f)
  BY DEF ReplaceRefused
<1> HIDE DEF d
<1>4. Good(d.fc) /\ d.queue \in Messages /\ NotNewer(d.queue, op) /\ f \in DOMAIN d.fc.frames
  BY <1>2, InvTypes, Places DEF Settled, Ends, Alone, Good
<1>5. Timely(d.fc, op)
  <2>1. DOMAIN d.fc.frames = DOMAIN fc.frames
    BY <1>2, <1>4, InvTypes, Places DEF Settled, Ends, Alone, Good
  <2>2. \A g \in DOMAIN fc.frames : Intents(d.fc, g) = Intents(fc, g)
    BY <1>2 DEF Settled, Ends, Alone, Intents
  <2>3. QED
    BY <2>1, <2>2, InvTypes DEF Timely
<1>6. Settled(d.fc, d.queue, book, f) /\ Phase(book.fc, f) \in Ended
  BY <1>4, <1>5, FinishedSettles
<1> HIDE DEF book
<1>7. Settled(fc, queue, book, f)
  BY <1>2, <1>6, SettledTwice
<1>8. Moves(f) /\ ~Listed(lease'.chain, f)
  BY <1>1, <1>3, LeavingMoves
<1>9. QED
  BY <1>3, <1>6, <1>7, <1>8, ReturnsStep

\* A call goes on to the next await on its lease; its frame stays as it is.
LEMMA PutStep ==
  ASSUME CarryInv, Calm, NEW f \in DOMAIN fc.frames, NEW k \in Call,
         call' = [call EXCEPT ![f] = k], k.on = call[f].on, call[f].at \notin OffLease,
         k.at \notin OffLease \cup {"wait", "sound", "tail"},
         UNCHANGED <<fc, queue>>, Moves(f), PhaseFits(k.at, Phase(fc, f)),
         Listed(lease'.chain, f) <=> (OnLease(f) /\ k.at \in Queued \cup Heading),
         OnLease(f) /\ k.at \in Heading => Head(lease'.chain) = f,
         CanContinue(f) =>
           /\ (k.at \in {"acquire", "final", "play"} /\ lease.frame = f)
                => Phase(fc, f) = "committed"
           /\ k.at \in Heading => lease.frame \in {f, fc.frames[f].replaces}
           /\ k.at \in {"handover", "starting"}
                => Phase(fc, f) = "committed" /\ lease'.last = f,
         (/\ \/ k.at \in {"play", "handover", "starting"}
             \/ k.at = "final" /\ k.whole
          /\ Phase(fc, f) = "committed")
           => HasTracks(fc, f),
         (/\ \/ k.at \in {"replace", "activation"}
             \/ k.at = "remix" /\ k.whole
          /\ CanContinue(f) /\ Phase(fc, f) = "prepared")
           => HasTracks(fc, f)
  PROVE  Kept
<1>1. f \in Frames /\ call \in [Frames -> Call] /\ call[f] \in Call /\ Good(fc)
  BY InvTypes DEF TypeOK
<1>2. call'[f] = k /\ \A g \in Frames \ {f} : call'[g] = call[g]
  BY <1>1
<1>3. AwaitHolds(f) /\ ShareHolds(f) /\ TracksHold(f)
  BY InvTypes
<1>4. call[f].on # None /\ call[f].on \in Frames
  BY <1>1, <1>3 DEF AwaitHolds, Call, Frames, None
<1>5. OnLease(f)' <=> OnLease(f)
  BY <1>2 DEF Moves, OnLease, Running
<1>6. CanContinue(f)' => CanContinue(f)
  BY <1>5 DEF CanContinue, Moves
<1>7. AwaitHolds(f)'
  BY <1>2, <1>4 DEF AwaitHolds
<1>8. ShareHolds(f)'
  <2>1. call'[call[f].on].at \notin Before
    BY <1>2, <1>3, <1>4 DEF ShareHolds, Before, OffLease
  <2>2. lease'.frame = lease.frame /\ fc' = fc
    BY DEF Moves
  <2>3. OnLease(f)' => (Phase(fc', f) \in {"on_air", "draining"} => lease'.frame = f)
    BY <2>2, <1>3, <1>5 DEF ShareHolds
  <2>4. (CanContinue(f) =>
          /\ (call[f].at \in {"acquire", "final", "play"} /\ lease.frame = f)
               => Phase(fc, f) = "committed"
          /\ call[f].at \in Heading => lease.frame \in {f, fc.frames[f].replaces}
          /\ call[f].at \in {"handover", "starting"}
               => Phase(fc, f) = "committed" /\ lease.last = f
          /\ (call[f].at = "sound" /\ lease.last = f)
               => Phase(fc, f) = "on_air" /\ lease.frame = f)'
    BY <1>2, <1>6, <2>2
  <2>5. QED
    BY <2>1, <2>3, <2>4, <1>2, <1>5 DEF ShareHolds
<1>9. TracksHold(f)'
  <2>1. HasTracks(fc', f) <=> HasTracks(fc, f)
    BY DEF HasTracks, Parts, Intents
  <2>2. QED
    BY <2>1, <1>2, <1>3, <1>6 DEF TracksHold
<1>10. Phase(fc, f) \in Candidate => fc.frames[f].slot = slot
  <2>1. Phase(fc, f) \in Candidate => fc.frames[f].slot = slot \/ call[f].at = "mix"
    BY InvTypes DEF SlotsHold
  <2>2. QED
    BY <2>1 DEF OffLease
<1>11. k.at \notin Before /\ Alone(fc, fc', f) /\ fc' = fc /\ queue' \in Messages
       /\ NotNewer(queue', op)
  BY AloneItself, InvTypes DEF Before, OffLease
<1>12. CallHolds(f)'
  BY <1>7, <1>8, <1>9 DEF CallHolds
<1>13. QueueKept
  BY InvTypes, QueueSame
<1>14. QED
  BY <1>1, <1>10, <1>11, <1>12, <1>13, CallMoves

\* The next await of a call that keeps what it has
LEMMA NextAwait ==
  ASSUME CarryInv, NEW f \in DOMAIN fc.frames, NEW at \in {"play", "starting", "replace", "activation"},
         Puts(f, at)
  PROVE  \E k \in Call : /\ call' = [call EXCEPT ![f] = k] /\ k.at = at /\ k.on = call[f].on
                         /\ k.whole = call[f].whole
<1> DEFINE k == [call[f] EXCEPT !.at = at]
<1>1. call[f] \in Call
  BY InvTypes
<1>2. k \in Call /\ k.at = at /\ k.on = call[f].on /\ k.whole = call[f].whole
  BY <1>1 DEF Call
<1>3. call' = [call EXCEPT ![f] = k]
  BY DEF Puts
<1>4. QED
  BY <1>2, <1>3

\* A chain that a frame joins, on a lease that goes on
LEMMA JoiningMoves ==
  ASSUME CarryInv, NEW f \in Frames, ~Listed(lease.chain, f), OnLease(f),
         lease' = [lease EXCEPT !.chain = Append(lease.chain, f)]
  PROVE  Moves(f) /\ Listed(lease'.chain, f)
<1> DEFINE c == Append(lease.chain, f)
<1>1. lease \in Lease /\ LeaseHolds /\ lease.phase # "idle"
  BY InvTypes DEF OnLease
<1>2. lease.chain \in Seq(Frames) /\ IsInjective(lease.chain)
  BY <1>1, LeaseFields DEF LeaseHolds
<1>3. /\ c \in Seq(Frames) /\ IsInjective(c)
      /\ \A g : Listed(c, g) <=> (Listed(lease.chain, g) \/ g = f)
      /\ \A g : Listed(lease.chain, g) => Head(c) = Head(lease.chain)
  BY <1>2, ChainAppends
<1>4. lease' = [lease EXCEPT !.chain = c]
  OBVIOUS
<1> HIDE DEF c
<1>5. /\ lease' \in Lease /\ lease'.owner = lease.owner /\ lease'.frame = lease.frame
      /\ lease'.last = lease.last /\ lease'.phase = lease.phase /\ lease'.chain = c
  BY <1>1, <1>3, <1>4 DEF Lease
<1>6. QED
  BY <1>1, <1>3, <1>5 DEF Moves

\* The acquisition ends, and the final mix.
LEMMA AcquiredStep ==
  ASSUME CarryInv, NEW f \in Frames, Acquired(f)
  PROVE  Kept
<1>1. f \in DOMAIN fc.frames /\ call[f].at = "acquire" /\ CanContinue(f) /\ OnLease(f)
  BY HasFrame DEF Acquired, CanContinue
<1>2. Calm /\ UNCHANGED <<fc, queue>>
  BY CalmRemoval DEF Acquired
<1> DEFINE whole == HasTracks(fc, f)
           k == [[call[f] EXCEPT !.at = "final"] EXCEPT !.whole = whole]
<1>3. call[f] \in Call /\ lease \in Lease /\ whole \in BOOLEAN
  BY <1>1, InvTypes DEF HasTracks
<1>4. call' = [call EXCEPT ![f] = k]
  BY DEF Acquired
<1> HIDE DEF whole
<1>5. k \in Call /\ k.at = "final" /\ k.on = call[f].on /\ k.whole = whole
  BY <1>3 DEF Call
<1> HIDE DEF k
<1>6. /\ lease' \in Lease /\ lease'.owner = lease.owner /\ lease'.frame = lease.frame
      /\ lease'.last = lease.last /\ lease'.phase = lease.phase /\ lease'.chain = lease.chain
  BY <1>3 DEF Acquired, Lease
<1>7. Moves(f)
  BY <1>1, <1>6, InvTypes DEF Moves, OnLease, LeaseHolds
<1>8. ~Listed(lease.chain, f) /\ Phase(fc, f) \in {"committed"} \cup Ended
  BY <1>1, Fits DEF Queued, Heading
<1>9. lease.frame = f => Phase(fc, f) = "committed"
  BY <1>1, InvTypes DEF ShareHolds
<1>10. PhaseFits(k.at, Phase(fc, f))
  BY <1>5, <1>8 DEF PhaseFits
<1>11. QED
  BY <1>1, <1>2, <1>4, <1>5, <1>6, <1>7, <1>8, <1>9, <1>10, PutStep
     DEF OffLease, Queued, Heading, whole

\* acquireLease is refused, or fails.
LEMMA AcquireFailsStep ==
  ASSUME CarryInv, NEW f \in Frames, NEW defers \in BOOLEAN, AcquireFails(f, defers)
  PROVE  Kept
<1> DEFINE then == IF defers /\ CanContinue(f) THEN "defer" ELSE "fail"
<1>1. f \in DOMAIN fc.frames /\ call[f].at = "acquire"
  BY HasFrame DEF AcquireFails
<1>2. then \in {"defer", "fail"} /\ CutsLease(f, then)
  BY DEF AcquireFails
<1>3. Calm
  BY CalmRemoval DEF AcquireFails
<1> HIDE DEF then
<1>4. QED
  BY <1>1, <1>2, <1>3, CutsStep

\* The final mix, before playback
LEMMA FinalMixedStep ==
  ASSUME CarryInv, NEW f \in Frames, NEW fits \in BOOLEAN, FinalMixed(f, fits)
  PROVE  Kept
<1>1. f \in DOMAIN fc.frames /\ call[f].at = "final"
  BY HasFrame DEF FinalMixed
<1>2. Calm
  BY CalmRemoval DEF FinalMixed
<1>3. CASE CutsLease(f, "defer") \/ CutsLease(f, "fail")
  BY <1>1, <1>2, <1>3, CutsStep
<1>4. CASE /\ fits /\ OnLease(f) /\ Puts(f, "play") /\ UNCHANGED <<fc, queue>>
           /\ lease' = [lease EXCEPT !.chain = Append(lease.chain, f)]
  <2>1. call[f].whole
    BY <1>4 DEF FinalMixed, Whole
  <2>2. PICK k \in Call : /\ call' = [call EXCEPT ![f] = k] /\ k.at = "play"
                          /\ k.on = call[f].on /\ k.whole = call[f].whole
    BY <1>1, <1>4, NextAwait
  <2>3. ~Listed(lease.chain, f) /\ Phase(fc, f) \in {"committed"} \cup Ended
    BY <1>1, Fits DEF Queued, Heading
  <2>4. Moves(f) /\ Listed(lease'.chain, f)
    BY <2>3, <1>4, JoiningMoves
  <2>5. PhaseFits(k.at, Phase(fc, f))
    BY <2>2, <2>3 DEF PhaseFits
  <2>6. /\ Phase(fc, f) = "committed" => HasTracks(fc, f)
        /\ CanContinue(f) /\ lease.frame = f => Phase(fc, f) = "committed"
    BY <2>1, <1>1, InvTypes DEF TracksHold, ShareHolds
  <2>7. QED
    BY <2>2, <2>4, <2>5, <2>6, <1>1, <1>2, <1>4, PutStep DEF OffLease, Queued, Heading
<1>5. QED
  BY <1>3, <1>4 DEF FinalMixed

\* The audio of a frame that had its turn is the last of its lease.
LEMMA LastMoves ==
  ASSUME CarryInv, NEW f \in Frames, OnLease(f), Head(lease.chain) = f,
         lease' = [lease EXCEPT !.last = f]
  PROVE  Moves(f) /\ lease'.chain = lease.chain /\ lease'.last = f
<1>1. lease \in Lease /\ LeaseHolds /\ lease.phase # "idle"
  BY InvTypes DEF OnLease
<1>2. f \in 0..MaxFrames
  BY MaxFramesAssumption DEF Frames
<1>3. /\ lease' \in Lease /\ lease'.owner = lease.owner /\ lease'.frame = lease.frame
      /\ lease'.last = f /\ lease'.phase = lease.phase /\ lease'.chain = lease.chain
  BY <1>1, <1>2 DEF Lease
<1>4. QED
  BY <1>1, <1>3 DEF Moves, LeaseHolds

\* playAudioOnLease
LEMMA EnterPlayStep ==
  ASSUME CarryInv, NEW f \in Frames, EnterPlay(f)
  PROVE  Kept
<1>1. f \in DOMAIN fc.frames /\ call[f].at = "play" /\ First(f)
  BY HasFrame DEF EnterPlay
<1>2. Calm
  BY CalmRemoval DEF EnterPlay
<1>3. CASE CutsLease(f, "fail")
  BY <1>1, <1>2, <1>3, CutsStep
<1>4. CASE Returns(f, Finished(fc, queue, f, "continues")) /\ lease' = Left(lease, f)
  <2>1. Listed(lease.chain, f) => Head(lease.chain) = f
    BY <1>1, Fits DEF First
  <2>2. Moves(f) /\ ~Listed(lease'.chain, f)
    BY <2>1, <1>4, LeavingMoves
  <2>3. QED
    BY <2>2, <1>1, <1>2, <1>4, FinishedStep
<1>5. CASE /\ CanContinue(f) /\ HoldsLease(f) /\ lease' = [lease EXCEPT !.last = f]
           /\ Puts(f, "starting") /\ UNCHANGED <<fc, queue>>
  <2>1. OnLease(f) /\ Head(lease.chain) = f /\ lease.frame = f
    BY <1>1, <1>5 DEF First, CanContinue, HoldsLease
  <2>2. PICK k \in Call : /\ call' = [call EXCEPT ![f] = k] /\ k.at = "starting"
                          /\ k.on = call[f].on /\ k.whole = call[f].whole
    BY <1>1, <1>5, NextAwait
  <2>3. Moves(f) /\ lease'.chain = lease.chain /\ lease'.last = f
    BY <2>1, <1>5, LastMoves
  <2>4. Phase(fc, f) = "committed" /\ HasTracks(fc, f) /\ Listed(lease.chain, f)
    BY <2>1, <1>1, <1>5, InvTypes DEF ShareHolds, TracksHold, Queued
  <2>5. PhaseFits(k.at, Phase(fc, f))
    BY <2>2, <2>4 DEF PhaseFits
  <2>6. QED
    BY <2>1, <2>2, <2>3, <2>4, <2>5, <1>1, <1>2, <1>5, PutStep DEF OffLease, Queued, Heading
<1>6. QED
  BY <1>3, <1>4, <1>5 DEF EnterPlay

\* replaceCommittedFrameAudio
LEMMA RemixedStep ==
  ASSUME CarryInv, NEW f \in Frames, NEW fits \in BOOLEAN, Remixed(f, fits)
  PROVE  Kept
<1>1. f \in DOMAIN fc.frames /\ call[f].at = "remix"
  BY HasFrame DEF Remixed
<1>2. Calm
  BY CalmRemoval DEF Remixed
<1>3. ~Listed(lease.chain, f) /\ Phase(fc, f) \in {"prepared"} \cup Ended
  BY <1>1, Fits DEF Queued, Heading
<1>4. CASE Returns(f, Deferred(fc, queue, f)) /\ lease' = lease
  <2>1. Moves(f) /\ ~Listed(lease'.chain, f)
    BY <1>3, <1>4, SameMoves
  <2>2. Phase(fc, f) \in Candidate \cup {"committed"} \cup Ended
    BY <1>3 DEF Candidate
  <2>3. QED
    BY <2>1, <2>2, <1>1, <1>2, <1>4, DeferredStep
<1>5. CASE /\ fits /\ Unchanged(f) /\ Puts(f, "replace") /\ UNCHANGED <<fc, queue>>
           /\ lease' = [lease EXCEPT !.chain = Append(lease.chain, f)]
  <2>1. call[f].whole /\ OnLease(f)
    BY <1>5 DEF Remixed, Whole, Unchanged
  <2>2. PICK k \in Call : /\ call' = [call EXCEPT ![f] = k] /\ k.at = "replace"
                          /\ k.on = call[f].on /\ k.whole = call[f].whole
    BY <1>1, <1>5, NextAwait
  <2>3. Moves(f) /\ Listed(lease'.chain, f)
    BY <2>1, <1>3, <1>5, JoiningMoves
  <2>4. PhaseFits(k.at, Phase(fc, f))
    BY <2>2, <1>3 DEF PhaseFits
  <2>5. CanContinue(f) /\ Phase(fc, f) = "prepared" => HasTracks(fc, f)
    BY <2>1, <1>1, InvTypes DEF TracksHold
  <2>6. QED
    BY <2>1, <2>2, <2>3, <2>4, <2>5, <1>1, <1>2, <1>5, PutStep DEF OffLease, Queued, Heading
<1>6. QED
  BY <1>4, <1>5 DEF Remixed

\* The handover is committed, or refused.
LEMMA HandOverStep ==
  ASSUME CarryInv, Calm, NEW f \in DOMAIN fc.frames, NEW fits \in BOOLEAN, HandOver(f, fits),
         call[f].at \in {"replace", "activation"}, CanContinue(f), Head(lease.chain) = f,
         lease.frame = fc.frames[f].replaces \/ call[f].at = "activation"
  PROVE  Kept
<1>1. CASE ReplaceRefused(f)
  BY <1>1, ReplaceRefusedStep DEF First, Heading
<1>2. CASE /\ Phase(Commits(f), f) = "committed" /\ Writes(Book(Commits(f), queue))
           /\ lease' = [lease EXCEPT !.last = f]
           /\ call' = [call EXCEPT ![f].at = "handover", ![f].seen = None]
  <2> DEFINE d == Commit(fc, f)
             z == [call[f] EXCEPT !.at = "handover"]
             k == [z EXCEPT !.seen = None]
  <2>1. f \in Frames /\ call[f] \in Call /\ Good(fc) /\ queue \in Messages
        /\ call \in [Frames -> Call] /\ OnLease(f) /\ NotNewer(queue, op)
    BY InvTypes DEF TypeOK, CanContinue
  <2>2. fc' = d /\ queue' = queue /\ Phase(d, f) = "committed"
    BY <1>2, BookFields DEF Writes, Sets, Commits
  <2>3. call' = [call EXCEPT ![f] = k]
    BY <1>2
  <2>4. k \in Call /\ k.at = "handover" /\ k.on = call[f].on
    <3>1. z \in Call /\ z.at = "handover" /\ z.on = call[f].on
      BY <2>1 DEF Call
    <3> HIDE DEF z
    <3>2. None \in 0..MaxFrames
      BY MaxFramesAssumption DEF None
    <3>3. QED
      BY <3>1, <3>2 DEF Call
  <2> HIDE DEF k
  <2>5. call'[f] = k /\ \A g \in Frames \ {f} : call'[g] = call[g]
    BY <2>1, <2>3
  <2>6. Good(d) /\ Alone(fc, d, f) /\ (d # fc => Phase(fc, f) = "prepared")
        /\ d.frames[f].tracks = fc.frames[f].tracks
    BY <2>1, CommitCommits
  <2>7. Phase(fc, f) = "prepared"
    <3>1. Phase(fc, f) \in {"prepared"} \cup Ended
      BY Fits
    <3>2. QED
      BY <3>1, <2>2, <2>6, PhasesDiffer
  <2> HIDE DEF d
  <2>8. Moves(f) /\ lease'.chain = lease.chain /\ lease'.last = f
    BY <2>1, <1>2, LastMoves
  <2>9. /\ AwaitHolds(f) /\ ShareHolds(f) /\ TracksHold(f)
        /\ f \in DOMAIN fc'.frames /\ Phase(fc', f) = "committed"
    BY <2>2, <2>6, InvTypes, Places DEF Alone, Good
  <2>10. call[f].on # None /\ call[f].on \in Frames
    BY <2>1, <2>9 DEF AwaitHolds, Call, Frames, None, OffLease
  <2>11. AwaitHolds(f)'
    BY <2>4, <2>5, <2>9, <2>10 DEF AwaitHolds, PhaseFits, OffLease
  <2>12. OnLease(f)'
    BY <2>1, <2>4, <2>5, <2>8 DEF Moves, OnLease, Running
  <2>13. ShareHolds(f)'
    <3>1. call'[call[f].on].at \notin Before
      BY <2>4, <2>5, <2>9, <2>10 DEF ShareHolds, Before
    <3>2. Listed(lease.chain, f) /\ lease.frame \in {f, fc.frames[f].replaces}
      BY <2>1, <2>9 DEF ShareHolds, Queued, Heading
    <3>3. lease'.frame = lease.frame /\ fc'.frames[f].replaces = fc.frames[f].replaces
      BY <2>2, <2>6, <2>8 DEF Moves, Alone
    <3>4. QED
      BY <3>1, <3>2, <3>3, <2>4, <2>5, <2>8, <2>9, <2>12 DEF ShareHolds, Queued, Heading
  <2>14. TracksHold(f)'
    <3>1. HasTracks(fc, f)
      BY <2>7, <2>9 DEF TracksHold
    <3>2. HasTracks(fc', f)
      BY <3>1, <2>2, <2>6 DEF HasTracks, Parts, Intents, Alone
    <3>3. QED
      BY <3>2 DEF TracksHold
  <2>15. CallHolds(f)' /\ Phase(fc', f) \notin Candidate /\ k.at \notin Before
    BY <2>4, <2>9, <2>11, <2>13, <2>14 DEF CallHolds, Candidate, Before
  <2>16. QueueKept
    BY <2>2, <2>3, InvTypes, QueueSame
  <2>17. Phase(fc, f) \in Ended => Phase(fc', f) = Phase(fc, f)
    BY <2>2, <2>7, PhasesDiffer
  <2>18. QED
    BY <2>1, <2>2, <2>3, <2>4, <2>6, <2>8, <2>15, <2>16, <2>17, CallMoves
<1>3. QED
  BY <1>1, <1>2 DEF HandOver

\* replaceAudioOnLease, to the activation
LEMMA EnterReplaceStep ==
  ASSUME CarryInv, NEW f \in Frames, NEW fits \in BOOLEAN, EnterReplace(f, fits)
  PROVE  Kept
<1>1. f \in DOMAIN fc.frames /\ call[f].at = "replace" /\ First(f)
  BY HasFrame DEF EnterReplace
<1>2. Calm
  BY CalmRemoval DEF EnterReplace
<1>3. CASE ReplaceFails(f, "over")
  BY <1>1, <1>2, <1>3, ReplaceFailsStep
<1>4. CASE ReplaceRefused(f)
  BY <1>1, <1>2, <1>4, ReplaceRefusedStep
<1>5. CASE /\ CanContinue(f) /\ lease.frame = fc.frames[f].replaces
           /\ Puts(f, "activation") /\ UNCHANGED <<fc, queue, lease>>
  <2>1. OnLease(f) /\ Head(lease.chain) = f
    BY <1>1, <1>5 DEF First, CanContinue
  <2>2. PICK k \in Call : /\ call' = [call EXCEPT ![f] = k] /\ k.at = "activation"
                          /\ k.on = call[f].on /\ k.whole = call[f].whole
    BY <1>1, <1>5, NextAwait
  <2>3. Moves(f) /\ lease' = lease
    BY <1>5, SameMoves
  <2>4. Listed(lease.chain, f) /\ Phase(fc, f) \in {"prepared"} \cup Ended
    BY <2>1, <1>1, Fits, InvTypes DEF ShareHolds, Queued
  <2>5. PhaseFits(k.at, Phase(fc, f))
    BY <2>2, <2>4 DEF PhaseFits
  <2>6. Phase(fc, f) = "prepared" => HasTracks(fc, f)
    BY <1>1, <1>5, InvTypes DEF TracksHold
  <2>7. QED
    BY <2>1, <2>2, <2>3, <2>4, <2>5, <2>6, <1>1, <1>2, <1>5, PutStep
       DEF OffLease, Queued, Heading
<1>6. CASE HandOver(f, fits) /\ CanContinue(f) /\ lease.frame = fc.frames[f].replaces
  <2>1. Head(lease.chain) = f
    BY <1>1, <1>6 DEF First, CanContinue
  <2>2. QED
    BY <2>1, <1>1, <1>2, <1>6, HandOverStep
<1>7. QED
  BY <1>3, <1>4, <1>5, <1>6 DEF EnterReplace

\* The transition to the new frame has its turn and its output.
LEMMA ActivatedStep ==
  ASSUME CarryInv, NEW f \in Frames, NEW fits \in BOOLEAN, Activated(f, fits)
  PROVE  Kept
<1>1. f \in DOMAIN fc.frames /\ call[f].at = "activation"
  BY HasFrame DEF Activated
<1>2. Calm
  BY CalmRemoval DEF Activated
<1>3. CASE ReplaceFails(f, "over")
  BY <1>1, <1>2, <1>3, ReplaceFailsStep DEF Heading
<1>4. CASE HandOver(f, fits) /\ CanContinue(f)
  <2>1. Head(lease.chain) = f
    BY <1>1, <1>4, Fits DEF CanContinue, Heading
  <2>2. QED
    BY <2>1, <1>1, <1>2, <1>4, HandOverStep
<1>5. QED
  BY <1>3, <1>4 DEF Activated

\* The transition has its turn, and the lease is over.
LEMMA NotActivatedStep ==
  ASSUME CarryInv, NEW f \in Frames, NotActivated(f)
  PROVE  Kept
<1>1. f \in DOMAIN fc.frames /\ call[f].at = "activation" /\ ReplaceFails(f, "over")
  BY HasFrame DEF NotActivated
<1>2. Calm
  BY CalmRemoval DEF NotActivated
<1>3. QED
  BY <1>1, <1>2, ReplaceFailsStep DEF Heading

\* The output of the new audio is there, or is not.
LEMMA OutputPreparedStep ==
  ASSUME CarryInv, NEW f \in Frames, NEW ready \in BOOLEAN, NEW end \in {"over", "retry"},
         OutputPrepared(f, ready, end)
  PROVE  Kept
<1>1. f \in DOMAIN fc.frames /\ call[f].at = "handover"
  BY HasFrame DEF OutputPrepared
<1>2. Calm
  BY CalmRemoval DEF OutputPrepared
<1>3. CASE ReplaceFails(f, end)
  BY <1>1, <1>2, <1>3, ReplaceFailsStep DEF Heading
<1>4. CASE CanContinue(f) /\ Puts(f, "starting") /\ UNCHANGED <<fc, queue, lease>>
  <2>1. OnLease(f) /\ Head(lease.chain) = f
    BY <1>1, <1>4, Fits DEF CanContinue, Heading
  <2>2. PICK k \in Call : /\ call' = [call EXCEPT ![f] = k] /\ k.at = "starting"
                          /\ k.on = call[f].on /\ k.whole = call[f].whole
    BY <1>1, <1>4, NextAwait
  <2>3. Moves(f) /\ lease' = lease
    BY <1>4, SameMoves
  <2>4. /\ Listed(lease.chain, f) /\ Phase(fc, f) = "committed" /\ lease.last = f
        /\ lease.frame \in {f, fc.frames[f].replaces} /\ HasTracks(fc, f)
    BY <2>1, <1>1, <1>4, InvTypes DEF ShareHolds, TracksHold, Heading
  <2>5. PhaseFits(k.at, Phase(fc, f))
    BY <2>2, <2>4 DEF PhaseFits
  <2>6. QED
    BY <2>1, <2>2, <2>3, <2>4, <2>5, <1>1, <1>2, <1>4, PutStep
       DEF OffLease, Queued, Heading
<1>5. QED
  BY <1>3, <1>4 DEF OutputPrepared

(***************************************************************************)
(* The steps of the audio                                                  *)
(***************************************************************************)

\* The audio does not start.
LEMMA AudioStartFailsStep ==
  ASSUME CarryInv, NEW f \in Frames, NEW end \in {"over", "retry"}, AudioStartFails(f, end)
  PROVE  Kept
<1>1. f \in DOMAIN fc.frames /\ call[f].at = "starting" /\ Waits(f, "finish")
      /\ UNCHANGED <<fc, queue>>
  BY HasFrame DEF AudioStartFails
<1>2. Calm
  BY CalmRemoval DEF AudioStartFails
<1>3. Listed(lease.chain, f) => OnLease(f) /\ Head(lease.chain) = f
  BY <1>1, Fits DEF Heading
<1>4. Moves(f) /\ ~Listed(lease'.chain, f)
  <2>1. CASE OnLease(f)
    BY <2>1, <1>3, LeavingMoves DEF AudioStartFails
  <2>2. CASE ~OnLease(f)
    BY <2>2, <1>3, SameMoves DEF AudioStartFails
  <2>3. QED
    BY <2>1, <2>2
<1>5. QED
  BY <1>1, <1>2, <1>4, WaitsStep DEF OffLease

\* The audio that plays fails.
LEMMA AudioFailsStep ==
  ASSUME CarryInv, NEW f \in Frames, NEW end \in {"over", "retry"}, AudioFails(f, end)
  PROVE  Kept
<1>1. f \in DOMAIN fc.frames /\ call[f].at = "sound" /\ Waits(f, "finish")
      /\ UNCHANGED <<fc, queue>> /\ lease' = Stopped(lease, end)
  BY HasFrame DEF AudioFails
<1>2. Calm
  BY CalmRemoval DEF AudioFails
<1>3. ~Listed(lease.chain, f)
  BY <1>1, Fits DEF Queued, Heading
<1>4. Moves(f) /\ ~Listed(lease'.chain, f)
  BY <1>1, <1>3, StoppedMoves
<1>5. QED
  BY <1>1, <1>2, <1>4, WaitsStep DEF OffLease

\* The tail of the last audio is over.
LEMMA TailEndsStep ==
  ASSUME CarryInv, NEW f \in Frames, TailEnds(f)
  PROVE  Kept
<1>1. f \in DOMAIN fc.frames /\ call[f].at = "tail"
  BY HasFrame DEF TailEnds
<1>2. Calm
  BY CalmRemoval DEF TailEnds
<1>3. ~Listed(lease.chain, f)
  BY <1>1, Fits DEF Queued, Heading
<1>4. CASE Waits(f, "finish") /\ UNCHANGED <<fc, queue, lease>>
  BY <1>1, <1>2, <1>3, <1>4, SameMoves, WaitsStep DEF OffLease
<1>5. CASE Returns(f, Finished(fc, queue, f, "continues")) /\ lease' = lease
  BY <1>1, <1>2, <1>3, <1>5, SameMoves, FinishedStep
<1>6. CASE Waits(f, "finish") /\ lease' = Stopped(lease, "over") /\ UNCHANGED <<fc, queue>>
  <2>1. Moves(f) /\ ~Listed(lease'.chain, f)
    BY <1>3, <1>6, StoppedMoves
  <2>2. QED
    BY <2>1, <1>1, <1>2, <1>6, WaitsStep DEF OffLease
<1>7. QED
  BY <1>4, <1>5, <1>6 DEF TailEnds

\* What a call waited for on its lease has come.
LEMMA LeaseEndedStep ==
  ASSUME CarryInv, NEW f \in Frames, LeaseEnded(f)
  PROVE  Kept
<1>1. f \in DOMAIN fc.frames /\ call[f].at = "wait" /\ lease' = lease
  BY HasFrame DEF LeaseEnded
<1>2. Calm
  BY CalmRemoval DEF LeaseEnded
<1>3. ~Listed(lease.chain, f)
  BY <1>1, Fits DEF Queued, Heading
<1>4. Moves(f) /\ ~Listed(lease'.chain, f)
  BY <1>1, <1>3, SameMoves
<1>5. CASE call[f].then = "defer"
  <2>1. Phase(fc, f) \in {"committed"} \cup Ended
    BY <1>1, <1>5, InvTypes DEF AwaitHolds
  <2>2. Returns(f, Deferred(fc, queue, f))
    BY <1>5 DEF LeaseEnded
  <2>3. QED
    BY <2>1, <2>2, <1>1, <1>2, <1>4, DeferredStep
<1>6. CASE call[f].then # "defer"
  <2> DEFINE result == IF call[f].then = "finish" THEN call[f].got ELSE "over"
  <2>1. Returns(f, Finished(fc, queue, f, result))
    BY <1>6 DEF LeaseEnded
  <2> HIDE DEF result
  <2>2. QED
    BY <2>1, <1>1, <1>2, <1>4, FinishedStep
<1>7. QED
  BY <1>5, <1>6

\* The audio of a frame is over: its tail begins, or a newer frame has the lease.
LEMMA AudioEndsStep ==
  ASSUME CarryInv, NEW f \in Frames, AudioEnds(f)
  PROVE  Kept
<1>1. f \in DOMAIN fc.frames /\ call[f].at = "sound"
  BY HasFrame DEF AudioEnds
<1>2. Calm
  BY CalmRemoval DEF AudioEnds
<1>3. ~Listed(lease.chain, f)
  BY <1>1, Fits DEF Queued, Heading
<1>4. CASE Returns(f, Finished(fc, queue, f, "continues")) /\ lease' = lease
  BY <1>1, <1>2, <1>3, <1>4, SameMoves, FinishedStep
<1>5. CASE Waits(f, "finish") /\ UNCHANGED <<fc, queue, lease>>
  BY <1>1, <1>2, <1>3, <1>5, SameMoves, WaitsStep DEF OffLease
<1>6. CASE /\ CanContinue(f) /\ lease.last = f
           /\ Writes(Book(MarkDraining(fc, lease.frame), queue))
           /\ lease' = [lease EXCEPT !.phase = "draining"] /\ Puts(f, "tail")
  <2> DEFINE k == [call[f] EXCEPT !.at = "tail"]
  <2>1. /\ call[f] \in Call /\ call \in [Frames -> Call] /\ Good(fc) /\ lease \in Lease
        /\ OnLease(f) /\ lease.phase \in Running /\ lease.phase # "idle" /\ LeaseHolds
        /\ AwaitHolds(f) /\ ShareHolds(f) /\ TracksHold(f)
    BY <1>1, <1>6, InvTypes DEF TypeOK, CanContinue, Running
  <2>2. Phase(fc, f) = "on_air" /\ lease.frame = f /\ call[f].on # None
    BY <2>1, <1>1, <1>6 DEF ShareHolds, AwaitHolds, OffLease
  <2>3. /\ Good(fc') /\ Alone(fc, fc', f) /\ fc'.frames[f].tracks = fc.frames[f].tracks
        /\ Phase(fc', f) = "draining" /\ queue' = queue
    <3>1. fc' = MarkDraining(fc, f) /\ queue' = queue
      BY <2>2, <1>6, BookFields DEF Writes, Sets
    <3>2. QED
      BY <3>1, <2>1, <2>2, <1>1, DrainingDrains
  <2>4. /\ lease' \in Lease /\ lease'.owner = lease.owner /\ lease'.frame = lease.frame
        /\ lease'.last = lease.last /\ lease'.phase = "draining" /\ lease'.chain = lease.chain
    BY <2>1, <1>6 DEF Lease
  <2>5. Moves(f)
    BY <2>1, <2>4 DEF Moves, LeaseHolds
  <2>6. k \in Call /\ k.at = "tail" /\ k.on = call[f].on
    BY <2>1 DEF Call
  <2>7. call' = [call EXCEPT ![f] = k]
    BY <1>6 DEF Puts
  <2> HIDE DEF k
  <2>8. call'[f] = k /\ \A g \in Frames \ {f} : call'[g] = call[g]
    BY <2>1, <2>7
  <2>9. f \in DOMAIN fc'.frames
    BY <2>1, <2>3, <1>1, Places DEF Alone, Good
  <2>10. AwaitHolds(f)'
    BY <2>2, <2>3, <2>6, <2>8, <2>9 DEF AwaitHolds, PhaseFits, OffLease
  <2>11. ShareHolds(f)'
    <3>1. call[f].on \in Frames
      BY <2>1, <2>2 DEF Call, Frames, None
    <3>2. call'[call[f].on].at \notin Before
      BY <3>1, <2>1, <2>2, <2>6, <2>8 DEF ShareHolds, Before
    <3>3. QED
      BY <3>2, <2>2, <2>4, <2>6, <2>8, <1>3 DEF ShareHolds, Queued, Heading
  <2>12. TracksHold(f)'
    <3>1. HasTracks(fc, f)
      BY <2>1, <2>2, <1>1 DEF TracksHold
    <3>2. HasTracks(fc', f)
      BY <3>1, <2>3 DEF HasTracks, Parts, Intents, Alone
    <3>3. QED
      BY <3>2 DEF TracksHold
  <2>13. CallHolds(f)' /\ k.at \notin Before /\ Phase(fc', f) \notin Candidate
    BY <2>3, <2>6, <2>10, <2>11, <2>12 DEF CallHolds, Candidate, Before
  <2>14. queue' \in Messages /\ NotNewer(queue', op)
    BY <2>3, InvTypes
  <2>15. QueueKept
    BY <2>3, InvTypes, QueueSame
  <2>16. Phase(fc, f) \notin Ended
    BY <2>2 DEF Ended
  <2>17. QED
    BY <2>3, <2>5, <2>6, <2>7, <2>13, <2>14, <2>15, <2>16, <1>1, <1>2, CallMoves
<1>7. QED
  BY <1>4, <1>5, <1>6 DEF AudioEnds

\* A frame is on the air, and the one that it replaces has ended.
LEMMA AudioStartsStep ==
  ASSUME CarryInv, NEW f \in Frames, AudioStarts(f)
  PROVE  Kept
<1> DEFINE l == Left(lease, f)
           k == [[call[f] EXCEPT !.at = "sound"] EXCEPT !.by = {}]
           p == fc.frames[f].replaces
<1>1. /\ f \in DOMAIN fc.frames /\ call[f].at = "starting" /\ CanContinue(f) /\ OnLease(f)
      /\ lease.phase # "idle"
  BY HasFrame DEF AudioStarts, CanContinue, OnLease
<1>2. /\ Calm /\ queue' = queue /\ fc' = MarkOnAir(fc, f)
      /\ lease' = [[l EXCEPT !.frame = f] EXCEPT !.phase = "active"]
      /\ call' = [call EXCEPT ![f] = k]
  BY CalmRemoval DEF AudioStarts
<1>3. /\ call[f] \in Call /\ call \in [Frames -> Call] /\ Good(fc) /\ lease \in Lease
      /\ LeaseHolds /\ AwaitHolds(f) /\ ShareHolds(f) /\ TracksHold(f) /\ f # None
  BY <1>1, InvTypes DEF TypeOK
<1>4. /\ Phase(fc, f) = "committed" /\ lease.last = f /\ lease.frame \in {f, p}
      /\ Head(lease.chain) = f /\ Listed(lease.chain, f)
      /\ HasTracks(fc, f) /\ call[f].on # None
  BY <1>1, <1>3 DEF ShareHolds, TracksHold, AwaitHolds, OffLease, Heading
<1>5. k \in Call /\ k.at = "sound" /\ k.on = call[f].on
  BY <1>3 DEF Call
<1> HIDE DEF k
<1>6. call'[f] = k /\ \A g \in Frames \ {f} : call'[g] = call[g]
  BY <1>2, <1>3
<1>7. /\ l \in Lease /\ l.owner = lease.owner /\ l.last = lease.last
      /\ l.chain = IF lease.chain # <<>> /\ Head(lease.chain) = f
                   THEN Tail(lease.chain) ELSE lease.chain
  BY <1>3, LeftLeaves
<1> HIDE DEF l
<1>8. /\ lease' \in Lease /\ lease'.owner = lease.owner /\ lease'.frame = f
      /\ lease'.last = f /\ lease'.phase = "active" /\ lease'.chain = l.chain
  <2>1. f \in 0..MaxFrames
    BY MaxFramesAssumption DEF Frames
  <2>2. QED
    BY <2>1, <1>2, <1>4, <1>7 DEF Lease
<1>9. /\ IsInjective(lease'.chain)
      /\ \A g : g # f => (Listed(lease'.chain, g) <=> Listed(lease.chain, g))
      /\ ~Listed(lease'.chain, f)
  <2> DEFINE ch == lease.chain
             m == lease'.chain
  <2>0. Head(ch) = f
    BY <1>4
  <2>1. ch \in Seq(Frames) /\ IsInjective(ch)
    BY <1>3, LeaseFields DEF LeaseHolds
  <2>2. m = IF ch # <<>> /\ Head(ch) = f THEN Tail(ch) ELSE ch
    BY <1>7, <1>8
  <2> HIDE DEF ch, m
  <2>3. /\ IsInjective(m)
        /\ \A g : g # f => (Listed(m, g) <=> Listed(ch, g))
        /\ \A g : g # f /\ Listed(ch, g) /\ Head(ch) = g => m = ch
        /\ Listed(m, f) => Listed(ch, f) /\ Head(ch) # f
    BY ONLY <2>1, <2>2, ChainLeft, Zenon
  <2>4. QED
    BY <2>0, <2>3 DEF ch, m
<1>10. /\ Good(fc') /\ Len(fc'.frames) = Len(fc.frames) /\ Phase(fc', f) = "on_air"
       /\ fc'.frames[f].tracks = fc.frames[f].tracks
       /\ \A g \in DOMAIN fc.frames :
            /\ fc'.frames[g].slot = fc.frames[g].slot
            /\ fc'.frames[g].intents = fc.frames[g].intents
            /\ fc'.frames[g].replaces = fc.frames[g].replaces
            /\ g \notin {f, p} => fc'.frames[g] = fc.frames[g]
            /\ Phase(fc, g) \in Ended => fc'.frames[g] = fc.frames[g]
       /\ p # None => Phase(fc', p) \in Ended
  BY <1>1, <1>2, <1>3, <1>4, OnAirMarks
<1> HIDE DEF p
<1>11. /\ DOMAIN fc'.frames = DOMAIN fc.frames
       /\ DOMAIN fc.frames \subseteq Frames
       /\ \A g \in Frames : g # None
  <2>1. DOMAIN fc'.frames = DOMAIN fc.frames
    BY <1>3, <1>10, Places DEF Good
  <2>2. \A g \in Frames : g # None
    BY DEF Frames, None
  <2>3. QED
    BY <2>1, <2>2, InvTypes
<1>12. \A g \in Frames \ {f} : OnLease(g) => call[g].at \notin Heading
  <2>1. \A g \in Frames \ {f} : ShareHolds(g)
    BY DEF CarryInv, CallHolds
  <2>2. QED
    BY <2>1, <1>4 DEF ShareHolds
<1>13. \A g \in Frames \ {f} : OnLease(g)' <=> OnLease(g)
  BY <1>1, <1>6, <1>8 DEF OnLease
<1>14. ASSUME NEW g \in Frames \ {f}
       PROVE  LeaseKeeps(g)
  <2>1. ShareHolds(g)
    BY DEF CarryInv, CallHolds
  <2>2. OnLease(g)' <=> OnLease(g)
    BY <1>13
  <2>3. CanContinue(g)' => CanContinue(g)
    BY <2>2, <1>1 DEF CanContinue
  <2>4. Listed(lease'.chain, g) <=> (Listed(lease.chain, g) /\ OnLease(g)')
    BY <2>1, <2>2, <1>9 DEF ShareHolds
  <2>5. OnLease(g) => call[g].at \notin Heading
    BY <1>12
  <2>6. ASSUME OnLease(g), Phase(fc', g) \in {"on_air", "draining"}
        PROVE  lease'.frame = lease.frame
    <3>1. call[g].on # None
      BY <2>6, <1>1, <1>3, <1>11, InvTypes DEF OnLease, LeaseHolds
    <3>2. g \in DOMAIN fc.frames
      BY <3>1, NoCallIsCall, InvTypes DEF CarryInv, CallHolds, AwaitHolds
    <3>3. g # p
      BY <2>6, <1>10, <1>11, PhasesDiffer DEF Ended
    <3>4. Phase(fc, g) \in {"on_air", "draining"}
      BY <2>6, <3>2, <3>3, <1>10 DEF Phase
    <3>5. lease.frame = g
      BY <2>1, <2>6, <3>4 DEF ShareHolds
    <3>6. QED
      BY <3>3, <3>5, <1>4
  <2>7. QED
    BY <2>2, <2>3, <2>4, <2>5, <2>6, <1>4, <1>8 DEF LeaseKeeps, CanContinue
<1>15. ASSUME NEW g \in DOMAIN fc.frames \ {f}
       PROVE  Fades(g)
  <2>1. /\ fc'.frames[g].slot = fc.frames[g].slot
        /\ fc'.frames[g].intents = fc.frames[g].intents
        /\ fc'.frames[g].replaces = fc.frames[g].replaces
    BY <1>10
  <2>2. CASE g # p
    BY <2>1, <2>2, <1>10 DEF Fades, Phase
  <2>3. CASE g = p /\ Phase(fc, g) \notin Ended
    <3>1. Phase(fc', g) \in Ended
      BY <2>3, <1>10, <1>11
    <3>2. CanContinue(g)' => lease'.frame # g /\ lease'.last # g /\ call[g].at \notin Heading
      BY <1>8, <1>11, <1>12, <1>13 DEF CanContinue
    <3>3. QED
      BY <2>1, <2>3, <3>1, <3>2 DEF Fades
  <2>4. CASE Phase(fc, g) \in Ended
    BY <2>1, <2>4, <1>10 DEF Fades, Phase
  <2>5. QED
    BY <2>2, <2>3, <2>4
<1>16. AwaitHolds(f)'
  BY <1>1, <1>4, <1>5, <1>6, <1>10, <1>11 DEF AwaitHolds, PhaseFits, OffLease
<1>17. call[f].on \in Frames /\ call'[call[f].on].at \notin Before
  <2>1. call[f].on \in Frames
    BY <1>3, <1>4 DEF Call, Frames, None
  <2>2. QED
    BY <2>1, <1>3, <1>4, <1>5, <1>6 DEF ShareHolds, Before
<1>18. ShareHolds(f)'
  BY <1>5, <1>6, <1>8, <1>9, <1>10, <1>17 DEF ShareHolds, Queued, Heading
<1>19. TracksHold(f)'
  <2>1. HasTracks(fc', f)
    BY <1>1, <1>4, <1>10 DEF HasTracks, Parts, Intents
  <2>2. QED
    BY <2>1, <1>5, <1>6 DEF TracksHold
<1>20. LeaseHolds'
  <2>1. call[lease.owner].at \notin Before /\ lease.owner \in DOMAIN fc.frames
    BY <1>1, <1>3 DEF LeaseHolds
  <2>2. call'[lease.owner].at \notin Before
    BY <2>1, <1>5, <1>6, <1>11 DEF Before
  <2>3. forced' = None
    BY <1>1, <1>2, <1>3 DEF LeaseHolds, CanContinue, Running, Calm
  <2>4. QED
    BY <2>1, <2>2, <2>3, <1>1, <1>8, <1>9, <1>11 DEF LeaseHolds
<1>21. CallHolds(f)' /\ k.at \notin Before /\ Phase(fc', f) \notin Candidate
       /\ Intents(fc', f) = Intents(fc, f)
  BY <1>1, <1>5, <1>10, <1>16, <1>18, <1>19 DEF CallHolds, Candidate, Before, Intents
<1>22. queue' \in Messages /\ NotNewer(queue', op)
  BY <1>2, InvTypes
<1>23. /\ slot' = slot /\ started' = started /\ op' = op /\ forced' = forced
       /\ removal' \in Removals /\ Asked' \subseteq Asked
  BY <1>2 DEF Calm
<1>24. QueueKept
  BY <1>2, InvTypes, QueueSame
<1>25. Phase(fc, f) \notin Ended
  BY <1>4 DEF Ended
<1>26. QED
  BY <1>1, <1>2, <1>5, <1>8, <1>10, <1>14, <1>15, <1>20, <1>21, <1>22, <1>23, <1>24, <1>25, CallStep

(***************************************************************************)
(* The steps of the mix                                                    *)
(***************************************************************************)

\* A mix that is done with returns.
LEMMA NothingSettles ==
  ASSUME CarryInv, NEW f \in DOMAIN fc.frames
  PROVE  Settled(fc, queue, Book(fc, queue), f)
<1>1. Ends(fc, fc, f)
  BY InvTypes, AloneItself DEF Ends
<1>2. QED
  BY <1>1, InvTypes, SettledAlone

\* The transmitter is asked for.
LEMMA AcquiresStep ==
  ASSUME CarryInv, Calm, NEW f \in DOMAIN fc.frames, call[f].at = "mix", Phase(fc, f) = "ready",
         lease.phase = "idle", forced = None, NEW refused \in BOOLEAN, AcquiresLease(f, refused)
  PROVE  Kept
<1> DEFINE b == SetPhase(fc, f, "prepared")
           c == Commit(b, f)
<1>1. /\ f \in Frames /\ f # None /\ Good(fc) /\ call \in [Frames -> Call] /\ lease = NoLease
      /\ queue \in Messages /\ NotNewer(queue, op) /\ Timely(fc, op)
  BY InvTypes DEF TypeOK, LeaseHolds
<1>2. Good(b) /\ Alone(fc, b, f) /\ Phase(b, f) = "prepared"
  <2>1. "prepared" \in Candidate /\ Phase(fc, f) \in Candidate
    BY DEF Candidate
  <2>2. QED
    BY <2>1, <1>1, SetPhaseIsGood, SetPhaseSets
<1> HIDE DEF b
<1>3. DOMAIN b.frames = DOMAIN fc.frames
  BY <1>1, <1>2, Places DEF Good, Alone
<1>4. Good(c) /\ Alone(b, c, f) /\ Phase(c, f) = "committed"
  BY <1>2, <1>3, CommitCommits
<1>5. AcquiresLease(f, refused) <=>
        IF refused THEN Returns(f, Deferred(c, queue, f)) /\ UNCHANGED lease
        ELSE /\ Writes(Book(c, queue))
             /\ lease' = [NoLease EXCEPT !.phase = "starting", !.owner = f, !.frame = f]
             /\ call' = [call EXCEPT ![f] = [NoCall EXCEPT !.at = "acquire", !.on = f]]
  BY DEF AcquiresLease, b
<1> HIDE DEF c
<1>6. Alone(fc, c, f) /\ DOMAIN c.frames = DOMAIN fc.frames
  BY <1>1, <1>2, <1>3, <1>4, Places DEF Good, Alone
<1>7. Timely(c, op)
  <2>1. \A g \in DOMAIN fc.frames : Intents(c, g) = Intents(fc, g)
    BY <1>6 DEF Alone, Intents
  <2>2. QED
    BY <2>1, <1>1, <1>6 DEF Timely
<1>8. ~Listed(lease.chain, f)
  BY Fits DEF Queued, Heading
<1>9. CASE refused
  <2> DEFINE book == Deferred(c, queue, f)
  <2>1. Returns(f, book) /\ lease' = lease
    BY <1>5, <1>9
  <2>2. Settled(c, queue, book, f) /\ Phase(book.fc, f) \in Ended
    BY <1>1, <1>4, <1>6, <1>7, DeferredSettles
  <2> HIDE DEF book
  <2>3. Alone(fc, book.fc, f)
    BY <2>2, <1>6 DEF Settled, Ends, Alone
  <2>4. Phase(fc, f) \notin Ended
    BY DEF Ended
  <2>5. Settled(fc, queue, book, f)
    BY <2>2, <2>3, <2>4 DEF Settled, Ends
  <2>6. Moves(f) /\ ~Listed(lease'.chain, f)
    BY <2>1, <1>8, SameMoves
  <2>7. QED
    BY <2>1, <2>2, <2>5, <2>6, ReturnsStep
<1>10. CASE ~refused
  <2> DEFINE j == [NoCall EXCEPT !.at = "acquire"]
             k == [j EXCEPT !.on = f]
             l == [NoLease EXCEPT !.phase = "starting"]
             m == [l EXCEPT !.owner = f]
             n == [m EXCEPT !.frame = f]
  <2>1. fc' = c /\ queue' = queue /\ lease' = n /\ call' = [call EXCEPT ![f] = k]
    BY <1>5, <1>10, BookFields DEF Writes, Sets
  <2>2. f \in 0..MaxFrames
    BY <1>1, MaxFramesAssumption DEF Frames
  <2>3. k \in Call /\ k.at = "acquire" /\ k.on = f
    <3>1. j \in Call /\ j.at = "acquire"
      BY NoCallIsCall DEF Call
    <3> HIDE DEF j
    <3>2. QED
      BY <3>1, <2>2 DEF Call
  <2> HIDE DEF k
  <2>4. /\ n \in Lease /\ n.phase = "starting" /\ n.owner = f /\ n.frame = f
        /\ n.chain = <<>>
    <3>1. NoLease \in Lease /\ NoLease.chain = <<>>
      BY <1>1, InvTypes DEF NoLease
    <3>2. l \in Lease /\ l.phase = "starting" /\ l.chain = <<>>
      BY <3>1 DEF Lease
    <3> HIDE DEF l
    <3>3. m \in Lease /\ m.phase = "starting" /\ m.owner = f /\ m.chain = <<>>
      BY <3>2, <2>2 DEF Lease
    <3> HIDE DEF m
    <3>4. QED
      BY <3>3, <2>2 DEF Lease
  <2> HIDE DEF n
  <2>5. call'[f] = k /\ \A g \in Frames \ {f} : call'[g] = call[g]
    BY <2>1, <1>1
  <2>6. \A g : ~Listed(lease'.chain, g)
    BY <2>1, <2>4 DEF Listed
  <2>7. ASSUME NEW g \in Frames \ {f}
        PROVE  LeaseKeeps(g)
    <3>1. call[g].on # f
      BY <1>1 DEF CarryInv, CallHolds, ShareHolds, Before
    <3>2. ~OnLease(g)'
      BY <3>1, <2>1, <2>4, <2>5 DEF OnLease
    <3>3. QED
      BY <3>2, <2>6 DEF LeaseKeeps, CanContinue
  <2>8. LeaseHolds'
    <3>1. IsInjective(lease'.chain)
      BY <2>1, <2>4 DEF IsInjective
    <3>2. forced' = None
      BY DEF Calm
    <3>3. QED
      BY <3>1, <3>2, <2>1, <2>3, <2>4, <2>5, <1>6 DEF LeaseHolds, Before
  <2>9. AwaitHolds(f)'
    BY <2>1, <2>3, <2>5, <1>1, <1>4, <1>6 DEF AwaitHolds, PhaseFits, OffLease
  <2>10. ShareHolds(f)'
    BY <2>1, <2>3, <2>5, <2>6, <1>4 DEF ShareHolds, Before, Queued, Heading
  <2>11. TracksHold(f)'
    BY <2>1, <2>3, <2>5, <1>4 DEF TracksHold
  <2>12. CallHolds(f)' /\ k.at \notin Before /\ Phase(fc', f) \notin Candidate
         /\ Intents(fc', f) = Intents(fc, f)
    BY <2>1, <2>3, <2>9, <2>10, <2>11, <1>4, <1>6 DEF CallHolds, Candidate, Before, Intents, Alone
  <2>13. /\ slot' = slot /\ started' = started /\ op' = op /\ forced' = forced
         /\ removal' \in Removals /\ Asked' \subseteq Asked
    BY DEF Calm
  <2>14. \A g \in DOMAIN fc.frames \ {f} : Fades(g)
    BY <2>1, <1>6 DEF Alone, Fades, Phase
  <2>15. Len(fc'.frames) = Len(fc.frames) /\ Good(fc') /\ queue' \in Messages
         /\ NotNewer(queue', op) /\ lease' \in Lease
    BY <2>1, <2>4, <1>1, <1>4, <1>6 DEF Alone
  <2>16. QueueKept /\ Phase(fc, f) \notin Ended
    BY <2>1, <1>4, InvTypes, QueueSame DEF Ended
  <2>17. QED
    BY <2>1, <2>3, <2>7, <2>8, <2>12, <2>13, <2>14, <2>15, <2>16, CallStep
<1>11. QED
  BY <1>9, <1>10

\* The frame is mixed for the lease it takes over.
LEMMA RemixesStep ==
  ASSUME CarryInv, Calm, NEW f \in DOMAIN fc.frames, call[f].at = "mix", Phase(fc, f) = "ready",
         lease.phase # "idle", fc.frames[f].slot = slot, lease' = lease,
         Writes(Book(SetPhase(fc, f, "prepared"), queue)), NEW k \in Call,
         call' = [call EXCEPT ![f] = k], k.at = "remix", k.whole = HasTracks(fc, f),
         k.on = lease.owner
  PROVE  Kept
<1> DEFINE c == SetPhase(fc, f, "prepared")
<1>1. /\ f \in Frames /\ f # None /\ Good(fc) /\ call \in [Frames -> Call] /\ lease \in Lease
      /\ queue \in Messages /\ NotNewer(queue, op) /\ LeaseHolds
  BY InvTypes DEF TypeOK
<1>2. /\ Good(c) /\ Alone(fc, c, f) /\ Phase(c, f) = "prepared"
      /\ c.frames[f].tracks = fc.frames[f].tracks
  <2>1. "prepared" \in Candidate /\ Phase(fc, f) \in Candidate
    BY DEF Candidate
  <2>2. QED
    BY <2>1, <1>1, SetPhaseIsGood, SetPhaseSets
<1>3. fc' = c /\ queue' = queue
  BY BookFields DEF Writes, Sets
<1> HIDE DEF c
<1>4. DOMAIN fc'.frames = DOMAIN fc.frames
  BY <1>1, <1>2, <1>3, Places DEF Good, Alone
<1>5. call'[f] = k /\ \A g \in Frames \ {f} : call'[g] = call[g]
  BY <1>1
<1>6. Moves(f) /\ ~Listed(lease'.chain, f)
  BY SameMoves, Fits DEF Queued, Heading
<1>7. /\ lease.owner \in Frames /\ lease.owner # None
      /\ call[lease.owner].at \notin Before /\ lease.owner # f
  BY <1>1, InvTypes DEF LeaseHolds, Before
<1>8. AwaitHolds(f)'
  BY <1>2, <1>3, <1>4, <1>5, <1>7 DEF AwaitHolds, PhaseFits, OffLease
<1>9. ShareHolds(f)'
  BY <1>2, <1>3, <1>5, <1>6, <1>7 DEF ShareHolds, Queued, Heading
<1>10. TracksHold(f)'
  <2>1. HasTracks(fc', f) <=> HasTracks(fc, f)
    BY <1>2, <1>3 DEF HasTracks, Parts, Intents, Alone
  <2>2. QED
    BY <2>1, <1>2, <1>3, <1>5 DEF TracksHold
<1>11. CallHolds(f)' /\ k.at \notin Before /\ queue' \in Messages /\ NotNewer(queue', op)
  BY <1>1, <1>3, <1>8, <1>9, <1>10 DEF CallHolds, Before
<1>12. Good(fc') /\ Alone(fc, fc', f)
  BY <1>2, <1>3
<1>13. QueueKept /\ Phase(fc, f) \notin Ended
  BY <1>3, InvTypes, QueueSame DEF Ended
<1>14. QED
  BY <1>6, <1>11, <1>12, <1>13, CallMoves

\* handleMixedAudioReady
LEMMA HandleMixedStep ==
  ASSUME CarryInv, Calm, NEW f \in DOMAIN fc.frames, call[f].at = "mix", ~ForcedIsOver,
         NEW fits \in BOOLEAN, NEW refused \in BOOLEAN, fits => MayFit(f),
         HandleMixed(f, fits, refused)
  PROVE  Kept
<1>1. ~Listed(lease.chain, f) /\ Phase(fc, f) \in {"ready"} \cup Ended
  BY Fits DEF Queued, Heading
<1>2. CASE Phase(fc, f) # "ready" /\ Returns(f, Book(fc, queue)) /\ lease' = lease
  <2> DEFINE book == Book(fc, queue)
  <2>1. Settled(fc, queue, book, f) /\ Returns(f, book)
    BY <1>2, NothingSettles
  <2>2. Phase(book.fc, f) \in Ended
    BY <1>1, <1>2, BookFields
  <2> HIDE DEF book
  <2>3. QED
    BY <2>1, <2>2, <1>1, <1>2, SameMoves, ReturnsStep
<1>3. CASE Returns(f, Book(CompleteFrame(fc, f), queue)) /\ lease' = lease
  <2> DEFINE d == CompleteFrame(fc, f)
             book == Book(d, queue)
  <2>1. Ends(fc, d, f) /\ Phase(d, f) \in Ended
    BY InvTypes, CompleteCompletes
  <2>2. Returns(f, book) /\ book.fc = d
    BY <1>3, BookFields
  <2> HIDE DEF d
  <2>3. Settled(fc, queue, book, f)
    BY <2>1, InvTypes, SettledAlone
  <2> HIDE DEF book
  <2>4. QED
    BY <2>1, <2>2, <2>3, <1>1, <1>3, SameMoves, ReturnsStep
<1>4. CASE Returns(f, Deferred(fc, queue, f)) /\ lease' = lease
  <2>1. Phase(fc, f) \in Candidate \cup {"committed"} \cup Ended
    BY <1>1 DEF Candidate
  <2>2. QED
    BY <2>1, <1>1, <1>4, SameMoves, DeferredStep
<1>5. CASE Phase(fc, f) = "ready" /\ lease.phase = "idle" /\ AcquiresLease(f, refused)
  <2>1. forced = None
    <3>1. forced # None => forced # lease.owner
      BY <1>5, InvTypes DEF LeaseHolds, NoLease
    <3>2. QED
      BY <3>1 DEF ForcedIsOver
  <2>2. QED
    BY <2>1, <1>5, AcquiresStep
<1>6. CASE /\ Phase(fc, f) = "ready" /\ fits /\ lease.phase # "idle" /\ lease' = lease
           /\ Writes(Book(SetPhase(fc, f, "prepared"), queue))
           /\ call' = [call EXCEPT ![f] = [NoCall EXCEPT
                         !.at = "remix", !.whole = HasTracks(fc, f),
                         !.on = lease.owner, !.seen = lease.last, !.by = call[f].by]]
  <2> DEFINE w == HasTracks(fc, f)
             k1 == [NoCall EXCEPT !.at = "remix"]
             k2 == [k1 EXCEPT !.whole = w]
             k3 == [k2 EXCEPT !.on = lease.owner]
             k4 == [k3 EXCEPT !.seen = lease.last]
             k  == [k4 EXCEPT !.by = call[f].by]
  <2>1. lease \in Lease /\ call[f] \in Call /\ w \in BOOLEAN
    BY InvTypes DEF HasTracks
  <2>2. call' = [call EXCEPT ![f] = k]
    BY <1>6
  <2> HIDE DEF w
  <2>3. k \in Call /\ k.at = "remix" /\ k.whole = w /\ k.on = lease.owner
    <3>1. k1 \in Call /\ k1.at = "remix"
      BY NoCallIsCall DEF Call
    <3> HIDE DEF k1
    <3>2. k2 \in Call /\ k2.at = "remix" /\ k2.whole = w
      BY <3>1, <2>1 DEF Call
    <3> HIDE DEF k2
    <3>3. k3 \in Call /\ k3.at = "remix" /\ k3.whole = w /\ k3.on = lease.owner
      BY <3>2, <2>1, LeaseFields DEF Call
    <3> HIDE DEF k3
    <3>4. k4 \in Call /\ k4.at = "remix" /\ k4.whole = w /\ k4.on = lease.owner
      BY <3>3, <2>1, LeaseFields DEF Call
    <3> HIDE DEF k4
    <3>5. call[f].by \in SUBSET Operators
      BY <2>1 DEF Call
    <3>6. QED
      BY <3>4, <3>5 DEF Call
  <2> HIDE DEF k
  <2>4. fc.frames[f].slot = slot
    BY <1>6 DEF MayFit
  <2>5. QED
    BY <2>2, <2>3, <2>4, <1>6, RemixesStep DEF w
<1>7. QED
  BY <1>2, <1>3, <1>4, <1>5, <1>6 DEF HandleMixed

\* A mix that is over, or whose frame is gone
LEMMA MixedStep ==
  ASSUME CarryInv, ~Due, NEW f \in Frames, NEW left \in BOOLEAN, NEW fits \in BOOLEAN,
         NEW refused \in BOOLEAN, Mixed(f, left, fits, refused)
  PROVE  Kept
<1>1. f \in DOMAIN fc.frames /\ call[f].at = "mix" /\ call[f].by = {} /\ (fits => MayFit(f))
  BY HasFrame DEF Mixed
<1>2. Calm /\ ~ForcedIsOver
  BY CalmRemoval DEF Mixed, Due
<1>3. CASE HandleMixed(f, fits, refused)
  BY <1>1, <1>2, <1>3, HandleMixedStep
<1>4. CASE Returns(f, Book(fc, queue)) /\ lease' = lease
  <2> DEFINE book == Book(fc, queue)
  <2>1. Settled(fc, queue, book, f) /\ Returns(f, book) /\ book.fc = fc
    BY <1>1, <1>4, NothingSettles, BookFields
  <2> HIDE DEF book
  <2>2. ~Listed(lease.chain, f) /\ Phase(fc, f) \in {"ready"} \cup Ended
    BY <1>1, Fits DEF Queued, Heading
  <2>3. Phase(fc, f) = "ready" => fc.frames[f].slot = slot
    BY <1>1, InvTypes DEF SlotsHold, Candidate
  <2>4. \/ Phase(book.fc, f) \in Ended
        \/ Phase(book.fc, f) = "ready" /\ fc.frames[f].slot = slot
    BY <2>1, <2>2, <2>3
  <2>5. Moves(f) /\ ~Listed(lease'.chain, f)
    BY <2>2, <1>4, SameMoves
  <2>6. QED
    BY <2>1, <2>4, <2>5, <1>1, <1>2, ReturnsStep
<1>5. QED
  BY <1>3, <1>4 DEF Mixed

\* What becomes of a removal that was asked for
LEMMA RemovalGoes ==
  ASSUME CarryInv, NEW o \in Operators, NEW at \in {"none", "mixing", "stopping", "done"},
         Removal(o, at)
  PROVE  /\ removal' \in Removals /\ Asked' \subseteq Asked
         /\ removal[o].at = "asked" => Asked' = Asked \ {o}
<1> DEFINE r == [removal[o] EXCEPT !.at = at]
<1>1. removal \in Removals /\ removal' = [removal EXCEPT ![o] = r]
  BY InvTypes DEF Removal
<1>2. r \in [at : {"none", "asked", "mixing", "stopping", "done"}, epoch : 0..MaxCommands]
      /\ r.at = at
  BY <1>1 DEF Removals
<1> HIDE DEF r
<1>3. removal' \in Removals /\ removal'[o].at = at
      /\ \A p \in Operators \ {o} : removal'[p] = removal[p]
  BY <1>1, <1>2 DEF Removals
<1>4. QED
  BY <1>3 DEF Asked

\* The mix of those that stay when an operator is removed
LEMMA RemovalMixedStep ==
  ASSUME CarryInv, ~Due, NEW f \in Frames, NEW left \in BOOLEAN, NEW fits \in BOOLEAN,
         NEW refused \in BOOLEAN, RemovalMixed(f, left, fits, refused)
  PROVE  Kept
<1>1. f \in DOMAIN fc.frames /\ call[f].at = "mix" /\ (fits => MayFit(f)) /\ ~ForcedIsOver
  BY HasFrame DEF RemovalMixed, Due
<1>2. call[f].by \subseteq Operators
  BY <1>1, InvTypes DEF Call
<1>3. PICK o \in call[f].by :
        \/ /\ Returns(f, Book(CancelFrame(fc, f), queue))
           /\ Removal(o, "none") /\ UNCHANGED lease
        \/ Removal(o, "done") /\ HandleMixed(f, fits, refused)
        \/ /\ Removal(o, "done") /\ Returns(f, Deferred(fc, queue, f)) /\ UNCHANGED lease
  BY DEF RemovalMixed
<1>4. o \in Operators /\ (Removal(o, "none") \/ Removal(o, "done"))
  BY <1>2, <1>3
<1>5. Calm
  <2>1. removal' \in Removals /\ Asked' \subseteq Asked
    BY <1>4, RemovalGoes
  <2>2. QED
    BY <2>1 DEF RemovalMixed, Calm
<1>6. ~Listed(lease.chain, f) /\ Phase(fc, f) \in {"ready"} \cup Ended
  BY <1>1, Fits DEF Queued, Heading
<1>7. CASE Returns(f, Book(CancelFrame(fc, f), queue)) /\ lease' = lease
  <2> DEFINE d == CancelFrame(fc, f)
             book == Book(d, queue)
  <2>1. Ends(fc, d, f) /\ Phase(d, f) \notin Candidate
    BY <1>1, InvTypes, CancelCancels
  <2>2. Returns(f, book) /\ book.fc = d
    BY <1>7, BookFields
  <2> HIDE DEF d
  <2>3. Settled(fc, queue, book, f)
    BY <2>1, <1>1, InvTypes, SettledAlone
  <2> HIDE DEF book
  <2>4. Phase(d, f) \in Ended
    BY <2>1, <1>6 DEF Ends, Candidate
  <2>5. QED
    BY <2>2, <2>3, <2>4, <1>1, <1>5, <1>6, <1>7, SameMoves, ReturnsStep
<1>8. CASE HandleMixed(f, fits, refused)
  BY <1>1, <1>5, <1>8, HandleMixedStep
<1>9. CASE Returns(f, Deferred(fc, queue, f)) /\ lease' = lease
  <2>1. Phase(fc, f) \in Candidate \cup {"committed"} \cup Ended
    BY <1>6 DEF Candidate
  <2>2. QED
    BY <2>1, <1>1, <1>5, <1>6, <1>9, SameMoves, DeferredStep
<1>10. QED
  BY <1>3, <1>7, <1>8, <1>9

(***************************************************************************)
(* Steps that are not of one call                                          *)
(***************************************************************************)

\* A call is at the same await, or is a scheduled mix that is forgotten.
Rests(g) == SameCall(g) \/ (call[g].at = "sched" /\ call'[g] = Over)

\* What holds of a call that rests is kept.
LEMMA RestingCall ==
  ASSUME CarryInv, NEW g \in Frames, Rests(g), Onward, LeaseKeeps(g), LeaseHolds', Good(fc'),
         g \in DOMAIN fc'.frames => g \in DOMAIN fc.frames /\ Fades(g),
         g \in DOMAIN fc.frames => g \in DOMAIN fc'.frames
  PROVE  CallHolds(g)'
<1>1. CASE SameCall(g)
  <2>1. call[g].on \in 0..MaxFrames
    BY InvTypes DEF Call
  <2>2. QED
    BY <1>1, <2>1, OtherCall
<1>2. CASE call[g].at = "sched" /\ call'[g] = Over
  BY <1>2, UnscheduledCall
<1>3. QED
  BY <1>1, <1>2 DEF Rests

\* Nothing has happened to a call.
LEMMA CallRests ==
  ASSUME NEW g, call'[g] = call[g]
  PROVE  Rests(g)
BY DEF Rests, SameCall

\* Calls that rest do not go back before their mix.
LEMMA RestsOnward ==
  ASSUME \A g \in Frames : Rests(g)
  PROVE  Onward
<1>1. Over.at \notin Before
  BY OverIsCall DEF Before
<1>2. QED
  BY <1>1 DEF Rests, SameCall, Onward

\* The lease is the same, or was stopped, to a call that rests.
LEMMA StoppedKeeps ==
  ASSUME CarryInv, NEW g \in Frames, Rests(g), NEW end \in {"over", "retry"},
         lease' = lease \/ lease' = Stopped(lease, end)
  PROVE  LeaseKeeps(g)
<1>1. call'[g].on = call[g].on
  <2>1. CASE SameCall(g)
    BY <2>1 DEF SameCall
  <2>2. CASE call[g].at = "sched" /\ call'[g] = Over
    <3>1. AwaitHolds(g)
      BY DEF CarryInv, CallHolds
    <3>2. QED
      BY <3>1, <2>2, OverIsCall DEF AwaitHolds, OffLease
  <2>3. QED
    BY <2>1, <2>2 DEF Rests
<1>2. Moves(None) /\ g # None
  BY SameMoves, StoppedMoves DEF Frames, None
<1>3. QED
  BY <1>1, <1>2, MovesKeep

\* The scheduled mixes are forgotten.
LEMMA UnscheduledRests ==
  ASSUME CarryInv
  PROVE  /\ Unscheduled \in [Frames -> Call]
         /\ \A g \in Frames : \/ Unscheduled[g] = call[g]
                              \/ call[g].at = "sched" /\ Unscheduled[g] = Over
BY InvTypes, OverIsCall DEF Unscheduled

\* Frames that stay as they are, or are candidates that are cancelled, fade.
LEMMA StaysFades ==
  ASSUME CarryInv, NEW g \in DOMAIN fc.frames, Stays(fc.frames[g], fc'.frames[g])
  PROVE  Fades(g)
<1>1. fc.frames[g] \in Frame
  BY InvTypes
<1>2. CASE fc'.frames[g] = fc.frames[g]
  BY <1>2 DEF Fades, Phase
<1>3. CASE fc.frames[g].phase \in Candidate /\ fc'.frames[g] = AsEnded(fc.frames[g], "cancelled")
  <2>1. /\ fc'.frames[g].slot = fc.frames[g].slot /\ fc'.frames[g].intents = fc.frames[g].intents
        /\ fc'.frames[g].replaces = fc.frames[g].replaces /\ fc'.frames[g].phase = "cancelled"
    BY <1>1, <1>3, PhasesDiffer, AsEndedFields
  <2>2. "cancelled" \in Ended /\ fc.frames[g].phase \notin Live \cup Ended
    BY <1>3, PhasesDiffer
  <2>3. QED
    BY <2>1, <2>2 DEF Fades, Phase
<1>4. QED
  BY <1>2, <1>3 DEF Stays

\* The encodes of a frame
LEMMA EncodeFailsStep ==
  ASSUME CarryInv, NEW f \in Frames, EncodeFails(f)
  PROVE  Kept
<1> DEFINE d == CancelFrame(fc, f)
           k == call[f]
<1>1. /\ f \in DOMAIN fc.frames /\ Phase(fc, f) = "encoding" /\ fc' = d
      /\ UNCHANGED <<queue, call, lease>>
  BY DEF EncodeFails
<1>2. Calm /\ k \in Call /\ call \in [Frames -> Call] /\ Good(fc)
      /\ queue' \in Messages /\ NotNewer(queue', op)
  BY <1>1, CalmRemoval, InvTypes DEF EncodeFails, TypeOK
<1>3. Ends(fc, d, f) /\ Stays(fc.frames[f], d.frames[f]) /\ Phase(d, f) \notin Candidate
  BY <1>1, <1>2, CancelCancels
<1> HIDE DEF d
<1>4. call' = [call EXCEPT ![f] = k]
  BY <1>1, <1>2
<1>5. DOMAIN fc'.frames = DOMAIN fc.frames
  BY <1>1, <1>2, <1>3, Places DEF Ends, Alone, Good
<1>6. \A g \in Frames : Rests(g)
  BY <1>1, CallRests
<1>7. LeaseKeeps(f) /\ Onward
  BY <1>1, <1>6, StoppedKeeps, RestsOnward
<1>8. LeaseHolds'
  <2>1. Moves(None) /\ forced' = forced
    BY <1>1, SameMoves DEF EncodeFails
  <2>2. QED
    BY <2>1, <1>5, <1>7, MovesHold
<1>9. Fades(f)
  BY <1>1, <1>3, StaysFades
<1>10. Good(fc') /\ Alone(fc, fc', f)
  BY <1>1, <1>3 DEF Ends
<1>11. CallHolds(f)'
  BY <1>1, <1>5, <1>6, <1>7, <1>8, <1>9, <1>10, RestingCall
<1>12. call[f].at \in Before \/ k.at \notin Before
  OBVIOUS
<1> HIDE DEF k
<1>13. Moves(f)
  BY <1>1, SameMoves
<1>14. QueueKept /\ Phase(fc, f) \notin Ended
  BY <1>1, InvTypes, QueueSame DEF Ended
<1>15. QED
  BY <1>1, <1>2, <1>3, <1>4, <1>10, <1>11, <1>12, <1>13, <1>14, CallMoves

\* The mix of a frame that is ready starts, or has nothing to mix.
LEMMA MixStartsMix ==
  ASSUME NEW c, NEW f \in Frames, NEW calls \in [Frames -> Call]
  PROVE  LET next == MixStarts(calls, c, f)
         IN  /\ next \in [Frames -> Call] /\ \A g \in Frames \ {f} : next[g] = calls[g]
             /\ \/ next[f] = Over
                \/ /\ next[f].at = "mix" /\ next[f].on = calls[f].on
                   /\ next[f].then = calls[f].then /\ next[f].by = calls[f].by
<1> DEFINE w == HasTracks(c, f)
           j == [calls[f] EXCEPT !.at = "mix"]
           k == [j EXCEPT !.whole = w]
           next == MixStarts(calls, c, f)
<1>1. w \in BOOLEAN
  BY DEF HasTracks
<1>2. next = [calls EXCEPT ![f] = IF c.frames[f].tracks = {} THEN Over ELSE k]
  BY DEF MixStarts
<1> HIDE DEF next
<1>3. /\ j \in Call /\ j.at = "mix" /\ j.on = calls[f].on /\ j.then = calls[f].then
      /\ j.by = calls[f].by
  BY DEF Call
<1> HIDE DEF w, j
<1>4. /\ k \in Call /\ k.at = "mix" /\ k.on = calls[f].on /\ k.then = calls[f].then
      /\ k.by = calls[f].by
  BY <1>1, <1>3 DEF Call
<1> HIDE DEF k
<1>5. Over \in Call
  BY OverIsCall
<1>6. next \in [Frames -> Call] /\ \A g \in Frames \ {f} : next[g] = calls[g]
  BY <1>2, <1>4, <1>5
<1>7. next[f] = Over \/ next[f] = k
  BY <1>2
<1>8. QED
  BY <1>4, <1>6, <1>7 DEF next

\* A frame with tracks is mixed.
LEMMA MixStartsTracks ==
  ASSUME NEW c, NEW f \in Frames, NEW calls \in [Frames -> Call], c.frames[f].tracks # {}
  PROVE  MixStarts(calls, c, f)[f].at = "mix"
<1> DEFINE j == [calls[f] EXCEPT !.at = "mix"]
           k == [j EXCEPT !.whole = HasTracks(c, f)]
<1>1. MixStarts(calls, c, f) = [calls EXCEPT ![f] = k]
  BY DEF MixStarts
<1>2. j \in Call /\ j.at = "mix"
  BY DEF Call
<1> HIDE DEF j
<1>3. k.at = "mix"
  BY <1>2 DEF Call
<1> HIDE DEF k
<1>4. QED
  BY <1>1, <1>3

\* A call whose frame is ready is scheduled, mixes or is over: it is on no lease.
LEMMA MixingCall ==
  ASSUME CarryInv, NEW f \in DOMAIN fc.frames, f \in DOMAIN fc'.frames, LeaseHolds', Good(fc'),
         Phase(fc', f) \in {"ready"} \cup Ended, ~Listed(lease'.chain, f),
         call'[f].at \in {"sched", "mix", "ended"}, call'[f].on = None
  PROVE  CallHolds(f)'
<1>1. AwaitHolds(f)'
  BY DEF AwaitHolds, PhaseFits, OffLease
<1>2. ~OnLease(f)'
  <2>1. lease'.phase # "idle" => lease'.owner \in DOMAIN fc'.frames
    BY DEF LeaseHolds
  <2>2. lease'.phase # "idle" => lease'.owner # None
    BY <2>1, Places DEF Good
  <2>3. QED
    BY <2>2 DEF OnLease
<1>3. ShareHolds(f)'
  BY <1>2 DEF ShareHolds, CanContinue
<1>4. TracksHold(f)'
  BY PhasesDiffer DEF TracksHold, Ended
<1>5. QED
  BY <1>1, <1>3, <1>4 DEF CallHolds

\* What a step that is not of one call has to show
LEMMA AllStep ==
  ASSUME CarryInv, slot' \in Slots, started' \in BOOLEAN, op' \in Ops, removal' \in Removals,
         queue' \in Messages, Good(fc'), Len(fc'.frames) <= MaxFrames,
         call' \in [Frames -> Call], lease' \in Lease, forced' \in 0..MaxFrames,
         QueueKept, EndedKept, RoomHolds', NotNewer(queue', op'), Timely(fc', op'), SlotsHold', LeaseHolds', Onward,
         DOMAIN fc.frames \subseteq DOMAIN fc'.frames,
         \A g \in Frames :
           \/ CallHolds(g)'
           \/ /\ Rests(g) /\ LeaseKeeps(g)
              /\ g \in DOMAIN fc'.frames => g \in DOMAIN fc.frames /\ Fades(g)
  PROVE  Kept
<1>1. TypeOK'
  BY DEF TypeOK, Good, Ops, Removals
<1>2. EpochsHold'
  BY DEF EpochsHold, Timely
<1>3. ASSUME NEW g \in Frames
      PROVE  CallHolds(g)'
  <2>1. CASE CallHolds(g)'
    BY <2>1
  <2>2. CASE /\ Rests(g) /\ LeaseKeeps(g)
             /\ g \in DOMAIN fc'.frames => g \in DOMAIN fc.frames /\ Fades(g)
    <3>1. g \in DOMAIN fc.frames => g \in DOMAIN fc'.frames
      OBVIOUS
    <3>2. QED
      BY <2>2, <3>1, RestingCall
  <2>3. QED
    BY <2>1, <2>2
<1>4. QED
  BY <1>1, <1>2, <1>3 DEF CarryInv, Kept

\* The time has come for the scheduled mix.
LEMMA TriggerStep ==
  ASSUME CarryInv, NEW f \in Frames, TriggerScheduledMix(f)
  PROVE  Kept
<1> DEFINE k == call'[f]
<1>1. f \in DOMAIN fc.frames /\ call[f].at = "sched" /\ UNCHANGED <<queue, fc, lease, forced>>
  BY HasFrame DEF TriggerScheduledMix
<1>2. Calm /\ call \in [Frames -> Call] /\ Good(fc) /\ queue' \in Messages /\ NotNewer(queue', op)
  BY <1>1, CalmRemoval, InvTypes DEF TriggerScheduledMix, TypeOK
<1>3. /\ call' \in [Frames -> Call] /\ \A g \in Frames \ {f} : call'[g] = call[g]
      /\ call'[f] = Over \/ (call'[f].at = "mix" /\ call'[f].on = call[f].on)
  <2> DEFINE next == MixStarts(call, fc, f)
  <2>1. call' = next
    BY DEF TriggerScheduledMix
  <2>2. /\ next \in [Frames -> Call] /\ \A g \in Frames \ {f} : next[g] = call[g]
        /\ \/ next[f] = Over
           \/ next[f].at = "mix" /\ next[f].on = call[f].on
    BY <1>2, MixStartsMix
  <2> HIDE DEF next
  <2>3. QED
    BY <2>1, <2>2
<1>4. k \in Call /\ call' = [call EXCEPT ![f] = k]
  BY <1>2, <1>3
<1>5. ~Listed(lease.chain, f) /\ Phase(fc, f) \in {"ready"} \cup Ended
      /\ call[f].on = None
  BY <1>1, Fits DEF Queued, Heading, Before
<1>6. Phase(fc, f) \in Candidate => fc.frames[f].slot = slot
  BY <1>1, InvTypes DEF SlotsHold
<1>7. Moves(f) /\ Moves(None)
  BY <1>1, SameMoves
<1>8. Onward
  BY <1>1, <1>3, OverIsCall DEF Onward, Before
<1>9. LeaseHolds'
  BY <1>1, <1>7, <1>8, MovesHold
<1>10. CallHolds(f)'
  BY <1>1, <1>2, <1>3, <1>5, <1>9, MixingCall, OverIsCall
<1>11. call[f].at \in Before
  BY <1>1 DEF Before
<1>12. Good(fc') /\ Alone(fc, fc', f) /\ fc' = fc
  BY <1>1, <1>2, AloneItself
<1> HIDE DEF k
<1>13. QueueKept
  BY <1>1, InvTypes, QueueSame
<1>14. QED
  BY <1>1, <1>2, <1>4, <1>6, <1>7, <1>10, <1>11, <1>12, <1>13, CallMoves

\* Nothing happens.
LEMMA StutterStep ==
  ASSUME CarryInv, UNCHANGED vars
  PROVE  Kept
<1>1. /\ slot' = slot /\ started' = started /\ op' = op /\ removal' = removal /\ queue' = queue
      /\ fc' = fc /\ call' = call /\ lease' = lease /\ forced' = forced
  BY DEF vars
<1>2. TypeOK' /\ RoomHolds' /\ EpochsHold' /\ SlotsHold' /\ LeaseHolds'
  BY <1>1 DEF CarryInv, TypeOK, RoomHolds, Asked, EpochsHold, SlotsHold, LeaseHolds
<1>3. ASSUME NEW g \in Frames
      PROVE  CallHolds(g)'
  <2>1. Rests(g) /\ Onward
    BY <1>1, CallRests, RestsOnward DEF Onward
  <2>2. LeaseKeeps(g)
    BY <2>1, <1>1, StoppedKeeps
  <2>3. Good(fc') /\ (g \in DOMAIN fc.frames => Fades(g))
    BY <1>1, InvTypes DEF Fades
  <2>4. QED
    BY <2>1, <2>2, <2>3, <1>1, <1>2, RestingCall
<1>4. QueueKept /\ EndedKept
  BY <1>1, InvTypes, QueueSame DEF EndedKept
<1>5. CarryInv'
  BY <1>2, <1>3 DEF CarryInv
<1>6. QED
  BY <1>4, <1>5 DEF Kept

\* handleEncodeComplete
LEMMA EncodeDoneStep ==
  ASSUME CarryInv, NEW f \in Frames, NEW o \in Operators, NEW soon \in BOOLEAN,
         EncodeDone(f, o, soon)
  PROVE  Kept
<1>1. /\ f \in DOMAIN fc.frames /\ o \in Parts(fc, f) /\ fc' = AcceptEncode(fc, f, o)
      /\ UNCHANGED <<slot, started, op, removal, queue, lease, forced>>
  BY DEF EncodeDone
<1>2. /\ call \in [Frames -> Call] /\ Good(fc) /\ queue \in Messages /\ NotNewer(queue, op)
      /\ slot \in Slots /\ started \in BOOLEAN /\ op \in Ops /\ removal \in Removals
      /\ lease \in Lease /\ forced \in 0..MaxFrames /\ Timely(fc, op) /\ LeaseHolds
      /\ Len(fc.frames) <= MaxFrames
  BY InvTypes DEF TypeOK
<1>3. /\ Good(fc') /\ Alone(fc, fc', f)
      /\ Phase(fc, f) # "encoding" => fc' = fc
      /\ Phase(fc, f) = "encoding" => Phase(fc', f) \in {"encoding", "ready"}
  BY <1>1, <1>2, AcceptAccepts
<1>4. CASE Phase(fc, f) # "encoding"
  <2>1. call' = call
    BY <1>3, <1>4 DEF EncodeDone
  <2>2. UNCHANGED vars
    BY <2>1, <1>1, <1>3, <1>4 DEF vars
  <2>3. QED
    BY <2>2, StutterStep
<1>5. CASE Phase(fc, f) = "encoding"
  <2>1. DOMAIN fc'.frames = DOMAIN fc.frames /\ Len(fc'.frames) = Len(fc.frames)
    BY <1>2, <1>3, Places DEF Good, Alone
  <2>2. \A g \in DOMAIN fc.frames \ {f} : Fades(g) /\ fc'.frames[g] = fc.frames[g]
    BY <1>3 DEF Alone, Fades, Phase
  <2>3. call[f].at = "none" /\ call[f].on = None /\ call[f] \in Call
    <3>1. PhaseFits(call[f].at, "encoding") /\ AwaitHolds(f)
      BY <1>1, <1>5, InvTypes DEF AwaitHolds
    <3>2. call[f].at = "none"
      BY <3>1 DEF PhaseFits, Ended, Live
    <3>3. QED
      BY <3>1, <3>2, InvTypes DEF AwaitHolds, OffLease
  <2>4. ~Listed(lease.chain, f)
    BY <2>3, <1>1, Fits DEF Queued, Heading
  <2>5. /\ call' \in [Frames -> Call]
        /\ \A g \in Frames \ {f} : \/ call'[g] = call[g]
                                   \/ call[g].at = "sched" /\ call'[g] = Over
        /\ \/ Phase(fc', f) = "encoding" /\ call'[f] = call[f]
           \/ /\ Phase(fc', f) = "ready" /\ call'[f].at \in {"sched", "mix", "ended"}
              /\ call'[f].on = None
    <3>1. CASE Phase(fc', f) # "ready" /\ call' = call
      BY <3>1, <1>2, <1>3, <1>5
    <3>2. CASE Phase(fc', f) = "ready" /\ call' = MixStarts(call, fc', f)
      <4> DEFINE next == MixStarts(call, fc', f)
      <4>1. /\ next \in [Frames -> Call] /\ \A g \in Frames \ {f} : next[g] = call[g]
            /\ \/ next[f] = Over
               \/ next[f].at = "mix" /\ next[f].on = call[f].on
        BY <1>2, MixStartsMix
      <4>2. call' = next
        BY <3>2
      <4> HIDE DEF next
      <4>3. QED
        BY <4>1, <4>2, <2>3, <3>2, OverIsCall
    <3>3. CASE Phase(fc', f) = "ready" /\ call' = [Unscheduled EXCEPT ![f].at = "sched"]
      <4> DEFINE k == [Unscheduled[f] EXCEPT !.at = "sched"]
      <4>1. Unscheduled \in [Frames -> Call] /\ Unscheduled[f] = call[f]
            /\ \A g \in Frames : \/ Unscheduled[g] = call[g]
                                 \/ call[g].at = "sched" /\ Unscheduled[g] = Over
        BY <2>3, UnscheduledRests
      <4>2. k \in Call /\ k.at = "sched" /\ k.on = None
        BY <4>1, <2>3 DEF Call
      <4>3. call' = [Unscheduled EXCEPT ![f] = k]
        BY <3>3
      <4> HIDE DEF k
      <4>4. call'[f] = k /\ call' \in [Frames -> Call]
            /\ \A g \in Frames \ {f} : call'[g] = Unscheduled[g]
        BY <4>1, <4>2, <4>3
      <4>5. QED
        BY <4>1, <4>2, <4>4, <3>3
    <3>4. QED
      BY <3>1, <3>2, <3>3, <1>5 DEF EncodeDone
  <2>6. \A g \in Frames \ {f} : Rests(g)
    BY <2>5 DEF Rests, SameCall
  <2>7. Onward
    BY <2>3, <2>6, OverIsCall DEF Onward, Rests, SameCall, Before
  <2>8. LeaseHolds'
    <3>1. Moves(None)
      BY <1>1, SameMoves
    <3>2. QED
      BY <3>1, <2>1, <2>7, <1>1, MovesHold
  <2>9. CallHolds(f)'
    <3>1. CASE Phase(fc', f) = "encoding" /\ call'[f] = call[f]
      <4>1. AwaitHolds(f)'
        BY <3>1, <2>1, <2>3, <1>1 DEF AwaitHolds, PhaseFits, OffLease
      <4>2. ~OnLease(f)
        BY <2>3, <1>1, Fits DEF Before
      <4>3. ShareHolds(f)'
        BY <4>2, <3>1, <2>3, <2>4, <1>1 DEF ShareHolds, OnLease, CanContinue
      <4>4. TracksHold(f)'
        BY <3>1, <2>3 DEF TracksHold
      <4>5. QED
        BY <4>1, <4>3, <4>4 DEF CallHolds
    <3>2. CASE /\ Phase(fc', f) = "ready" /\ call'[f].at \in {"sched", "mix", "ended"}
               /\ call'[f].on = None
      <4>1. f \in DOMAIN fc'.frames /\ ~Listed(lease'.chain, f)
        BY <2>1, <2>4, <1>1
      <4>2. QED
        BY <3>2, <4>1, <2>8, <1>1, <1>3, MixingCall
    <3>3. QED
      BY <2>5, <3>1, <3>2
  <2>10. RoomHolds'
    <3>1. Asked' \subseteq Asked
      BY <1>1 DEF Asked
    <3>2. QED
      BY <3>1, <2>1, RoomKept
  <2>11. Timely(fc', op')
    <3>1. \A g \in DOMAIN fc.frames : Intents(fc', g) = Intents(fc, g)
      BY <2>2, <1>3 DEF Alone, Intents
    <3>2. QED
      BY <3>1, <2>1, <1>1, <1>2 DEF Timely
  <2>12. SlotsHold'
    <3> SUFFICES ASSUME NEW g \in DOMAIN fc.frames, Phase(fc', g) \in Candidate
                 PROVE  fc'.frames[g].slot = slot \/ (call'[g].at = "mix" /\ call'[g].by # {})
      BY <2>1, <1>1 DEF SlotsHold
    <3>1. fc'.frames[g].slot = fc.frames[g].slot
      BY <2>2, <1>3 DEF Alone
    <3>2. CASE g # f
      <4>1. Phase(fc, g) \in Candidate /\ g \in Frames
        BY <3>2, <2>2, InvTypes DEF Phase
      <4>2. fc.frames[g].slot = slot \/ (call[g].at = "mix" /\ call[g].by # {})
        BY <4>1, InvTypes DEF SlotsHold
      <4>3. QED
        BY <4>1, <4>2, <3>1, <3>2, <2>5
    <3>3. CASE g = f
      <4>1. Phase(fc, f) \in Candidate
        BY <1>5 DEF Candidate
      <4>2. fc.frames[f].slot = slot
        BY <4>1, <2>3, <1>1, InvTypes DEF SlotsHold
      <4>3. QED
        BY <4>2, <3>1, <3>3
    <3>4. QED
      BY <3>2, <3>3
  <2>13. ASSUME NEW g \in Frames
         PROVE  \/ CallHolds(g)'
                \/ /\ Rests(g) /\ LeaseKeeps(g)
                   /\ g \in DOMAIN fc'.frames => g \in DOMAIN fc.frames /\ Fades(g)
    <3>1. CASE g = f
      BY <3>1, <2>9
    <3>2. CASE g # f
      <4>1. Rests(g)
        BY <3>2, <2>6
      <4>2. LeaseKeeps(g)
        BY <4>1, <1>1, StoppedKeeps
      <4>3. QED
        BY <4>1, <4>2, <3>2, <2>1, <2>2
    <3>3. QED
      BY <3>1, <3>2
  <2>14. QueueKept /\ EndedKept
    <3>1. Phase(fc, f) \in Ended => fc' = fc
      BY <1>3 DEF Ended
    <3>2. QED
      BY <3>1, <1>1, <1>2, <1>3, QueueSame DEF EndedKept, Alone, Phase
  <2>15. QED
    BY <2>1, <2>5, <2>7, <2>8, <2>10, <2>11, <2>12, <2>13, <2>14, <1>1, <1>2, <1>3, AllStep
<1>6. QED
  BY <1>4, <1>5

(***************************************************************************)
(* The steps of the lease, and the end of a slot                           *)
(***************************************************************************)

\* Frames fade, and calls rest.
LEMMA FadingStep ==
  ASSUME CarryInv, slot' \in Slots, started' \in BOOLEAN, UNCHANGED <<op, removal, queue>>,
         Good(fc'), Len(fc'.frames) = Len(fc.frames), \A g \in DOMAIN fc.frames : Fades(g),
         call' \in [Frames -> Call], \A g \in Frames : Rests(g) /\ LeaseKeeps(g),
         lease' \in Lease, forced' \in 0..MaxFrames, LeaseHolds', SlotsHold'
  PROVE  Kept
<1>1. /\ Good(fc) /\ queue \in Messages /\ NotNewer(queue, op) /\ op \in Ops
      /\ removal \in Removals /\ Timely(fc, op) /\ Len(fc.frames) <= MaxFrames
  BY InvTypes DEF TypeOK
<1>2. DOMAIN fc'.frames = DOMAIN fc.frames
  BY <1>1, Places DEF Good
<1>3. RoomHolds'
  BY RoomKept DEF Asked
<1>4. Timely(fc', op')
  <2>1. \A g \in DOMAIN fc.frames : Intents(fc', g) = Intents(fc, g)
    BY DEF Fades, Intents
  <2>2. QED
    BY <2>1, <1>1, <1>2 DEF Timely
<1>5. Onward
  BY RestsOnward
<1>6. QueueKept /\ EndedKept
  BY <1>1, QueueSame DEF EndedKept, Fades
<1>7. QED
  BY <1>1, <1>2, <1>3, <1>4, <1>5, <1>6, AllStep

\* Candidates stay those of their slot.
LEMMA SlotsKept ==
  ASSUME CarryInv, slot' = slot, DOMAIN fc'.frames = DOMAIN fc.frames,
         \A g \in DOMAIN fc.frames : Fades(g),
         \A g \in Frames : call[g].at = "mix" => call'[g] = call[g]
  PROVE  SlotsHold'
<1> SUFFICES ASSUME NEW g \in DOMAIN fc.frames, Phase(fc', g) \in Candidate
             PROVE  fc'.frames[g].slot = slot \/ (call'[g].at = "mix" /\ call'[g].by # {})
  BY DEF SlotsHold
<1>1. g \in Frames /\ fc'.frames[g].slot = fc.frames[g].slot /\ Phase(fc, g) \in Candidate
  BY InvTypes, PhasesDiffer DEF Fades
<1>2. fc.frames[g].slot = slot \/ (call[g].at = "mix" /\ call[g].by # {})
  BY <1>1, InvTypes DEF SlotsHold
<1>3. QED
  BY <1>1, <1>2

\* The lease is stopped, and nothing else happens.
LEMMA StoppedStep ==
  ASSUME CarryInv, NEW end \in {"over", "retry"}, lease' = Stopped(lease, end),
         UNCHANGED <<slot, started, op, removal, queue, fc, call, forced>>
  PROVE  Kept
<1>1. /\ slot \in Slots /\ started \in BOOLEAN /\ Good(fc) /\ call \in [Frames -> Call]
      /\ forced \in 0..MaxFrames
  BY InvTypes DEF TypeOK
<1>2. \A g \in Frames : Rests(g)
  BY CallRests
<1>3. \A g \in Frames : LeaseKeeps(g)
  BY <1>2, StoppedKeeps
<1>4. Moves(None) /\ Onward
  BY <1>2, StoppedMoves, RestsOnward
<1>5. LeaseHolds' /\ lease' \in Lease
  BY <1>4, MovesHold DEF Moves
<1>6. \A g \in DOMAIN fc.frames : Fades(g)
  BY DEF Fades, Phase
<1>7. SlotsHold'
  BY <1>6, SlotsKept
<1>8. QED
  BY <1>1, <1>2, <1>3, <1>5, <1>6, <1>7, FadingStep

\* The mixer's cache is cleared, and the scheduled mix forgotten, while no lease runs.
LEMMA ClearedFades ==
  ASSUME CarryInv, fc' = CacheCleared(fc), call' = Unscheduled, lease' = lease,
         lease.phase \notin Running
  PROVE  /\ Good(fc') /\ Len(fc'.frames) = Len(fc.frames) /\ DOMAIN fc'.frames = DOMAIN fc.frames
         /\ \A g \in DOMAIN fc.frames : Fades(g)
         /\ call' \in [Frames -> Call] /\ \A g \in Frames : Rests(g) /\ LeaseKeeps(g)
         /\ \A g \in Frames : call[g].at = "mix" => call'[g] = call[g]
<1> DEFINE d == CacheCleared(fc)
<1>1. /\ Good(d) /\ Len(d.frames) = Len(fc.frames) /\ DOMAIN d.frames = DOMAIN fc.frames
      /\ \A g \in DOMAIN fc.frames :
           /\ d.frames[g].slot = fc.frames[g].slot
           /\ d.frames[g].intents = fc.frames[g].intents
           /\ d.frames[g].replaces = fc.frames[g].replaces
           /\ Phase(d, g) = Phase(fc, g)
           /\ Phase(fc, g) \in Live => d.frames[g] = fc.frames[g]
  BY InvTypes, CacheClears
<1>2. fc' = d
  OBVIOUS
<1> HIDE DEF d
<1>3. \A g \in Frames : ~CanContinue(g)'
  BY DEF CanContinue
<1>4. \A g \in DOMAIN fc.frames : Fades(g)
  <2> TAKE g \in DOMAIN fc.frames
  <2>1. g \in Frames
    BY InvTypes
  <2>2. CASE Phase(fc, g) \in Live
    BY <2>2, <1>1, <1>2 DEF Fades
  <2>3. CASE Phase(fc, g) \notin Live
    BY <2>1, <2>3, <1>1, <1>2, <1>3 DEF Fades
  <2>4. QED
    BY <2>2, <2>3
<1>5. /\ call' \in [Frames -> Call]
      /\ \A g \in Frames : call'[g] = call[g] \/ (call[g].at = "sched" /\ call'[g] = Over)
  BY UnscheduledRests
<1>6. \A g \in Frames : Rests(g)
  BY <1>5 DEF Rests, SameCall
<1>7. \A g \in Frames : LeaseKeeps(g)
  BY <1>6, StoppedKeeps
<1>8. \A g \in Frames : call[g].at = "mix" => call'[g] = call[g]
  BY <1>5
<1>9. QED
  BY <1>1, <1>2, <1>4, <1>5, <1>6, <1>7, <1>8

\* forceStop, up to its await
LEMMA ForceStopStep ==
  ASSUME CarryInv, ForceStopTransmission
  PROVE  Kept
<1>1. /\ slot \in Slots /\ started \in BOOLEAN /\ Good(fc) /\ call \in [Frames -> Call]
      /\ forced = None /\ forced \in 0..MaxFrames /\ lease \in Lease /\ LeaseHolds
  BY InvTypes DEF TypeOK, ForceStopTransmission
<1>2. /\ lease' = Stopped(lease, "over") /\ UNCHANGED <<slot, started, op, removal, queue>>
  BY DEF ForceStopTransmission
<1>3. /\ lease' \in Lease /\ lease'.owner = lease.owner /\ lease'.frame = lease.frame
      /\ lease'.chain = lease.chain
      /\ lease'.phase = IF lease.phase \in Running THEN "stopping" ELSE lease.phase
      /\ lease.phase \notin Running => lease' = lease
  BY <1>1, <1>2, StoppedStops
<1>4. CASE lease.phase \in {"idle", "unknown"}
  <2>1. fc' = CacheCleared(fc) /\ call' = Unscheduled /\ forced' = forced
    BY <1>4 DEF ForceStopTransmission
  <2>2. lease' = lease /\ lease.phase \notin Running
    BY <1>3, <1>4 DEF Running
  <2>3. /\ Good(fc') /\ Len(fc'.frames) = Len(fc.frames) /\ DOMAIN fc'.frames = DOMAIN fc.frames
        /\ \A g \in DOMAIN fc.frames : Fades(g)
        /\ call' \in [Frames -> Call] /\ \A g \in Frames : Rests(g) /\ LeaseKeeps(g)
        /\ \A g \in Frames : call[g].at = "mix" => call'[g] = call[g]
    BY <2>1, <2>2, ClearedFades
  <2>4. SlotsHold'
    BY <2>3, <1>2, SlotsKept
  <2>5. LeaseHolds'
    <3>1. Moves(None) /\ Onward
      BY <2>2, <2>3, SameMoves, RestsOnward
    <3>2. QED
      BY <3>1, <2>1, <2>3, MovesHold
  <2>6. QED
    BY <2>1, <2>2, <2>3, <2>4, <2>5, <1>1, <1>2, FadingStep
<1>5. CASE lease.phase \notin {"idle", "unknown"}
  <2>1. forced' = lease.owner /\ UNCHANGED <<fc, call>>
    BY <1>5 DEF ForceStopTransmission
  <2>2. lease'.phase = "stopping"
    BY <1>1, <1>3, <1>5, LeaseFields DEF Running
  <2>3. LeaseHolds'
    BY <2>1, <2>2, <1>1, <1>3, <1>5 DEF LeaseHolds
  <2>4. \A g \in Frames : Rests(g)
    BY <2>1, CallRests
  <2>5. \A g \in Frames : LeaseKeeps(g)
    BY <2>4, <1>2, StoppedKeeps
  <2>6. \A g \in DOMAIN fc.frames : Fades(g)
    BY <2>1 DEF Fades, Phase
  <2>7. SlotsHold'
    BY <2>1, <2>6, <1>2, SlotsKept
  <2>8. forced' \in 0..MaxFrames
    BY <2>1, <1>1, LeaseFields
  <2>9. QED
    BY <2>1, <2>3, <2>4, <2>5, <2>6, <2>7, <2>8, <1>1, <1>2, <1>3, FadingStep
<1>6. QED
  BY <1>4, <1>5

\* forceStop has its answer, or its lease is gone.
LEMMA ForceStopEndsStep ==
  ASSUME CarryInv, ForceStopEnds
  PROVE  Kept
<1>1. /\ slot \in Slots /\ started \in BOOLEAN /\ forced # None /\ lease \in Lease /\ LeaseHolds
      /\ lease.phase \notin Running
  BY InvTypes DEF TypeOK, ForceStopEnds, ForcedIsOver, LeaseHolds, Running
<1>2. /\ fc' = CacheCleared(fc) /\ call' = Unscheduled /\ forced' = None
      /\ UNCHANGED <<slot, started, op, removal, queue, lease>>
  BY DEF ForceStopEnds
<1>3. /\ Good(fc') /\ Len(fc'.frames) = Len(fc.frames) /\ DOMAIN fc'.frames = DOMAIN fc.frames
      /\ \A g \in DOMAIN fc.frames : Fades(g)
      /\ call' \in [Frames -> Call] /\ \A g \in Frames : Rests(g) /\ LeaseKeeps(g)
      /\ \A g \in Frames : call[g].at = "mix" => call'[g] = call[g]
  BY <1>1, <1>2, ClearedFades
<1>4. SlotsHold'
  BY <1>2, <1>3, SlotsKept
<1>5. LeaseHolds'
  <2>1. Onward
    BY <1>3, RestsOnward
  <2>2. lease.phase # "idle" => lease.owner \in Frames
    BY <1>1, InvTypes DEF LeaseHolds
  <2>3. QED
    BY <2>1, <2>2, <1>1, <1>2, <1>3 DEF LeaseHolds, Onward
<1>6. forced' \in 0..MaxFrames
  BY <1>2, MaxFramesAssumption DEF None
<1>7. QED
  BY <1>1, <1>2, <1>3, <1>4, <1>5, <1>6, FadingStep

\* A release that was not confirmed is tried again.
LEMMA RetryStep ==
  ASSUME CarryInv, ~ForcedIsOver, RetryUnknownStop
  PROVE  Kept
<1> DEFINE l == [lease EXCEPT !.phase = "stopping"]
<1>1. /\ slot \in Slots /\ started \in BOOLEAN /\ Good(fc) /\ call \in [Frames -> Call]
      /\ lease.phase = "unknown" /\ forced = None /\ forced \in 0..MaxFrames
      /\ lease \in Lease /\ LeaseHolds
  BY InvTypes DEF TypeOK, RetryUnknownStop, ForcedIsOver
<1>2. UNCHANGED <<slot, started, op, removal, queue, fc, call, forced>>
      /\ lease' = [l EXCEPT !.end = "over"]
  BY DEF RetryUnknownStop
<1>3. l \in Lease /\ l.phase = "stopping" /\ l.owner = lease.owner /\ l.frame = lease.frame
      /\ l.last = lease.last /\ l.chain = lease.chain
  BY <1>1 DEF Lease
<1> HIDE DEF l
<1>4. /\ lease' \in Lease /\ lease'.phase = "stopping" /\ lease'.owner = lease.owner
      /\ lease'.frame = lease.frame /\ lease'.last = lease.last /\ lease'.chain = lease.chain
  BY <1>2, <1>3 DEF Lease
<1>5. LeaseHolds'
  BY <1>1, <1>2, <1>4 DEF LeaseHolds
<1>6. \A g \in Frames : Rests(g)
  BY <1>2, CallRests
<1>7. ASSUME NEW g \in Frames
      PROVE  LeaseKeeps(g)
  <2>1. ShareHolds(g)
    BY DEF CarryInv, CallHolds
  <2>2. (OnLease(g)' <=> OnLease(g)) /\ ~CanContinue(g)'
    BY <1>1, <1>2, <1>4 DEF OnLease, CanContinue, Running
  <2>3. QED
    BY <2>1, <2>2, <1>4 DEF LeaseKeeps, ShareHolds
<1>8. \A g \in DOMAIN fc.frames : Fades(g)
  BY <1>2 DEF Fades, Phase
<1>9. SlotsHold'
  BY <1>2, <1>8, SlotsKept
<1>10. QED
  BY <1>1, <1>2, <1>4, <1>5, <1>6, <1>7, <1>8, <1>9, FadingStep

\* The release of the transmitter is confirmed, or is not.
LEMMA ReleasedStep ==
  ASSUME CarryInv, NEW confirmed \in BOOLEAN, Released(confirmed)
  PROVE  Kept
<1> DEFINE result == IF confirmed THEN lease.end ELSE "over"
           hears(g) == call[g].on = lease.owner /\ call[g].got = "none"
           k(g) == [call[g] EXCEPT !.got = result]
<1>1. /\ slot \in Slots /\ started \in BOOLEAN /\ Good(fc) /\ call \in [Frames -> Call]
      /\ lease.phase = "stopping" /\ forced \in 0..MaxFrames /\ lease \in Lease /\ LeaseHolds
  BY InvTypes DEF TypeOK, Released
<1>2. UNCHANGED <<slot, started, op, removal, queue, fc, forced>>
  BY DEF Released
<1>3. result \in {"none", "over", "retry"}
  BY <1>1, LeaseFields
<1>4. call' = [g \in Frames |-> IF hears(g) THEN k(g) ELSE call[g]]
  BY DEF Released
<1> HIDE DEF result
<1>5. \A g \in Frames :
        /\ k(g) \in Call /\ k(g).at = call[g].at /\ k(g).on = call[g].on
        /\ k(g).whole = call[g].whole /\ k(g).then = call[g].then
  BY <1>1, <1>3 DEF Call
<1>6. \A g \in Frames : hears(g) => call[g].on # None
  BY <1>1, InvTypes DEF LeaseHolds
<1> HIDE DEF k, hears
<1>7. call' \in [Frames -> Call]
  BY <1>1, <1>4, <1>5
<1>8. ASSUME NEW g \in Frames
      PROVE  SameCall(g) /\ Rests(g) /\ (call[g].at = "mix" => call'[g] = call[g])
  <2>1. call'[g] = IF hears(g) THEN k(g) ELSE call[g]
    BY <1>4
  <2>2. hears(g) => call[g] # NoCall /\ call[g].at \notin OffLease
    BY <1>6, NoCallIsCall DEF CarryInv, CallHolds, AwaitHolds
  <2>3. SameCall(g)
    BY <2>1, <2>2, <1>5 DEF SameCall
  <2>4. QED
    BY <2>1, <2>2, <2>3 DEF Rests, OffLease
<1>9. Onward
  BY <1>8, RestsOnward
<1>10. CASE confirmed
  <2>1. lease' = NoLease
    BY <1>10 DEF Released
  <2>2. /\ NoLease \in Lease /\ NoLease.phase = "idle" /\ NoLease.chain = <<>>
    BY MaxFramesAssumption DEF NoLease, Lease, None
  <2>3. \A g : ~Listed(lease'.chain, g)
    BY <2>1, <2>2 DEF Listed
  <2>4. \A g \in Frames : LeaseKeeps(g)
    BY <2>1, <2>2, <2>3 DEF LeaseKeeps, OnLease, CanContinue
  <2>5. LeaseHolds'
    <3>1. IsInjective(lease'.chain)
      BY <2>1, <2>2 DEF IsInjective
    <3>2. QED
      BY <3>1, <2>1, <2>2 DEF LeaseHolds
  <2>6. \A g \in DOMAIN fc.frames : Fades(g)
    BY <1>2 DEF Fades, Phase
  <2>7. SlotsHold'
    BY <2>6, <1>2, <1>8, SlotsKept
  <2>8. QED
    BY <2>1, <2>2, <2>4, <2>5, <2>6, <2>7, <1>1, <1>2, <1>7, <1>8, FadingStep
<1>11. CASE ~confirmed
  <2>1. lease' = [lease EXCEPT !.phase = "unknown"]
    BY <1>11 DEF Released
  <2>2. /\ lease' \in Lease /\ lease'.phase = "unknown" /\ lease'.owner = lease.owner
        /\ lease'.frame = lease.frame /\ lease'.last = lease.last /\ lease'.chain = lease.chain
    BY <2>1, <1>1 DEF Lease
  <2>3. LeaseHolds'
    <3>1. lease.owner \in Frames
      BY <1>1, InvTypes DEF LeaseHolds
    <3>2. QED
      BY <3>1, <2>2, <1>1, <1>2, <1>9 DEF LeaseHolds, Onward
  <2>4. ASSUME NEW g \in Frames
        PROVE  LeaseKeeps(g)
    <3>1. ShareHolds(g) /\ SameCall(g)
      BY <1>8 DEF CarryInv, CallHolds
    <3>2. (OnLease(g)' <=> OnLease(g)) /\ ~CanContinue(g)'
      BY <3>1, <2>2, <1>1 DEF OnLease, CanContinue, Running, SameCall
    <3>3. QED
      BY <3>1, <3>2, <2>2 DEF LeaseKeeps, ShareHolds
  <2>5. \A g \in DOMAIN fc.frames : Fades(g)
    BY <1>2 DEF Fades, Phase
  <2>6. SlotsHold'
    BY <2>5, <1>2, <1>8, SlotsKept
  <2>7. QED
    BY <2>2, <2>3, <2>4, <2>5, <2>6, <1>1, <1>2, <1>7, <1>8, FadingStep
<1>12. QED
  BY <1>10, <1>11

\* The slot ends.
LEMMA NextSlotStep ==
  ASSUME CarryInv, NextSlot
  PROVE  Kept
<1> DEFINE c == CancelPreCommitOutside(fc, slot')
<1>1. /\ slot \in Slots /\ Good(fc) /\ call \in [Frames -> Call] /\ forced \in 0..MaxFrames
      /\ lease \in Lease /\ LeaseHolds
  BY InvTypes DEF TypeOK
<1>2. /\ slot < MaxSlot /\ slot' = slot + 1 /\ started' = FALSE
      /\ UNCHANGED <<op, removal, queue, lease, forced>>
      /\ \/ lease.phase = "idle" /\ fc' = CacheCleared(c) /\ call' = Unscheduled
         \/ lease.phase # "idle" /\ fc' = c /\ call' = call
  BY DEF NextSlot
<1>3. slot' \in Slots /\ started' \in BOOLEAN
  <2>1. slot \in Nat /\ 1 <= slot /\ MaxSlot \in Nat
    BY <1>1, BoundsAssumption DEF Slots
  <2>2. slot' \in Nat /\ 1 <= slot' /\ slot' <= MaxSlot
    BY <2>1, <1>2
  <2>3. slot' \in Slots
    BY <2>1, <2>2 DEF Slots
  <2>4. QED
    BY <2>3, <1>2
<1>4. /\ Good(c) /\ Len(c.frames) = Len(fc.frames) /\ DOMAIN c.frames = DOMAIN fc.frames
      /\ \A g \in DOMAIN fc.frames : Stays(fc.frames[g], c.frames[g])
      /\ \A g \in DOMAIN c.frames : Phase(c, g) \in Candidate => c.frames[g].slot = slot'
  BY <1>1, CancelOutsideCancels
<1> HIDE DEF c
<1>5. /\ call' \in [Frames -> Call] /\ \A g \in Frames : Rests(g)
  <2>1. CASE call' = Unscheduled
    BY <2>1, UnscheduledRests DEF Rests, SameCall
  <2>2. CASE call' = call
    BY <2>2, <1>1, CallRests
  <2>3. QED
    BY <2>1, <2>2, <1>2
<1>6. (\A g \in Frames : LeaseKeeps(g)) /\ Onward
  BY <1>2, <1>5, StoppedKeeps, RestsOnward
<1>7. /\ Good(fc') /\ Len(fc'.frames) = Len(fc.frames) /\ DOMAIN fc'.frames = DOMAIN fc.frames
      /\ \A g \in DOMAIN fc.frames : Fades(g)
      /\ \A g \in DOMAIN fc.frames :
           Phase(fc', g) = Phase(c, g) /\ fc'.frames[g].slot = c.frames[g].slot
  <2>1. CASE lease.phase # "idle" /\ fc' = c
    BY <2>1, <1>4, StaysFades
  <2>2. CASE lease.phase = "idle" /\ fc' = CacheCleared(c)
    <3>1. /\ Good(fc') /\ Len(fc'.frames) = Len(c.frames) /\ DOMAIN fc'.frames = DOMAIN c.frames
          /\ \A g \in DOMAIN c.frames :
               /\ fc'.frames[g].slot = c.frames[g].slot
               /\ fc'.frames[g].intents = c.frames[g].intents
               /\ fc'.frames[g].replaces = c.frames[g].replaces
               /\ Phase(fc', g) = Phase(c, g)
               /\ Phase(c, g) \in Live => fc'.frames[g] = c.frames[g]
      BY <2>2, <1>4, CacheClears
    <3>2. ASSUME NEW g \in DOMAIN fc.frames
          PROVE  Fades(g)
      <4>1. fc.frames[g] \in Frame /\ g \in Frames /\ Stays(fc.frames[g], c.frames[g])
        BY <1>4, InvTypes
      <4>2. /\ c.frames[g].slot = fc.frames[g].slot
            /\ c.frames[g].intents = fc.frames[g].intents
            /\ c.frames[g].replaces = fc.frames[g].replaces
            /\ \/ c.frames[g].phase = fc.frames[g].phase /\ c.frames[g] = fc.frames[g]
               \/ fc.frames[g].phase \in Candidate /\ c.frames[g].phase = "cancelled"
        <5>1. CASE c.frames[g] = fc.frames[g]
          BY <5>1
        <5>2. CASE c.frames[g] # fc.frames[g]
          <6>1. fc.frames[g].phase \in Candidate /\ c.frames[g] = AsEnded(fc.frames[g], "cancelled")
            BY <4>1, <5>2 DEF Stays
          <6>2. "cancelled" \in Candidate \cup Live \cup Ended
            BY DEF Ended
          <6>3. QED
            BY <4>1, <6>1, <6>2, PhasesDiffer, AsEndedFields
        <5>3. QED
          BY <5>1, <5>2
      <4>3. /\ fc'.frames[g].slot = fc.frames[g].slot
            /\ fc'.frames[g].intents = fc.frames[g].intents
            /\ fc'.frames[g].replaces = fc.frames[g].replaces
            /\ fc'.frames[g].phase = c.frames[g].phase
            /\ c.frames[g].phase \in Live => fc'.frames[g] = c.frames[g]
        BY <3>1, <4>2, <1>4 DEF Phase
      <4>4. ~CanContinue(g)'
        BY <2>2, <1>2 DEF CanContinue, OnLease
      <4>5. CASE c.frames[g] = fc.frames[g]
        <5>1. CASE c.frames[g].phase \in Live
          BY <4>3, <4>5, <5>1 DEF Fades, Phase
        <5>2. CASE c.frames[g].phase \notin Live
          BY <4>3, <4>4, <4>5, <5>2 DEF Fades, Phase
        <5>3. QED
          BY <5>1, <5>2
      <4>6. CASE fc.frames[g].phase \in Candidate /\ c.frames[g].phase = "cancelled"
        <5>1. "cancelled" \in Ended /\ fc.frames[g].phase \notin Live \cup Ended
          BY <4>6, PhasesDiffer
        <5>2. QED
          BY <4>3, <4>6, <5>1 DEF Fades, Phase
      <4>7. QED
        BY <4>2, <4>5, <4>6
    <3>3. QED
      BY <3>1, <3>2, <1>4
  <2>3. QED
    BY <2>1, <2>2, <1>2
<1>8. SlotsHold'
  BY <1>4, <1>7 DEF SlotsHold
<1>9. LeaseHolds'
  <2>1. Moves(None)
    BY <1>2, SameMoves
  <2>2. QED
    BY <2>1, <1>2, <1>6, <1>7, MovesHold
<1>10. lease' \in Lease /\ forced' \in 0..MaxFrames
  BY <1>1, <1>2
<1>11. QED
  BY <1>2, <1>3, <1>5, <1>6, <1>7, <1>8, <1>9, <1>10, FadingStep

(***************************************************************************)
(* The commands of operators, and the requests of a slot                   *)
(***************************************************************************)

\* The bound on frames keeps room for the removals, if a step adds one frame at most.
LEMMA WritesRoom ==
  ASSUME CarryInv, NEW book, Writes(book), Asked' \subseteq Asked,
         Len(fc'.frames) \in {Len(fc.frames), Len(fc.frames) + 1}
  PROVE  RoomHolds' /\ Len(fc'.frames) <= MaxFrames
<1> DEFINE n == Len(fc.frames)
           m == Len(fc'.frames)
           k == Cardinality(Asked)
           j == Cardinality(Asked')
<1>1. n \in Nat /\ n + k <= MaxFrames
  BY InvTypes, Places DEF Good, CarryInv, RoomHolds
<1>2. IsFiniteSet(Asked)
  BY OperatorsAssumption, FS_Subset DEF Asked
<1>3. j <= k /\ k \in Nat /\ j \in Nat
  BY <1>2, FS_Subset, FS_CardinalityType
<1>4. m > n => m <= MaxFrames - k
  BY DEF Writes, Room, Asked
<1>5. m \in {n, n + 1}
  OBVIOUS
<1> HIDE DEF n, m, k, j
<1>6. m + j <= MaxFrames /\ m <= MaxFrames
  BY <1>1, <1>3, <1>4, <1>5, MaxFramesAssumption
<1>7. QED
  BY <1>6 DEF m, j, RoomHolds

\* A frame that is made has no call yet.
LEMMA NewCall ==
  ASSUME CarryInv, NEW g \in Frames, g \notin DOMAIN fc.frames, UNCHANGED <<call, lease>>,
         Phase(fc', g) = "encoding"
  PROVE  CallHolds(g)'
<1>1. AwaitHolds(g) /\ ShareHolds(g)
  BY DEF CarryInv, CallHolds
<1>2. call'[g] = NoCall /\ call[g] = NoCall
  BY <1>1 DEF AwaitHolds
<1>3. call'[g].at = "none" /\ call'[g].on = None /\ call'[g].then = "none"
  BY <1>2, NoCallIsCall
<1>4. ~Listed(lease'.chain, g)
  BY <1>1, <1>2, NoCallIsCall DEF ShareHolds, Queued, Heading
<1>5. AwaitHolds(g)'
  BY <1>2, <1>3 DEF AwaitHolds, PhaseFits, OffLease
<1>6. ShareHolds(g)'
  BY <1>3, <1>4 DEF ShareHolds, Queued, Heading
<1>7. TracksHold(g)'
  BY <1>3 DEF TracksHold
<1>8. QED
  BY <1>5, <1>6, <1>7 DEF CallHolds

\* Messages are not newer than later commands either.
LEMMA NotNewerOn ==
  ASSUME NEW m \in Messages, NEW ops \in Ops, NEW next \in Ops, NotNewer(m, ops),
         \A o \in Operators : next[o].epoch >= ops[o].epoch
  PROVE  NotNewer(m, next)
<1>1. ASSUME NEW o \in DOMAIN m
      PROVE  m[o] <= next[o].epoch
  <2> DEFINE a == m[o]
             b == ops[o].epoch
             d == next[o].epoch
  <2>1. o \in Operators /\ a \in Nat
    BY MessageFields, BoundsAssumption
  <2>2. b \in Nat /\ d \in Nat
    BY <2>1, BoundsAssumption DEF Ops
  <2>3. a <= b /\ d >= b
    BY <2>1 DEF NotNewer
  <2> HIDE DEF a, b, d
  <2>4. a <= d
    BY <2>1, <2>2, <2>3
  <2>5. QED
    BY <2>4 DEF a, d
<1>2. QED
  BY <1>1 DEF NotNewer

\* The same for all the frames
LEMMA TimelyOn ==
  ASSUME NEW c \in Coordinator, NEW ops \in Ops, NEW next \in Ops, Timely(c, ops),
         \A o \in Operators : next[o].epoch >= ops[o].epoch
  PROVE  Timely(c, next)
<1>1. ASSUME NEW f \in DOMAIN c.frames
      PROVE  NotNewer(Intents(c, f), next)
  BY <1>1, IntentsAre, NotNewerOn DEF Timely
<1>2. QED
  BY <1>1 DEF Timely

\* A step that makes a book of the coordinator and the queue
LEMMA BookedStep ==
  ASSUME CarryInv, op' \in Ops, \A o \in Operators : op'[o].epoch >= op[o].epoch,
         UNCHANGED <<slot, call, lease, forced>>, started' \in BOOLEAN, removal' \in Removals,
         RoomHolds', Len(fc'.frames) <= MaxFrames,
         NEW q \in Messages, NotNewer(q, op'),
         \A o \in DOMAIN q \cap DOMAIN queue : q[o] >= queue[o],
         NEW book, Sets(book), Booked(fc, q, book, op')
  PROVE  Kept
<1>1. /\ Good(fc) /\ queue \in Messages /\ lease \in Lease /\ op \in Ops /\ slot \in Slots
      /\ forced \in 0..MaxFrames /\ NotNewer(queue, op) /\ SlotsHold
      /\ call \in [Frames -> Call]
  BY InvTypes DEF TypeOK
<1>2. /\ Good(fc') /\ Evolves(fc, fc', slot) /\ Timely(fc', op') /\ queue' \in Messages
      /\ \A o \in DOMAIN queue' : \/ queue'[o] = op'[o].epoch
                                  \/ o \in DOMAIN q /\ queue'[o] = q[o]
  BY DEF Sets, Booked
<1>3. NotNewer(queue', op')
  <2>1. \A o \in DOMAIN queue' : o \in Operators
    BY <1>2, MessageFields
  <2>2. \A o \in Operators : op'[o].epoch \in Nat
    BY BoundsAssumption DEF Ops
  <2>3. QED
    BY <2>1, <2>2, <1>2 DEF NotNewer
<1>4. QueueKept
  <2>1. ASSUME NEW o \in DOMAIN queue \cap DOMAIN queue'
        PROVE  queue'[o] >= queue[o]
    <3>1. o \in Operators
      BY <1>1, MessageFields
    <3>2. CASE queue'[o] = op'[o].epoch
      <4> DEFINE a == queue[o]
                 b == op[o].epoch
                 d == op'[o].epoch
      <4>1. a \in Nat
        BY <1>1, MessageFields, BoundsAssumption
      <4>2. b \in Nat /\ d \in Nat
        BY <1>1, <3>1, BoundsAssumption DEF Ops
      <4>3. a <= b /\ d >= b
        BY <1>1, <3>1 DEF NotNewer
      <4> HIDE DEF a, b, d
      <4>4. d >= a
        BY <4>1, <4>2, <4>3
      <4>5. QED
        BY <4>4, <3>2 DEF a, d
    <3>3. CASE o \in DOMAIN q /\ queue'[o] = q[o]
      BY <3>3
    <3>4. QED
      BY <3>2, <3>3, <1>2
  <2>2. QED
    BY <2>1 DEF QueueKept
<1>5. /\ \A g \in DOMAIN fc.frames : g \in DOMAIN fc'.frames /\ Stays(fc.frames[g], fc'.frames[g])
      /\ \A g \in DOMAIN fc'.frames \ DOMAIN fc.frames :
           Phase(fc', g) = "encoding" /\ fc'.frames[g].slot = slot
  BY <1>2 DEF Evolves
<1>6. \A g \in DOMAIN fc.frames : Fades(g)
  BY <1>5, StaysFades
<1>7. EndedKept
  BY <1>6 DEF EndedKept, Fades
<1>8. DOMAIN fc'.frames \subseteq Frames
  <2>1. Len(fc'.frames) \in Nat /\ DOMAIN fc'.frames = 1..Len(fc'.frames)
    BY <1>2, Places DEF Good
  <2>2. QED
    BY <2>1, MaxFramesAssumption DEF Frames
<1>9. \A g \in Frames : Rests(g)
  BY CallRests
<1>10. (\A g \in Frames : LeaseKeeps(g)) /\ Onward
  BY <1>9, StoppedKeeps, RestsOnward
<1>11. LeaseHolds'
  BY <1>5, <1>10, SameMoves, MovesHold
<1>12. SlotsHold'
  <2>1. ASSUME NEW g \in DOMAIN fc'.frames, Phase(fc', g) \in Candidate
        PROVE  fc'.frames[g].slot = slot \/ (call[g].at = "mix" /\ call[g].by # {})
    <3>1. CASE g \in DOMAIN fc.frames
      <4>1. Phase(fc', g) \notin Ended
        BY <2>1, PhasesDiffer
      <4>2. Phase(fc, g) \in Candidate /\ fc'.frames[g].slot = fc.frames[g].slot
        BY <2>1, <3>1, <4>1, <1>6 DEF Fades
      <4>3. QED
        BY <3>1, <4>2, <1>1 DEF SlotsHold
    <3>2. CASE g \notin DOMAIN fc.frames
      BY <3>2, <1>5
    <3>3. QED
      BY <3>1, <3>2
  <2>2. QED
    BY <2>1 DEF SlotsHold
<1>13. ASSUME NEW g \in Frames
       PROVE  \/ CallHolds(g)'
              \/ /\ Rests(g) /\ LeaseKeeps(g)
                 /\ g \in DOMAIN fc'.frames => g \in DOMAIN fc.frames /\ Fades(g)
  <2>1. CASE g \in DOMAIN fc'.frames \ DOMAIN fc.frames
    BY <2>1, <1>5, NewCall
  <2>2. CASE g \notin DOMAIN fc'.frames \ DOMAIN fc.frames
    BY <2>2, <1>6, <1>9, <1>10
  <2>3. QED
    BY <2>1, <2>2
<1>14. DOMAIN fc.frames \subseteq DOMAIN fc'.frames
  BY <1>5
<1>15. /\ slot' \in Slots /\ call' \in [Frames -> Call] /\ lease' \in Lease
       /\ forced' \in 0..MaxFrames
  BY <1>1
<1>16. QED
  BY <1>2, <1>3, <1>4, <1>7, <1>10, <1>11, <1>12, <1>13, <1>14, <1>15, AllStep

\* A command takes an epoch.
LEMMA CommandGives ==
  ASSUME op \in Ops, NEW o \in Operators, NEW tx \in BOOLEAN, op[o].epoch < MaxCommands
  PROVE  LET next == Command(o, tx)
         IN  /\ next \in Ops
             /\ \A p \in Operators : next[p].epoch >= op[p].epoch
             /\ \A p \in Operators \ {o} : next[p].epoch = op[p].epoch
             /\ next[o].epoch = op[o].epoch + 1
<1> DEFINE x == [tx |-> tx, epoch |-> op[o].epoch + 1]
<1>1. \A p \in Operators : op[p].epoch \in Nat
  BY BoundsAssumption DEF Ops
<1>2. op[o].epoch + 1 \in 0..MaxCommands
  BY <1>1, BoundsAssumption
<1>3. x \in [tx : BOOLEAN, epoch : 0..MaxCommands] /\ x.epoch = op[o].epoch + 1
  BY <1>2
<1>4. Command(o, tx) = [op EXCEPT ![o] = x]
  BY DEF Command
<1> HIDE DEF x
<1>5. Command(o, tx) \in Ops
  BY <1>3, <1>4 DEF Ops
<1>6. /\ Command(o, tx)[o] = x
      /\ \A p \in Operators \ {o} : Command(o, tx)[p] = op[p]
  BY <1>4 DEF Ops
<1>7. \A p \in Operators \ {o} : Command(o, tx)[p].epoch = op[p].epoch
  BY <1>6
<1>8. Command(o, tx)[o].epoch = op[o].epoch + 1
  BY <1>3, <1>6
<1>9. ASSUME NEW p \in Operators
      PROVE  Command(o, tx)[p].epoch >= op[p].epoch
  <2>1. CASE p = o
    BY <2>1, <1>1, <1>8
  <2>2. CASE p # o
    BY <2>2, <1>1, <1>7
  <2>3. QED
    BY <2>1, <2>2
<1>10. QED
  BY <1>5, <1>7, <1>8, <1>9

\* The queue without the message of an operator
LEMMA DroppedIsMessages ==
  ASSUME NEW q \in Messages, NEW o
  PROVE  /\ Dropped(q, o) \in Messages /\ DOMAIN Dropped(q, o) = DOMAIN q \ {o}
         /\ \A p \in DOMAIN q \ {o} : Dropped(q, o)[p] = q[p]
<1>1. DOMAIN q \ {o} \subseteq DOMAIN q
  OBVIOUS
<1>2. QED
  BY <1>1, RestrictIsMessages DEF Dropped

\* Only the epochs of the operators count for a book.
LEMMA BookedEpochs ==
  ASSUME NEW c, NEW q \in Messages, NEW b, NEW ops \in Ops, NEW next \in Ops,
         Booked(c, q, b, ops), \A o \in Operators : next[o].epoch = ops[o].epoch
  PROVE  Booked(c, q, b, next)
<1>1. b.fc \in Coordinator /\ b.queue \in Messages
  BY DEF Booked, Good
<1>2. \A o \in DOMAIN b.queue : next[o].epoch = ops[o].epoch
  BY <1>1, MessageFields
<1>3. \A f \in DOMAIN b.fc.frames : \A o \in DOMAIN Intents(b.fc, f) :
        next[o].epoch = ops[o].epoch
  BY <1>1, IntentsAre, MessageFields
<1>4. Timely(b.fc, next)
  BY <1>3 DEF Booked, Timely, NotNewer
<1>5. QED
  BY <1>2, <1>4 DEF Booked

\* A command that leaves the removals, with the book it makes
LEMMA CommandStep ==
  ASSUME CarryInv, op' \in Ops, \A o \in Operators : op'[o].epoch >= op[o].epoch,
         UNCHANGED <<slot, call, lease, forced>>, started' \in BOOLEAN,
         removal' \in Removals, Asked' \subseteq Asked,
         NEW q \in Messages, NotNewer(q, op'),
         \A o \in DOMAIN q \cap DOMAIN queue : q[o] >= queue[o],
         NEW book, Writes(book), Booked(fc, q, book, op')
  PROVE  Kept
<1>1. fc' = book.fc /\ Sets(book)
  BY DEF Writes, Sets
<1>2. Len(fc'.frames) \in {Len(fc.frames), Len(fc.frames) + 1}
  BY <1>1 DEF Booked, Evolves
<1>3. RoomHolds' /\ Len(fc'.frames) <= MaxFrames
  BY <1>2, WritesRoom
<1>4. QED
  BY <1>1, <1>3, BookedStep

\* What holds of the queue, and of the queue without a message
LEMMA QueueFits ==
  ASSUME CarryInv, op' \in Ops, \A o \in Operators : op'[o].epoch >= op[o].epoch
  PROVE  /\ NotNewer(queue, op') /\ Timely(fc, op')
         /\ \A o \in DOMAIN queue : queue[o] >= queue[o]
         /\ \A o : /\ NotNewer(Dropped(queue, o), op')
                   /\ \A p \in DOMAIN Dropped(queue, o) \cap DOMAIN queue :
                        Dropped(queue, o)[p] >= queue[p]
<1>1. /\ queue \in Messages /\ op \in Ops /\ NotNewer(queue, op) /\ Timely(fc, op)
      /\ fc \in Coordinator
  BY InvTypes DEF Good
<1>2. NotNewer(queue, op') /\ Timely(fc, op')
  BY <1>1, NotNewerOn, TimelyOn
<1>3. \A o \in DOMAIN queue : queue[o] \in Nat
  BY <1>1, MessageFields, BoundsAssumption
<1>4. ASSUME NEW o
      PROVE  /\ NotNewer(Dropped(queue, o), op')
             /\ \A p \in DOMAIN Dropped(queue, o) \cap DOMAIN queue :
                  Dropped(queue, o)[p] >= queue[p]
  <2>1. /\ DOMAIN Dropped(queue, o) = DOMAIN queue \ {o}
        /\ \A p \in DOMAIN queue \ {o} : Dropped(queue, o)[p] = queue[p]
    BY <1>1, DroppedIsMessages
  <2>2. NotNewer(Dropped(queue, o), op')
    BY <2>1, <1>2 DEF NotNewer
  <2>3. QED
    BY <2>1, <2>2, <1>3
<1>5. QED
  BY <1>2, <1>3, <1>4

\* decide: an operator's last command
LEMMA DecideStep ==
  ASSUME CarryInv, NEW o \in Operators, NEW changed \in BOOLEAN, NEW fits \in BOOLEAN,
         Decide(o, changed, fits)
  PROVE  Kept
<1> DEFINE book == IF changed THEN Pushed(fc, queue, op', o, fits) ELSE Book(fc, queue)
<1>1. /\ op[o].epoch < MaxCommands /\ op' = Command(o, TRUE) /\ Writes(book)
      /\ UNCHANGED <<slot, started, removal, call, lease, forced>>
  BY DEF Decide
<1>2. op \in Ops /\ queue \in Messages /\ Good(fc) /\ slot \in Slots /\ started \in BOOLEAN
      /\ removal \in Removals
  BY InvTypes DEF TypeOK
<1>3. op' \in Ops /\ \A p \in Operators : op'[p].epoch >= op[p].epoch
  BY <1>1, <1>2, CommandGives
<1>4. NotNewer(queue, op') /\ Timely(fc, op') /\ \A p \in DOMAIN queue : queue[p] >= queue[p]
  BY <1>3, QueueFits
<1>5. Booked(fc, queue, book, op')
  <2>1. Booked(fc, queue, Pushed(fc, queue, op', o, fits), op')
    BY <1>2, <1>3, <1>4, PushedBooks
  <2>2. Booked(fc, queue, Book(fc, queue), op')
    BY <1>2, <1>4, BookedItself
  <2>3. QED
    BY <2>1, <2>2
<1> HIDE DEF book
<1>6. started' \in BOOLEAN /\ removal' \in Removals /\ Asked' \subseteq Asked
  BY <1>1, <1>2 DEF Asked
<1>7. QED
  BY <1>1, <1>2, <1>3, <1>4, <1>5, <1>6, CommandStep

\* requestOperatorFrameMutation
LEMMA EditStep ==
  ASSUME CarryInv, NEW o \in Operators, NEW says \in BOOLEAN, NEW fits \in BOOLEAN,
         EditOperator(o, says, fits)
  PROVE  Kept
<1> DEFINE q == Dropped(queue, o)
           book == IF says /\ op[o].tx THEN Pushed(fc, q, op', o, fits)
                   ELSE StrategyStop(fc, q, op', o, fits)
<1>1. /\ op[o].epoch < MaxCommands /\ op' = Command(o, op[o].tx) /\ Writes(book)
      /\ UNCHANGED <<slot, started, removal, call, lease, forced>>
  BY DEF EditOperator
<1>2. op \in Ops /\ queue \in Messages /\ Good(fc) /\ slot \in Slots /\ started \in BOOLEAN
      /\ removal \in Removals
  BY InvTypes DEF TypeOK
<1>3. op[o].tx \in BOOLEAN
  BY <1>2 DEF Ops
<1>4. op' \in Ops /\ \A p \in Operators : op'[p].epoch >= op[p].epoch
  BY <1>1, <1>2, <1>3, CommandGives
<1>5. /\ q \in Messages /\ NotNewer(q, op') /\ Timely(fc, op')
      /\ \A p \in DOMAIN q \cap DOMAIN queue : q[p] >= queue[p]
  BY <1>2, <1>4, QueueFits, DroppedIsMessages
<1> HIDE DEF q
<1>6. Booked(fc, q, book, op')
  <2>1. Booked(fc, q, Pushed(fc, q, op', o, fits), op')
    BY <1>2, <1>4, <1>5, PushedBooks
  <2>2. Booked(fc, q, StrategyStop(fc, q, op', o, fits), op')
    BY <1>2, <1>4, <1>5, StrategyStopBooks
  <2>3. QED
    BY <2>1, <2>2
<1> HIDE DEF book
<1>7. started' \in BOOLEAN /\ removal' \in Removals /\ Asked' \subseteq Asked
  BY <1>1, <1>2 DEF Asked
<1>8. QED
  BY <1>1, <1>4, <1>5, <1>6, <1>7, CommandStep

\* stopOperator
LEMMA StopOperatorStep ==
  ASSUME CarryInv, NEW o \in Operators, NEW fits \in BOOLEAN, StopOperator(o, fits)
  PROVE  Kept
<1> DEFINE q == Dropped(queue, o)
           ops == Command(o, TRUE)
           book == StrategyStop(fc, q, ops, o, fits)
<1>1. /\ op[o].epoch < MaxCommands /\ op' = Command(o, FALSE) /\ Writes(book)
      /\ UNCHANGED <<slot, started, removal, call, lease, forced>>
  BY DEF StopOperator
<1>2. op \in Ops /\ queue \in Messages /\ Good(fc) /\ slot \in Slots /\ started \in BOOLEAN
      /\ removal \in Removals
  BY InvTypes DEF TypeOK
<1>3. /\ op' \in Ops /\ \A p \in Operators : op'[p].epoch >= op[p].epoch
      /\ \A p \in Operators \ {o} : op'[p].epoch = op[p].epoch
      /\ op'[o].epoch = op[o].epoch + 1
  BY <1>1, <1>2, CommandGives
<1>4. /\ ops \in Ops /\ \A p \in Operators : ops[p].epoch >= op[p].epoch
      /\ \A p \in Operators \ {o} : ops[p].epoch = op[p].epoch
      /\ ops[o].epoch = op[o].epoch + 1
  BY <1>1, <1>2, CommandGives
<1> HIDE DEF ops
<1>5. \A p \in Operators : op'[p].epoch = ops[p].epoch
  BY <1>3, <1>4
<1>6. /\ q \in Messages /\ NotNewer(q, op')
      /\ \A p \in DOMAIN q \cap DOMAIN queue : q[p] >= queue[p]
  BY <1>2, <1>3, QueueFits, DroppedIsMessages
<1> HIDE DEF q
<1>7. Timely(fc, ops)
  BY <1>2, <1>4, InvTypes, TimelyOn DEF Good
<1>8. Booked(fc, q, book, ops)
  BY <1>2, <1>4, <1>6, <1>7, StrategyStopBooks
<1> HIDE DEF book
<1>9. Booked(fc, q, book, op')
  BY <1>3, <1>4, <1>5, <1>6, <1>8, BookedEpochs
<1>10. started' \in BOOLEAN /\ removal' \in Removals /\ Asked' \subseteq Asked
  BY <1>1, <1>2 DEF Asked
<1>11. QED
  BY <1>1, <1>3, <1>6, <1>9, <1>10, CommandStep

\* startOperator
LEMMA StartOperatorStep ==
  ASSUME CarryInv, NEW o \in Operators, NEW says \in BOOLEAN, NEW fits \in BOOLEAN,
         StartOperator(o, says, fits)
  PROVE  Kept
<1> DEFINE x == [op[o] EXCEPT !.tx = TRUE]
           r == [removal[o] EXCEPT !.at = IF @ = "done" THEN "none" ELSE @]
           book == IF says THEN Pushed(fc, queue, op', o, fits) ELSE Book(fc, queue)
<1>1. /\ op' = [op EXCEPT ![o] = x] /\ removal' = [removal EXCEPT ![o] = r] /\ Writes(book)
      /\ UNCHANGED <<slot, started, call, lease, forced>>
  BY DEF StartOperator
<1>2. op \in Ops /\ queue \in Messages /\ Good(fc) /\ slot \in Slots /\ started \in BOOLEAN
      /\ removal \in Removals
  BY InvTypes DEF TypeOK
<1>3. x \in [tx : BOOLEAN, epoch : 0..MaxCommands] /\ x.epoch = op[o].epoch
  BY <1>2 DEF Ops
<1>4. /\ r \in [at : {"none", "asked", "mixing", "stopping", "done"}, epoch : 0..MaxCommands]
      /\ r.at = "asked" => removal[o].at = "asked"
  BY <1>2 DEF Removals
<1> HIDE DEF x, r
<1>5. op' \in Ops
  BY <1>1, <1>2, <1>3 DEF Ops
<1>6. \A p \in Operators : op'[p].epoch >= op[p].epoch
  <2>1. \A p \in Operators : op'[p].epoch = op[p].epoch
    BY <1>1, <1>2, <1>3 DEF Ops
  <2>2. \A p \in Operators : op[p].epoch \in Nat
    BY <1>2, BoundsAssumption DEF Ops
  <2>3. QED
    BY <2>1, <2>2
<1>7. removal' \in Removals /\ Asked' \subseteq Asked
  BY <1>1, <1>2, <1>4 DEF Removals, Asked
<1>8. NotNewer(queue, op') /\ Timely(fc, op') /\ \A p \in DOMAIN queue : queue[p] >= queue[p]
  BY <1>5, <1>6, QueueFits
<1>9. Booked(fc, queue, book, op')
  <2>1. Booked(fc, queue, Pushed(fc, queue, op', o, fits), op')
    BY <1>2, <1>5, <1>8, PushedBooks
  <2>2. Booked(fc, queue, Book(fc, queue), op')
    BY <1>2, <1>8, BookedItself
  <2>3. QED
    BY <2>1, <2>2
<1> HIDE DEF book
<1>10. started' \in BOOLEAN
  BY <1>1, <1>2
<1>11. QED
  BY <1>1, <1>2, <1>5, <1>6, <1>7, <1>8, <1>9, <1>10, CommandStep

\* handleEncodeStart
LEMMA EncodeStartStep ==
  ASSUME CarryInv, NEW says \in SUBSET Operators, NEW fits \in BOOLEAN, EncodeStart(says, fits)
  PROVE  Kept
<1> DEFINE S == {o \in says : op[o].tx}
           asked == [o \in S |-> op[o].epoch]
           q == Merged(asked, queue)
           book == Processed(fc, q, op, fits)
<1>1. /\ started' = TRUE /\ Writes(book)
      /\ UNCHANGED <<slot, op, removal, call, lease, forced>>
  BY DEF EncodeStart
<1>2. /\ op \in Ops /\ queue \in Messages /\ Good(fc) /\ slot \in Slots
      /\ removal \in Removals /\ NotNewer(queue, op) /\ Timely(fc, op)
  BY InvTypes DEF TypeOK
<1>3. S \in SUBSET Operators
  OBVIOUS
<1> HIDE DEF S
<1>4. asked \in [S -> 0..MaxCommands]
  BY <1>2, <1>3 DEF Ops
<1>5. asked \in Messages /\ DOMAIN asked = S /\ \A o \in S : asked[o] = op[o].epoch
  BY <1>3, <1>4, IsMessages
<1> HIDE DEF asked
<1>6. /\ q \in Messages /\ DOMAIN q = S \cup DOMAIN queue
      /\ \A o \in S : q[o] = op[o].epoch
      /\ \A o \in DOMAIN queue \ S : q[o] = queue[o]
  BY <1>2, <1>5, MergedIsMessages
<1> HIDE DEF q
<1>7. /\ \A o \in Operators : op[o].epoch \in Nat
      /\ \A o \in DOMAIN queue : queue[o] \in Nat
  BY <1>2, MessageFields, BoundsAssumption DEF Ops
<1>8. NotNewer(q, op)
  <2>1. ASSUME NEW o \in DOMAIN q
        PROVE  q[o] <= op[o].epoch
    <3>1. CASE o \in S
      BY <3>1, <1>3, <1>6, <1>7
    <3>2. CASE o \in DOMAIN queue \ S
      BY <3>2, <1>2, <1>6 DEF NotNewer
    <3>3. QED
      BY <3>1, <3>2, <1>6
  <2>2. QED
    BY <2>1 DEF NotNewer
<1>9. ASSUME NEW o \in DOMAIN q \cap DOMAIN queue
      PROVE  q[o] >= queue[o]
  <2>1. CASE o \in S
    <3>1. q[o] = op[o].epoch /\ queue[o] <= op[o].epoch
      BY <2>1, <1>2, <1>6 DEF NotNewer
    <3>2. op[o].epoch \in Nat /\ queue[o] \in Nat
      BY <2>1, <1>3, <1>7
    <3>3. QED
      BY <3>1, <3>2
  <2>2. CASE o \notin S
    BY <2>2, <1>6, <1>7
  <2>3. QED
    BY <2>1, <2>2
<1>10. Booked(fc, q, book, op)
  BY <1>2, <1>6, ProcessedBooks
<1> HIDE DEF book
<1>11. /\ op' \in Ops /\ NotNewer(q, op') /\ Booked(fc, q, book, op')
       /\ \A o \in Operators : op'[o].epoch >= op[o].epoch
  BY <1>1, <1>2, <1>7, <1>8, <1>10
<1>12. started' \in BOOLEAN /\ removal' \in Removals /\ Asked' \subseteq Asked
  BY <1>1, <1>2 DEF Asked
<1>13. QED
  BY <1>1, <1>6, <1>9, <1>11, <1>12, CommandStep

(***************************************************************************)
(* The removal of an operator                                              *)
(***************************************************************************)

\* removeOperatorFromTransmission
LEMMA RemoveOperatorStep ==
  ASSUME CarryInv, NEW o \in Operators, RemoveOperator(o)
  PROVE  Kept
<1> DEFINE r == [at |-> "asked", epoch |-> op'[o].epoch]
           book == Book(fc, queue)
           n == Len(fc.frames)
           k == Cardinality(Asked)
           j == Cardinality(Asked')
<1>1. /\ op[o].epoch < MaxCommands /\ n < MaxFrames - k
      /\ removal[o].at \in {"none", "done"} /\ op' = Command(o, FALSE)
      /\ removal' = [removal EXCEPT ![o] = r]
      /\ UNCHANGED <<slot, started, queue, fc, call, lease, forced>>
  BY DEF RemoveOperator, Room, Asked
<1>2. /\ op \in Ops /\ queue \in Messages /\ Good(fc) /\ slot \in Slots /\ started \in BOOLEAN
      /\ removal \in Removals
  BY InvTypes DEF TypeOK
<1>3. op' \in Ops /\ \A p \in Operators : op'[p].epoch >= op[p].epoch
  BY <1>1, <1>2, CommandGives
<1>4. op'[o].epoch \in 0..MaxCommands
  BY <1>3 DEF Ops
<1>5. /\ r \in [at : {"none", "asked", "mixing", "stopping", "done"}, epoch : 0..MaxCommands]
      /\ r.at = "asked"
  BY <1>4
<1> HIDE DEF r
<1>6. /\ removal' \in Removals /\ removal'[o] = r
      /\ \A p \in Operators \ {o} : removal'[p] = removal[p]
  BY <1>1, <1>2, <1>5 DEF Removals
<1>7. Asked' = Asked \cup {o} /\ o \notin Asked
  BY <1>1, <1>5, <1>6 DEF Asked
<1>8. IsFiniteSet(Asked)
  BY OperatorsAssumption, FS_Subset DEF Asked
<1>9. j = k + 1 /\ k \in Nat
  BY <1>7, <1>8, FS_AddElement, FS_CardinalityType
<1>10. n \in Nat /\ n <= MaxFrames
  BY <1>2, Places, InvTypes DEF Good, TypeOK
<1>11. RoomHolds'
  <2>1. n < MaxFrames - k
    BY <1>1
  <2>2. Len(fc'.frames) = n
    BY <1>1
  <2> HIDE DEF n, k, j
  <2>3. n + j <= MaxFrames
    BY <2>1, <1>9, <1>10, MaxFramesAssumption
  <2>4. QED
    BY <2>2, <2>3 DEF j, RoomHolds
<1>12. NotNewer(queue, op') /\ Timely(fc, op') /\ \A p \in DOMAIN queue : queue[p] >= queue[p]
  BY <1>3, QueueFits
<1>13. Sets(book) /\ Booked(fc, queue, book, op')
  BY <1>1, <1>2, <1>12, BookFields, BookedItself DEF Sets
<1> HIDE DEF book
<1>14. Len(fc'.frames) <= MaxFrames /\ started' \in BOOLEAN
  BY <1>1, <1>2, <1>10
<1>15. QED
  BY <1>1, <1>2, <1>3, <1>6, <1>11, <1>12, <1>13, <1>14, BookedStep

\* A removal goes on, and nothing else changes.
LEMMA OnlyRemoval ==
  ASSUME CarryInv, NEW o \in Operators, NEW at \in {"none", "mixing", "stopping", "done"},
         Removal(o, at), UNCHANGED <<slot, started, op, queue, fc, call, lease, forced>>
  PROVE  Kept
<1> DEFINE book == Book(fc, queue)
<1>1. /\ op \in Ops /\ queue \in Messages /\ Good(fc) /\ started \in BOOLEAN
      /\ NotNewer(queue, op) /\ Timely(fc, op) /\ Len(fc.frames) <= MaxFrames
  BY InvTypes DEF TypeOK
<1>2. removal' \in Removals /\ Asked' \subseteq Asked
  BY RemovalGoes
<1>3. RoomHolds'
  BY <1>2, RoomKept
<1>4. \A p \in Operators : op'[p].epoch >= op[p].epoch
  <2>1. \A p \in Operators : op[p].epoch \in Nat
    BY <1>1, BoundsAssumption DEF Ops
  <2>2. QED
    BY <2>1
<1>5. NotNewer(queue, op') /\ \A p \in DOMAIN queue : queue[p] >= queue[p]
  BY <1>1, <1>4, QueueFits
<1>6. Sets(book) /\ Booked(fc, queue, book, op')
  BY <1>1, BookFields, BookedItself DEF Sets
<1> HIDE DEF book
<1>7. op' \in Ops /\ started' \in BOOLEAN /\ Len(fc'.frames) <= MaxFrames
  BY <1>1
<1>8. QED
  BY <1>1, <1>2, <1>3, <1>4, <1>5, <1>6, <1>7, BookedStep

\* The lease of the last participant is released, or cannot be.
LEMMA RemovalStoppedStep ==
  ASSUME CarryInv, NEW o \in Operators, RemovalStopped(o)
  PROVE  Kept
BY OnlyRemoval DEF RemovalStopped

\* The removal that has its turn makes place for a frame.
LEMMA RemovalRoom ==
  ASSUME CarryInv, NEW o \in Operators, removal[o].at = "asked", Asked' = Asked \ {o},
         Len(fc'.frames) \in {Len(fc.frames), Len(fc.frames) + 1}
  PROVE  RoomHolds' /\ Len(fc'.frames) <= MaxFrames
<1> DEFINE n == Len(fc.frames)
           m == Len(fc'.frames)
           k == Cardinality(Asked)
           j == Cardinality(Asked')
<1>1. n \in Nat /\ n + k <= MaxFrames
  BY InvTypes, Places DEF Good, CarryInv, RoomHolds
<1>2. IsFiniteSet(Asked) /\ o \in Asked
  BY OperatorsAssumption, FS_Subset DEF Asked
<1>3. j = k - 1 /\ k \in Nat /\ j \in Nat
  <2>1. IsFiniteSet(Asked \ {o}) /\ Cardinality(Asked \ {o}) = k - 1
    BY <1>2, FS_RemoveElement
  <2>2. QED
    BY <2>1, <1>2, FS_CardinalityType
<1>4. m \in {n, n + 1}
  OBVIOUS
<1> HIDE DEF n, m, k, j
<1>5. m + j <= MaxFrames /\ m <= MaxFrames
  BY <1>1, <1>3, <1>4, MaxFramesAssumption
<1>6. QED
  BY <1>5 DEF m, j, RoomHolds

\* An operator that is not on the air leaves the candidate it is in.
LEMMA RemovalLeavesStep ==
  ASSUME CarryInv, NEW o \in Operators, NEW fits \in BOOLEAN, removal[o].at = "asked",
         Sets(StrategyStop(fc, queue, op, o, fits)), Removal(o, "done"),
         UNCHANGED <<slot, started, op, call, lease, forced>>
  PROVE  Kept
<1> DEFINE book == StrategyStop(fc, queue, op, o, fits)
<1>1. /\ op \in Ops /\ queue \in Messages /\ Good(fc) /\ started \in BOOLEAN /\ slot \in Slots
      /\ NotNewer(queue, op) /\ Timely(fc, op)
  BY InvTypes DEF TypeOK
<1>2. Booked(fc, queue, book, op)
  BY <1>1, StrategyStopBooks
<1>3. Sets(book)
  OBVIOUS
<1> HIDE DEF book
<1>4. removal' \in Removals /\ Asked' = Asked \ {o}
  BY RemovalGoes
<1>5. Len(fc'.frames) \in {Len(fc.frames), Len(fc.frames) + 1}
  BY <1>2, <1>3 DEF Sets, Booked, Evolves
<1>6. RoomHolds' /\ Len(fc'.frames) <= MaxFrames
  BY <1>4, <1>5, RemovalRoom
<1>7. \A p \in Operators : op'[p].epoch >= op[p].epoch
  <2>1. \A p \in Operators : op[p].epoch \in Nat
    BY <1>1, BoundsAssumption DEF Ops
  <2>2. QED
    BY <2>1
<1>8. NotNewer(queue, op') /\ \A p \in DOMAIN queue : queue[p] >= queue[p]
  BY <1>1, <1>7, QueueFits
<1>9. op' \in Ops /\ started' \in BOOLEAN /\ Booked(fc, queue, book, op')
  BY <1>1, <1>2
<1>10. QED
  BY <1>1, <1>3, <1>4, <1>6, <1>7, <1>8, <1>9, BookedStep

\* The lease of the last participant is stopped.
LEMMA RemovalStopsStep ==
  ASSUME CarryInv, NEW o \in Operators, lease' = Stopped(lease, "over"), Removal(o, "stopping"),
         lease.phase # "idle", UNCHANGED <<slot, started, op, queue, fc, call, forced>>
  PROVE  Kept
<1>1. Calm
  BY RemovalGoes DEF Calm
<1>2. /\ Good(fc) /\ call \in [Frames -> Call] /\ queue \in Messages /\ NotNewer(queue, op)
      /\ LeaseHolds /\ DOMAIN fc.frames \subseteq Frames
  BY InvTypes DEF TypeOK
<1>3. /\ fc' = fc /\ queue' = queue /\ call' = call /\ forced' = forced /\ slot' = slot
      /\ Moves(None)
  BY StoppedMoves
<1>4. \A g \in Frames : Rests(g)
  BY <1>3, CallRests
<1>5. (\A g \in Frames : LeaseKeeps(g)) /\ Onward
  BY <1>4, StoppedKeeps, RestsOnward
<1>6. LeaseHolds'
  BY <1>3, <1>5, MovesHold
<1>7. ASSUME NEW f \in DOMAIN fc.frames, f = lease.owner
      PROVE  Kept
  <2> DEFINE k == call[f]
  <2>1. f \in Frames /\ call[f].at \notin Before
    BY <1>2, <1>7 DEF LeaseHolds
  <2>2. Fades(f) /\ Moves(f)
    BY <1>3, StoppedMoves DEF Fades, Phase
  <2>3. CallHolds(f)'
    BY <2>1, <2>2, <1>2, <1>3, <1>4, <1>5, <1>6, <1>7, RestingCall
  <2>4. k \in Call /\ call' = [call EXCEPT ![f] = k] /\ k.at \notin Before
    BY <2>1, <1>2, <1>3
  <2>5. Good(fc') /\ Alone(fc, fc', f) /\ QueueKept
    BY <1>2, <1>3, AloneItself, QueueSame
  <2>6. Phase(fc', f) \in Candidate => fc.frames[f].slot = slot
    <3>1. Phase(fc, f) \in Candidate => fc.frames[f].slot = slot \/ call[f].at = "mix"
      BY <1>7, InvTypes DEF SlotsHold
    <3>2. QED
      BY <3>1, <2>1, <1>3 DEF Before
  <2>7. queue' \in Messages /\ NotNewer(queue', op)
    BY <1>2, <1>3
  <2>8. Phase(fc, f) \in Ended => Phase(fc', f) = Phase(fc, f)
    BY <1>3
  <2> HIDE DEF k
  <2>9. QED
    BY <2>2, <2>3, <2>4, <2>5, <2>6, <2>7, <2>8, <1>1, CallMoves
<1>8. QED
  BY <1>2, <1>7 DEF LeaseHolds

\* A step that makes the frame of those that stay
LEMMA RemovalAddsStep ==
  ASSUME CarryInv, UNCHANGED <<slot, started, op, lease, forced>>, removal' \in Removals,
         NEW o \in Operators, removal[o].at = "asked", Asked' = Asked \ {o}, NEW n,
         n = Len(fc.frames) + 1, Good(fc'), Len(fc'.frames) = n,
         \A h \in DOMAIN fc.frames : Stays(fc.frames[h], fc'.frames[h]),
         NotNewer(Intents(fc', n), op),
         queue' \in Messages, NotNewer(queue', op), QueueKept,
         call' \in [Frames -> Call], \A h \in Frames \ {n} : call'[h] = call[h],
         \/ Phase(fc', n) \in Ended /\ call' = call
         \/ /\ Phase(fc', n) = "ready"
            /\ call'[n].at = "mix" /\ call'[n].by # {} /\ call'[n].on = None
  PROVE  Kept
<1>1. /\ Good(fc) /\ lease \in Lease /\ op \in Ops /\ slot \in Slots /\ started \in BOOLEAN
      /\ forced \in 0..MaxFrames /\ SlotsHold /\ Timely(fc, op) /\ Len(fc.frames) \in Nat
  BY InvTypes, Places DEF TypeOK, Good
<1>2. RoomHolds' /\ n <= MaxFrames
  BY RemovalRoom
<1>3. /\ DOMAIN fc.frames = 1..Len(fc.frames) /\ DOMAIN fc'.frames = 1..n
  BY <1>1, Places DEF Good
<1>4. /\ n \in Frames /\ n \notin DOMAIN fc.frames
      /\ DOMAIN fc'.frames = DOMAIN fc.frames \cup {n}
  <2> DEFINE m == Len(fc.frames)
  <2>1. m \in Nat /\ n = m + 1
    BY <1>1
  <2>2. DOMAIN fc.frames = 1..m
    BY <1>3
  <2> HIDE DEF m
  <2>3. n \in 1..MaxFrames /\ n \notin 1..m /\ 1..n = 1..m \cup {n}
    BY <2>1, <1>2, MaxFramesAssumption
  <2>4. QED
    BY <2>2, <2>3, <1>3 DEF Frames
<1>5. \A h \in DOMAIN fc.frames : Fades(h) /\ h # n
  BY <1>4, StaysFades
<1>6. EndedKept
  BY <1>5 DEF EndedKept, Fades
<1>7. Timely(fc', op)
  <2>1. \A h \in DOMAIN fc.frames : Intents(fc', h) = Intents(fc, h)
    BY <1>5 DEF Fades, Intents
  <2>2. QED
    BY <2>1, <1>1, <1>4 DEF Timely
<1>8. AwaitHolds(n) /\ ShareHolds(n)
  BY <1>4 DEF CarryInv, CallHolds
<1>9. call[n] = NoCall
  BY <1>4, <1>8 DEF AwaitHolds
<1>10. call'[n].at \in {"none", "mix"} /\ call'[n].on = None
  BY <1>9, NoCallIsCall
<1>11. Onward
  <2>1. \A h \in Frames \ {n} : call'[h].at = call[h].at
    OBVIOUS
  <2>2. QED
    BY <2>1, <1>9, NoCallIsCall DEF Onward, Before
<1>12. LeaseHolds'
  BY <1>4, <1>11, SameMoves, MovesHold
<1>13. SlotsHold'
  <2>1. ASSUME NEW h \in DOMAIN fc.frames, Phase(fc', h) \in Candidate
        PROVE  fc'.frames[h].slot = slot \/ (call'[h].at = "mix" /\ call'[h].by # {})
    <3>1. Phase(fc', h) \notin Ended
      BY <2>1, PhasesDiffer
    <3>2. Phase(fc, h) \in Candidate /\ fc'.frames[h].slot = fc.frames[h].slot
      BY <2>1, <3>1, <1>5 DEF Fades
    <3>3. h \in Frames \ {n}
      BY <1>5, InvTypes
    <3>4. QED
      BY <3>2, <3>3, <1>1 DEF SlotsHold
  <2>2. Phase(fc', n) \in Candidate => call'[n].at = "mix" /\ call'[n].by # {}
    BY PhasesDiffer
  <2>3. QED
    BY <2>1, <2>2, <1>4 DEF SlotsHold
<1>14. CallHolds(n)'
  <2>1. ~Listed(lease'.chain, n)
    BY <1>8, <1>9, NoCallIsCall DEF ShareHolds, Queued, Heading
  <2>2. Phase(fc', n) \in {"ready"} \cup Ended
    OBVIOUS
  <2>3. Phase(fc', n) \in Ended \/ call'[n].at = "mix"
    OBVIOUS
  <2>4. AwaitHolds(n)'
    BY <2>2, <2>3, <1>4, <1>10 DEF AwaitHolds, PhaseFits, OffLease
  <2>5. ShareHolds(n)'
    BY <2>1, <2>2, <1>10 DEF ShareHolds, Queued, Heading, Ended
  <2>6. TracksHold(n)'
    BY <2>2, <1>10 DEF TracksHold, Ended
  <2>7. QED
    BY <2>4, <2>5, <2>6 DEF CallHolds
<1>15. ASSUME NEW g \in Frames
       PROVE  \/ CallHolds(g)'
              \/ /\ Rests(g) /\ LeaseKeeps(g)
                 /\ g \in DOMAIN fc'.frames => g \in DOMAIN fc.frames /\ Fades(g)
  <2>1. CASE g = n
    BY <2>1, <1>14
  <2>2. CASE g # n
    <3>1. Rests(g)
      BY <2>2, CallRests
    <3>2. LeaseKeeps(g)
      BY <3>1, StoppedKeeps
    <3>3. QED
      BY <2>2, <3>1, <3>2, <1>4, <1>5
  <2>3. QED
    BY <2>1, <2>2
<1>16. /\ slot' \in Slots /\ started' \in BOOLEAN /\ op' \in Ops /\ lease' \in Lease
       /\ forced' \in 0..MaxFrames /\ Len(fc'.frames) <= MaxFrames
       /\ NotNewer(queue', op') /\ Timely(fc', op')
       /\ DOMAIN fc.frames \subseteq DOMAIN fc'.frames
  BY <1>1, <1>2, <1>4, <1>7
<1>17. QED
  BY <1>2, <1>6, <1>11, <1>12, <1>13, <1>15, <1>16, AllStep

\* performOperatorRemoval for a participant of what is on the air
LEMMA RemovesParticipantStep ==
  ASSUME CarryInv, NEW o \in Operators, removal[o].at = "asked", lease.phase # "idle",
         o \in Parts(fc, lease.frame), RemovesParticipant(o),
         UNCHANGED <<slot, started, op, forced>>
  PROVE  Kept
<1> DEFINE f == lease.frame
           c == PrepareRemoval(fc, f, o)
           g == Len(c.frames)
           action == RemovalAction(fc, f, o)
           n == Len(fc.frames) + 1
<1>1. /\ Good(fc) /\ LeaseHolds /\ call \in [Frames -> Call] /\ queue \in Messages
      /\ NotNewer(queue, op) /\ Timely(fc, op) /\ op \in Ops
  BY InvTypes DEF TypeOK
<1>2. f \in DOMAIN fc.frames /\ o \in Parts(fc, f)
  BY <1>1 DEF LeaseHolds
<1>3. CASE /\ lease' = Stopped(lease, "over") /\ Removal(o, "stopping")
           /\ UNCHANGED <<fc, queue, call>>
  BY <1>3, RemovalStopsStep
<1>4. CASE Removal(o, "done") /\ UNCHANGED <<fc, queue, call, lease>>
  BY <1>4, OnlyRemoval
<1>5. ASSUME action = "replace-current"
      PROVE  /\ Good(c) /\ g = n /\ DOMAIN c.frames = DOMAIN fc.frames \cup {n}
             /\ \A h \in DOMAIN fc.frames : Stays(fc.frames[h], c.frames[h])
             /\ Phase(c, n) = "ready" /\ Parts(c, n) # {}
             /\ NotNewer(Intents(c, n), op)
  <2>1. Phase(fc, f) \in Live /\ Parts(fc, f) # {o}
    BY <1>5 DEF RemovalAction
  <2>2. /\ Good(c) /\ Len(c.frames) = n /\ DOMAIN c.frames = DOMAIN fc.frames \cup {n}
        /\ \A h \in DOMAIN fc.frames : Stays(fc.frames[h], c.frames[h])
        /\ Phase(c, n) = "ready" /\ Parts(c, n) = Parts(fc, f) \ {o}
        /\ \A p \in Parts(c, n) : Intents(c, n)[p] = Intents(fc, f)[p]
    BY <2>1, <1>1, <1>2, RemovalPrepares
  <2> HIDE DEF c, n, f
  <2>3. Parts(c, n) # {}
    BY <2>1, <2>2, <1>2
  <2>4. NotNewer(Intents(fc, f), op)
    BY <1>1, <1>2 DEF Timely
  <2>5. NotNewer(Intents(c, n), op)
    BY <2>2, <2>4 DEF NotNewer, Parts
  <2>6. QED
    BY <2>2, <2>3, <2>5
<1>7. CASE /\ action = "replace-current"
           /\ Sets(Deferred(c, queue, g)) /\ Removal(o, "done") /\ UNCHANGED <<call, lease>>
  <2>1. removal' \in Removals /\ Asked' = Asked \ {o}
    BY <1>7, RemovalGoes
  <2>2. /\ Good(c) /\ g = n /\ DOMAIN c.frames = DOMAIN fc.frames \cup {n}
        /\ \A h \in DOMAIN fc.frames : Stays(fc.frames[h], c.frames[h])
        /\ Phase(c, n) = "ready" /\ NotNewer(Intents(c, n), op)
    BY <1>5, <1>7
  <2> DEFINE b == Deferred(c, queue, n)
  <2>3. fc' = b.fc /\ queue' = b.queue /\ call' = call /\ lease' = lease
    BY <2>2, <1>7 DEF Sets
  <2> HIDE DEF c
  <2>4. Timely(c, op)
    <3>1. \A h \in DOMAIN fc.frames : Intents(c, h) = Intents(fc, h)
      BY <2>2, StaysFields, InvTypes DEF Intents
    <3>2. QED
      BY <3>1, <2>2, <1>1 DEF Timely
  <2>5. n \in DOMAIN c.frames /\ Phase(c, n) \in Candidate
    BY <2>2, PhasesDiffer
  <2>6. Settled(c, queue, b, n) /\ Phase(b.fc, n) \in Ended
    BY <2>2, <2>4, <2>5, <1>1, DeferredSettles
  <2>7. /\ Good(fc') /\ Alone(c, fc', n) /\ Phase(fc', n) \in Ended
        /\ queue' \in Messages /\ NotNewer(queue', op)
        /\ \A p \in DOMAIN queue : p \in DOMAIN queue' /\ queue'[p] = queue[p]
    BY <2>3, <2>6 DEF Settled, Ends
  <2> HIDE DEF b
  <2>8. QueueKept
    <3>1. \A p \in DOMAIN queue : queue[p] \in Nat
      BY <1>1, MessageFields, BoundsAssumption
    <3>2. QED
      BY <3>1, <2>7 DEF QueueKept
  <2>9. Len(fc'.frames) = n
    BY <2>2, <2>7 DEF Alone
  <2>10. n \notin DOMAIN fc.frames
    BY <1>1, Places DEF Good
  <2>11. \A h \in DOMAIN fc.frames : Stays(fc.frames[h], fc'.frames[h])
    BY <2>2, <2>7, <2>10 DEF Alone
  <2>12. NotNewer(Intents(fc', n), op)
    BY <2>2, <2>7 DEF Alone, Intents
  <2>13. UNCHANGED <<slot, started, op, lease, forced>> /\ call' \in [Frames -> Call]
    BY <2>3, <1>1
  <2>14. \A h \in Frames \ {n} : call'[h] = call[h]
    BY <2>3
  <2> HIDE DEF n
  <2>15. n = Len(fc.frames) + 1
    BY DEF n
  <2>16. QED
    BY <2>1, <2>3, <2>7, <2>8, <2>9, <2>11, <2>12, <2>13, <2>14, <2>15, RemovalAddsStep
<1>8. CASE /\ action = "replace-current" /\ HasTracks(c, g) /\ Sets(Book(c, queue))
           /\ call' = [MixStarts(call, c, g) EXCEPT ![g].by = {o}]
           /\ Removal(o, "mixing") /\ lease' = lease
  <2>1. removal' \in Removals /\ Asked' = Asked \ {o}
    BY <1>8, RemovalGoes
  <2>2. /\ Good(c) /\ g = n /\ DOMAIN c.frames = DOMAIN fc.frames \cup {n}
        /\ \A h \in DOMAIN fc.frames : Stays(fc.frames[h], c.frames[h])
        /\ Phase(c, n) = "ready" /\ Parts(c, n) # {} /\ NotNewer(Intents(c, n), op)
    BY <1>5, <1>8
  <2>3. fc' = c /\ queue' = queue /\ HasTracks(c, n)
    BY <2>2, <1>8, BookFields DEF Sets
  <2> DEFINE next == MixStarts(call, c, n)
  <2>4. call' = [next EXCEPT ![n].by = {o}]
    BY <2>2, <1>8
  <2>5. Len(fc'.frames) = n
    BY <2>2, <2>3
  <2> HIDE DEF c
  <2>6. n \in Frames /\ n \notin DOMAIN fc.frames
    <3> DEFINE m == Len(fc.frames)
    <3>1. m \in Nat /\ DOMAIN fc.frames = 1..m
      BY <1>1, Places DEF Good
    <3>2. n <= MaxFrames
      BY <2>1, <2>5, RemovalRoom
    <3> HIDE DEF m
    <3>3. m + 1 \in 1..MaxFrames /\ m + 1 \notin 1..m
      BY <3>1, <3>2, MaxFramesAssumption DEF m
    <3>4. QED
      BY <3>1, <3>3 DEF m, Frames
  <2>7. c.frames[n].tracks # {}
    BY <2>2, <2>3 DEF HasTracks
  <2>8. call[n] = NoCall
    <3>1. AwaitHolds(n)
      BY <2>6 DEF CarryInv, CallHolds
    <3>2. QED
      BY <3>1, <2>6 DEF AwaitHolds
  <2> HIDE DEF n
  <2>9. /\ next \in [Frames -> Call] /\ \A h \in Frames \ {n} : next[h] = call[h]
        /\ \/ next[n] = Over
           \/ next[n].at = "mix" /\ next[n].on = call[n].on
    BY <2>6, <1>1, MixStartsMix
  <2>10. next[n].at = "mix"
    BY <2>6, <2>7, <1>1, MixStartsTracks
  <2> HIDE DEF next
  <2>11. next[n].on = None
    BY <2>8, <2>9, NoCallIsCall, OverIsCall
  <2> DEFINE k == [next[n] EXCEPT !.by = {o}]
  <2>12. k \in Call /\ k.at = "mix" /\ k.on = None /\ k.by = {o}
    BY <2>6, <2>9, <2>10, <2>11 DEF Call
  <2>13. call' = [next EXCEPT ![n] = k]
    BY <2>4
  <2> HIDE DEF k
  <2>14. /\ call' \in [Frames -> Call] /\ \A h \in Frames \ {n} : call'[h] = call[h]
         /\ call'[n] = k
    BY <2>6, <2>9, <2>12, <2>13
  <2>15. QueueKept /\ queue' \in Messages /\ NotNewer(queue', op)
    BY <2>3, <1>1, QueueSame
  <2>16. /\ Good(fc') /\ \A h \in DOMAIN fc.frames : Stays(fc.frames[h], fc'.frames[h])
         /\ NotNewer(Intents(fc', n), op) /\ Phase(fc', n) = "ready"
    BY <2>2, <2>3
  <2>17. call'[n].at = "mix" /\ call'[n].by # {} /\ call'[n].on = None
    BY <2>12, <2>14
  <2>18. UNCHANGED <<slot, started, op, lease, forced>> /\ n = Len(fc.frames) + 1
    BY <1>8 DEF n
  <2>19. QED
    BY <2>1, <2>5, <2>14, <2>15, <2>16, <2>17, <2>18, RemovalAddsStep
<1>9. QED
  BY <1>3, <1>4, <1>7, <1>8 DEF RemovesParticipant

\* The removal that has its turn
LEMMA RunRemovalStep ==
  ASSUME CarryInv, NEW o \in Operators, NEW fits \in BOOLEAN, RunRemoval(o, fits)
  PROVE  Kept
<1>1. removal[o].at = "asked" /\ UNCHANGED <<slot, started, op, forced>>
  BY DEF RunRemoval, RemovalDue
<1>2. CASE Removal(o, "none") /\ UNCHANGED <<fc, queue, call, lease>>
  BY <1>1, <1>2, OnlyRemoval
<1>3. CASE /\ lease.phase # "idle" /\ o \in Parts(fc, lease.frame) /\ RemovesParticipant(o)
  BY <1>1, <1>3, RemovesParticipantStep
<1>4. CASE /\ Sets(StrategyStop(fc, queue, op, o, fits)) /\ Removal(o, "done")
           /\ UNCHANGED <<call, lease>>
  BY <1>1, <1>4, RemovalLeavesStep
<1>5. QED
  BY <1>2, <1>3, <1>4 DEF RunRemoval

(***************************************************************************)
(* All steps                                                               *)
(***************************************************************************)

\* Before the first command there is nothing on its way.
LEMMA InitHolds ==
  ASSUME Init
  PROVE  CarryInv
<1>1. /\ slot = 1 /\ started = FALSE /\ queue = Empty /\ fc = NoFrames /\ lease = NoLease
      /\ forced = None /\ op = [o \in Operators |-> [tx |-> TRUE, epoch |-> 0]]
      /\ removal = [o \in Operators |-> [at |-> "none", epoch |-> 0]]
      /\ call = [f \in Frames |-> NoCall]
  BY DEF Init
<1>2. /\ fc.frames = <<>> /\ fc.phys = [s \in Slots |-> None] /\ fc.cand = [s \in Slots |-> None]
      /\ fc = [frames |-> <<>>, phys |-> [s \in Slots |-> None], cand |-> [s \in Slots |-> None]]
  BY <1>1 DEF NoFrames
<1>3. DOMAIN fc.frames = {} /\ Len(fc.frames) = 0
  BY <1>2
<1>4. fc \in Coordinator
  <2>1. [s \in Slots |-> None] \in [Slots -> Nat]
    BY DEF None
  <2>2. <<>> \in Seq(Frame)
    OBVIOUS
  <2>3. QED
    BY <2>1, <2>2, <1>2 DEF Coordinator
<1>5. Indexed(fc)
  BY <1>2, <1>3 DEF Indexed
<1>6. slot \in Slots /\ 0 \in 0..MaxCommands /\ 0 \in 0..MaxFrames /\ 0 <= MaxFrames
  BY <1>1, BoundsAssumption, MaxFramesAssumption DEF Slots
<1>7. op \in [Operators -> [tx : BOOLEAN, epoch : 0..MaxCommands]]
  BY <1>1, <1>6
<1>8. removal \in [Operators -> [at : {"none", "asked", "mixing", "stopping", "done"}, epoch : 0..MaxCommands]]
  BY <1>1, <1>6
<1>9. lease \in Lease
  BY <1>1, <1>6 DEF NoLease, Lease, None
<1>10. queue \in Messages /\ DOMAIN queue = {}
  BY <1>1, EmptyIsMessages
<1>11. call \in [Frames -> Call] /\ \A f \in Frames : call[f] = NoCall
  BY <1>1, NoCallIsCall
<1>12. started \in BOOLEAN /\ forced \in 0..MaxFrames
  BY <1>1, <1>6 DEF None
<1>13. TypeOK
  BY <1>3, <1>4, <1>5, <1>6, <1>7, <1>8, <1>9, <1>10, <1>11, <1>12 DEF TypeOK
<1>14. RoomHolds
  <2>1. Asked = {}
    BY <1>1 DEF Asked
  <2>2. Cardinality(Asked) = 0
    BY <2>1, FS_EmptySet
  <2>3. QED
    BY <2>2, <1>3, <1>6 DEF RoomHolds
<1>15. EpochsHold /\ SlotsHold
  BY <1>3, <1>10 DEF EpochsHold, SlotsHold, NotNewer
<1>16. /\ lease.phase = "idle" /\ lease.chain = <<>> /\ ~OnLease(None)
       /\ \A f : ~OnLease(f) /\ ~Listed(lease.chain, f)
  BY <1>1 DEF NoLease, OnLease, Listed
<1>17. LeaseHolds
  BY <1>1, <1>16 DEF LeaseHolds, IsInjective
<1>18. ASSUME NEW f \in Frames
       PROVE  CallHolds(f)
  <2>1. call[f] = NoCall
    BY <1>11
  <2>2. AwaitHolds(f)
    BY <2>1, <1>3, NoCallIsCall DEF AwaitHolds, OffLease
  <2>3. ShareHolds(f)
    BY <2>1, <1>16, NoCallIsCall DEF ShareHolds, CanContinue
  <2>4. TracksHold(f)
    BY <1>3 DEF TracksHold
  <2>5. QED
    BY <2>2, <2>3, <2>4 DEF CallHolds
<1>19. QED
  BY <1>13, <1>14, <1>15, <1>17, <1>18 DEF CarryInv

\* What is due goes on.
LEMMA ContinueStep ==
  ASSUME CarryInv, Continue
  PROVE  Kept
BY ForceStopEndsStep, LeaseEndedStep, RemovalStoppedStep, RunRemovalStep DEF Continue

\* Commands of an operator
LEMMA OperatorStep ==
  ASSUME CarryInv, NEW o \in Operators, Operator(o)
  PROVE  Kept
BY RemoveOperatorStep, StopOperatorStep, StartOperatorStep, EditStep, DecideStep DEF Operator

\* Encoding and mixing of a frame
LEMMA MixingStep ==
  ASSUME CarryInv, ~Due, NEW f \in Frames, Mixing(f)
  PROVE  Kept
BY EncodeDoneStep, EncodeFailsStep, TriggerStep, MixedStep, RemovalMixedStep DEF Mixing

\* Taking the transmitter, or the turn on its lease
LEMMA TakingStep ==
  ASSUME CarryInv, NEW f \in Frames, Taking(f)
  PROVE  Kept
<1>1. CASE Acquired(f) \/ EnterPlay(f) \/ NotActivated(f)
  BY <1>1, AcquiredStep, EnterPlayStep, NotActivatedStep
<1>2. ASSUME NEW b \in BOOLEAN, \/ AcquireFails(f, b) \/ FinalMixed(f, b) \/ Remixed(f, b)
                                \/ EnterReplace(f, b) \/ Activated(f, b)
      PROVE  Kept
  BY <1>2, AcquireFailsStep, FinalMixedStep, RemixedStep, EnterReplaceStep, ActivatedStep
<1>3. ASSUME NEW b \in BOOLEAN, NEW end \in {"over", "retry"}, OutputPrepared(f, b, end)
      PROVE  Kept
  BY <1>3, OutputPreparedStep
<1>4. QED
  BY <1>1, <1>2, <1>3 DEF Taking

\* The audio of a frame
LEMMA AudioStep ==
  ASSUME CarryInv, NEW f \in Frames, Audio(f)
  PROVE  Kept
BY AudioStartsStep, AudioEndsStep, TailEndsStep, AudioStartFailsStep, AudioFailsStep DEF Audio

\* What the transmitter does
LEMMA PhysicalStep ==
  ASSUME CarryInv, ~Due, Physical
  PROVE  Kept
<1>1. CASE Interrupt
  BY <1>1, StoppedStep DEF Interrupt
<1>2. CASE OutputFails
  BY <1>2, StoppedStep DEF OutputFails
<1>3. CASE ForceStopTransmission
  BY <1>3, ForceStopStep
<1>4. CASE RetryUnknownStop
  BY <1>4, RetryStep DEF Due
<1>5. ASSUME NEW confirmed \in BOOLEAN, Released(confirmed)
      PROVE  Kept
  BY <1>5, ReleasedStep
<1>6. QED
  BY <1>1, <1>2, <1>3, <1>4, <1>5 DEF Physical

\* The invariant is inductive, the queue goes on, and what has ended stays.
LEMMA NextStep ==
  ASSUME CarryInv, [Next]_vars
  PROVE  Kept
<1>1. CASE UNCHANGED vars
  BY <1>1, StutterStep
<1>2. CASE Continue
  BY <1>2, ContinueStep
<1>3. CASE ~Due /\ \E o \in Operators : Operator(o)
  BY <1>3, OperatorStep
<1>4. CASE ~Due /\ \E f \in Frames : Mixing(f) \/ Taking(f) \/ Audio(f)
  BY <1>4, MixingStep, TakingStep, AudioStep
<1>5. CASE ~Due /\ Slot
  BY <1>5, NextSlotStep, EncodeStartStep DEF Slot
<1>6. CASE ~Due /\ Physical
  BY <1>6, PhysicalStep
<1>7. QED
  BY <1>1, <1>2, <1>3, <1>4, <1>5, <1>6 DEF Next

\* What the invariant says of the candidates, the calls, the lease and the tracks
LEMMA InvShows ==
  ASSUME CarryInv
  PROVE  /\ TypeOK /\ CandidateIsCurrent /\ LiveIsCarried /\ OneOnAir /\ SoundIsOnAir
         /\ WholeOnAir
<1>1. TypeOK /\ Indexed(fc) /\ SlotsHold
  BY InvTypes DEF TypeOK
<1>2. /\ \A f \in DOMAIN fc.frames :
           AwaitHolds(f) /\ ShareHolds(f) /\ TracksHold(f)
      /\ \A f \in Frames : ShareHolds(f)
  BY InvTypes DEF CarryInv, CallHolds
<1>3. CandidateIsCurrent
  BY <1>1 DEF CandidateIsCurrent, Indexed, SlotsHold
<1>4. LiveIsCarried
  <2>1. ASSUME NEW f \in DOMAIN fc.frames, Phase(fc, f) \in Live
        PROVE  call[f].at \notin {"none", "sched", "mix", "ended"}
    <3>1. PhaseFits(call[f].at, Phase(fc, f))
      BY <2>1, <1>2 DEF AwaitHolds
    <3>2. QED
      BY <2>1, <3>1 DEF PhaseFits, Live, Ended
  <2>2. QED
    BY <2>1 DEF LiveIsCarried
<1>5. OneOnAir
  BY <1>2 DEF OneOnAir, ShareHolds
<1>6. SoundIsOnAir
  BY <1>2 DEF SoundIsOnAir, ShareHolds
<1>7. WholeOnAir
  BY <1>2 DEF WholeOnAir, TracksHold
<1>8. QED
  BY <1>1, <1>3, <1>4, <1>5, <1>6, <1>7

(***************************************************************************)
(* A stopped operator stays off the air                                    *)
(***************************************************************************)

\* The frames stay what they were made as, and none becomes a candidate again.
Made(c, d) ==
  /\ DOMAIN c.frames \subseteq DOMAIN d.frames
  /\ \A f \in DOMAIN c.frames :
       /\ d.frames[f].slot = c.frames[f].slot
       /\ d.frames[f].intents = c.frames[f].intents
       /\ d.frames[f].replaces = c.frames[f].replaces
       /\ Phase(d, f) \in Candidate => Phase(c, f) \in Candidate

\* ..., and none is added.
Thins(c, d) == Made(c, d) /\ DOMAIN d.frames = DOMAIN c.frames

\* Why a message of a stopped operator may be sent does not cease.
LEMMA MayStill ==
  ASSUME Good(fc), Made(fc, fc'), NEW f \in DOMAIN fc.frames, NEW o
  PROVE  /\ SentAlready(f, o) => SentAlready(f, o)'
         /\ Outrun(f, o) => Outrun(f, o)'
<1>1. f \in Nat /\ fc.frames[f].replaces < f /\ fc.frames[f].replaces \in Nat
  <2>1. f \in Nat /\ fc.frames[f] \in Frame
    BY Places DEF Good
  <2>2. fc.frames[f].replaces < f
    BY DEF Good, Indexed
  <2>3. QED
    BY <2>1, <2>2, FrameFields
<1>2. /\ fc'.frames[f].slot = fc.frames[f].slot /\ fc'.frames[f].intents = fc.frames[f].intents
      /\ fc'.frames[f].replaces = fc.frames[f].replaces
  BY DEF Made
<1>3. SentAlready(f, o) => SentAlready(f, o)'
  <2> DEFINE p == fc.frames[f].replaces
  <2>1. CASE SentAlready(f, o)
    <3>1. p # None /\ o \in Parts(fc, p) /\ Intents(fc, p)[o] = Intents(fc, f)[o]
      BY <2>1 DEF SentAlready
    <3>2. p \in DOMAIN fc.frames
      <4>1. DOMAIN fc.frames = 1..Len(fc.frames) /\ Len(fc.frames) \in Nat /\ f <= Len(fc.frames)
        BY Places DEF Good
      <4>2. p \in Nat /\ p # 0 /\ p < f
        BY <1>1, <3>1 DEF None
      <4> HIDE DEF p
      <4>3. QED
        BY <4>1, <4>2, <1>1
    <3>3. fc'.frames[p].intents = fc.frames[p].intents
      BY <3>2 DEF Made
    <3>4. fc'.frames[f].replaces = p
      BY <1>2
    <3> HIDE DEF p
    <3>5. QED
      BY <3>1, <3>3, <3>4, <1>2 DEF SentAlready, Parts, Intents
  <2>2. QED
    BY <2>1
<1>4. Outrun(f, o) => Outrun(f, o)'
  <2>1. ASSUME NEW g \in DOMAIN fc.frames, f < g, o \in Parts(fc, g),
               fc.frames[g].slot < fc.frames[f].slot
        PROVE  Outrun(f, o)'
    <3>1. /\ fc'.frames[g].slot = fc.frames[g].slot /\ fc'.frames[g].intents = fc.frames[g].intents
          /\ g \in DOMAIN fc'.frames
      BY DEF Made
    <3>2. QED
      BY <2>1, <3>1, <1>2 DEF Outrun, Parts, Intents
  <2>2. QED
    BY <2>1 DEF Outrun
<1>5. QED
  BY <1>3, <1>4

\* What a step does to the frames and the operators, and what it leaves to show
LEMMA OffStep ==
  ASSUME CarryInv, CarryInv', OffHolds, slot' = slot, Made(fc, fc'),
         \A n \in DOMAIN fc'.frames \ DOMAIN fc.frames :
           /\ fc'.frames[n].slot <= slot
           /\ Phase(fc', n) \in Candidate =>
                /\ \A o \in Parts(fc', n) : MaySend(n, o)'
                /\ fc'.frames[n].slot = slot \/ \A o \in Parts(fc', n) : SentAlready(n, o)'
           /\ \A f \in DOMAIN fc'.frames :
                (Phase(fc', f) \in Candidate /\ f # n) => fc'.frames[f].slot # fc'.frames[n].slot,
         \A o \in Operators :
           \/ op[o].tx \/ Removed(o) => op'[o].tx \/ Removed(o)'
           \/ \A f \in DOMAIN fc.frames :
                (Phase(fc', f) \in Candidate /\ o \in Parts(fc, f)) => MaySend(f, o)'
  PROVE  OffHolds'
<1>1. Good(fc) /\ Good(fc')
  BY InvTypes DEF CarryInv, TypeOK, Good
<1>2. ASSUME NEW f \in DOMAIN fc.frames
      PROVE  /\ fc'.frames[f].slot = fc.frames[f].slot /\ Parts(fc', f) = Parts(fc, f)
             /\ Phase(fc', f) \in Candidate => Phase(fc, f) \in Candidate
             /\ fc.frames[f].slot <= slot
             /\ Parts(fc, f) \subseteq Operators
  <2>1. fc.frames[f].slot <= slot
    BY DEF OffHolds
  <2>2. Parts(fc, f) \subseteq Operators
    BY <1>1, IntentsAre DEF Good
  <2>3. QED
    BY <2>1, <2>2 DEF Made, Parts, Intents
<1>3. ASSUME NEW f \in DOMAIN fc.frames, Phase(fc', f) \in Candidate
      PROVE  /\ \A o \in Parts(fc', f) : MaySend(f, o)'
             /\ fc'.frames[f].slot = slot \/ \A o \in Parts(fc', f) : SentAlready(f, o)'
             /\ \A g \in DOMAIN fc.frames : f < g => fc'.frames[g].slot # fc'.frames[f].slot
  <2>1. /\ \A o \in Parts(fc, f) : MaySend(f, o)
        /\ fc.frames[f].slot = slot \/ \A o \in Parts(fc, f) : SentAlready(f, o)
        /\ \A g \in DOMAIN fc.frames : f < g => fc.frames[g].slot # fc.frames[f].slot
    BY <1>2, <1>3 DEF OffHolds
  <2>2. \A o : /\ SentAlready(f, o) => SentAlready(f, o)'
               /\ Outrun(f, o) => Outrun(f, o)'
    BY <1>1, MayStill
  <2>3. ASSUME NEW o \in Parts(fc, f)
        PROVE  MaySend(f, o)'
    <3>1. o \in Operators /\ MaySend(f, o)
      BY <1>2, <2>1
    <3>2. CASE op[o].tx \/ Removed(o) => op'[o].tx \/ Removed(o)'
      BY <2>2, <3>1, <3>2 DEF MaySend
    <3>3. CASE \A h \in DOMAIN fc.frames :
                 (Phase(fc', h) \in Candidate /\ o \in Parts(fc, h)) => MaySend(h, o)'
      BY <1>3, <3>3
    <3>4. QED
      BY <3>1, <3>2, <3>3
  <2>4. \A g \in DOMAIN fc.frames : fc'.frames[g].slot = fc.frames[g].slot
    BY <1>2
  <2>5. Parts(fc', f) = Parts(fc, f)
    BY <1>2
  <2>6. QED
    BY <2>1, <2>2, <2>3, <2>4, <2>5
<1>4. ASSUME NEW f \in DOMAIN fc'.frames \ DOMAIN fc.frames, NEW g \in DOMAIN fc.frames
      PROVE  ~(f < g)
  <2>1. /\ DOMAIN fc.frames = 1..Len(fc.frames) /\ Len(fc.frames) \in Nat
        /\ DOMAIN fc'.frames = 1..Len(fc'.frames) /\ Len(fc'.frames) \in Nat
    BY <1>1, Places DEF Good
  <2>2. QED
    BY <2>1
<1>5. ASSUME NEW f \in DOMAIN fc'.frames, NEW g \in DOMAIN fc'.frames,
             Phase(fc', f) \in Candidate, f < g
      PROVE  fc'.frames[g].slot # fc'.frames[f].slot
  <2>1. f # g
    <3>1. f \in Nat
      BY <1>1, Places DEF Good
    <3>2. QED
      BY <1>5, <3>1
  <2>2. CASE g \notin DOMAIN fc.frames
    BY <2>1, <2>2, <1>5
  <2>3. CASE g \in DOMAIN fc.frames
    BY <2>3, <1>3, <1>4, <1>5
  <2>4. QED
    BY <2>2, <2>3
<1>6. ASSUME NEW f \in DOMAIN fc'.frames
      PROVE  /\ fc'.frames[f].slot <= slot'
             /\ Phase(fc', f) \in Candidate =>
                  /\ \A o \in Parts(fc', f) : MaySend(f, o)'
                  /\ fc'.frames[f].slot = slot' \/ \A o \in Parts(fc', f) : SentAlready(f, o)'
  <2>1. CASE f \in DOMAIN fc.frames
    BY <2>1, <1>2, <1>3
  <2>2. CASE f \notin DOMAIN fc.frames
    BY <2>2
  <2>3. QED
    BY <2>1, <2>2
<1>7. QED
  BY <1>5, <1>6 DEF OffHolds

\* A step that adds no frame and takes no operator's leave
LEMMA QuietStep ==
  ASSUME CarryInv, CarryInv', OffHolds, slot' = slot, op' = op, Thins(fc, fc'),
         \A o \in Operators : Removed(o) => Removed(o)'
  PROVE  OffHolds'
<1>1. Made(fc, fc') /\ DOMAIN fc'.frames \ DOMAIN fc.frames = {}
  BY DEF Thins
<1>2. \A o \in Operators : op[o].tx \/ Removed(o) => op'[o].tx \/ Removed(o)'
  OBVIOUS
<1>3. QED
  BY <1>1, <1>2, OffStep

\* A frame that is alone in what happens to it
LEMMA AloneThins ==
  ASSUME NEW c, NEW d, NEW f \in DOMAIN c.frames, Good(c), Good(d), Alone(c, d, f),
         Phase(d, f) \in Candidate => Phase(c, f) \in Candidate
  PROVE  Thins(c, d)
<1>1. DOMAIN d.frames = DOMAIN c.frames
  BY Places DEF Good, Alone
<1>2. QED
  BY <1>1 DEF Alone, Thins, Made, Phase

\* A frame that ends
LEMMA EndsThins ==
  ASSUME NEW c, NEW d, NEW f \in DOMAIN c.frames, Good(c), Ends(c, d, f)
  PROVE  Thins(c, d)
<1>1. Phase(d, f) \in Candidate => Phase(c, f) \in Candidate
  BY PhasesDiffer DEF Ends
<1>2. QED
  BY <1>1, AloneThins DEF Ends

\* Nothing happens.
LEMMA ThinsItself == \A c : Thins(c, c)
BY DEF Thins, Made

\* A call that returns, with what is left when its frame has ended
LEMMA SettledThins ==
  ASSUME CarryInv, NEW f \in DOMAIN fc.frames, NEW book, Returns(f, book),
         Settled(fc, queue, book, f)
  PROVE  Thins(fc, fc')
<1>1. fc' = book.fc /\ Good(fc)
  BY InvTypes DEF Returns, Writes, Sets
<1>2. QED
  BY <1>1, EndsThins DEF Settled

\* A frame that is finished or deferred
LEMMA ReturnThins ==
  ASSUME CarryInv, NEW f \in DOMAIN fc.frames, NEW result,
         Returns(f, Finished(fc, queue, f, result)) \/ Returns(f, Deferred(fc, queue, f))
  PROVE  Thins(fc, fc')
<1>1. Good(fc) /\ queue \in Messages /\ NotNewer(queue, op) /\ Timely(fc, op)
  BY InvTypes
<1>2. /\ Settled(fc, queue, Finished(fc, queue, f, result), f)
      /\ Settled(fc, queue, Deferred(fc, queue, f), f)
  BY <1>1, FinishedSettles, DeferredSettles
<1>3. QED
  BY <1>2, SettledThins

\* A lease that is cut
LEMMA CutThins ==
  ASSUME CarryInv, NEW f \in DOMAIN fc.frames, NEW then, CutsLease(f, then)
  PROVE  Thins(fc, fc')
<1>1. CASE fc' = fc
  BY <1>1, ThinsItself
<1>2. CASE \/ Returns(f, Finished(fc, queue, f, "over"))
           \/ Returns(f, Deferred(fc, queue, f))
  BY <1>2, ReturnThins
<1>3. QED
  BY <1>1, <1>2 DEF CutsLease

\* A handover that fails, or is refused
LEMMA ReplaceThins ==
  ASSUME CarryInv, NEW f \in DOMAIN fc.frames, NEW end,
         ReplaceFails(f, end) \/ ReplaceRefused(f)
  PROVE  Thins(fc, fc')
<1>1. CASE ReplaceFails(f, end)
  <2>1. CASE fc' = fc
    BY <2>1, ThinsItself
  <2>2. CASE Returns(f, Finished(fc, queue, f, "over"))
    BY <2>2, ReturnThins
  <2>3. QED
    BY <1>1, <2>1, <2>2 DEF ReplaceFails
<1>2. CASE ReplaceRefused(f)
  <2> DEFINE b == Deferred(fc, queue, f)
             d == Finished(b.fc, b.queue, f, "continues")
  <2>1. Returns(f, d)
    BY <1>2 DEF ReplaceRefused
  <2>2. Good(fc) /\ queue \in Messages /\ NotNewer(queue, op) /\ Timely(fc, op)
    BY InvTypes
  <2>3. Settled(fc, queue, b, f)
    BY <2>2, DeferredSettles
  <2> HIDE DEF b
  <2>4. Thins(fc, b.fc) /\ Good(b.fc) /\ b.queue \in Messages /\ NotNewer(b.queue, op)
    BY <2>2, <2>3, EndsThins DEF Settled, Ends
  <2>5. f \in DOMAIN b.fc.frames /\ Timely(b.fc, op)
    BY <2>2, <2>4 DEF Thins, Made, Timely, Intents
  <2>6. Settled(b.fc, b.queue, d, f)
    BY <2>4, <2>5, FinishedSettles
  <2>7. Settled(fc, queue, d, f)
    BY <2>3, <2>6, SettledTwice
  <2> HIDE DEF d
  <2>8. QED
    BY <2>1, <2>7, SettledThins
<1>3. QED
  BY <1>1, <1>2

\* The encodes of a frame, and its scheduled mix
LEMMA EncodingThins ==
  ASSUME CarryInv, NEW f \in Frames, NEW o, NEW soon,
         EncodeDone(f, o, soon) \/ EncodeFails(f) \/ TriggerScheduledMix(f)
  PROVE  Thins(fc, fc')
<1>1. Good(fc)
  BY InvTypes
<1>2. CASE EncodeDone(f, o, soon)
  <2>1. f \in DOMAIN fc.frames /\ o \in Parts(fc, f) /\ fc' = AcceptEncode(fc, f, o)
    BY <1>2 DEF EncodeDone
  <2>2. /\ Good(fc') /\ Alone(fc, fc', f)
        /\ Phase(fc, f) # "encoding" => fc' = fc
    BY <1>1, <2>1, AcceptAccepts
  <2>3. Phase(fc', f) \in Candidate => Phase(fc, f) \in Candidate
    BY <2>2, PhasesDiffer
  <2>4. QED
    BY <1>1, <2>1, <2>2, <2>3, AloneThins
<1>3. CASE EncodeFails(f)
  <2>1. f \in DOMAIN fc.frames /\ fc' = CancelFrame(fc, f)
    BY <1>3 DEF EncodeFails
  <2>2. Ends(fc, fc', f)
    BY <1>1, <2>1, CancelCancels
  <2>3. QED
    BY <1>1, <2>1, <2>2, EndsThins
<1>4. CASE TriggerScheduledMix(f)
  BY <1>4, ThinsItself DEF TriggerScheduledMix
<1>5. QED
  BY <1>2, <1>3, <1>4

\* The steps of taking the transmitter leave the slot, the operators and the removals.
LEMMA TakingThins ==
  ASSUME CarryInv, NEW f \in Frames, Taking(f)
  PROVE  Thins(fc, fc') /\ UNCHANGED <<slot, op, removal>>
<1>1. call[f].at # "none" => f \in DOMAIN fc.frames /\ Good(fc)
  BY HasFrame, InvTypes
<1>2. CASE Acquired(f)
  BY <1>2, ThinsItself DEF Acquired
<1>3. CASE EnterPlay(f)
  <2>1. f \in DOMAIN fc.frames
    BY <1>1, <1>3 DEF EnterPlay
  <2>2. \/ CutsLease(f, "fail")
        \/ Returns(f, Finished(fc, queue, f, "continues")) \/ fc' = fc
    BY <1>3 DEF EnterPlay
  <2>3. QED
    BY <1>3, <2>1, <2>2, CutThins, ReturnThins, ThinsItself DEF EnterPlay
<1>4. CASE NotActivated(f)
  <2>1. f \in DOMAIN fc.frames /\ ReplaceFails(f, "over")
    BY <1>1, <1>4 DEF NotActivated
  <2>2. QED
    BY <1>4, <2>1, ReplaceThins DEF NotActivated
<1>5. ASSUME NEW b \in BOOLEAN, AcquireFails(f, b)
      PROVE  Thins(fc, fc') /\ UNCHANGED <<slot, op, removal>>
  <2>1. f \in DOMAIN fc.frames
    BY <1>1, <1>5 DEF AcquireFails
  <2>2. QED
    BY <1>5, <2>1, CutThins DEF AcquireFails
<1>6. ASSUME NEW b \in BOOLEAN, FinalMixed(f, b)
      PROVE  Thins(fc, fc') /\ UNCHANGED <<slot, op, removal>>
  <2>1. f \in DOMAIN fc.frames
    BY <1>1, <1>6 DEF FinalMixed
  <2>2. CutsLease(f, "defer") \/ CutsLease(f, "fail") \/ fc' = fc
    BY <1>6 DEF FinalMixed
  <2>3. QED
    BY <1>6, <2>1, <2>2, CutThins, ThinsItself DEF FinalMixed
<1>7. ASSUME NEW b \in BOOLEAN, Remixed(f, b)
      PROVE  Thins(fc, fc') /\ UNCHANGED <<slot, op, removal>>
  <2>1. f \in DOMAIN fc.frames
    BY <1>1, <1>7 DEF Remixed
  <2>2. Returns(f, Deferred(fc, queue, f)) \/ fc' = fc
    BY <1>7 DEF Remixed
  <2>3. QED
    BY <1>7, <2>1, <2>2, ReturnThins, ThinsItself DEF Remixed
<1>8. ASSUME f \in DOMAIN fc.frames, NEW b \in BOOLEAN, HandOver(f, b)
      PROVE  Thins(fc, fc')
  <2>1. CASE ReplaceRefused(f)
    BY <1>8, <2>1, ReplaceThins
  <2>2. CASE Writes(Book(Commits(f), queue))
    <3>1. fc' = Commit(fc, f) /\ Good(fc)
      BY <2>2, BookFields, InvTypes DEF Writes, Sets, Commits
    <3>2. /\ Good(fc') /\ Alone(fc, fc', f)
          /\ Phase(fc, f) = "prepared" => Phase(fc', f) = "committed"
          /\ Phase(fc, f) # "prepared" => fc' = fc
      BY <3>1, <1>8, CommitCommits
    <3>3. Phase(fc', f) \in Candidate => Phase(fc, f) \in Candidate
      BY <3>2, PhasesDiffer
    <3>4. QED
      BY <1>8, <3>1, <3>2, <3>3, AloneThins
  <2>3. QED
    BY <1>8, <2>1, <2>2 DEF HandOver
<1>9. ASSUME NEW b \in BOOLEAN, EnterReplace(f, b)
      PROVE  Thins(fc, fc') /\ UNCHANGED <<slot, op, removal>>
  <2>1. f \in DOMAIN fc.frames
    BY <1>1, <1>9 DEF EnterReplace
  <2>2. ReplaceFails(f, "over") \/ ReplaceRefused(f) \/ fc' = fc \/ HandOver(f, b)
    BY <1>9 DEF EnterReplace
  <2>3. QED
    BY <1>9, <2>1, <2>2, <1>8, ReplaceThins, ThinsItself DEF EnterReplace
<1>10. ASSUME NEW b \in BOOLEAN, Activated(f, b)
       PROVE  Thins(fc, fc') /\ UNCHANGED <<slot, op, removal>>
  <2>1. f \in DOMAIN fc.frames
    BY <1>1, <1>10 DEF Activated
  <2>2. QED
    BY <1>10, <2>1, <1>8, ReplaceThins DEF Activated
<1>11. ASSUME NEW b \in BOOLEAN, NEW end \in {"over", "retry"}, OutputPrepared(f, b, end)
       PROVE  Thins(fc, fc') /\ UNCHANGED <<slot, op, removal>>
  <2>1. f \in DOMAIN fc.frames
    BY <1>1, <1>11 DEF OutputPrepared
  <2>2. fc' = fc \/ ReplaceFails(f, end)
    BY <1>11 DEF OutputPrepared
  <2>3. QED
    BY <1>11, <2>1, <2>2, ReplaceThins, ThinsItself DEF OutputPrepared
<1>12. QED
  BY <1>2, <1>3, <1>4, <1>5, <1>6, <1>7, <1>9, <1>10, <1>11 DEF Taking

\* The audio of a frame
LEMMA AudioThins ==
  ASSUME CarryInv, NEW f \in Frames, Audio(f)
  PROVE  Thins(fc, fc') /\ UNCHANGED <<slot, op, removal>>
<1>1. call[f].at # "none" => f \in DOMAIN fc.frames
  BY HasFrame
<1>2. Good(fc)
  BY InvTypes
<1>3. CASE AudioStarts(f)
  <2>1. f \in DOMAIN fc.frames /\ fc' = MarkOnAir(fc, f)
    BY <1>1, <1>3 DEF AudioStarts
  <2>2. CASE Phase(fc, f) # "committed"
    BY <1>3, <2>1, <2>2, ThinsItself DEF MarkOnAir, AudioStarts
  <2>3. CASE Phase(fc, f) = "committed"
    <3> DEFINE p == fc.frames[f].replaces
    <3>1. /\ Good(fc') /\ Len(fc'.frames) = Len(fc.frames)
          /\ Phase(fc', f) = "on_air"
          /\ \A g \in DOMAIN fc.frames :
               /\ fc'.frames[g].slot = fc.frames[g].slot
               /\ fc'.frames[g].intents = fc.frames[g].intents
               /\ fc'.frames[g].replaces = fc.frames[g].replaces
               /\ g \notin {f, p} => fc'.frames[g] = fc.frames[g]
          /\ p # None => p \in DOMAIN fc.frames /\ p # f /\ Phase(fc', p) \in Ended
      BY <1>2, <2>1, <2>3, OnAirMarks
    <3>2. DOMAIN fc'.frames = DOMAIN fc.frames
      BY <1>2, <3>1, Places DEF Good
    <3>3. None \notin DOMAIN fc.frames
      BY <1>2, Places DEF Good
    <3> HIDE DEF p
    <3>4. ASSUME NEW g \in DOMAIN fc.frames, Phase(fc', g) \in Candidate
          PROVE  Phase(fc, g) \in Candidate
      <4>1. g # f /\ g # p
        BY <3>1, <3>3, <3>4, PhasesDiffer
      <4>2. fc'.frames[g] = fc.frames[g]
        BY <3>1, <4>1
      <4>3. QED
        BY <3>4, <4>2 DEF Phase
    <3>5. QED
      BY <1>3, <3>1, <3>2, <3>4 DEF Thins, Made, AudioStarts
  <2>4. QED
    BY <2>2, <2>3
<1>4. CASE AudioEnds(f)
  <2>1. f \in DOMAIN fc.frames
    BY <1>1, <1>4 DEF AudioEnds
  <2>2. CASE Returns(f, Finished(fc, queue, f, "continues")) \/ fc' = fc
    BY <1>4, <2>1, <2>2, ReturnThins, ThinsItself DEF AudioEnds
  <2>3. CASE OnLease(f) /\ Writes(Book(MarkDraining(fc, lease.frame), queue))
    <3> DEFINE h == lease.frame
    <3>1. h \in DOMAIN fc.frames
      BY <2>3 DEF OnLease, CarryInv, LeaseHolds
    <3>2. fc' = MarkDraining(fc, h)
      BY <2>3, BookFields DEF Writes, Sets
    <3> HIDE DEF h
    <3>3. /\ Good(fc') /\ Alone(fc, fc', h)
          /\ Phase(fc, h) = "on_air" => Phase(fc', h) = "draining"
          /\ Phase(fc, h) # "on_air" => fc' = fc
      BY <1>2, <3>1, <3>2, DrainingDrains
    <3>4. Phase(fc', h) \in Candidate => Phase(fc, h) \in Candidate
      BY <3>3, PhasesDiffer
    <3>5. Thins(fc, fc')
      BY <1>2, <3>1, <3>3, <3>4, AloneThins
    <3>6. QED
      BY <1>4, <3>5 DEF AudioEnds
  <2>4. QED
    BY <1>4, <2>2, <2>3 DEF AudioEnds
<1>5. CASE TailEnds(f)
  <2>1. f \in DOMAIN fc.frames
    BY <1>1, <1>5 DEF TailEnds
  <2>2. Returns(f, Finished(fc, queue, f, "continues")) \/ fc' = fc
    BY <1>5 DEF TailEnds
  <2>3. QED
    BY <1>5, <2>1, <2>2, ReturnThins, ThinsItself DEF TailEnds
<1>6. ASSUME NEW end \in {"over", "retry"}, AudioStartFails(f, end) \/ AudioFails(f, end)
      PROVE  Thins(fc, fc') /\ UNCHANGED <<slot, op, removal>>
  BY <1>6, ThinsItself DEF AudioStartFails, AudioFails
<1>7. QED
  BY <1>3, <1>4, <1>5, <1>6 DEF Audio

\* The frame whose mix is done
LEMMA HandleMixedThins ==
  ASSUME CarryInv, NEW f \in DOMAIN fc.frames, NEW fits, NEW refused,
         HandleMixed(f, fits, refused)
  PROVE  Thins(fc, fc')
<1>1. Good(fc) /\ queue \in Messages /\ NotNewer(queue, op) /\ Timely(fc, op)
  BY InvTypes
<1>2. \A phase \in {"prepared", "committed"} : phase \in Candidate \cup Live \cup Ended
  BY PhasesDiffer
<1>3. CASE Returns(f, Book(fc, queue))
  <2>1. fc' = fc
    BY <1>3, BookFields DEF Returns, Writes, Sets
  <2>2. QED
    BY <2>1, ThinsItself
<1>4. CASE Returns(f, Book(CompleteFrame(fc, f), queue))
  <2>1. fc' = CompleteFrame(fc, f)
    BY <1>4, BookFields DEF Returns, Writes, Sets
  <2>2. QED
    BY <1>1, <2>1, CompleteCompletes, EndsThins
<1>5. CASE Returns(f, Deferred(fc, queue, f))
  BY <1>5, ReturnThins
<1> DEFINE c == SetPhase(fc, f, "prepared")
<1>6. CASE Phase(fc, f) = "ready"
  <2>1. c \in Coordinator /\ Alone(fc, c, f) /\ Phase(c, f) = "prepared"
    BY <1>1, <1>2, SetPhaseSets
  <2>2. Good(c)
    BY <1>1, <1>6, PhasesDiffer, SetPhaseIsGood
  <2>3. Phase(fc, f) \in Candidate
    BY <1>6, PhasesDiffer
  <2> HIDE DEF c
  <2>4. Thins(fc, c)
    BY <1>1, <2>1, <2>2, <2>3, AloneThins
  <2>5. CASE Writes(Book(c, queue))
    BY <2>4, <2>5, BookFields DEF Writes, Sets
  <2>6. CASE AcquiresLease(f, refused)
    <3> DEFINE d == Commit(c, f)
    <3>1. f \in DOMAIN c.frames
      BY <2>4 DEF Thins
    <3>2. Good(d) /\ Alone(c, d, f) /\ Phase(d, f) = "committed"
      BY <2>1, <2>2, <3>1, CommitCommits
    <3>3. Phase(d, f) \in Candidate => Phase(c, f) \in Candidate
      BY <3>2, PhasesDiffer
    <3>4. AcquiresLease(f, refused) => \/ Returns(f, Deferred(d, queue, f))
                                       \/ Writes(Book(d, queue))
      BY DEF AcquiresLease, c
    <3> HIDE DEF d
    <3>5. Thins(c, d)
      BY <2>2, <3>1, <3>2, <3>3, AloneThins
    <3>6. Thins(fc, d)
      BY <2>4, <3>5 DEF Thins, Made
    <3>7. CASE Writes(Book(d, queue))
      BY <3>6, <3>7, BookFields DEF Writes, Sets
    <3>8. CASE Returns(f, Deferred(d, queue, f))
      <4>1. Timely(d, op) /\ f \in DOMAIN d.frames
        BY <1>1, <3>6 DEF Thins, Made, Timely, Intents
      <4>2. Settled(d, queue, Deferred(d, queue, f), f)
        BY <1>1, <3>2, <4>1, DeferredSettles
      <4>3. fc' = Deferred(d, queue, f).fc
        BY <3>8 DEF Returns, Writes, Sets
      <4>4. Thins(d, fc')
        BY <3>2, <4>1, <4>2, <4>3, EndsThins DEF Settled
      <4>5. QED
        BY <3>6, <4>4 DEF Thins, Made
    <3>9. QED
      BY <2>6, <3>4, <3>7, <3>8
  <2>7. QED
    BY <1>3, <1>4, <1>5, <1>6, <2>5, <2>6 DEF HandleMixed, c
<1>7. CASE Phase(fc, f) # "ready"
  BY <1>3, <1>7 DEF HandleMixed
<1>8. QED
  BY <1>6, <1>7

\* A mix that is done, of a frame that no removal waits for
LEMMA MixedThins ==
  ASSUME CarryInv, NEW f \in Frames, NEW left \in BOOLEAN, NEW fits \in BOOLEAN,
         NEW refused \in BOOLEAN, Mixed(f, left, fits, refused)
  PROVE  Thins(fc, fc') /\ UNCHANGED <<slot, op, removal>>
<1>1. f \in DOMAIN fc.frames
  BY HasFrame DEF Mixed
<1>2. CASE HandleMixed(f, fits, refused)
  BY <1>1, <1>2, HandleMixedThins DEF Mixed
<1>3. CASE Returns(f, Book(fc, queue))
  <2>1. fc' = fc
    BY <1>3, BookFields DEF Returns, Writes, Sets
  <2>2. QED
    BY <2>1, ThinsItself DEF Mixed
<1>4. QED
  BY <1>2, <1>3 DEF Mixed

\* A removal that goes on has its command, unless a newer one came.
LEMMA RemovalGoesOn ==
  ASSUME CarryInv, op' = op, NEW o \in Operators, NEW at, Removal(o, at),
         at # "none" \/ ~IsRemovalCommandCurrent(o)
  PROVE  \A p \in Operators : Removed(p) => Removed(p)'
<1>1. removal \in Removals
  BY InvTypes
<1>2. removal' = [removal EXCEPT ![o].at = at]
  BY DEF Removal
<1>3. \A p \in Operators \ {o} : removal'[p] = removal[p]
  BY <1>1, <1>2 DEF Removals
<1>4. removal'[o].at = at /\ removal'[o].epoch = removal[o].epoch
  BY <1>1, <1>2 DEF Removals
<1>5. Removed(o) => Removed(o)'
  BY <1>4 DEF Removed, IsRemovalCommandCurrent
<1>6. QED
  BY <1>3, <1>5 DEF Removed

\* The mix that a removal waits for
LEMMA RemovalMixedOff ==
  ASSUME CarryInv, CarryInv', OffHolds, NEW f \in Frames, NEW left \in BOOLEAN,
         NEW fits \in BOOLEAN, NEW refused \in BOOLEAN, RemovalMixed(f, left, fits, refused)
  PROVE  OffHolds'
<1>1. f \in DOMAIN fc.frames /\ UNCHANGED <<slot, op>> /\ call[f].by \subseteq Operators
  <2>1. call[f] \in Call
    BY InvTypes
  <2>2. QED
    BY <2>1, HasFrame DEF RemovalMixed, Call
<1>2. PICK o \in call[f].by :
       IF ~IsRemovalCommandCurrent(o)
       THEN /\ Returns(f, Book(CancelFrame(fc, f), queue))
            /\ Removal(o, "none") /\ UNCHANGED lease
       ELSE /\ Removal(o, "done")
            /\ IF left THEN HandleMixed(f, fits, refused)
               ELSE Returns(f, Deferred(fc, queue, f)) /\ UNCHANGED lease
  BY DEF RemovalMixed
<1>3. \A p \in Operators : Removed(p) => Removed(p)'
  BY <1>1, <1>2, RemovalGoesOn
<1>4. Thins(fc, fc')
  <2>1. CASE Returns(f, Book(CancelFrame(fc, f), queue))
    <3>1. fc' = CancelFrame(fc, f) /\ Good(fc)
      BY <2>1, BookFields, InvTypes DEF Returns, Writes, Sets
    <3>2. QED
      BY <1>1, <3>1, CancelCancels, EndsThins
  <2>2. CASE HandleMixed(f, fits, refused)
    BY <1>1, <2>2, HandleMixedThins
  <2>3. CASE Returns(f, Deferred(fc, queue, f))
    BY <1>1, <2>3, ReturnThins
  <2>4. QED
    BY <1>2, <2>1, <2>2, <2>3
<1>5. QED
  BY <1>1, <1>3, <1>4, QuietStep

\* A forced stop, an interruption and the end of a release
LEMMA PhysicalThins ==
  ASSUME CarryInv, Physical \/ ForceStopEnds
  PROVE  Thins(fc, fc') /\ UNCHANGED <<slot, op, removal>>
<1>1. Good(fc)
  BY InvTypes
<1>2. ASSUME fc' = fc \/ fc' = CacheCleared(fc)
      PROVE  Thins(fc, fc')
  <2>1. CASE fc' = fc
    BY <2>1, ThinsItself
  <2>2. CASE fc' = CacheCleared(fc)
    <3>1. /\ DOMAIN fc'.frames = DOMAIN fc.frames
          /\ \A g \in DOMAIN fc.frames :
               /\ fc'.frames[g].slot = fc.frames[g].slot
               /\ fc'.frames[g].intents = fc.frames[g].intents
               /\ fc'.frames[g].replaces = fc.frames[g].replaces
               /\ Phase(fc', g) = Phase(fc, g)
      BY <1>1, <2>2, CacheClears
    <3>2. QED
      BY <3>1 DEF Thins, Made
  <2>3. QED
    BY <1>2, <2>1, <2>2
<1>3. CASE Interrupt \/ OutputFails \/ RetryUnknownStop
  BY <1>2, <1>3 DEF Interrupt, OutputFails, RetryUnknownStop
<1>4. CASE ForceStopTransmission
  BY <1>2, <1>4 DEF ForceStopTransmission
<1>5. ASSUME NEW confirmed \in BOOLEAN, Released(confirmed)
      PROVE  Thins(fc, fc') /\ UNCHANGED <<slot, op, removal>>
  BY <1>2, <1>5 DEF Released
<1>6. CASE ForceStopEnds
  BY <1>2, <1>6 DEF ForceStopEnds
<1>7. QED
  BY <1>3, <1>4, <1>5, <1>6 DEF Physical

\* When a slot begins there is no candidate of it yet, and none of another is left.
LEMMA NextSlotOff ==
  ASSUME CarryInv, OffHolds, NextSlot
  PROVE  OffHolds'
<1> DEFINE c == CancelPreCommitOutside(fc, slot')
<1>1. slot' = slot + 1 /\ slot \in Nat /\ Good(fc)
  BY InvTypes, BoundsAssumption DEF NextSlot, Slots
<1>2. /\ Good(c) /\ DOMAIN c.frames = DOMAIN fc.frames
      /\ \A g \in DOMAIN fc.frames : Stays(fc.frames[g], c.frames[g])
      /\ \A g \in DOMAIN c.frames : Phase(c, g) \in Candidate => c.frames[g].slot = slot'
  BY <1>1, CancelOutsideCancels
<1>3. fc' = c \/ fc' = CacheCleared(c)
  BY DEF NextSlot
<1> HIDE DEF c
<1>4. /\ DOMAIN fc'.frames = DOMAIN c.frames
      /\ \A g \in DOMAIN c.frames :
           /\ fc'.frames[g].slot = c.frames[g].slot
           /\ Phase(fc', g) = Phase(c, g)
  BY <1>2, <1>3, CacheClears
<1>5. ASSUME NEW g \in DOMAIN fc'.frames
      PROVE  fc'.frames[g].slot <= slot /\ fc'.frames[g].slot \in Nat
  <2>1. g \in DOMAIN fc.frames /\ fc.frames[g] \in Frame /\ Stays(fc.frames[g], c.frames[g])
    BY <1>1, <1>2, <1>4, Places DEF Good
  <2>2. fc'.frames[g].slot = fc.frames[g].slot
    BY <1>2, <1>4, <2>1, StaysFields
  <2>3. fc.frames[g].slot \in Nat
    BY <2>1, FrameFields, BoundsAssumption DEF Slots
  <2>4. fc.frames[g].slot <= slot
    BY <2>1 DEF OffHolds
  <2>5. QED
    BY <2>2, <2>3, <2>4
<1>6. ASSUME NEW g \in DOMAIN fc'.frames
      PROVE  fc'.frames[g].slot <= slot' /\ Phase(fc', g) \notin Candidate
  <2> DEFINE x == fc'.frames[g].slot
  <2>1. x <= slot /\ x \in Nat
    BY <1>5
  <2>2. Phase(fc', g) \in Candidate => x = slot'
    BY <1>2, <1>4
  <2> HIDE DEF x
  <2>3. x <= slot' /\ x # slot'
    BY <1>1, <2>1
  <2>4. QED
    BY <2>2, <2>3 DEF x
<1>7. QED
  BY <1>6 DEF OffHolds

\* An operator is to be removed.
LEMMA RemoveOperatorOff ==
  ASSUME CarryInv, CarryInv', OffHolds, NEW o \in Operators, RemoveOperator(o)
  PROVE  OffHolds'
<1>1. /\ UNCHANGED <<slot, fc>> /\ op' = Command(o, FALSE)
      /\ removal' = [removal EXCEPT ![o] = [at |-> "asked", epoch |-> op'[o].epoch]]
  BY DEF RemoveOperator
<1>2. op \in Ops /\ removal \in Removals
  BY InvTypes
<1>3. Removed(o)'
  BY <1>1, <1>2 DEF Removed, Removals
<1>4. \A p \in Operators \ {o} : op'[p] = op[p] /\ removal'[p] = removal[p]
  BY <1>1, <1>2 DEF Command, Removals, Ops
<1>5. \A p \in Operators : op[p].tx \/ Removed(p) => op'[p].tx \/ Removed(p)'
  BY <1>3, <1>4 DEF Removed
<1>6. Made(fc, fc') /\ DOMAIN fc'.frames \ DOMAIN fc.frames = {}
  BY <1>1, ThinsItself DEF Thins
<1>7. QED
  BY <1>1, <1>5, <1>6, OffStep

\* Frames that evolve stay as they were made.
LEMMA StaysMade ==
  ASSUME NEW c, NEW d, Good(c), DOMAIN c.frames \subseteq DOMAIN d.frames,
         \A g \in DOMAIN c.frames : Stays(c.frames[g], d.frames[g])
  PROVE  Made(c, d)
<1>1. ASSUME NEW g \in DOMAIN c.frames
      PROVE  /\ d.frames[g].slot = c.frames[g].slot
             /\ d.frames[g].intents = c.frames[g].intents
             /\ d.frames[g].replaces = c.frames[g].replaces
             /\ Phase(d, g) \in Candidate => Phase(c, g) \in Candidate
  <2>1. c.frames[g] \in Frame /\ Stays(c.frames[g], d.frames[g])
    BY Places DEF Good
  <2>2. QED
    BY <2>1, StaysFields, PhasesDiffer DEF Phase
<1>2. QED
  BY <1>1 DEF Made

\* A slot has one candidate.
LEMMA OneCandidate ==
  ASSUME NEW c, Good(c), NEW f \in DOMAIN c.frames, NEW g \in DOMAIN c.frames,
         Phase(c, f) \in Candidate, Phase(c, g) \in Candidate,
         c.frames[f].slot = c.frames[g].slot
  PROVE  f = g
BY DEF Good, Indexed

\* The queue is processed: a new frame is of operators that transmit.
LEMMA BookedOff ==
  ASSUME CarryInv, CarryInv', OffHolds, slot' = slot, Evolves(fc, fc', slot),
         \A n \in DOMAIN fc'.frames \ DOMAIN fc.frames : \A o \in Parts(fc', n) : op'[o].tx,
         \A o \in Operators :
           \/ op[o].tx \/ Removed(o) => op'[o].tx \/ Removed(o)'
           \/ \A f \in DOMAIN fc.frames :
                (Phase(fc', f) \in Candidate /\ o \in Parts(fc, f)) => MaySend(f, o)'
  PROVE  OffHolds'
<1>1. Good(fc) /\ Good(fc') /\ slot \in Nat
  BY InvTypes, BoundsAssumption DEF CarryInv, TypeOK, Good, Slots
<1>2. Made(fc, fc')
  <2>1. DOMAIN fc.frames \subseteq DOMAIN fc'.frames
    BY DEF Evolves
  <2>2. \A g \in DOMAIN fc.frames : Stays(fc.frames[g], fc'.frames[g])
    BY DEF Evolves
  <2>3. QED
    BY <1>1, <2>1, <2>2, StaysMade
<1>3. ASSUME NEW n \in DOMAIN fc'.frames \ DOMAIN fc.frames
      PROVE  /\ fc'.frames[n].slot = slot /\ Phase(fc', n) \in Candidate
             /\ \A o \in Parts(fc', n) : MaySend(n, o)'
             /\ \A f \in DOMAIN fc'.frames :
                  (Phase(fc', f) \in Candidate /\ f # n) => fc'.frames[f].slot # fc'.frames[n].slot
  <2>1. fc'.frames[n].slot = slot /\ Phase(fc', n) \in Candidate
    BY PhasesDiffer DEF Evolves
  <2>2. \A o \in Parts(fc', n) : MaySend(n, o)'
    BY DEF MaySend
  <2>3. QED
    BY <1>1, <2>1, <2>2, OneCandidate
<1>4. slot <= slot
  BY <1>1
<1>5. QED
  BY <1>2, <1>3, <1>4, OffStep

\* Processing the queue is an evolution.
LEMMA ProcessedEvolves ==
  ASSUME NEW c, NEW q \in Messages, NEW ops, NEW fits, Good(c), slot \in Slots
  PROVE  Evolves(c, Processed(c, q, ops, fits).fc, slot)
<1> DEFINE g == CurrentFrame(c, slot)
           all == IF g = None THEN q ELSE Merged(q, Intents(c, g))
           wanted == {p \in DOMAIN all : ops[p].tx /\ all[p] = ops[p].epoch}
           m == Restrict(all, wanted)
           b == Processed(c, q, ops, fits)
           d == PrepareFrame(c, slot, m)
<1>1. c \in Coordinator /\ Indexed(c)
  BY DEF Good
<1>2. g # None => g \in DOMAIN c.frames
  BY <1>1 DEF CurrentFrame, Indexed
<1>3. all \in Messages
  <2>1. g # None => Intents(c, g) \in Messages
    BY <1>1, <1>2, IntentsAre
  <2> HIDE DEF g
  <2>2. QED
    BY <2>1, MergedIsMessages
<1>4. wanted \subseteq DOMAIN all
  OBVIOUS
<1>5. b.fc = c \/ b.fc = d
  BY BookFields DEF Processed
<1> HIDE DEF all, wanted, b
<1>6. m \in Messages
  BY <1>3, <1>4, RestrictIsMessages
<1> HIDE DEF m, d
<1>7. Evolves(c, d, slot) /\ Evolves(c, c, slot)
  BY <1>6, PrepareEvolves, EvolvesItself DEF d
<1>8. QED
  BY <1>5, <1>7 DEF b

\* A frame that is made anew is of operators that transmit, each with its last message: one
\* that was queued, or that some frame has.
LEMMA ProcessedWants ==
  ASSUME NEW c, NEW q \in Messages, NEW ops \in Ops, NEW fits, Good(c), slot \in Slots,
         NEW n \in DOMAIN Processed(c, q, ops, fits).fc.frames \ DOMAIN c.frames,
         NEW o \in Parts(Processed(c, q, ops, fits).fc, n)
  PROVE  /\ ops[o].tx
         /\ \/ o \in DOMAIN q
            \/ \E h \in DOMAIN c.frames : o \in Parts(c, h) /\ Intents(c, h)[o] = ops[o].epoch
<1> DEFINE g == CurrentFrame(c, slot)
           all == IF g = None THEN q ELSE Merged(q, Intents(c, g))
           wanted == {p \in DOMAIN all : ops[p].tx /\ all[p] = ops[p].epoch}
           m == Restrict(all, wanted)
           b == Processed(c, q, ops, fits)
           d == PrepareFrame(c, slot, m)
<1>1. c \in Coordinator /\ Indexed(c)
  BY DEF Good
<1>2. g # None => g \in DOMAIN c.frames
  BY <1>1 DEF CurrentFrame, Indexed
<1>3. all \in Messages /\ \A p \in DOMAIN all \ DOMAIN q :
        g # None /\ p \in Parts(c, g) /\ all[p] = Intents(c, g)[p]
  <2> DEFINE x == Intents(c, g)
  <2>1. g # None => x \in Messages /\ Parts(c, g) = DOMAIN x
    BY <1>1, <1>2, IntentsAre
  <2> HIDE DEF x
  <2>2. CASE g = None
    BY <2>2
  <2>3. CASE g # None
    <3>1. all = Merged(q, x)
      BY <2>3 DEF x
    <3> HIDE DEF all
    <3>2. /\ all \in Messages /\ DOMAIN all = DOMAIN q \cup DOMAIN x
          /\ \A p \in DOMAIN x \ DOMAIN q : all[p] = x[p]
      BY <2>1, <2>3, <3>1, MergedIsMessages
    <3>3. QED
      BY <2>1, <2>3, <3>2 DEF x
  <2>4. QED
    BY <2>2, <2>3
<1>4. wanted \subseteq DOMAIN all /\ \A p \in wanted : ops[p].tx /\ all[p] = ops[p].epoch
  OBVIOUS
<1>5. b.fc = c \/ b.fc = d
  BY BookFields DEF Processed
<1> HIDE DEF all, wanted, b, g
<1>6. m \in Messages /\ DOMAIN m = wanted
  BY <1>3, <1>4, RestrictIsMessages
<1> HIDE DEF m, d
<1>7. /\ Good(d) /\ Len(d.frames) = Len(c.frames) + 1
      /\ d.frames[Len(c.frames) + 1].intents = m
  BY <1>6, PrepareEvolves DEF d
<1>8. b.fc = d /\ n \in DOMAIN d.frames \ DOMAIN c.frames
  BY <1>5 DEF b
<1>9. n = Len(c.frames) + 1
  <2>1. DOMAIN d.frames = 1..Len(d.frames) /\ DOMAIN c.frames = 1..Len(c.frames)
        /\ Len(c.frames) \in Nat
    BY <1>1, <1>7, Places DEF Good
  <2>2. QED
    BY <2>1, <1>7, <1>8
<1>10. o \in wanted
  BY <1>6, <1>7, <1>8, <1>9 DEF Parts, Intents, b
<1>11. o \in DOMAIN q \/ (g \in DOMAIN c.frames /\ o \in Parts(c, g) /\ Intents(c, g)[o] = ops[o].epoch)
  BY <1>2, <1>3, <1>4, <1>10
<1>12. QED
  BY <1>4, <1>10, <1>11

\* The newest frame of an operator that has not ended
LEMMA LatestIsLatest ==
  ASSUME NEW c \in Coordinator, NEW o, NEW f \in DOMAIN c.frames, o \in Parts(c, f),
         Phase(c, f) \notin Ended
  PROVE  LatestFrameOf(c, o) # None /\ f <= LatestFrameOf(c, o)
<1> DEFINE live == {g \in DOMAIN c.frames : o \in Parts(c, g) /\ Phase(c, g) \notin Ended}
<1>1. LatestFrameOf(c, o)
        = IF live = {} THEN None ELSE CHOOSE g \in live : \A h \in live : h <= g
  BY DEF LatestFrameOf
<1>2. live \subseteq 1..Len(c.frames) /\ Len(c.frames) \in Nat /\ f \in live
  BY Places
<1> HIDE DEF live
<1>3. \E g \in live : \A h \in live : h <= g
  BY <1>2, Greatest
<1>4. LatestFrameOf(c, o) \in live /\ \A h \in live : h <= LatestFrameOf(c, o)
  BY <1>1, <1>2, <1>3
<1>5. \A g \in live : g # None
  BY <1>2 DEF None
<1>6. QED
  BY <1>2, <1>4, <1>5

\* An operator leaves the newest of its frames, if that is a candidate, and the frame that is
\* made anew is of others, unless its message was queued or is its last in another frame.
Leaves(c, d, q, ops, o) ==
  /\ LatestFrameOf(c, o) # None => Phase(d, LatestFrameOf(c, o)) \notin Candidate
  /\ \A n \in DOMAIN d.frames \ DOMAIN c.frames : \A p \in Parts(d, n) :
       /\ ops[p].tx
       /\ p = o => \/ o \in DOMAIN q
                   \/ \E h \in DOMAIN c.frames :
                        o \in Parts(c, h) /\ Intents(c, h)[o] = ops[o].epoch

\* ..., which requestStrategyStop does.
LEMMA StrategyStopLeaves ==
  ASSUME NEW c, NEW q \in Messages, NEW ops \in Ops, NEW fits, Good(c), slot \in Slots, NEW o
  PROVE  Leaves(c, StrategyStop(c, q, ops, o, fits).fc, q, ops, o)
<1> DEFINE f == LatestFrameOf(c, o)
           others == Restrict(Intents(c, f), Parts(c, f) \ {o})
           kept == {p \in DOMAIN others : ops[p].tx}
           rest == Merged(Restrict(others, kept), q)
           k == CancelFrame(c, f)
           b == StrategyStop(c, q, ops, o, fits)
           e == Processed(k, rest, ops, fits)
<1>1. b = IF f = None \/ Phase(c, f) \notin Candidate THEN Book(c, q)
          ELSE IF others = Empty THEN Book(k, q)
          ELSE e
  BY DEF StrategyStop
<1>2. kept \subseteq DOMAIN others
  OBVIOUS
<1> HIDE DEF kept
<1>3. CASE f = None \/ Phase(c, f) \notin Candidate
  <2>1. b.fc = c
    BY <1>1, <1>3, BookFields
  <2>2. QED
    BY <1>3, <2>1 DEF Leaves
<1>4. CASE f # None /\ Phase(c, f) \in Candidate
  <2>1. f \in DOMAIN c.frames /\ c \in Coordinator
    BY <1>4, LatestIsFrame DEF Good
  <2> HIDE DEF f
  <2>2. Intents(c, f) \in Messages /\ Parts(c, f) = DOMAIN Intents(c, f)
    BY <2>1, IntentsAre
  <2>3. others \in Messages /\ DOMAIN others = Parts(c, f) \ {o}
    BY <2>2, RestrictIsMessages
  <2> HIDE DEF others
  <2>4. Restrict(others, kept) \in Messages /\ DOMAIN Restrict(others, kept) = kept
    BY <1>2, <2>3, RestrictIsMessages
  <2>5. rest \in Messages /\ DOMAIN rest = kept \cup DOMAIN q
    BY <2>4, MergedIsMessages
  <2>6. o \in DOMAIN rest => o \in DOMAIN q
    BY <1>2, <2>3, <2>5
  <2> HIDE DEF rest
  <2>7. Ends(c, k, f) /\ Phase(k, f) \notin Candidate
    BY <2>1, CancelCancels
  <2>8. Good(k) /\ Evolves(c, k, slot) /\ Len(k.frames) = Len(c.frames)
    BY <2>1, <2>7, CancelEvolves DEF Ends
  <2> HIDE DEF k, b, e
  <2>9. DOMAIN k.frames = DOMAIN c.frames
    BY <2>8, Places DEF Good
  <2>10. \A h \in DOMAIN c.frames : Intents(k, h) = Intents(c, h) /\ Parts(k, h) = Parts(c, h)
    <3>1. Made(c, k)
      BY <2>8, <2>9, StaysMade DEF Evolves
    <3>2. QED
      BY <3>1 DEF Made, Intents, Parts
  <2>11. CASE b.fc = k
    BY <2>7, <2>9, <2>11 DEF b, f, Leaves
  <2>12. CASE b = e
    <3>1. \A n \in DOMAIN e.fc.frames \ DOMAIN k.frames : \A p \in Parts(e.fc, n) :
            /\ ops[p].tx
            /\ \/ p \in DOMAIN rest
               \/ \E h \in DOMAIN k.frames : p \in Parts(k, h) /\ Intents(k, h)[p] = ops[p].epoch
      BY <2>5, <2>8, ProcessedWants DEF e
    <3>2. \A n \in DOMAIN e.fc.frames \ DOMAIN c.frames : \A p \in Parts(e.fc, n) :
            /\ ops[p].tx
            /\ p = o => \/ o \in DOMAIN q
                        \/ \E h \in DOMAIN c.frames :
                             o \in Parts(c, h) /\ Intents(c, h)[o] = ops[o].epoch
      BY <2>6, <2>9, <2>10, <3>1
    <3>3. Phase(e.fc, f) \notin Candidate
      <4>1. Evolves(k, e.fc, slot)
        BY <2>5, <2>8, ProcessedEvolves DEF e
      <4>2. f \in DOMAIN k.frames /\ Stays(k.frames[f], e.fc.frames[f])
        BY <2>1, <2>9, <4>1 DEF Evolves
      <4>3. e.fc.frames[f] = k.frames[f]
        BY <2>7, <4>2 DEF Stays, Phase
      <4>4. QED
        BY <2>7, <4>3 DEF Phase
    <3>4. QED
      BY <2>12, <3>2, <3>3 DEF b, f, Leaves
  <2>13. b.fc = k \/ b = e
    BY <1>1, <1>4, BookFields
  <2>14. QED
    BY <2>11, <2>12, <2>13
<1>5. QED
  BY <1>3, <1>4

\* An older candidate of an operator whose newest frame is none, or was cancelled
LEMMA OlderMaySend ==
  ASSUME CarryInv, OffHolds, Made(fc, fc'), NEW o, NEW f \in DOMAIN fc.frames,
         LatestFrameOf(fc, o) # None => Phase(fc', LatestFrameOf(fc, o)) \notin Candidate,
         Phase(fc', f) \in Candidate, o \in Parts(fc, f)
  PROVE  MaySend(f, o)'
<1> DEFINE g == LatestFrameOf(fc, o)
<1>1. Good(fc) /\ fc \in Coordinator
  BY InvTypes DEF Good
<1>2. Phase(fc, f) \in Candidate /\ Phase(fc, f) \notin Ended
  BY PhasesDiffer DEF Made
<1>3. g # None /\ f <= g /\ g \in DOMAIN fc.frames /\ o \in Parts(fc, g)
  BY <1>1, <1>2, LatestIsLatest, LatestIsFrame
<1>4. Phase(fc', g) \notin Candidate
  BY <1>3
<1> HIDE DEF g
<1>5. f \in Nat /\ g \in Nat /\ fc.frames[f] \in Frame /\ fc.frames[g] \in Frame
  BY <1>1, <1>3, Places
<1>6. f < g
  <2>1. f # g
    BY <1>4
  <2>2. QED
    BY <2>1, <1>3, <1>5
<1>7. /\ fc.frames[g].slot # fc.frames[f].slot /\ fc.frames[g].slot <= slot
      /\ fc.frames[f].slot = slot \/ SentAlready(f, o)
  BY <1>2, <1>3, <1>6 DEF OffHolds
<1>8. fc.frames[g].slot \in Nat /\ slot \in Nat
  BY <1>5, FrameFields, InvTypes, BoundsAssumption DEF Slots
<1>9. CASE fc.frames[f].slot = slot
  <2>1. fc.frames[g].slot < fc.frames[f].slot
    <3> DEFINE x == fc.frames[g].slot
    <3>1. x # slot /\ x <= slot /\ x \in Nat /\ slot \in Nat
      BY <1>7, <1>8, <1>9
    <3> HIDE DEF x
    <3>2. x < slot
      BY <3>1
    <3>3. QED
      BY <1>9, <3>2 DEF x
  <2>2. Outrun(f, o)
    BY <1>3, <1>6, <2>1 DEF Outrun
  <2>3. QED
    BY <1>1, <2>2, MayStill DEF MaySend
<1>10. CASE SentAlready(f, o)
  BY <1>1, <1>10, MayStill DEF MaySend
<1>11. QED
  BY <1>7, <1>9, <1>10

\* What commands leave to the other operators
LEMMA OthersQuiet ==
  ASSUME NEW o, \A p \in Operators \ {o} : op'[p] = op[p],
         \A p \in Operators \ {o} : removal'[p] = removal[p]
  PROVE  \A p \in Operators \ {o} : op[p].tx \/ Removed(p) => op'[p].tx \/ Removed(p)'
BY DEF Removed

\* The queue is processed for an operator that transmits.
LEMMA PushedOff ==
  ASSUME CarryInv, CarryInv', OffHolds, slot' = slot, NEW o \in Operators,
         op'[o].tx, \A p \in Operators \ {o} : op'[p] = op[p],
         \A p \in Operators \ {o} : removal'[p] = removal[p],
         NEW q \in Messages, NEW fits \in BOOLEAN,
         fc' = fc \/ fc' = Pushed(fc, q, op', o, fits).fc
  PROVE  OffHolds'
<1> DEFINE k == Merged([p \in {o} |-> op'[o].epoch], q)
<1>1. Good(fc) /\ slot \in Slots
  BY InvTypes
<1>2. op' \in Ops
  BY DEF CarryInv, TypeOK, Ops
<1>3. k \in Messages
  <2>1. [p \in {o} |-> op'[o].epoch] \in Messages
    <3>1. [p \in {o} |-> op'[o].epoch] \in [{o} -> 0..MaxCommands] /\ {o} \in SUBSET Operators
      BY <1>2 DEF Ops
    <3>2. QED
      BY <3>1, IsMessages
  <2>2. QED
    BY <2>1, MergedIsMessages
<1>4. \A p \in Operators : op[p].tx \/ Removed(p) => op'[p].tx \/ Removed(p)'
  BY OthersQuiet
<1>5. Pushed(fc, q, op', o, fits) = Processed(fc, k, op', fits)
  BY DEF Pushed
<1> HIDE DEF k
<1>6. CASE fc' = Processed(fc, k, op', fits).fc
  <2>1. Evolves(fc, fc', slot)
    BY <1>1, <1>3, <1>6, ProcessedEvolves
  <2>2. \A n \in DOMAIN fc'.frames \ DOMAIN fc.frames : \A p \in Parts(fc', n) : op'[p].tx
    <3> DEFINE b == Processed(fc, k, op', fits).fc
    <3>1. \A n \in DOMAIN b.frames \ DOMAIN fc.frames : \A p \in Parts(b, n) : op'[p].tx
      BY <1>1, <1>2, <1>3, ProcessedWants
    <3> HIDE DEF b
    <3>2. QED
      BY <1>6, <3>1 DEF b
  <2>3. QED
    BY <1>4, <2>1, <2>2, BookedOff
<1>7. CASE fc' = fc
  <2>1. Evolves(fc, fc', slot) /\ DOMAIN fc'.frames \ DOMAIN fc.frames = {}
    BY <1>1, <1>7, EvolvesItself
  <2>2. QED
    BY <1>4, <2>1, BookedOff
<1>8. QED
  BY <1>5, <1>6, <1>7

\* An operator's command whose frame is to go
LEMMA LeavesOff ==
  ASSUME CarryInv, CarryInv', OffHolds, slot' = slot, NEW o \in Operators,
         \A p \in Operators \ {o} : op'[p] = op[p], removal' = removal, NEW q \in Messages,
         o \notin DOMAIN q, NEW ops \in Ops, ops[o].epoch > op[o].epoch,
         \A p \in Operators \ {o} : ops[p] = op[p], Timely(fc, ops), NEW fits,
         fc' = StrategyStop(fc, q, ops, o, fits).fc
  PROVE  OffHolds'
<1>1. Good(fc) /\ slot \in Slots /\ Timely(fc, op) /\ op \in Ops
  BY InvTypes
<1>2. /\ \A p \in Operators \ {o} : op'[p] = op[p]
      /\ \A p \in Operators \ {o} : op[p].tx \/ Removed(p) => op'[p].tx \/ Removed(p)'
  BY OthersQuiet
<1>3. /\ LatestFrameOf(fc, o) # None => Phase(fc', LatestFrameOf(fc, o)) \notin Candidate
      /\ \A n \in DOMAIN fc'.frames \ DOMAIN fc.frames : \A p \in Parts(fc', n) :
           /\ ops[p].tx
           /\ p = o => \E h \in DOMAIN fc.frames :
                         o \in Parts(fc, h) /\ Intents(fc, h)[o] = ops[o].epoch
  <2>1. Leaves(fc, fc', q, ops, o)
    BY <1>1, StrategyStopLeaves
  <2>2. QED
    BY <2>1 DEF Leaves
<1>4. Evolves(fc, fc', slot)
  BY <1>1, StrategyStopBooks DEF Booked
<1>5. Made(fc, fc')
  <2>1. DOMAIN fc.frames \subseteq DOMAIN fc'.frames
    BY <1>4 DEF Evolves
  <2>2. \A g \in DOMAIN fc.frames : Stays(fc.frames[g], fc'.frames[g])
    BY <1>4 DEF Evolves
  <2>3. QED
    BY <1>1, <2>1, <2>2, StaysMade
<1>6. \A f \in DOMAIN fc.frames :
        (Phase(fc', f) \in Candidate /\ o \in Parts(fc, f)) => MaySend(f, o)'
  BY <1>3, <1>5, OlderMaySend
<1>7. ASSUME NEW h \in DOMAIN fc.frames, o \in Parts(fc, h)
      PROVE  Intents(fc, h)[o] # ops[o].epoch
  <2>1. Intents(fc, h)[o] <= op[o].epoch
    BY <1>1, <1>7 DEF Timely, NotNewer, Parts
  <2>2. op[o].epoch \in Nat /\ ops[o].epoch \in Nat
    BY <1>1, BoundsAssumption DEF Ops
  <2>3. QED
    BY <2>1, <2>2
<1>8. ASSUME NEW n \in DOMAIN fc'.frames \ DOMAIN fc.frames, NEW p \in Parts(fc', n)
      PROVE  op'[p].tx
  <2>1. ops[p].tx /\ p # o
    BY <1>3, <1>7
  <2>2. p \in Operators
    <3>1. fc' \in Coordinator
      BY DEF CarryInv, TypeOK
    <3>2. QED
      BY <3>1, IntentsAre
  <2>3. QED
    BY <1>2, <2>1, <2>2
<1>9. \A p \in Operators :
        \/ op[p].tx \/ Removed(p) => op'[p].tx \/ Removed(p)'
        \/ \A f \in DOMAIN fc.frames :
             (Phase(fc', f) \in Candidate /\ p \in Parts(fc, f)) => MaySend(f, p)'
  BY <1>2, <1>6
<1>10. QED
  BY <1>4, <1>8, <1>9, BookedOff

\* What a command writes of its operator
LEMMA CommandWrites ==
  ASSUME op \in Ops, NEW o \in Operators, NEW tx \in BOOLEAN
  PROVE  Command(o, tx)[o].tx = tx /\ \A p \in Operators \ {o} : Command(o, tx)[p] = op[p]
BY DEF Command, Ops

\* stopOperator
LEMMA StopOperatorOff ==
  ASSUME CarryInv, CarryInv', OffHolds, NEW o \in Operators, NEW fits \in BOOLEAN,
         StopOperator(o, fits)
  PROVE  OffHolds'
<1> DEFINE q == Dropped(queue, o)
           ops == Command(o, TRUE)
<1>1. /\ op[o].epoch < MaxCommands /\ op' = Command(o, FALSE)
      /\ fc' = StrategyStop(fc, q, ops, o, fits).fc
      /\ slot' = slot /\ removal' = removal
  BY DEF StopOperator, Writes, Sets
<1>2. op \in Ops /\ queue \in Messages /\ Good(fc) /\ Timely(fc, op)
  BY InvTypes
<1>3. \A p \in Operators \ {o} : op'[p] = op[p]
  BY <1>1, <1>2, CommandWrites
<1>4. /\ ops \in Ops /\ \A p \in Operators : ops[p].epoch >= op[p].epoch
      /\ ops[o].epoch = op[o].epoch + 1
  BY <1>1, <1>2, CommandGives
<1>5. \A p \in Operators \ {o} : ops[p] = op[p]
  BY <1>2, CommandWrites
<1> HIDE DEF ops
<1>6. ops[o].epoch > op[o].epoch
  <2>1. op[o].epoch \in Nat
    BY <1>2, BoundsAssumption DEF Ops
  <2>2. QED
    BY <2>1, <1>4
<1>7. q \in Messages /\ o \notin DOMAIN q
  BY <1>2, DroppedIsMessages
<1> HIDE DEF q
<1>8. Timely(fc, ops)
  BY <1>2, <1>4, TimelyOn DEF Good
<1>9. QED
  BY <1>1, <1>3, <1>4, <1>5, <1>6, <1>7, <1>8, LeavesOff

\* requestOperatorFrameMutation
LEMMA EditOff ==
  ASSUME CarryInv, CarryInv', OffHolds, NEW o \in Operators, NEW says \in BOOLEAN,
         NEW fits \in BOOLEAN, EditOperator(o, says, fits)
  PROVE  OffHolds'
<1> DEFINE q == Dropped(queue, o)
           tx == op[o].tx
<1>1. /\ op[o].epoch < MaxCommands /\ op' = Command(o, tx)
      /\ slot' = slot /\ removal' = removal
      /\ fc' = IF says /\ tx THEN Pushed(fc, q, op', o, fits).fc
               ELSE StrategyStop(fc, q, op', o, fits).fc
  BY DEF EditOperator, Writes, Sets
<1>2. op \in Ops /\ queue \in Messages /\ Good(fc) /\ Timely(fc, op) /\ tx \in BOOLEAN
  BY InvTypes DEF Ops
<1> HIDE DEF tx
<1>3. /\ op'[o].tx = tx
      /\ \A p \in Operators \ {o} : op'[p] = op[p]
  BY <1>1, <1>2, CommandWrites
<1>4. /\ op' \in Ops /\ \A p \in Operators : op'[p].epoch >= op[p].epoch
      /\ op'[o].epoch = op[o].epoch + 1
  BY <1>1, <1>2, CommandGives DEF tx
<1>5. q \in Messages /\ o \notin DOMAIN q
  BY <1>2, DroppedIsMessages
<1> HIDE DEF q
<1>6. CASE fc' = Pushed(fc, q, op', o, fits).fc /\ tx
  BY <1>1, <1>3, <1>5, <1>6, PushedOff
<1>7. CASE fc' = StrategyStop(fc, q, op', o, fits).fc
  <2>1. op'[o].epoch > op[o].epoch
    <3>1. op[o].epoch \in Nat
      BY <1>2, BoundsAssumption DEF Ops
    <3>2. QED
      BY <3>1, <1>4
  <2>2. Timely(fc, op')
    BY <1>2, <1>4, TimelyOn DEF Good
  <2>3. QED
    BY <1>1, <1>3, <1>4, <1>5, <1>7, <2>1, <2>2, LeavesOff
<1>8. QED
  BY <1>1, <1>6, <1>7

\* A decision on late decodes
LEMMA DecideOff ==
  ASSUME CarryInv, CarryInv', OffHolds, NEW o \in Operators, NEW changed \in BOOLEAN,
         NEW fits \in BOOLEAN, Decide(o, changed, fits)
  PROVE  OffHolds'
<1>1. /\ op' = Command(o, TRUE) /\ slot' = slot /\ removal' = removal
      /\ fc' = fc \/ fc' = Pushed(fc, queue, op', o, fits).fc
  BY BookFields DEF Decide, Writes, Sets
<1>2. op \in Ops /\ queue \in Messages
  BY InvTypes
<1>3. op'[o].tx /\ \A p \in Operators \ {o} : op'[p] = op[p]
  BY <1>1, <1>2, CommandWrites
<1>4. QED
  BY <1>1, <1>2, <1>3, PushedOff

\* startOperator
LEMMA StartOperatorOff ==
  ASSUME CarryInv, CarryInv', OffHolds, NEW o \in Operators, NEW says \in BOOLEAN,
         NEW fits \in BOOLEAN, StartOperator(o, says, fits)
  PROVE  OffHolds'
<1> DEFINE x == [op[o] EXCEPT !.tx = TRUE]
           r == [removal[o] EXCEPT !.at = IF @ = "done" THEN "none" ELSE @]
<1>1. /\ op' = [op EXCEPT ![o] = x] /\ removal' = [removal EXCEPT ![o] = r] /\ slot' = slot
      /\ fc' = fc \/ fc' = Pushed(fc, queue, op', o, fits).fc
  BY BookFields DEF StartOperator, Writes, Sets
<1>2. op \in Ops /\ queue \in Messages /\ removal \in Removals
  BY InvTypes
<1>3. x.tx
  BY <1>2 DEF Ops
<1> HIDE DEF x, r
<1>4. op'[o].tx /\ \A p \in Operators \ {o} : op'[p] = op[p]
  BY <1>1, <1>2, <1>3 DEF Ops
<1>5. \A p \in Operators \ {o} : removal'[p] = removal[p]
  BY <1>1, <1>2 DEF Removals
<1>6. QED
  BY <1>1, <1>2, <1>4, <1>5, PushedOff

\* handleEncodeStart
LEMMA EncodeStartOff ==
  ASSUME CarryInv, CarryInv', OffHolds, NEW says \in SUBSET Operators, NEW fits \in BOOLEAN,
         EncodeStart(says, fits)
  PROVE  OffHolds'
<1> DEFINE S == {o \in says : op[o].tx}
           asked == [o \in S |-> op[o].epoch]
           q == Merged(asked, queue)
           c == Processed(fc, q, op, fits).fc
<1>1. fc' = c /\ UNCHANGED <<slot, op, removal>>
  BY DEF EncodeStart, Writes, Sets
<1>2. /\ op \in Ops /\ queue \in Messages /\ Good(fc) /\ slot \in Slots
  BY InvTypes
<1>3. S \in SUBSET Operators
  OBVIOUS
<1> HIDE DEF S
<1>4. asked \in [S -> 0..MaxCommands]
  BY <1>2, <1>3 DEF Ops
<1>5. asked \in Messages
  BY <1>3, <1>4, IsMessages
<1> HIDE DEF asked
<1>6. q \in Messages
  BY <1>2, <1>5, MergedIsMessages
<1> HIDE DEF q
<1>7. Evolves(fc, c, slot)
  BY <1>2, <1>6, ProcessedEvolves
<1>8. \A n \in DOMAIN c.frames \ DOMAIN fc.frames : \A p \in Parts(c, n) : op[p].tx
  BY <1>2, <1>6, ProcessedWants
<1> HIDE DEF c
<1>9. /\ Evolves(fc, fc', slot)
      /\ \A n \in DOMAIN fc'.frames \ DOMAIN fc.frames : \A p \in Parts(fc', n) : op'[p].tx
  BY <1>1, <1>7, <1>8
<1>10. \A p \in Operators : op[p].tx \/ Removed(p) => op'[p].tx \/ Removed(p)'
  BY <1>1 DEF Removed
<1>11. QED
  BY <1>1, <1>9, <1>10, BookedOff

\* A replacement of what is on the air is of its slot, and sends what that one sends.
LEMMA RemovalAddsOff ==
  ASSUME CarryInv, CarryInv', OffHolds, UNCHANGED <<slot, op>>,
         \A p \in Operators : Removed(p) => Removed(p)', NEW f \in DOMAIN fc.frames, NEW c, NEW n,
         Good(c), DOMAIN c.frames = DOMAIN fc.frames \cup {n},
         \A h \in DOMAIN fc.frames : Stays(fc.frames[h], c.frames[h]),
         Phase(c, n) \in Candidate, c.frames[n].slot = fc.frames[f].slot,
         c.frames[n].replaces = f, Parts(c, n) \subseteq Parts(fc, f),
         \A p \in Parts(c, n) : Intents(c, n)[p] = Intents(fc, f)[p],
         n \notin DOMAIN fc.frames, fc' = c \/ Alone(c, fc', n),
         Phase(fc', n) \in Candidate => fc' = c,
         DOMAIN fc'.frames = DOMAIN c.frames
  PROVE  OffHolds'
<1>1. Good(fc) /\ f # None /\ fc.frames[f].slot <= slot
  BY InvTypes DEF OffHolds
<1>2. /\ fc'.frames[n].slot = c.frames[n].slot /\ Intents(fc', n) = Intents(c, n)
      /\ Parts(fc', n) = Parts(c, n) /\ fc'.frames[n].replaces = f
      /\ \A h \in DOMAIN fc.frames : fc'.frames[h] = c.frames[h]
  BY DEF Alone, Intents, Parts
<1>3. \A h \in DOMAIN fc.frames : Stays(fc.frames[h], fc'.frames[h])
  BY <1>2
<1>4. Made(fc, fc')
  BY <1>1, <1>3, StaysMade
<1>5. Intents(fc', f) = Intents(fc, f) /\ Parts(fc', f) = Parts(fc, f)
  BY <1>4 DEF Made, Intents, Parts
<1>6. \A p \in Parts(fc', n) : SentAlready(n, p)'
  BY <1>1, <1>2, <1>5 DEF SentAlready
<1>7. \A p \in Parts(fc', n) : MaySend(n, p)'
  BY <1>6 DEF MaySend
<1>8. ASSUME NEW h \in DOMAIN fc'.frames, Phase(fc', h) \in Candidate, h # n
      PROVE  fc'.frames[h].slot # fc'.frames[n].slot
  <2>1. h \in DOMAIN fc.frames /\ fc'.frames[h] = c.frames[h]
    BY <1>2, <1>8
  <2>2. Phase(c, h) \in Candidate /\ h \in DOMAIN c.frames /\ n \in DOMAIN c.frames
    BY <2>1, <1>8 DEF Phase
  <2>3. c.frames[h].slot # c.frames[n].slot
    BY <2>2, <1>8, OneCandidate
  <2>4. QED
    BY <2>1, <2>3, <1>2
<1>9. fc'.frames[n].slot <= slot
  BY <1>1, <1>2
<1>10. \A p \in Operators : op[p].tx \/ Removed(p) => op'[p].tx \/ Removed(p)'
  OBVIOUS
<1>11. \A h \in DOMAIN fc'.frames \ DOMAIN fc.frames : h = n
  OBVIOUS
<1>12. QED
  BY <1>4, <1>6, <1>7, <1>8, <1>9, <1>10, <1>11, OffStep

\* performOperatorRemoval for a participant of what is on the air
LEMMA RemovesParticipantOff ==
  ASSUME CarryInv, CarryInv', OffHolds, NEW o \in Operators, lease.phase # "idle",
         o \in Parts(fc, lease.frame), RemovesParticipant(o), UNCHANGED <<slot, op>>
  PROVE  OffHolds'
<1> DEFINE f == lease.frame
           c == PrepareRemoval(fc, f, o)
           g == Len(c.frames)
           action == RemovalAction(fc, f, o)
           n == Len(fc.frames) + 1
           b == Deferred(c, queue, n)
<1>1. /\ Good(fc) /\ LeaseHolds /\ queue \in Messages /\ NotNewer(queue, op) /\ Timely(fc, op)
  BY InvTypes
<1>2. f \in DOMAIN fc.frames /\ o \in Parts(fc, f)
  BY <1>1 DEF LeaseHolds
<1>3. \A p \in Operators : Removed(p) => Removed(p)'
  <2>1. PICK at \in {"stopping", "done", "mixing"} : Removal(o, at)
    BY DEF RemovesParticipant
  <2>2. QED
    BY <2>1, RemovalGoesOn
<1>4. CASE fc' = fc
  BY <1>3, <1>4, ThinsItself, QuietStep
<1>5. CASE /\ action = "replace-current"
           /\ fc' = Deferred(c, queue, g).fc \/ fc' = c
  <2>1. Phase(fc, f) \in Live
    BY <1>5 DEF RemovalAction
  <2>2. /\ Good(c) /\ g = n /\ DOMAIN c.frames = DOMAIN fc.frames \cup {n}
        /\ \A h \in DOMAIN fc.frames : Stays(fc.frames[h], c.frames[h])
        /\ Phase(c, n) = "ready" /\ c.frames[n].slot = fc.frames[f].slot
        /\ c.frames[n].replaces = f /\ Parts(c, n) = Parts(fc, f) \ {o}
        /\ \A p \in Parts(c, n) : Intents(c, n)[p] = Intents(fc, f)[p]
    BY <2>1, <1>1, <1>2, RemovalPrepares
  <2>3. fc' = b.fc \/ fc' = c
    BY <2>2, <1>5
  <2>4. n \notin DOMAIN fc.frames
    BY <1>1, Places DEF Good
  <2> HIDE DEF c
  <2>5. Timely(c, op)
    <3>1. \A h \in DOMAIN fc.frames : Intents(c, h) = Intents(fc, h)
      BY <2>2, StaysFields, InvTypes DEF Intents
    <3>2. NotNewer(Intents(c, n), op)
      <4>1. NotNewer(Intents(fc, f), op)
        BY <1>1, <1>2 DEF Timely
      <4>2. QED
        BY <2>2, <4>1 DEF NotNewer, Parts
    <3>3. QED
      BY <3>1, <3>2, <2>2, <1>1 DEF Timely
  <2>6. n \in DOMAIN c.frames /\ Phase(c, n) \in Candidate
    BY <2>2, PhasesDiffer
  <2>7. Settled(c, queue, b, n) /\ Phase(b.fc, n) \in Ended
    BY <2>2, <2>5, <2>6, <1>1, DeferredSettles
  <2>8. Good(b.fc) /\ Alone(c, b.fc, n) /\ Phase(b.fc, n) \notin Candidate
    BY <2>7, PhasesDiffer DEF Settled, Ends
  <2> HIDE DEF b, n
  <2>9. DOMAIN b.fc.frames = DOMAIN c.frames
    BY <2>2, <2>8, Places DEF Good, Alone
  <2>10. /\ fc' = c \/ Alone(c, fc', n)
         /\ Phase(fc', n) \in Candidate => fc' = c
         /\ DOMAIN fc'.frames = DOMAIN c.frames
    BY <2>3, <2>8, <2>9
  <2>11. Parts(c, n) \subseteq Parts(fc, f)
    BY <2>2
  <2> HIDE DEF f
  <2>12. QED
    BY <1>2, <1>3, <2>2, <2>4, <2>6, <2>10, <2>11, RemovalAddsOff
<1>6. QED
  BY <1>4, <1>5, BookFields DEF RemovesParticipant, Sets

\* The removal that has its turn
LEMMA RunRemovalOff ==
  ASSUME CarryInv, CarryInv', OffHolds, NEW o \in Operators, NEW fits \in BOOLEAN,
         RunRemoval(o, fits)
  PROVE  OffHolds'
<1>1. UNCHANGED <<slot, op>>
  BY DEF RunRemoval
<1>2. CASE ~IsRemovalCommandCurrent(o) /\ Removal(o, "none") /\ fc' = fc
  <2>1. \A p \in Operators : Removed(p) => Removed(p)'
    BY <1>1, <1>2, RemovalGoesOn
  <2>2. QED
    BY <1>1, <1>2, <2>1, ThinsItself, QuietStep
<1>3. CASE lease.phase # "idle" /\ o \in Parts(fc, lease.frame) /\ RemovesParticipant(o)
  BY <1>1, <1>3, RemovesParticipantOff
<1>4. CASE Sets(StrategyStop(fc, queue, op, o, fits)) /\ Removal(o, "done")
  <2> DEFINE c == StrategyStop(fc, queue, op, o, fits).fc
  <2>1. fc' = c
    BY <1>4 DEF Sets
  <2>2. /\ op \in Ops /\ queue \in Messages /\ Good(fc) /\ slot \in Slots /\ Timely(fc, op)
    BY InvTypes
  <2>3. Leaves(fc, c, queue, op, o)
    BY <2>2, StrategyStopLeaves
  <2>4. Evolves(fc, c, slot)
    BY <2>2, StrategyStopBooks DEF Booked
  <2> HIDE DEF c
  <2>5. \A n \in DOMAIN fc'.frames \ DOMAIN fc.frames : \A p \in Parts(fc', n) : op'[p].tx
    BY <1>1, <2>1, <2>3 DEF Leaves
  <2>6. \A p \in Operators : Removed(p) => Removed(p)'
    BY <1>1, <1>4, RemovalGoesOn
  <2>7. \A p \in Operators : op[p].tx \/ Removed(p) => op'[p].tx \/ Removed(p)'
    BY <1>1, <2>6
  <2>8. QED
    BY <1>1, <2>1, <2>4, <2>5, <2>7, BookedOff
<1>5. QED
  BY <1>2, <1>3, <1>4 DEF RunRemoval

\* Nothing happens to the frames, and at most a removal goes on.
LEMMA RemovalStoppedOff ==
  ASSUME CarryInv, CarryInv', OffHolds, NEW o \in Operators, RemovalStopped(o)
  PROVE  OffHolds'
<1>1. UNCHANGED <<slot, op, fc>> /\ Removal(o, "done")
  BY DEF RemovalStopped
<1>2. \A p \in Operators : Removed(p) => Removed(p)'
  BY <1>1, RemovalGoesOn
<1>3. QED
  BY <1>1, <1>2, ThinsItself, QuietStep

\* A step that leaves the operators and their removals, and adds no frame
LEMMA StillOff ==
  ASSUME CarryInv, CarryInv', OffHolds, UNCHANGED <<slot, op, removal>>, Thins(fc, fc')
  PROVE  OffHolds'
<1>1. \A p \in Operators : Removed(p) => Removed(p)'
  BY DEF Removed
<1>2. QED
  BY <1>1, QuietStep

\* What is due goes on.
LEMMA ContinueOff ==
  ASSUME CarryInv, CarryInv', OffHolds, Continue
  PROVE  OffHolds'
<1>1. CASE ForceStopEnds
  BY <1>1, PhysicalThins, StillOff
<1>2. ASSUME NEW f \in Frames, LeaseEnded(f)
      PROVE  OffHolds'
  <2>1. f \in DOMAIN fc.frames
    BY <1>2, HasFrame DEF LeaseEnded
  <2>2. Thins(fc, fc') /\ UNCHANGED <<slot, op, removal>>
    BY <1>2, <2>1, ReturnThins DEF LeaseEnded
  <2>3. QED
    BY <2>2, StillOff
<1>3. ASSUME NEW o \in Operators, RemovalStopped(o)
      PROVE  OffHolds'
  BY <1>3, RemovalStoppedOff
<1>4. ASSUME NEW o \in Operators, NEW fits \in BOOLEAN, RunRemoval(o, fits)
      PROVE  OffHolds'
  BY <1>4, RunRemovalOff
<1>5. QED
  BY <1>1, <1>2, <1>3, <1>4 DEF Continue

\* A candidate stays the newest of its slot, and made of what it may send.
LEMMA NextOff ==
  ASSUME CarryInv, OffHolds, [Next]_vars
  PROVE  OffHolds'
<1>1. CarryInv'
  BY NextStep DEF Kept
<1>2. CASE UNCHANGED vars
  BY <1>1, <1>2, ThinsItself, StillOff DEF vars
<1>3. CASE Continue
  BY <1>1, <1>3, ContinueOff
<1>4. ASSUME NEW o \in Operators, Operator(o)
      PROVE  OffHolds'
  BY <1>1, <1>4, RemoveOperatorOff, StopOperatorOff, StartOperatorOff, EditOff, DecideOff
     DEF Operator
<1>5. ASSUME NEW f \in Frames, Mixing(f)
      PROVE  OffHolds'
  <2>1. CASE \E o \in Operators, soon \in BOOLEAN : EncodeDone(f, o, soon)
    BY <1>1, <2>1, EncodingThins, StillOff DEF EncodeDone
  <2>2. CASE EncodeFails(f) \/ TriggerScheduledMix(f)
    BY <1>1, <2>2, EncodingThins, StillOff DEF EncodeFails, TriggerScheduledMix
  <2>3. ASSUME NEW left \in BOOLEAN, NEW fits \in BOOLEAN, NEW refused \in BOOLEAN,
               Mixed(f, left, fits, refused)
        PROVE  OffHolds'
    BY <1>1, <2>3, MixedThins, StillOff
  <2>4. ASSUME NEW left \in BOOLEAN, NEW fits \in BOOLEAN, NEW refused \in BOOLEAN,
               RemovalMixed(f, left, fits, refused)
        PROVE  OffHolds'
    BY <1>1, <2>4, RemovalMixedOff
  <2>5. QED
    BY <1>5, <2>1, <2>2, <2>3, <2>4 DEF Mixing
<1>6. ASSUME NEW f \in Frames, Taking(f) \/ Audio(f)
      PROVE  OffHolds'
  BY <1>1, <1>6, TakingThins, AudioThins, StillOff
<1>7. CASE Slot
  BY <1>1, <1>7, NextSlotOff, EncodeStartOff DEF Slot
<1>8. CASE Physical
  BY <1>1, <1>8, PhysicalThins, StillOff
<1>9. QED
  BY <1>2, <1>3, <1>4, <1>5, <1>6, <1>7, <1>8 DEF Next

(***************************************************************************)
(* The theorems                                                            *)
(***************************************************************************)

\* Before the first command there is no frame.
LEMMA InitOff ==
  ASSUME Init
  PROVE  OffHolds
<1>1. fc.frames = <<>>
  BY DEF Init, NoFrames
<1>2. DOMAIN fc.frames = {}
  BY <1>1
<1>3. QED
  BY <1>2 DEF OffHolds

\* The inductive invariant: at each of its awaits a call finds its frame, the lease and the
\* tracks as they can be then.
THEOREM DigitalIsSound == Spec => []IInv
<1>1. Init => IInv
  BY InitHolds, InitOff DEF IInv
<1>2. IInv /\ [Next]_vars => IInv'
  BY NextStep, NextOff DEF Kept, IInv
<1>3. QED
  BY <1>1, <1>2, PTL DEF Spec

\* The types, and the slots' references to their frames.
THEOREM SlotsReferToTheirs == Spec => []TypeOK
<1>1. IInv => TypeOK
  BY InvShows DEF IInv
<1>2. QED
  BY <1>1, DigitalIsSound, PTL

\* No candidate is left behind by a newer one, or by the end of its slot.
THEOREM NoneLeftBehind == Spec => []CandidateIsCurrent
<1>1. IInv => CandidateIsCurrent
  BY InvShows DEF IInv
<1>2. QED
  BY <1>1, DigitalIsSound, PTL

\* A committed frame has a call that is still to end it.
THEOREM LiveHasACall == Spec => []LiveIsCarried
<1>1. IInv => LiveIsCarried
  BY InvShows DEF IInv
<1>2. QED
  BY <1>1, DigitalIsSound, PTL

\* One frame of a lease is on the air.
THEOREM OneFrameOnAir == Spec => []OneOnAir
<1>1. IInv => OneOnAir
  BY InvShows DEF IInv
<1>2. QED
  BY <1>1, DigitalIsSound, PTL

\* The audio that is out is that of the frame on the air.
THEOREM AudioIsTheFrames == Spec => []SoundIsOnAir
<1>1. IInv => SoundIsOnAir
  BY InvShows DEF IInv
<1>2. QED
  BY <1>1, DigitalIsSound, PTL

\* What is on the air keeps the tracks of all its participants.
THEOREM WholeFramesOnAir == Spec => []WholeOnAir
<1>1. IInv => WholeOnAir
  BY InvShows DEF IInv
<1>2. QED
  BY <1>1, DigitalIsSound, PTL

\* A late encode, mix or release does not bring back a frame that has ended.
THEOREM EndedStaysEnded == Spec => EndedIsFinal
<1>1. IInv /\ [Next]_vars =>
        [\A f \in DOMAIN fc.frames :
           Phase(fc, f) \in Ended => Phase(fc', f) = Phase(fc, f)]_vars
  BY NextStep DEF IInv, Kept, EndedKept
<1>2. QED
  BY <1>1, DigitalIsSound, PTL DEF Spec, EndedIsFinal

\* What is put back in the queue does not replace a newer message.
THEOREM QueueGoesOn == Spec => QueueNeverGoesBack
<1>1. IInv /\ [Next]_vars =>
        [\A o \in DOMAIN queue \cap DOMAIN queue' : queue'[o] >= queue[o]]_vars
  BY NextStep DEF IInv, Kept, QueueKept
<1>2. QED
  BY <1>1, DigitalIsSound, PTL DEF Spec, QueueNeverGoesBack

\* A frame that takes the transmitter is not one of a stopped operator, unless it was sending
\* that message already, its removal looked in what is on the air, or an older slot's frame
\* hid the candidate from the stop.
THEOREM StoppedStayOff == Spec => StoppedStaysOff
<1>1. IInv => \A f \in Frames : CommitsNow(f) => \A o \in Parts(fc, f) : MaySend(f, o)
  <2>1. ASSUME OffHolds, NEW f \in Frames, CommitsNow(f), NEW o \in Parts(fc, f)
        PROVE  MaySend(f, o)
    BY <2>1 DEF CommitsNow, Exists, OffHolds
  <2>2. QED
    BY <2>1 DEF IInv
<1>2. IInv /\ [Next]_vars =>
        [\A f \in Frames : CommitsNow(f) => \A o \in Parts(fc, f) : MaySend(f, o)]_vars
  BY <1>1
<1>3. QED
  BY <1>2, DigitalIsSound, PTL DEF Spec, StoppedStaysOff

=============================================================================
