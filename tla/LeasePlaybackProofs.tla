------------------------- MODULE LeasePlaybackProofs -------------------------
(***************************************************************************)
(* The safety of the audio of a lease, for any number of leases and calls. *)
(*                                                                         *)
(* Most steps only end a call, or bring the end of a lease nearer: Keeps   *)
(* and ChainLeaves are about these.  The others give a call its place in   *)
(* the chain, its generation or its sound, and have a lemma each.          *)
(***************************************************************************)
EXTENDS LeasePlayback, SequenceTheorems, TLAPS

USE DEF None

\* What each lease and each call is known to be.
LEMMA LeaseTyped ==
  ASSUME IInv, NEW l \in Leases
  PROVE  /\ lease[l] \in Lease /\ l # None
         /\ lease[l].queue \in Seq(Calls)
         /\ DOMAIN lease[l].queue = 1..Len(lease[l].queue)
         /\ Len(lease[l].queue) \in Nat
  <1>1. lease[l] \in Lease /\ l # None
    BY BoundsAssumption DEF IInv, TypeOK, Leases
  <1>2. lease[l].queue \in Seq(Calls)
    BY <1>1 DEF Lease
  <1> QED BY <1>1, <1>2, LenProperties

\* The types of a call
LEMMA CallTyped ==
  ASSUME IInv, NEW c \in Calls
  PROVE  /\ call[c] \in Call /\ c # None
         /\ call[c].pc # "idle" =>
              /\ call[c].lease \in Leases /\ call[c].lease # None
              /\ call[c].lease <= epoch /\ Of(c) \in Lease
  <1>1. call[c] \in Call /\ c # None
    BY BoundsAssumption DEF IInv, TypeOK, Calls
  <1>2. call[c].pc # "idle" => call[c].lease \in Leases /\ call[c].lease <= epoch
    BY BoundsAssumption DEF IInv, TypeOK, GenerationsHold, NumberHolds, Leases
  <1>3. call[c].pc # "idle" => call[c].lease # None /\ Of(c) \in Lease
    BY <1>2, LeaseTyped DEF Of
  <1> QED BY <1>1, <1>2, <1>3

\* The head and the tail of a chain.
LEMMA HeadAndTail ==
  ASSUME NEW S, NEW q \in Seq(S), q # <<>>
  PROVE  /\ Len(q) \in Nat \ {0} /\ DOMAIN q = 1..Len(q) /\ Head(q) = q[1]
         /\ Tail(q) \in Seq(S) /\ DOMAIN Tail(q) = 1..(Len(q) - 1)
         /\ \A i \in 1..(Len(q) - 1) : Tail(q)[i] = q[i + 1]
  <1>1. Len(q) \in Nat \ {0} /\ DOMAIN q = 1..Len(q)
    BY EmptySeq, LenProperties
  <1>2. Tail(q) \in Seq(S) /\ Len(Tail(q)) = Len(q) - 1
        /\ \A i \in 1..Len(Tail(q)) : Tail(q)[i] = q[i + 1]
    BY HeadTailProperties
  <1>3. DOMAIN Tail(q) = 1..Len(Tail(q))
    BY <1>2, LenProperties
  <1> QED BY <1>1, <1>2, <1>3

-----------------------------------------------------------------------------
(* The chain of transitions                                                *)

\* The chain keeps its order while the calls in it advance: a call that begins is first.
LEMMA ChainAdvances ==
  ASSUME IInv,
         \A l \in Leases : lease'[l].queue = lease[l].queue,
         \A c \in Calls :
           /\ call'[c].pc \in InChain <=> call[c].pc \in InChain
           /\ call[c].pc \in InChain => call'[c].lease = call[c].lease
           /\ call'[c].pc \in Begun => call[c].pc \in Begun \/ First(c)
  PROVE  ChainHolds'
  <1>1. ASSUME NEW c \in Calls, call'[c].pc \in InChain
        PROVE  /\ call[c].pc \in InChain /\ call[c].lease \in Leases
               /\ call'[c].lease = call[c].lease /\ Of(c)'.queue = Of(c).queue
    <2>1. call[c].pc \in InChain /\ call[c].pc # "idle"
      BY <1>1 DEF InChain, Begun
    <2> QED BY <2>1, CallTyped DEF Of
  <1>2. \A l \in Leases : \A i \in DOMAIN lease[l].queue : lease[l].queue[i] \in Calls
    BY LeaseTyped, ElementOfSeq
  <1>3. ASSUME NEW c \in Calls, call'[c].pc \in Begun PROVE First(c)'
    <2>1. First(c)
      BY <1>3 DEF IInv, ChainHolds
    <2>2. call'[c].pc \in InChain
      BY <1>3 DEF InChain
    <2> QED BY <1>1, <2>1, <2>2 DEF First
  <1> QED BY <1>1, <1>2, <1>3 DEF IInv, ChainHolds

\* Only the first of a chain has begun.
LEMMA OneBegun ==
  ASSUME IInv, NEW c \in Calls, NEW d \in Calls,
         call[c].lease = call[d].lease, First(c), call[d].pc \in Begun
  PROVE  c = d
  BY DEF IInv, ChainHolds, First, Of

\* A call that is over leaves its chain.
LEMMA ChainLeaves ==
  ASSUME IInv, NEW c \in Calls, call[c].pc # "idle",
         call[c].pc \in InChain => First(c),
         \A l \in Leases : lease'[l].queue =
           IF l = call[c].lease THEN Dequeued(lease[l], c).queue ELSE lease[l].queue,
         call'[c].pc \notin InChain,
         \A d \in Calls \ {c} : call'[d] = call[d]
  PROVE  ChainHolds'
  <1> DEFINE l == call[c].lease
             q == lease[l].queue
  <1>1. l \in Leases /\ lease[l] \in Lease /\ q \in Seq(Calls) /\ DOMAIN q = 1..Len(q)
        /\ Len(q) \in Nat
    BY CallTyped, LeaseTyped
  <1>2. \A i \in DOMAIN q : /\ q[i] \in Calls /\ call[q[i]].lease = l
                            /\ call[q[i]].pc \in InChain
                            /\ \A j \in DOMAIN q : q[i] = q[j] => i = j
    BY <1>1, ElementOfSeq DEF IInv, ChainHolds
  <1>3. CASE call[c].pc \notin InChain
    <2>1. ~(q # <<>> /\ Head(q) = c)
      BY <1>1, <1>2, <1>3, HeadAndTail
    <2>2. \A k \in Leases : lease'[k].queue = lease[k].queue
      BY <2>1 DEF Dequeued
    <2>3. \A d \in Calls : call'[d].pc \in InChain => d # c
      OBVIOUS
    <2> QED BY <1>3, <2>2, <2>3, ChainAdvances DEF InChain
  <1>4. CASE call[c].pc \in InChain
    <2>1. q # <<>> /\ Head(q) = c
      BY <1>4 DEF First, Of
    <2>2. /\ Len(q) \in Nat \ {0} /\ q[1] = c
          /\ DOMAIN Tail(q) = 1..(Len(q) - 1)
          /\ \A i \in 1..(Len(q) - 1) : Tail(q)[i] = q[i + 1]
      BY <1>1, <2>1, HeadAndTail
    <2>3. Dequeued(lease[l], c).queue = Tail(q)
      BY <1>1, <2>1 DEF Dequeued, Lease
    <2>4. lease'[l].queue = Tail(q) /\ \A k \in Leases \ {l} : lease'[k].queue = lease[k].queue
      BY <1>1, <2>3
    <2> HIDE DEF q, l
    <2>5. ASSUME NEW k \in Leases, NEW i \in DOMAIN lease'[k].queue
          PROVE  /\ call'[lease'[k].queue[i]].lease = k
                 /\ call'[lease'[k].queue[i]].pc \in InChain
                 /\ \A j \in DOMAIN lease'[k].queue :
                      lease'[k].queue[i] = lease'[k].queue[j] => i = j
      <3>1. CASE k = l
        <4>1. /\ i \in 1..(Len(q) - 1) /\ i + 1 \in DOMAIN q /\ i + 1 # 1
              /\ lease'[k].queue[i] = q[i + 1]
          BY <1>1, <2>2, <2>4, <3>1
        <4>2. q[i + 1] # c /\ q[i + 1] \in Calls
          BY <1>1, <1>2, <2>2, <4>1
        <4>3. call'[q[i + 1]].lease = k /\ call'[q[i + 1]].pc \in InChain
          BY <1>2, <3>1, <4>1, <4>2
        <4>4. ASSUME NEW j \in DOMAIN lease'[k].queue, lease'[k].queue[i] = lease'[k].queue[j]
              PROVE  i = j
          <5>1. j \in 1..(Len(q) - 1) /\ j + 1 \in DOMAIN q /\ q[j + 1] = q[i + 1]
            BY <1>1, <2>2, <2>4, <3>1, <4>1, <4>4
          <5>2. i + 1 = j + 1
            BY <1>2, <4>1, <5>1
          <5> QED BY <4>1, <5>1, <5>2
        <4> QED BY <4>1, <4>3, <4>4
      <3>2. CASE k # l
        <4>1. lease'[k].queue = lease[k].queue
          BY <2>4, <3>2
        <4>2. /\ lease[k].queue[i] \in Calls /\ call[lease[k].queue[i]].lease = k
              /\ call[lease[k].queue[i]].pc \in InChain
              /\ \A j \in DOMAIN lease[k].queue :
                   lease[k].queue[i] = lease[k].queue[j] => i = j
          BY <4>1, LeaseTyped, ElementOfSeq DEF IInv, ChainHolds
        <4>3. lease[k].queue[i] # c
          BY <3>2, <4>2 DEF l
        <4> QED BY <4>1, <4>2, <4>3
      <3> QED BY <3>1, <3>2
    <2>6. ASSUME NEW d \in Calls, call'[d].pc \in InChain
          PROVE  /\ \E i \in DOMAIN Of(d)'.queue : Of(d)'.queue[i] = d
                 /\ call'[d].pc \in Begun => First(d)'
      <3>1. d # c /\ call'[d] = call[d] /\ call[d].pc \in InChain /\ call[d].pc # "idle"
        BY <2>6 DEF InChain, Begun
      <3>2. call[d].lease \in Leases
        BY <3>1, CallTyped
      <3>3. PICK i \in DOMAIN Of(d).queue : Of(d).queue[i] = d
        BY <3>1 DEF IInv, ChainHolds
      <3>4. CASE call[d].lease = l
        <4>1. i \in 1..Len(q) /\ i # 1 /\ q[i] = d /\ Of(d)'.queue = Tail(q)
          BY <1>1, <2>2, <2>4, <3>1, <3>3, <3>4 DEF Of, q
        <4>2. i - 1 \in 1..(Len(q) - 1) /\ (i - 1) + 1 = i
          BY <2>2, <4>1
        <4>3. i - 1 \in DOMAIN Tail(q) /\ Tail(q)[i - 1] = d
          BY <2>2, <4>1, <4>2
        <4>4. First(c)
          BY <1>4
        <4>5. call[d].pc \notin Begun
          BY <3>1, <3>4, <4>4, OneBegun DEF l
        <4> QED BY <3>1, <4>1, <4>3, <4>5
      <3>5. CASE call[d].lease # l
        <4>1. Of(d)'.queue = Of(d).queue
          BY <2>4, <3>1, <3>2, <3>5 DEF Of
        <4> QED BY <3>1, <3>3, <4>1 DEF IInv, ChainHolds, First
      <3> QED BY <3>4, <3>5
    <2> QED BY <2>5, <2>6 DEF ChainHolds, InChain
  <1> QED BY <1>3, <1>4

\* A call that asks for a transition joins the end of the chain.
LEMMA ChainGrows ==
  ASSUME IInv, NEW c \in Calls, call[c].pc # "idle", call[c].pc \notin InChain,
         \A l \in Leases : lease'[l].queue =
           IF l = call[c].lease THEN Append(lease[l].queue, c) ELSE lease[l].queue,
         call'[c].pc \in {"playQueued", "replaceQueued"},
         call'[c].lease = call[c].lease,
         \A d \in Calls \ {c} : call'[d] = call[d]
  PROVE  ChainHolds'
  <1> DEFINE l == call[c].lease
             q == lease[l].queue
             n == Len(q) + 1
  <1>1. l \in Leases /\ q \in Seq(Calls) /\ DOMAIN q = 1..Len(q) /\ Len(q) \in Nat
    BY CallTyped, LeaseTyped
  <1>2. \A i \in DOMAIN q : /\ q[i] \in Calls /\ call[q[i]].lease = l
                            /\ call[q[i]].pc \in InChain /\ q[i] # c
                            /\ \A j \in DOMAIN q : q[i] = q[j] => i = j
    BY <1>1, ElementOfSeq DEF IInv, ChainHolds
  <1>3. /\ Append(q, c) \in Seq(Calls) /\ Len(Append(q, c)) = n /\ Append(q, c)[n] = c
        /\ \A i \in 1..Len(q) : Append(q, c)[i] = q[i]
    BY <1>1, AppendProperties
  <1>4. DOMAIN Append(q, c) = 1..n
    BY <1>3, LenProperties
  <1>5. lease'[l].queue = Append(q, c) /\ \A k \in Leases \ {l} : lease'[k].queue = lease[k].queue
    BY <1>1
  <1> HIDE DEF q, l
  <1>6. ASSUME NEW k \in Leases, NEW i \in DOMAIN lease'[k].queue
        PROVE  /\ call'[lease'[k].queue[i]].lease = k
               /\ call'[lease'[k].queue[i]].pc \in InChain
               /\ \A j \in DOMAIN lease'[k].queue :
                    lease'[k].queue[i] = lease'[k].queue[j] => i = j
    <2>1. CASE k = l
      <3>1. i \in 1..n /\ DOMAIN lease'[k].queue = 1..n /\ n = Len(q) + 1 /\ Len(q) \in Nat
        BY <1>1, <1>4, <1>5, <2>1
      <3>2. \A j \in 1..n : \/ j \in DOMAIN q /\ lease'[k].queue[j] = q[j]
                            \/ j = n /\ lease'[k].queue[j] = c
        BY <1>1, <1>3, <1>5, <2>1
      <3>3. \A j \in 1..n : lease'[k].queue[i] = lease'[k].queue[j] => i = j
        BY <1>2, <3>1, <3>2
      <3>4. CASE i = n
        <4>1. call'[c].lease = k /\ call'[c].pc \in InChain
          BY <2>1 DEF InChain, l
        <4> QED BY <1>3, <1>5, <2>1, <3>1, <3>3, <3>4, <4>1
      <3>5. CASE i # n
        <4>1. i \in DOMAIN q /\ lease'[k].queue[i] = q[i]
          BY <3>1, <3>2, <3>5
        <4> QED BY <1>2, <2>1, <3>1, <3>3, <4>1
      <3> QED BY <3>4, <3>5
    <2>2. CASE k # l
      <3>1. lease'[k].queue = lease[k].queue
        BY <1>5, <2>2
      <3>2. /\ lease[k].queue[i] \in Calls /\ call[lease[k].queue[i]].lease = k
            /\ call[lease[k].queue[i]].pc \in InChain
            /\ \A j \in DOMAIN lease[k].queue : lease[k].queue[i] = lease[k].queue[j] => i = j
        BY <3>1, LeaseTyped, ElementOfSeq DEF IInv, ChainHolds
      <3>3. lease[k].queue[i] # c
        BY <2>2, <3>2 DEF l
      <3> QED BY <3>1, <3>2, <3>3
    <2> QED BY <2>1, <2>2
  <1>7. ASSUME NEW d \in Calls, call'[d].pc \in InChain
        PROVE  /\ \E i \in DOMAIN Of(d)'.queue : Of(d)'.queue[i] = d
               /\ call'[d].pc \in Begun => First(d)'
    <2>1. CASE d = c
      <3>1. Of(d)'.queue = Append(q, c)
        BY <1>5, <2>1 DEF Of, l
      <3>2. n \in 1..n
        BY <1>1
      <3>3. call'[d].pc \notin Begun
        BY <2>1 DEF Begun
      <3> QED BY <1>3, <1>4, <2>1, <3>1, <3>2, <3>3
    <2>2. CASE d # c
      <3>1. call'[d] = call[d] /\ call[d].pc \in InChain /\ call[d].pc # "idle"
        BY <1>7, <2>2 DEF InChain, Begun
      <3>2. call[d].lease \in Leases
        BY <3>1, CallTyped
      <3>3. PICK i \in DOMAIN Of(d).queue : Of(d).queue[i] = d
        BY <3>1 DEF IInv, ChainHolds
      <3>4. CASE call[d].lease = l
        <4>1. i \in 1..Len(q) /\ q[i] = d /\ Of(d)'.queue = Append(q, c)
              /\ Of(d).queue = q
          BY <1>1, <1>5, <3>1, <3>3, <3>4 DEF Of, q
        <4>2. i \in 1..n /\ 1 \in 1..n /\ 1 \in 1..Len(q) /\ Append(q, c)[i] = d
              /\ Append(q, c)[1] = q[1]
          BY <1>1, <1>3, <4>1
        <4>3. Append(q, c) # <<>> /\ q # <<>>
          BY <1>1, <1>4, <4>1, <4>2
        <4>4. Head(Append(q, c)) = Head(q)
          BY <1>1, <1>3, <4>2, <4>3, HeadAndTail
        <4>5. call[d].pc \in Begun => First(d)
          BY DEF IInv, ChainHolds
        <4> QED BY <1>4, <3>1, <4>1, <4>2, <4>3, <4>4, <4>5 DEF First
      <3>5. CASE call[d].lease # l
        <4>1. Of(d)'.queue = Of(d).queue
          BY <1>5, <3>1, <3>2, <3>5 DEF Of
        <4> QED BY <3>1, <3>3, <4>1 DEF IInv, ChainHolds, First
      <3> QED BY <3>4, <3>5
    <2> QED BY <2>1, <2>2
  <1> QED BY <1>6, <1>7 DEF ChainHolds, InChain

-----------------------------------------------------------------------------
(* The steps that end a call, or bring the end of a lease nearer           *)

\* The playback of a lease is left alone, and its end may come nearer.
Winds(l) ==
  /\ lease'[l].gen = lease[l].gen /\ lease'[l].active = lease[l].active
  /\ lease'[l].frame = lease[l].frame /\ lease'[l].spent = lease[l].spent
  /\ lease[l].acq = "granted" => lease'[l].acq = "granted"
  /\ lease[l].stopReq => lease'[l].stopReq
  /\ lease[l].rel # "none" => lease'[l].rel # "none"
  /\ lease'[l].rel # "none" => lease'[l].stopReq
  /\ lease'[l].ok => lease[l].ok

\* A call hears of its audio, or gives up, or is over.
Stays(c) ==
  /\ call'[c].pc = call[c].pc /\ call'[c].result = call[c].result
  /\ \/ audio'[c] = audio[c]
     \/ Sounding(c) /\ call[c].pc # "starting"
        /\ audio'[c] \in {"playing", "completed", "failed"}

GivesUp(c) ==
  /\ call[c].pc = "acquiring" /\ call'[c].pc = "abandoning"
  /\ call'[c].result = call[c].result /\ audio'[c] = audio[c]

IsOver(c) ==
  /\ call[c].pc # "idle" /\ call'[c].pc \in {"releasing", "ended"}
  /\ call'[c].result = "success" => call[c].result = "success" \/ audio[c] = "completed"
  /\ call'[c].pc = "releasing" =>
       Of(c)'.rel # "none" /\ (Of(c)'.ok => audio[c] = "completed")
  /\ \/ audio'[c] = audio[c]
     \/ Sounding(c) /\ audio'[c] \in {"playing", "completed", "failed"}
  /\ Sounding(c)' => Of(c)'.stopReq

Settles(c) ==
  /\ call'[c].lease = call[c].lease /\ call'[c].gen = call[c].gen
  /\ Stays(c) \/ GivesUp(c) \/ IsOver(c)

\* Such steps keep all of the invariant but the types and the chain.
LEMMA Keeps ==
  ASSUME IInv, epoch' = epoch, current' \in {current, None},
         \A l \in Leases : Winds(l), \A c \in Calls : Settles(c)
  PROVE  GenerationsHold' /\ SoundsHold' /\ ReleasesHold' /\ OneAudible' /\ SuccessIsEarned'
  <1>1. \A c \in Calls : Sounding(c)' => Sounding(c)
    BY DEF Settles, Stays, GivesUp, IsOver, Sounding
  <1>2. OneAudible'
    BY <1>1 DEF IInv, OneAudible, Settles
  <1>3. ASSUME NEW c \in Calls, call'[c].pc # "idle"
        PROVE  /\ call[c].pc # "idle" /\ call[c].lease \in Leases /\ call[c].lease # None
               /\ Of(c)' = lease'[call[c].lease]
               /\ Of(c)'.gen = Of(c).gen /\ Of(c)'.active = Of(c).active
               /\ Of(c)'.frame = Of(c).frame /\ Of(c)'.spent = Of(c).spent
               /\ Of(c).acq = "granted" => Of(c)'.acq = "granted"
               /\ Of(c).stopReq => Of(c)'.stopReq
               /\ Of(c).rel # "none" => Of(c)'.rel # "none"
               /\ Of(c)'.ok => Of(c).ok
    <2>1. call[c].pc # "idle"
      BY <1>3 DEF Settles, Stays, GivesUp, IsOver
    <2>2. call[c].lease \in Leases /\ call[c].lease # None /\ Of(c)' = lease'[call[c].lease]
      BY <2>1, CallTyped DEF Of, Settles
    <2> QED BY <2>1, <2>2 DEF Of, Winds
  <1>4. GenerationsHold'
    <2>1. \A l \in Leases : lease'[l].gen # 0 => lease'[l].acq = "granted" /\ l <= epoch'
      BY DEF IInv, GenerationsHold, Winds
    <2>2. \A c, d \in Calls :
            (call'[c].lease = call'[d].lease /\ call'[c].gen = call'[d].gen /\ call'[c].gen # 0)
              => c = d
      BY DEF IInv, GenerationsHold, Settles
    <2>4. \A l \in Leases : lease'[l].active # 0 =>
            \E c \in Calls : call'[c].lease = l /\ call'[c].gen = lease'[l].active
      BY DEF IInv, GenerationsHold, Settles, Winds
    <2>3. ASSUME NEW c \in Calls PROVE NumberHolds(c)'
      <3>1. call'[c].pc = "idle" <=> call[c].pc = "idle"
        BY DEF Settles, Stays, GivesUp, IsOver
      <3>2. CASE call[c].pc = "idle"
        BY <3>1, <3>2 DEF IInv, GenerationsHold, NumberHolds, Settles
      <3>3. CASE call[c].pc # "idle"
        <4>1. /\ call[c].lease # None /\ Of(c)'.gen = Of(c).gen
              /\ Of(c).acq = "granted" => Of(c)'.acq = "granted"
          BY <1>3, <3>1, <3>3
        <4> QED BY <3>1, <3>3, <4>1 DEF IInv, GenerationsHold, NumberHolds, Settles, Stays, GivesUp, IsOver
      <3> QED BY <3>2, <3>3
    <2> QED BY <2>1, <2>2, <2>3, <2>4 DEF GenerationsHold
  <1>5. SoundsHold'
    <2> SUFFICES ASSUME NEW c \in Calls PROVE SoundHolds(c)'
      BY DEF SoundsHold
    <2>1. CASE call'[c].pc = "idle"
      <3>1. call[c].pc = "idle" /\ call[c].gen = 0
        BY <2>1 DEF IInv, GenerationsHold, NumberHolds, Settles, Stays, GivesUp, IsOver
      <3>2. audio[c] = "none"
        BY <3>1 DEF IInv, SoundsHold, SoundHolds
      <3>3. audio'[c] = "none" /\ call'[c].gen = 0
        BY <3>1, <3>2 DEF Settles, Stays, GivesUp, IsOver, Sounding
      <3> QED BY <2>1, <3>3 DEF SoundHolds, Sounding
    <2>2. CASE call'[c].pc # "idle"
      <3> HIDE DEF Sounding
      <3>1. /\ Of(c)'.active = Of(c).active /\ Of(c)'.frame = Of(c).frame
            /\ Of(c).stopReq => Of(c)'.stopReq
        BY <1>3, <2>2
      <3>2. CASE Stays(c)
        BY <3>1, <3>2, <1>1 DEF IInv, SoundsHold, SoundHolds, Settles, Stays, Sounding
      <3>3. CASE GivesUp(c)
        BY <3>1, <3>3, <1>1 DEF IInv, SoundsHold, SoundHolds, Settles, GivesUp, Sounding
      <3>4. CASE IsOver(c)
        BY <3>1, <3>4, <1>1 DEF IInv, SoundsHold, SoundHolds, Settles, IsOver, Sounding
      <3> QED BY <3>2, <3>3, <3>4 DEF Settles
    <2> QED BY <2>1, <2>2
  <1>6. ReleasesHold'
    <2>1. ASSUME NEW l \in Leases
          PROVE  /\ lease'[l].rel # "none" => lease'[l].stopReq
                 /\ lease'[l].ok => lease'[l].spent
                 /\ lease'[l].spent => lease'[l].rel # "none"
      BY DEF IInv, ReleasesHold, Winds
    <2>2. ASSUME NEW c \in Calls PROVE WaitHolds(c)'
      <3>1. call'[c].pc \in {"releasing", "replaceQueued"} \cup Begun =>
              /\ Of(c).rel # "none" => Of(c)'.rel # "none"
              /\ Of(c)'.ok => Of(c).ok
              /\ Of(c)'.spent = Of(c).spent
        BY <1>3 DEF Begun
      <3>2. call'[c].pc = "releasing" =>
              Of(c)'.rel # "none" /\ (Of(c)'.ok => audio'[c] = "completed")
        BY <3>1
           DEF IInv, ReleasesHold, WaitHolds, Settles, Stays, GivesUp, IsOver, Sounding
      <3>3. call'[c].pc \in {"replaceQueued"} \cup Begun => ~Of(c)'.spent
        BY <3>1
           DEF IInv, ReleasesHold, WaitHolds, Settles, Stays, GivesUp, IsOver, Begun
      <3> QED BY <3>2, <3>3 DEF WaitHolds
    <2> QED BY <2>1, <2>2 DEF ReleasesHold
  <1>7. SuccessIsEarned'
    <2>1. \A c \in Calls : audio[c] = "completed" => audio'[c] = "completed"
      BY DEF Settles, Stays, GivesUp, IsOver, Sounding
    <2>2. \A c \in Calls : call'[c].result = "success" => audio'[c] = "completed"
      BY <2>1 DEF IInv, SuccessIsEarned, Settles, Stays, GivesUp, IsOver
    <2>3. ASSUME NEW l \in Leases, lease'[l].ok
          PROVE  \E c \in Calls : call'[c].lease = l /\ call'[c].gen = lease'[l].gen
                                  /\ audio'[c] = "completed"
      BY <2>1, <2>3 DEF IInv, SuccessIsEarned, Settles, Winds
    <2> QED BY <2>2, <2>3 DEF SuccessIsEarned
  <1> QED BY <1>2, <1>4, <1>5, <1>6, <1>7

\* What leaving the chain, the release and an interruption change of a lease.
LEMMA DequeuedChanges ==
  ASSUME NEW r \in Lease, NEW c \in Calls
  PROVE  /\ Dequeued(r, c) \in Lease
         /\ Dequeued(r, c).gen = r.gen /\ Dequeued(r, c).active = r.active
         /\ Dequeued(r, c).frame = r.frame /\ Dequeued(r, c).spent = r.spent
         /\ Dequeued(r, c).acq = r.acq /\ Dequeued(r, c).stopReq = r.stopReq
         /\ Dequeued(r, c).rel = r.rel /\ Dequeued(r, c).ok = r.ok
  <1>1. CASE r.queue # <<>> /\ Head(r.queue) = c
    <2>1. r.queue \in Seq(Calls)
      BY DEF Lease
    <2>2. Tail(r.queue) \in Seq(Calls)
      BY <1>1, <2>1, HeadTailProperties
    <2> QED BY <1>1, <2>2 DEF Dequeued, Lease
  <1>2. CASE ~(r.queue # <<>> /\ Head(r.queue) = c)
    BY <1>2 DEF Dequeued
  <1> QED BY <1>1, <1>2

\* What a release leaves alone
LEMMA ReleaseChanges ==
  ASSUME NEW r \in Lease
  PROVE  /\ EnsureReleased(r, FALSE) \in Lease
         /\ EnsureReleased(r, FALSE).rel # "none"
         /\ r.stopReq => EnsureReleased(r, FALSE).stopReq
         /\ EnsureReleased(r, FALSE).ok => r.ok /\ r.rel # "none"
         /\ EnsureReleased(r, FALSE).acq = r.acq /\ EnsureReleased(r, FALSE).gen = r.gen
         /\ EnsureReleased(r, FALSE).active = r.active
         /\ EnsureReleased(r, FALSE).frame = r.frame
         /\ EnsureReleased(r, FALSE).spent = r.spent
         /\ EnsureReleased(r, FALSE).queue = r.queue
         /\ (r.rel # "none" => r.stopReq) => EnsureReleased(r, FALSE).stopReq
  BY DEF EnsureReleased, Lease

\* What an interruption leaves alone
LEMMA InterruptChanges ==
  ASSUME NEW r \in Lease
  PROVE  /\ ForceInterrupted(r) \in Lease
         /\ ForceInterrupted(r).rel = r.rel /\ ForceInterrupted(r).ok = r.ok
         /\ r.stopReq => ForceInterrupted(r).stopReq
         /\ ForceInterrupted(r).acq = r.acq /\ ForceInterrupted(r).gen = r.gen
         /\ ForceInterrupted(r).active = r.active
         /\ ForceInterrupted(r).frame = r.frame
         /\ ForceInterrupted(r).spent = r.spent
         /\ ForceInterrupted(r).queue = r.queue
  BY DEF ForceInterrupted, Lease

\* The lease record of a call is changed, and those of the others are not.
LEMMA PutOne ==
  ASSUME IInv, NEW c \in Calls, call[c].pc # "idle", NEW r \in Lease, PutLease(c, r)
  PROVE  /\ lease' \in [Leases -> Lease]
         /\ lease'[call[c].lease] = r
         /\ \A l \in Leases : l # call[c].lease => lease'[l] = lease[l]
  BY CallTyped DEF IInv, TypeOK, PutLease

\* The record of a call is changed, and those of the others are not.
LEMMA PutTheCall ==
  ASSUME IInv, NEW c \in Calls, NEW r \in Call, PutCall(c, r)
  PROVE  /\ call' \in [Calls -> Call]
         /\ call'[c] = r
         /\ \A d \in Calls \ {c} : call'[d] = call[d]
  BY DEF IInv, TypeOK, PutCall

\* A lease record that is not touched winds on.
LEMMA UntouchedWinds ==
  ASSUME IInv, NEW l \in Leases, lease'[l] = lease[l]
  PROVE  Winds(l)
  BY DEF IInv, ReleasesHold, Winds

\* A call that returns without a sound of its own keeps the invariant.
LEMMA EndsInvariant ==
  ASSUME IInv, NEW c \in Calls, call[c].pc # "idle",
         call[c].pc \in InChain => First(c),
         NEW result \in {"success", "failure", "continues", "deferred", "thrown"},
         result = "success" => audio[c] = "completed",
         ~Sounding(c) \/ Of(c).stopReq,
         Ends(c, result), UNCHANGED <<epoch, current, audio>>, fenced' \subseteq Calls
  PROVE  IInv'
  <1> DEFINE l == call[c].lease
             r == Dequeued(Of(c), c)
  <1>1. Of(c) \in Lease /\ l \in Leases /\ Of(c) = lease[l] /\ call[c] \in Call
    BY CallTyped DEF Of
  <1>2. /\ r \in Lease /\ r.gen = Of(c).gen /\ r.active = Of(c).active
        /\ r.frame = Of(c).frame /\ r.spent = Of(c).spent /\ r.acq = Of(c).acq
        /\ r.stopReq = Of(c).stopReq /\ r.rel = Of(c).rel /\ r.ok = Of(c).ok
    BY <1>1, DequeuedChanges
  <1>3. /\ lease' \in [Leases -> Lease] /\ lease'[l] = r
        /\ \A k \in Leases : k # l => lease'[k] = lease[k]
    BY <1>2, PutOne DEF Ends
  <1>4. /\ call' \in [Calls -> Call] /\ call'[c].pc = "ended" /\ call'[c].result = result
        /\ call'[c].lease = call[c].lease /\ call'[c].gen = call[c].gen
        /\ \A d \in Calls \ {c} : call'[d] = call[d]
    BY <1>1 DEF Ends, PutCall, IInv, TypeOK, Call
  <1> HIDE DEF r
  <1>5. TypeOK'
    BY <1>3, <1>4 DEF IInv, TypeOK
  <1>6. ChainHolds'
    <2>1. \A k \in Leases : lease'[k].queue =
            IF k = l THEN Dequeued(lease[k], c).queue ELSE lease[k].queue
      BY <1>1, <1>3 DEF r
    <2> QED BY <1>4, <2>1, ChainLeaves DEF InChain, Begun
  <1>7. \A k \in Leases : Winds(k)
    <2>1. Winds(l)
      BY <1>1, <1>2, <1>3 DEF Winds, IInv, ReleasesHold
    <2> QED BY <1>3, <2>1, UntouchedWinds
  <1>8. \A d \in Calls : Settles(d)
    <2>1. Settles(c)
      <3>1. Of(c)'.stopReq = Of(c).stopReq
        BY <1>1, <1>2, <1>3, <1>4 DEF Of
      <3> QED BY <1>4, <3>1 DEF Settles, IsOver, Sounding
    <2>2. \A d \in Calls \ {c} : Settles(d)
      BY <1>4 DEF Settles, Stays
    <2> QED BY <2>1, <2>2
  <1> QED BY <1>5, <1>6, <1>7, <1>8, Keeps DEF IInv

\* A call that waits for the release, its own or the running one, keeps the invariant.
LEMMA ReleasesInvariant ==
  ASSUME IInv, NEW c \in Calls, call[c].pc # "idle",
         call[c].pc \in InChain => First(c),
         Of(c).ok => audio[c] = "completed",
         Releases(c, FALSE), UNCHANGED <<epoch, current>>, fenced' \subseteq Calls,
         \/ audio' = audio
         \/ Sounding(c) /\ \E x \in {"playing", "failed"} : audio' = [audio EXCEPT ![c] = x]
  PROVE  IInv'
  <1> DEFINE l == call[c].lease
             q == Dequeued(Of(c), c)
             r == EnsureReleased(q, FALSE)
  <1>1. Of(c) \in Lease /\ l \in Leases /\ Of(c) = lease[l] /\ call[c] \in Call
    BY CallTyped DEF Of
  <1>2. /\ q \in Lease /\ q.gen = Of(c).gen /\ q.active = Of(c).active
        /\ q.frame = Of(c).frame /\ q.spent = Of(c).spent /\ q.acq = Of(c).acq
        /\ q.stopReq = Of(c).stopReq /\ q.rel = Of(c).rel /\ q.ok = Of(c).ok
    BY <1>1, DequeuedChanges
  <1>3. Of(c).rel # "none" => Of(c).stopReq
    BY <1>1 DEF IInv, ReleasesHold
  <1> HIDE DEF q
  <1>4. /\ r \in Lease /\ r.gen = Of(c).gen /\ r.active = Of(c).active /\ r.queue = q.queue
        /\ r.frame = Of(c).frame /\ r.spent = Of(c).spent /\ r.acq = Of(c).acq
        /\ r.stopReq /\ r.rel # "none" /\ (r.ok => Of(c).ok)
    BY <1>2, <1>3, ReleaseChanges
  <1>5. /\ lease' \in [Leases -> Lease] /\ lease'[l] = r
        /\ \A k \in Leases : k # l => lease'[k] = lease[k]
    BY <1>4, PutOne DEF Releases, q
  <1>6. /\ call' \in [Calls -> Call] /\ call'[c].pc = "releasing"
        /\ call'[c].result = call[c].result
        /\ call'[c].lease = call[c].lease /\ call'[c].gen = call[c].gen
        /\ \A d \in Calls \ {c} : call'[d] = call[d]
    BY <1>1 DEF Releases, PutCall, IInv, TypeOK, Call
  <1>7. \A d \in Calls \ {c} : audio'[d] = audio[d]
    BY DEF IInv, TypeOK
  <1>8. audio'[c] = audio[c] \/ (Sounding(c) /\ audio'[c] \in {"playing", "completed", "failed"})
    BY DEF IInv, TypeOK
  <1> HIDE DEF r
  <1>9. TypeOK'
    BY <1>5, <1>6 DEF IInv, TypeOK
  <1>10. ChainHolds'
    <2>1. \A k \in Leases : lease'[k].queue =
            IF k = l THEN Dequeued(lease[k], c).queue ELSE lease[k].queue
      BY <1>1, <1>4, <1>5 DEF q
    <2> QED BY <1>6, <2>1, ChainLeaves DEF InChain, Begun
  <1>11. \A k \in Leases : Winds(k)
    <2>1. Winds(l)
      BY <1>1, <1>4, <1>5 DEF Winds
    <2> QED BY <1>5, <2>1, UntouchedWinds
  <1>12. \A d \in Calls : Settles(d)
    <2>1. Settles(c)
      <3>1. Of(c)' = r
        BY <1>5, <1>6 DEF Of
      <3>2. call'[c].result = "success" => call[c].result = "success"
        BY <1>6
      <3> QED BY <1>4, <1>6, <1>8, <3>1, <3>2 DEF Settles, IsOver, Sounding
    <2>2. \A d \in Calls \ {c} : Settles(d)
      BY <1>6, <1>7 DEF Settles, Stays
    <2> QED BY <2>1, <2>2
  <1> QED BY <1>9, <1>10, <1>11, <1>12, Keeps DEF IInv

\* A replacement that fails before its audio is asked for keeps the invariant.
LEMMA ReplaceFailsInvariant ==
  ASSUME IInv, NEW c \in Calls, First(c),
         call[c].pc \in {"replaceQueued", "activation", "stopping", "preparing"},
         ReplaceFails(c), UNCHANGED <<epoch, current, audio>>, fenced' \subseteq Calls
  PROVE  IInv'
  <1>1. ~Sounding(c)
    BY DEF IInv, SoundsHold, SoundHolds, GenerationsHold, NumberHolds, Sounding
  <1>2. call[c].pc # "idle" /\ call[c].lease \in Leases /\ ~Of(c).spent
    BY CallTyped DEF IInv, ReleasesHold, WaitHolds, Begun
  <1>3. ~Of(c).ok
    BY <1>2 DEF IInv, ReleasesHold, Of
  <1>4. CASE Releases(c, FALSE)
    BY <1>2, <1>3, <1>4, ReleasesInvariant
  <1>5. CASE Ends(c, "failure")
    BY <1>1, <1>2, <1>5, EndsInvariant
  <1> QED BY <1>4, <1>5 DEF ReplaceFails

\* A step that only brings the end of one lease nearer, whether its caller gives up or not,
\* keeps the invariant.
LEMMA WindsInvariant ==
  ASSUME IInv, NEW l \in Leases, NEW r \in Lease, lease' = [lease EXCEPT ![l] = r],
         Winds(l), r.queue = lease[l].queue,
         epoch' = epoch, current' \in {current, None}, audio' = audio, fenced' \subseteq Calls,
         \/ call' = call
         \/ \E c \in Calls : call[c].pc = "acquiring"
                             /\ PutCall(c, [call[c] EXCEPT !.pc = "abandoning"])
  PROVE  IInv'
  <1>1. /\ lease' \in [Leases -> Lease] /\ lease'[l] = r
        /\ \A k \in Leases : k # l => lease'[k] = lease[k]
    BY DEF IInv, TypeOK
  <1>2. \A k \in Leases : Winds(k) /\ lease'[k].queue = lease[k].queue
    BY <1>1, UntouchedWinds
  <1>3. /\ call' \in [Calls -> Call]
        /\ \A c \in Calls : Settles(c)
        /\ \A c \in Calls : /\ call'[c].lease = call[c].lease
                            /\ \/ call'[c].pc = call[c].pc
                               \/ call[c].pc = "acquiring" /\ call'[c].pc = "abandoning"
    <2>1. \A c \in Calls : audio'[c] = audio[c]
      OBVIOUS
    <2>2. CASE call' = call
      <3>1. \A c \in Calls : call'[c] = call[c]
        BY <2>2
      <3>2. call' \in [Calls -> Call]
        BY <2>2 DEF IInv, TypeOK
      <3>3. \A c \in Calls : Settles(c)
        BY <2>1, <3>1 DEF Settles, Stays
      <3> QED BY <3>1, <3>2, <3>3
    <2>3. ASSUME NEW c \in Calls, call[c].pc = "acquiring",
                 PutCall(c, [call[c] EXCEPT !.pc = "abandoning"])
          PROVE  /\ call' \in [Calls -> Call]
                 /\ \A d \in Calls : Settles(d)
                 /\ \A d \in Calls : /\ call'[d].lease = call[d].lease
                                     /\ \/ call'[d].pc = call[d].pc
                                        \/ /\ call[d].pc = "acquiring"
                                           /\ call'[d].pc = "abandoning"
      <3>1. /\ call' \in [Calls -> Call] /\ call'[c].pc = "abandoning"
            /\ call'[c].result = call[c].result
            /\ call'[c].lease = call[c].lease /\ call'[c].gen = call[c].gen
            /\ \A d \in Calls \ {c} : call'[d] = call[d]
        BY <2>3, CallTyped DEF PutCall, IInv, TypeOK, Call
      <3>2. Settles(c)
        BY <2>1, <2>3, <3>1 DEF Settles, GivesUp
      <3>3. \A d \in Calls \ {c} : Settles(d)
        BY <2>1, <3>1 DEF Settles, Stays
      <3>4. \A d \in Calls : Settles(d)
        BY <3>2, <3>3
      <3>5. \A d \in Calls : /\ call'[d].lease = call[d].lease
                             /\ \/ call'[d].pc = call[d].pc
                                \/ call[d].pc = "acquiring" /\ call'[d].pc = "abandoning"
        BY <2>3, <3>1
      <3> QED BY <3>1, <3>4, <3>5
    <2> QED BY <2>2, <2>3
  <1>4. TypeOK'
    BY <1>1, <1>3, BoundsAssumption DEF IInv, TypeOK
  <1>5. ChainHolds'
    BY <1>2, <1>3, ChainAdvances DEF InChain, Begun
  <1> QED BY <1>2, <1>3, <1>4, <1>5, Keeps DEF IInv

\* The initial states satisfy the invariant.
LEMMA InitInvariant == Init => IInv
  <1> SUFFICES ASSUME Init PROVE IInv
    OBVIOUS
  <1>1. TypeOK
    <2>1. <<>> \in Seq(Calls)
      BY EmptySeq
    <2> QED BY <2>1, BoundsAssumption DEF Init, TypeOK, Lease, Call
  <1>2. /\ \A l \in Leases : lease[l].queue = <<>> /\ lease[l].gen = 0 /\ ~lease[l].ok
                             /\ lease[l].active = 0
                             /\ lease[l].rel = "none" /\ ~lease[l].spent
        /\ \A c \in Calls : call[c].pc = "idle" /\ call[c].gen = 0 /\ call[c].lease = None
                            /\ call[c].result = "none" /\ audio[c] = "none"
        /\ epoch = 0
    BY DEF Init
  <1>3. DOMAIN <<>> = {}
    OBVIOUS
  <1> QED
    BY <1>1, <1>2, <1>3
       DEF IInv, ChainHolds, GenerationsHold, NumberHolds, SoundsHold, SoundHolds, ReleasesHold, WaitHolds, OneAudible,
           SuccessIsEarned, Sounding, InChain, Begun

\* What happens to the lease itself keeps the invariant.
LEMMA PhysicalInvariant == ASSUME IInv, NEW l \in Leases, Physical(l) PROVE IInv'
  <1> USE LeaseTyped
  <1>1. lease[l].rel # "none" => lease[l].stopReq
    BY DEF IInv, ReleasesHold
  <1>2. CASE Grant(l)
    <2> DEFINE r == [lease[l] EXCEPT !.acq = "granted"]
    <2>1. r \in Lease /\ lease' = [lease EXCEPT ![l] = r] /\ r.queue = lease[l].queue
      BY <1>2 DEF Grant, Lease
    <2>2. Winds(l)
      BY <1>1, <2>1 DEF Winds, IInv, TypeOK, Lease
    <2> QED BY <1>2, <2>1, <2>2, WindsInvariant DEF Grant, IInv, TypeOK
  <1>3. CASE Interrupt(l)
    <2> DEFINE r == ForceInterrupted(lease[l])
    <2>1. lease' = [lease EXCEPT ![l] = r]
      BY <1>3 DEF Interrupt
    <2> HIDE DEF r
    <2>2. lease'[l] = r
      BY <2>1 DEF IInv, TypeOK
    <2>3. /\ r \in Lease /\ r.queue = lease[l].queue /\ r.gen = lease[l].gen
          /\ r.active = lease[l].active /\ r.frame = lease[l].frame
          /\ r.spent = lease[l].spent /\ r.acq = lease[l].acq
          /\ (lease[l].stopReq => r.stopReq) /\ r.rel = lease[l].rel /\ r.ok = lease[l].ok
      BY InterruptChanges DEF r
    <2>4. Winds(l)
      BY <1>1, <2>2, <2>3 DEF Winds
    <2> QED BY <1>3, <2>1, <2>3, <2>4, WindsInvariant DEF Interrupt, IInv, TypeOK
  <1>4. CASE InterruptReleases(l)
    <2> DEFINE q == [lease[l] EXCEPT !.cut = FALSE]
               r == EnsureReleased(q, FALSE)
    <2>1. /\ q \in Lease /\ q.queue = lease[l].queue /\ q.gen = lease[l].gen
          /\ q.active = lease[l].active /\ q.frame = lease[l].frame
          /\ q.spent = lease[l].spent /\ q.acq = lease[l].acq
          /\ q.stopReq = lease[l].stopReq /\ q.rel = lease[l].rel /\ q.ok = lease[l].ok
      BY DEF Lease
    <2> HIDE DEF q
    <2>2. /\ r \in Lease /\ r.gen = lease[l].gen /\ r.active = lease[l].active
          /\ r.queue = lease[l].queue /\ r.frame = lease[l].frame
          /\ r.spent = lease[l].spent /\ r.acq = lease[l].acq
          /\ r.stopReq /\ r.rel # "none" /\ (r.ok => lease[l].ok)
      BY <1>1, <2>1, ReleaseChanges
    <2>3. lease' = [lease EXCEPT ![l] = r]
      BY <1>4 DEF InterruptReleases, q
    <2> HIDE DEF r
    <2>4. Winds(l)
      <3>1. lease'[l] = r
        BY <2>3 DEF IInv, TypeOK
      <3> QED BY <2>2, <3>1 DEF Winds
    <2>5. fenced' \subseteq Calls
      BY <1>4 DEF InterruptReleases, IInv, TypeOK
    <2> QED BY <1>4, <2>2, <2>3, <2>4, <2>5, WindsInvariant DEF InterruptReleases
  <1>5. CASE OutputFails(l)
    <2> DEFINE r == EnsureReleased(lease[l], FALSE)
    <2>1. /\ r \in Lease /\ r.gen = lease[l].gen /\ r.active = lease[l].active
          /\ r.queue = lease[l].queue /\ r.frame = lease[l].frame
          /\ r.spent = lease[l].spent /\ r.acq = lease[l].acq
          /\ r.stopReq /\ r.rel # "none" /\ (r.ok => lease[l].ok)
      BY <1>1, ReleaseChanges
    <2>2. lease' = [lease EXCEPT ![l] = r]
      BY <1>5 DEF OutputFails
    <2> HIDE DEF r
    <2>3. Winds(l)
      <3>1. lease'[l] = r
        BY <2>2 DEF IInv, TypeOK
      <3> QED BY <2>1, <3>1 DEF Winds
    <2> QED BY <1>5, <2>1, <2>2, <2>3, WindsInvariant DEF OutputFails, IInv, TypeOK
  <1>6. CASE RetryUnknownStop(l)
    <2> DEFINE r == [lease[l] EXCEPT !.rel = "running", !.ok = FALSE]
    <2>1. r \in Lease /\ r.queue = lease[l].queue /\ lease' = [lease EXCEPT ![l] = r]
      BY <1>6 DEF RetryUnknownStop, IInv, TypeOK, Lease
    <2>2. lease'[l] = r
      BY <2>1 DEF IInv, TypeOK
    <2>3. /\ r.gen = lease[l].gen /\ r.active = lease[l].active
          /\ r.frame = lease[l].frame /\ r.spent = lease[l].spent /\ r.acq = lease[l].acq
          /\ r.stopReq = lease[l].stopReq /\ r.rel = "running" /\ r.ok = FALSE
      BY DEF Lease
    <2> HIDE DEF r
    <2>4. lease[l].rel = "unknown"
      BY <1>6 DEF RetryUnknownStop
    <2>5. Winds(l)
      BY <1>1, <2>2, <2>3, <2>4 DEF Winds
    <2> QED BY <1>6, <2>1, <2>5, WindsInvariant DEF RetryUnknownStop, IInv, TypeOK
  <1>7. ASSUME NEW confirmed \in BOOLEAN, ReleaseEnds(l, confirmed) PROVE IInv'
    <2> DEFINE r == [lease[l] EXCEPT !.rel = IF confirmed THEN "done" ELSE "unknown"]
    <2>1. r \in Lease /\ r.queue = lease[l].queue /\ lease' = [lease EXCEPT ![l] = r]
      BY <1>7 DEF ReleaseEnds, Lease
    <2>2. Winds(l)
      <3>1. lease'[l] = r
        BY <2>1 DEF IInv, TypeOK
      <3> QED BY <1>1, <1>7, <3>1 DEF ReleaseEnds, Winds, Lease
    <2> HIDE DEF r
    <2> QED BY <1>7, <2>1, <2>2, WindsInvariant DEF ReleaseEnds, IInv, TypeOK
  <1> QED BY <1>2, <1>3, <1>4, <1>5, <1>6, <1>7 DEF Physical

-----------------------------------------------------------------------------
(* The steps that give a call its place, its generation or its sound       *)

\* What a step of one call leaves true of another.
LEMMA Beside ==
  ASSUME IInv, epoch' \in {epoch, epoch + 1}, NEW d \in Calls,
         call'[d] = call[d], audio'[d] = audio[d],
         call[d].pc # "idle" =>
           /\ Of(d).acq = "granted" => Of(d)'.acq = "granted"
           /\ Of(d)'.gen \in Nat /\ Of(d).gen <= Of(d)'.gen
           /\ call[d].pc \in Begun =>
                /\ Of(d)'.gen = Of(d).gen
                /\ Of(d)'.active = Of(d).active
                   \/ (Of(d)'.active = 0 /\ call[d].pc # "stopping")
           /\ (call[d].pc = "observing" /\ Sounding(d)) =>
                Of(d)'.frame = Of(d).frame /\ Of(d)'.active = Of(d).active
           /\ Of(d).stopReq => Of(d)'.stopReq
           /\ Of(d).rel # "none" => Of(d)'.rel # "none"
           /\ (call[d].pc = "releasing" /\ Of(d)'.ok) => Of(d).ok
           /\ (call[d].pc \in {"replaceQueued"} \cup Begun /\ Of(d)'.spent) => Of(d).spent
  PROVE  NumberHolds(d)' /\ SoundHolds(d)' /\ WaitHolds(d)'
  <1>1. NumberHolds(d) /\ SoundHolds(d) /\ WaitHolds(d) /\ epoch \in Nat
    BY DEF IInv, TypeOK, GenerationsHold, SoundsHold, ReleasesHold
  <1>2. CASE call[d].pc = "idle"
    <2>1. call[d].gen = 0 /\ audio[d] = "none" /\ call[d].lease = None
      BY <1>1, <1>2 DEF NumberHolds, SoundHolds
    <2>2. NumberHolds(d)'
      BY <1>1, <1>2, <2>1 DEF NumberHolds
    <2>3. SoundHolds(d)'
      BY <1>2, <2>1 DEF SoundHolds, Sounding
    <2>4. WaitHolds(d)'
      BY <1>2 DEF WaitHolds, Begun
    <2> QED BY <2>2, <2>3, <2>4
  <1>3. CASE call[d].pc # "idle"
    <2>1. call[d].gen \in Nat /\ Of(d).gen \in Nat
      BY <1>3, CallTyped DEF Call, Lease
    <2>2. NumberHolds(d)'
      BY <1>1, <1>3, <2>1 DEF NumberHolds, Begun
    <2>3. SoundHolds(d)'
      BY <1>1, <1>3 DEF SoundHolds, Sounding, Begun
    <2>4. WaitHolds(d)'
      BY <1>1, <1>3 DEF WaitHolds, Begun
    <2> QED BY <2>2, <2>3, <2>4
  <1> QED BY <1>2, <1>3

\* What concerns several calls holds after a step that gives no generation and begins no
\* release that is a success.
LEMMA Shared ==
  ASSUME IInv, epoch' \in {epoch, epoch + 1},
         \A l \in Leases :
           /\ lease'[l].gen = lease[l].gen
           /\ lease[l].gen # 0 /\ lease[l].acq = "granted" => lease'[l].acq = "granted"
           /\ lease'[l].rel # "none" => lease'[l].stopReq
           /\ lease[l].rel # "none" => lease'[l].rel # "none"
           /\ lease'[l].ok => lease[l].ok
           /\ lease'[l].spent = lease[l].spent
           /\ \/ lease'[l].active \in {lease[l].active, 0}
              \/ \E c \in Calls : call[c].lease = l /\ call[c].gen = lease'[l].active,
         \A c \in Calls :
           /\ call'[c].gen = call[c].gen
           /\ call'[c].lease = call[c].lease \/ (call[c].gen = 0 /\ audio'[c] = "none")
           /\ call'[c].result = "success" => call[c].result = "success"
           /\ Sounding(c)' => Sounding(c)
           /\ audio[c] = "completed" => audio'[c] = "completed",
         \A c \in Calls : NumberHolds(c)' /\ SoundHolds(c)' /\ WaitHolds(c)'
  PROVE  GenerationsHold' /\ SoundsHold' /\ ReleasesHold' /\ OneAudible' /\ SuccessIsEarned'
  <1>1. \A l \in Leases : lease'[l].gen # 0 => lease'[l].acq = "granted" /\ l <= epoch'
    BY DEF IInv, TypeOK, GenerationsHold, Leases
  <1>6. ASSUME NEW l \in Leases, lease'[l].active # 0
        PROVE  \E c \in Calls : call'[c].lease = l /\ call'[c].gen = lease'[l].active
    <2>1. PICK c \in Calls : call[c].lease = l /\ call[c].gen = lease'[l].active
      BY <1>6 DEF IInv, GenerationsHold
    <2>2. call'[c].lease = l /\ call'[c].gen = lease'[l].active
      BY <1>6, <2>1
    <2> QED BY <2>2
  <1>2. \A c, d \in Calls :
          (call'[c].lease = call'[d].lease /\ call'[c].gen = call'[d].gen /\ call'[c].gen # 0)
            => c = d
    BY DEF IInv, GenerationsHold
  <1>3. OneAudible'
    <2>1. \A c \in Calls : Sounding(c)' => Sounding(c) /\ call'[c].lease = call[c].lease
      BY DEF Sounding
    <2> QED BY <2>1 DEF IInv, OneAudible
  <1>4. SuccessIsEarned'
    <2>1. \A c \in Calls : audio[c] = "completed" => call'[c].lease = call[c].lease
      OBVIOUS
    <2> QED BY <2>1 DEF IInv, SuccessIsEarned
  <1>5. ReleasesHold'
    BY DEF IInv, ReleasesHold
  <1> QED BY <1>1, <1>2, <1>3, <1>4, <1>5, <1>6 DEF GenerationsHold, SoundsHold

\* Audio that starts or settles while no transition waits for it keeps the invariant.
LEMMA HearsInvariant ==
  ASSUME IInv, NEW c \in Calls, Sounding(c), call[c].pc # "starting",
         NEW x \in {"playing", "completed", "failed"}, audio' = [audio EXCEPT ![c] = x],
         UNCHANGED <<epoch, current, lease, call, fenced>>
  PROVE  IInv'
  <1>1. /\ audio' \in [Calls -> {"none", "requested", "playing", "completed", "failed"}]
        /\ audio'[c] = x /\ \A d \in Calls \ {c} : audio'[d] = audio[d]
    BY DEF IInv, TypeOK
  <1>2. TypeOK'
    BY <1>1 DEF IInv, TypeOK
  <1>3. ChainHolds'
    BY ChainAdvances
  <1>4. \A l \in Leases : Winds(l)
    BY UntouchedWinds
  <1>5. \A d \in Calls : Settles(d)
    BY <1>1 DEF Settles, Stays
  <1> QED BY <1>2, <1>3, <1>4, <1>5, Keeps DEF IInv

\* A digital frame that acquires the transmitter keeps the invariant.
LEMMA AcquireInvariant == ASSUME IInv, NEW c \in Calls, Acquire(c) PROVE IInv'
  <1> DEFINE l == epoch + 1
  <1>1. l \in Leases /\ l # None /\ l \in 0..MaxLeases /\ epoch \in Nat /\ epoch' = l /\ current' = l
    BY BoundsAssumption DEF Acquire, IInv, TypeOK, Leases
  <1>2. lease[l] \in Lease /\ call[c] \in Call /\ call[c].pc = "idle" /\ c \in 0..MaxCalls
    BY <1>1, LeaseTyped, CallTyped, BoundsAssumption DEF Acquire, Fresh, Calls
  <1>3. /\ lease' \in [Leases -> Lease]
        /\ \A k \in Leases \ {l} : lease'[k] = lease[k]
        /\ lease'[l].queue = lease[l].queue /\ lease'[l].gen = lease[l].gen
        /\ lease'[l].stopReq = lease[l].stopReq /\ lease'[l].rel = lease[l].rel
        /\ lease'[l].ok = lease[l].ok /\ lease'[l].spent = lease[l].spent
        /\ lease'[l].active = lease[l].active
    <2>1. lease' = [lease EXCEPT ![l] = [lease[l] EXCEPT !.acq = "acquiring", !.frame = c]]
      BY <1>1 DEF Acquire, IInv, TypeOK
    <2>2. [lease[l] EXCEPT !.acq = "acquiring", !.frame = c] \in Lease
      BY <1>2 DEF Lease
    <2> HIDE DEF l
    <2>3. lease'[l] = [lease[l] EXCEPT !.acq = "acquiring", !.frame = c]
      BY <1>1, <2>1 DEF IInv, TypeOK
    <2> QED BY <1>1, <1>2, <2>1, <2>2, <2>3 DEF IInv, TypeOK, Lease
  <1>4. /\ call' \in [Calls -> Call] /\ call'[c].lease = l /\ call'[c].pc = "acquiring"
        /\ call'[c].gen = call[c].gen /\ call'[c].result = call[c].result
        /\ \A d \in Calls \ {c} : call'[d] = call[d]
    <2>1. [call[c] EXCEPT !.lease = l, !.pc = "acquiring"] \in Call
      BY <1>1, <1>2 DEF Call
    <2>2. PutCall(c, [call[c] EXCEPT !.lease = l, !.pc = "acquiring"])
      BY DEF Acquire
    <2> HIDE DEF l
    <2>3. /\ call' \in [Calls -> Call]
          /\ call'[c] = [call[c] EXCEPT !.lease = l, !.pc = "acquiring"]
          /\ \A d \in Calls \ {c} : call'[d] = call[d]
      BY <2>1, <2>2, PutTheCall
    <2> QED BY <1>2, <2>3 DEF Call
  <1>5. audio' = audio /\ fenced' = fenced
    BY DEF Acquire
  <1>6. call[c].gen = 0 /\ audio[c] = "none"
    BY <1>2 DEF IInv, GenerationsHold, NumberHolds, SoundsHold, SoundHolds
  <1>7. lease[l].gen = 0
    BY <1>1 DEF IInv, GenerationsHold
  <1> HIDE DEF l
  <1>8. TypeOK'
    BY <1>1, <1>3, <1>4, <1>5, BoundsAssumption DEF IInv, TypeOK, Leases
  <1>9. ChainHolds'
    BY <1>2, <1>3, <1>4, ChainAdvances DEF InChain, Begun
  <1>10. ASSUME NEW d \in Calls PROVE NumberHolds(d)' /\ SoundHolds(d)' /\ WaitHolds(d)'
    <2>1. CASE d = c
      <3>1. Of(c)' = lease'[l]
        BY <1>4 DEF Of
      <3>2. call'[c].gen <= Of(c)'.gen
        BY <1>3, <1>4, <1>6, <1>7, <3>1
      <3>3. call'[c].lease \in 0..epoch'
        BY <1>1, <1>4
      <3>4. NumberHolds(c)'
        BY <1>1, <1>4, <1>6, <3>2, <3>3 DEF NumberHolds
      <3>5. SoundHolds(c)' /\ WaitHolds(c)'
        BY <1>4, <1>5, <1>6 DEF SoundHolds, WaitHolds, Sounding, Begun
      <3> QED BY <2>1, <3>4, <3>5
    <2>2. CASE d # c
      <3>1. call[d].pc # "idle" =>
              /\ call[d].lease \in Leases /\ call[d].lease # l /\ Of(d) \in Lease
        BY <1>1, CallTyped DEF IInv, TypeOK, l
      <3>2. call[d].pc # "idle" => Of(d)' = Of(d) /\ Of(d) \in Lease
        BY <1>3, <1>4, <2>2, <3>1 DEF Of
      <3>3. call[d].pc # "idle" => Of(d)'.gen \in Nat /\ Of(d).gen <= Of(d)'.gen
        BY <3>2 DEF Lease
      <3>4. call'[d] = call[d] /\ audio'[d] = audio[d]
        BY <1>4, <1>5, <2>2
      <3>5. epoch' \in {epoch, epoch + 1}
        BY <1>1 DEF l
      <3> QED BY <3>2, <3>3, <3>4, <3>5, Beside
    <2> QED BY <2>1, <2>2
  <1>11. \A k \in Leases :
           /\ lease'[k].gen = lease[k].gen
           /\ lease[k].gen # 0 /\ lease[k].acq = "granted" => lease'[k].acq = "granted"
           /\ lease'[k].rel # "none" => lease'[k].stopReq
           /\ lease[k].rel # "none" => lease'[k].rel # "none"
           /\ lease'[k].ok => lease[k].ok
           /\ lease'[k].spent = lease[k].spent
           /\ lease'[k].active = lease[k].active
    BY <1>3, <1>7 DEF IInv, ReleasesHold
  <1>12. \A d \in Calls :
           /\ call'[d].gen = call[d].gen
           /\ call'[d].lease = call[d].lease \/ (call[d].gen = 0 /\ audio'[d] = "none")
           /\ call'[d].result = "success" => call[d].result = "success"
           /\ Sounding(d)' => Sounding(d)
           /\ audio[d] = "completed" => audio'[d] = "completed"
    BY <1>4, <1>5, <1>6 DEF Sounding
  <1> QED BY <1>1, <1>8, <1>9, <1>10, <1>11, <1>12, Shared DEF IInv, l

\* A corrected frame that looks at the running lease keeps the invariant.
LEMMA RemixInvariant ==
  ASSUME IInv, NEW c \in Calls, NEW l \in Leases, Remix(c, l) PROVE IInv'
  <1>1. lease[l] \in Lease /\ call[c] \in Call /\ call[c].pc = "idle" /\ l # None
        /\ l \in 0..MaxLeases /\ l \in 0..epoch
    BY LeaseTyped, CallTyped, BoundsAssumption DEF Remix, Fresh, Leases, IInv, TypeOK
  <1>2. /\ call' \in [Calls -> Call] /\ call'[c].lease = l /\ call'[c].pc = "remixing"
        /\ call'[c].gen = call[c].gen /\ call'[c].result = call[c].result
        /\ \A d \in Calls \ {c} : call'[d] = call[d]
    <2> DEFINE x == [call[c] EXCEPT !.lease = l, !.pc = "remixing",
                       !.expGen = lease[l].gen, !.expFrame = lease[l].frame]
    <2>1. lease[l].gen \in Nat /\ lease[l].frame \in 0..MaxCalls
      BY <1>1 DEF Lease
    <2>2. /\ x \in Call /\ x.lease = l /\ x.pc = "remixing" /\ x.gen = call[c].gen
          /\ x.result = call[c].result
      BY <1>1, <2>1 DEF Call
    <2>3. PutCall(c, x)
      BY DEF Remix
    <2> HIDE DEF x
    <2> QED BY <2>2, <2>3, PutTheCall
  <1>3. epoch' = epoch /\ current' = current /\ lease' = lease /\ audio' = audio
        /\ fenced' = fenced
    BY DEF Remix
  <1>4. call[c].gen = 0 /\ audio[c] = "none"
    BY <1>1 DEF IInv, GenerationsHold, NumberHolds, SoundsHold, SoundHolds
  <1>5. TypeOK'
    BY <1>2, <1>3 DEF IInv, TypeOK
  <1>6. ChainHolds'
    BY <1>1, <1>2, <1>3, ChainAdvances DEF InChain, Begun
  <1>7. ASSUME NEW d \in Calls PROVE NumberHolds(d)' /\ SoundHolds(d)' /\ WaitHolds(d)'
    <2>1. CASE d = c
      <3>1. Of(c)' = lease[l] /\ call'[c].gen <= Of(c)'.gen
        BY <1>1, <1>2, <1>3, <1>4 DEF Of, Lease
      <3>2. NumberHolds(c)'
        BY <1>1, <1>2, <1>3, <1>4, <3>1 DEF NumberHolds
      <3>3. SoundHolds(c)' /\ WaitHolds(c)'
        BY <1>2, <1>3, <1>4 DEF SoundHolds, WaitHolds, Sounding, Begun
      <3> QED BY <2>1, <3>2, <3>3
    <2>2. CASE d # c
      <3>1. call'[d] = call[d] /\ audio'[d] = audio[d]
        BY <1>2, <1>3, <2>2
      <3>2. call[d].pc # "idle" => Of(d)' = Of(d) /\ Of(d) \in Lease
        BY <1>3, <3>1, CallTyped DEF Of
      <3>3. call[d].pc # "idle" => Of(d)'.gen \in Nat /\ Of(d).gen <= Of(d)'.gen
        BY <3>2 DEF Lease
      <3> QED BY <1>3, <3>1, <3>2, <3>3, Beside
    <2> QED BY <2>1, <2>2
  <1>8. \A k \in Leases : lease'[k] = lease[k] /\ (lease[k].rel # "none" => lease[k].stopReq)
    BY <1>3 DEF IInv, ReleasesHold
  <1>9. \A d \in Calls :
          /\ call'[d].gen = call[d].gen
          /\ call'[d].lease = call[d].lease \/ (call[d].gen = 0 /\ audio'[d] = "none")
          /\ call'[d].result = "success" => call[d].result = "success"
          /\ Sounding(d)' => Sounding(d)
          /\ audio[d] = "completed" => audio'[d] = "completed"
    BY <1>2, <1>3, <1>4 DEF Sounding
  <1> QED BY <1>3, <1>5, <1>6, <1>7, <1>8, <1>9, Shared DEF IInv

\* A step of one call, which gives no generation and leaves the release alone, keeps the
\* invariant if it does for the call itself and spares what else sounds on the lease.
LEMMA CallSteps ==
  ASSUME IInv, NEW c \in Calls, NEW r \in Lease, NEW x \in Call,
         call[c].pc # "idle", x.lease = call[c].lease, x.gen = call[c].gen,
         x.result = call[c].result,
         PutLease(c, r), PutCall(c, x), UNCHANGED <<epoch, current>>, fenced' \subseteq Calls,
         audio' \in [Calls -> {"none", "requested", "playing", "completed", "failed"}],
         \A d \in Calls \ {c} : audio'[d] = audio[d],
         Sounding(c)' => Sounding(c), audio[c] = "completed" => audio'[c] = "completed",
         r.gen = Of(c).gen, r.acq = Of(c).acq, r.stopReq = Of(c).stopReq,
         r.rel = Of(c).rel, r.ok = Of(c).ok, r.spent = Of(c).spent,
         r.active \in {Of(c).active, 0, call[c].gen},
         \A d \in Calls \ {c} : call[d].lease = call[c].lease =>
           /\ call[d].pc \in Begun =>
                r.active = Of(c).active \/ (r.active = 0 /\ call[d].pc # "stopping")
           /\ (call[d].pc = "observing" /\ Sounding(d)) =>
                r.frame = Of(c).frame /\ r.active = Of(c).active,
         (Of(c)' = r /\ call'[c] = x) =>
           ChainHolds' /\ NumberHolds(c)' /\ SoundHolds(c)' /\ WaitHolds(c)'
  PROVE  IInv'
  <1> DEFINE l == call[c].lease
  <1>1. l \in Leases /\ Of(c) = lease[l] /\ Of(c) \in Lease
    BY CallTyped DEF Of
  <1>2. /\ lease' \in [Leases -> Lease] /\ lease'[l] = r
        /\ \A k \in Leases : k # l => lease'[k] = lease[k]
    BY PutOne
  <1>3. /\ call' \in [Calls -> Call] /\ call'[c] = x
        /\ \A d \in Calls \ {c} : call'[d] = call[d]
    BY PutTheCall
  <1>4. Of(c)' = r
    BY <1>2, <1>3 DEF Of
  <1>5. TypeOK'
    BY <1>2, <1>3 DEF IInv, TypeOK
  <1>6. ASSUME NEW d \in Calls \ {c} PROVE NumberHolds(d)' /\ SoundHolds(d)' /\ WaitHolds(d)'
    <2>1. call'[d] = call[d] /\ audio'[d] = audio[d]
      BY <1>3
    <2>2. CASE call[d].pc # "idle" /\ call[d].lease = l
      <3>1. Of(d) = Of(c) /\ Of(d)' = r
        BY <1>2, <2>1, <2>2 DEF Of
      <3>2. Of(d)'.gen \in Nat /\ Of(d).gen <= Of(d)'.gen
        BY <3>1 DEF Lease
      <3> QED BY <2>1, <2>2, <3>1, <3>2, Beside
    <2>3. CASE call[d].pc # "idle" /\ call[d].lease # l
      <3>1. Of(d)' = Of(d) /\ Of(d) \in Lease
        BY <1>2, <2>1, <2>3, CallTyped DEF Of
      <3>2. Of(d)'.gen \in Nat /\ Of(d).gen <= Of(d)'.gen
        BY <3>1 DEF Lease
      <3> QED BY <2>1, <2>3, <3>1, <3>2, Beside
    <2>4. CASE call[d].pc = "idle"
      BY <2>1, <2>4, Beside
    <2> QED BY <2>2, <2>3, <2>4
  <1>7. \A d \in Calls : NumberHolds(d)' /\ SoundHolds(d)' /\ WaitHolds(d)'
    BY <1>3, <1>4, <1>6
  <1>8. \A k \in Leases :
          /\ lease'[k].gen = lease[k].gen /\ lease'[k].acq = lease[k].acq
          /\ lease'[k].rel # "none" => lease'[k].stopReq
          /\ lease'[k].rel = lease[k].rel
          /\ lease'[k].ok = lease[k].ok
          /\ lease'[k].spent = lease[k].spent
          /\ \/ lease'[k].active \in {lease[k].active, 0}
             \/ \E d \in Calls : call[d].lease = k /\ call[d].gen = lease'[k].active
    BY <1>1, <1>2 DEF IInv, ReleasesHold
  <1>9. \A d \in Calls :
          /\ call'[d].gen = call[d].gen
          /\ call'[d].lease = call[d].lease
          /\ call'[d].result = "success" => call[d].result = "success"
          /\ Sounding(d)' => Sounding(d)
          /\ audio[d] = "completed" => audio'[d] = "completed"
    BY <1>3 DEF Sounding
  <1> HIDE DEF l
  <1> QED BY <1>3, <1>4, <1>5, <1>7, <1>8, <1>9, Shared DEF IInv

\* A call that joins the chain of its lease keeps the invariant.
LEMMA JoinsInvariant ==
  ASSUME IInv, NEW c \in Calls, call[c].pc \in {"acquiring", "remixing"},
         NEW pc \in {"playQueued", "replaceQueued"},
         pc = "playQueued" => Of(c).acq = "granted", pc = "replaceQueued" => ~Of(c).spent,
         PutLease(c, [Of(c) EXCEPT !.queue = Append(@, c)]),
         PutCall(c, [call[c] EXCEPT !.pc = pc]), UNCHANGED <<epoch, current, audio, fenced>>
  PROVE  IInv'
  <1> DEFINE r == [Of(c) EXCEPT !.queue = Append(@, c)]
             x == [call[c] EXCEPT !.pc = pc]
  <1>1. /\ call[c] \in Call /\ Of(c) \in Lease /\ call[c].pc # "idle"
        /\ call[c].lease \in Leases /\ Of(c) = lease[call[c].lease]
    BY CallTyped DEF Of
  <1>2. /\ r \in Lease /\ r.gen = Of(c).gen /\ r.acq = Of(c).acq /\ r.stopReq = Of(c).stopReq
        /\ r.rel = Of(c).rel /\ r.ok = Of(c).ok /\ r.spent = Of(c).spent
        /\ r.active = Of(c).active /\ r.frame = Of(c).frame
        /\ r.queue = Append(Of(c).queue, c)
    <2>1. Append(Of(c).queue, c) \in Seq(Calls)
      BY <1>1, AppendProperties DEF Lease
    <2> QED BY <1>1, <2>1 DEF Lease
  <1>3. /\ x \in Call /\ x.pc = pc /\ x.lease = call[c].lease /\ x.gen = call[c].gen
        /\ x.result = call[c].result
    BY <1>1 DEF Call
  <1>4. PutLease(c, r) /\ PutCall(c, x)
    OBVIOUS
  <1> HIDE DEF r, x
  <1>5. /\ lease'[call[c].lease] = r
        /\ \A k \in Leases : k # call[c].lease => lease'[k] = lease[k]
    BY <1>1, <1>2, <1>4, PutOne
  <1>6. call'[c] = x /\ \A d \in Calls \ {c} : call'[d] = call[d]
    BY <1>3, <1>4, PutTheCall
  <1>7. ChainHolds'
    <2>1. \A k \in Leases : lease'[k].queue =
            IF k = call[c].lease THEN Append(lease[k].queue, c) ELSE lease[k].queue
      BY <1>1, <1>2, <1>5
    <2>2. call'[c].pc \in {"playQueued", "replaceQueued"} /\ call'[c].lease = call[c].lease
      BY <1>3, <1>6
    <2>3. call[c].pc \notin InChain
      BY DEF InChain, Begun
    <2> QED BY <1>1, <1>6, <2>1, <2>2, <2>3, ChainGrows
  <1>8. /\ NumberHolds(c) /\ SoundHolds(c) /\ epoch' = epoch /\ call[c].gen = 0
        /\ audio[c] = "none" /\ audio'[c] = "none"
    BY DEF IInv, GenerationsHold, NumberHolds, SoundsHold, SoundHolds
  <1>9. ASSUME Of(c)' = r, call'[c] = x
        PROVE  NumberHolds(c)' /\ SoundHolds(c)' /\ WaitHolds(c)'
    <2>1. NumberHolds(c)'
      BY <1>1, <1>2, <1>3, <1>8, <1>9 DEF NumberHolds
    <2>2. SoundHolds(c)'
      BY <1>3, <1>8, <1>9 DEF SoundHolds, Sounding
    <2>3. WaitHolds(c)'
      BY <1>2, <1>3, <1>9 DEF WaitHolds, Begun
    <2> QED BY <2>1, <2>2, <2>3
  <1>10. /\ audio' \in [Calls -> {"none", "requested", "playing", "completed", "failed"}]
         /\ \A d \in Calls : audio'[d] = audio[d]
         /\ Sounding(c)' => Sounding(c)
         /\ fenced' \subseteq Calls
    BY DEF IInv, TypeOK, Sounding
  <1> QED BY <1>1, <1>2, <1>3, <1>4, <1>7, <1>9, <1>10, CallSteps

\* What the owners of a frame do before and after its audio keeps the invariant.
LEMMA PipelineInvariant == ASSUME IInv, NEW c \in Calls, Pipeline(c) PROVE IInv'
  <1>1. CASE Acquire(c)
    BY <1>1, AcquireInvariant
  <1>2. ASSUME NEW l \in Leases, Remix(c, l) PROVE IInv'
    BY <1>2, RemixInvariant
  <1> DEFINE l == call[c].lease
  <1>3. ASSUME call[c].pc \in {"acquiring", "abandoning", "remixing"}
        PROVE  /\ call[c].pc # "idle" /\ call[c].pc \notin InChain /\ ~Sounding(c)
               /\ l \in Leases /\ Of(c) \in Lease /\ Of(c) = lease[l]
               /\ Of(c).rel # "none" => Of(c).stopReq
               /\ current' = current => current' \in {current, None}
    <2>1. ~Sounding(c)
      BY <1>3 DEF IInv, GenerationsHold, NumberHolds, SoundsHold, SoundHolds, Sounding
    <2>2. l \in Leases /\ Of(c) \in Lease /\ Of(c) = lease[l]
      BY <1>3, CallTyped DEF Of
    <2>3. Of(c).rel # "none" => Of(c).stopReq
      BY <2>2 DEF IInv, ReleasesHold
    <2> QED BY <1>3, <2>1, <2>2, <2>3 DEF InChain, Begun
  <1>4. CASE AcquireFails(c)
    <2> DEFINE q == [Of(c) EXCEPT !.acq = "failed"]
               r == IF current = l THEN EnsureReleased(q, FALSE) ELSE q
    <2>1. Of(c) \in Lease /\ Of(c).acq = "acquiring" /\ call[c].pc = "acquiring"
      BY <1>3, <1>4 DEF AcquireFails
    <2>2. /\ q \in Lease /\ q.gen = Of(c).gen /\ q.stopReq = Of(c).stopReq
          /\ q.rel = Of(c).rel /\ q.ok = Of(c).ok /\ q.spent = Of(c).spent
          /\ q.active = Of(c).active /\ q.frame = Of(c).frame /\ q.queue = Of(c).queue
      BY <2>1 DEF Lease
    <2> HIDE DEF q
    <2>3. /\ r \in Lease /\ r.gen = Of(c).gen /\ (Of(c).stopReq => r.stopReq)
          /\ (Of(c).rel # "none" => r.rel # "none") /\ (r.rel # "none" => r.stopReq)
          /\ (r.ok => Of(c).ok) /\ r.spent = Of(c).spent
          /\ r.active = Of(c).active /\ r.frame = Of(c).frame /\ r.queue = Of(c).queue
      BY <1>3, <2>1, <2>2, ReleaseChanges
    <2>4. lease' = [lease EXCEPT ![l] = r] /\ PutCall(c, [call[c] EXCEPT !.pc = "abandoning"])
      BY <1>4 DEF AcquireFails, PutLease, q
    <2> HIDE DEF r
    <2>5. Winds(l)
      <3>1. lease'[l] = r
        BY <1>3, <2>1, <2>4 DEF IInv, TypeOK
      <3> QED BY <1>3, <2>1, <2>3, <3>1 DEF Winds
    <2>6. UNCHANGED <<epoch, current, audio>> /\ fenced' \subseteq Calls
      BY <1>4 DEF AcquireFails, IInv, TypeOK
    <2> QED BY <1>3, <2>1, <2>3, <2>4, <2>5, <2>6, WindsInvariant
  <1>5. CASE GiveUp(c)
    <2> DEFINE r == IF current = l THEN ForceInterrupted(Of(c)) ELSE Of(c)
    <2>1. Of(c) \in Lease /\ call[c].pc = "acquiring"
      BY <1>3, <1>5 DEF GiveUp
    <2>2. /\ r \in Lease /\ r.gen = Of(c).gen /\ (Of(c).stopReq => r.stopReq)
          /\ r.rel = Of(c).rel /\ r.ok = Of(c).ok /\ r.spent = Of(c).spent
          /\ r.active = Of(c).active /\ r.frame = Of(c).frame /\ r.queue = Of(c).queue
          /\ r.acq = Of(c).acq
      BY <2>1, InterruptChanges
    <2>3. lease' = [lease EXCEPT ![l] = r] /\ PutCall(c, [call[c] EXCEPT !.pc = "abandoning"])
      BY <1>5 DEF GiveUp, PutLease
    <2> HIDE DEF r
    <2>4. Winds(l)
      <3>1. lease'[l] = r
        BY <1>3, <2>1, <2>3 DEF IInv, TypeOK
      <3> QED BY <1>3, <2>1, <2>2, <3>1 DEF Winds
    <2>5. UNCHANGED <<epoch, current, audio>> /\ fenced' \subseteq Calls
      BY <1>5 DEF GiveUp, IInv, TypeOK
    <2> QED BY <1>3, <2>1, <2>2, <2>3, <2>4, <2>5, WindsInvariant
  <1>6. ASSUME NEW result \in {"deferred", "thrown"}, Ends(c, result),
               call[c].pc \in {"acquiring", "abandoning", "remixing"},
               UNCHANGED <<epoch, current, audio, fenced>>
        PROVE  IInv'
    <2>1. fenced' \subseteq Calls
      BY <1>6 DEF IInv, TypeOK
    <2> QED BY <1>3, <1>6, <2>1, EndsInvariant
  <1>7. CASE Play(c)
    <2>1. CASE current = call[c].lease
      BY <1>7, <2>1, JoinsInvariant DEF Play
    <2>2. CASE current # call[c].lease
      BY <1>6, <1>7, <2>2 DEF Play
    <2> QED BY <2>1, <2>2
  <1>8. CASE Abandoned(c)
    BY <1>6, <1>8 DEF Abandoned
  <1>9. ASSUME NEW fits \in BOOLEAN, Replace(c, fits) PROVE IInv'
    <2>1. CASE fits /\ current = call[c].lease /\ Of(c).gen = call[c].expGen
      BY <1>9, <2>1, JoinsInvariant DEF Replace
    <2>2. CASE ~(fits /\ current = call[c].lease /\ Of(c).gen = call[c].expGen)
      BY <1>6, <1>9, <2>2 DEF Replace
    <2> QED BY <2>1, <2>2
  <1> QED BY <1>1, <1>2, <1>4, <1>5, <1>7, <1>8, <1>9 DEF Pipeline

\* A lease that can continue has no release.
LEMMA Continues ==
  ASSUME IInv, NEW c \in Calls, call[c].pc # "idle", CanContinue(call[c].lease)
  PROVE  ~Of(c).stopReq /\ Of(c).rel = "none" /\ ~Of(c).spent /\ ~Of(c).ok
  BY CallTyped DEF IInv, ReleasesHold, CanContinue, Of

\* The first of the chain, which is given a generation or the sound of one, keeps the
\* invariant if it does for the call itself and nothing else sounds on the lease.
LEMMA CallProceeds ==
  ASSUME IInv, NEW c \in Calls, NEW r \in Lease, NEW x \in Call,
         call[c].pc # "idle", First(c), CanContinue(call[c].lease),
         x.lease = call[c].lease, x.result = call[c].result,
         \/ x.gen = call[c].gen /\ r.gen = Of(c).gen
         \/ /\ call[c].gen = 0 /\ x.gen = Of(c).gen + 1 /\ r.gen = Of(c).gen + 1
            /\ Of(c).acq = "granted",
         PutLease(c, r), PutCall(c, x), UNCHANGED <<epoch, current>>, fenced' \subseteq Calls,
         audio' \in [Calls -> {"none", "requested", "playing", "completed", "failed"}],
         \A d \in Calls \ {c} : audio'[d] = audio[d], audio[c] = "none",
         Sounding(c)' =>
           \A d \in Calls \ {c} : call[d].lease = call[c].lease => ~Sounding(d),
         r.acq = Of(c).acq, r.stopReq = Of(c).stopReq, r.rel = Of(c).rel, r.ok = Of(c).ok,
         r.spent = Of(c).spent, r.active = Of(c).active, r.frame = Of(c).frame,
         (Of(c)' = r /\ call'[c] = x) =>
           ChainHolds' /\ NumberHolds(c)' /\ SoundHolds(c)' /\ WaitHolds(c)'
  PROVE  IInv'
  <1> DEFINE l == call[c].lease
  <1>1. /\ l \in Leases /\ Of(c) = lease[l] /\ Of(c) \in Lease /\ Of(c).gen \in Nat
        /\ l # None /\ l <= epoch
    BY CallTyped DEF Of, Lease
  <1>2. /\ lease' \in [Leases -> Lease] /\ lease'[l] = r
        /\ \A k \in Leases : k # l => lease'[k] = lease[k]
    BY PutOne
  <1>3. /\ call' \in [Calls -> Call] /\ call'[c] = x
        /\ \A d \in Calls \ {c} : call'[d] = call[d]
    BY PutTheCall
  <1>4. Of(c)' = r
    BY <1>2, <1>3 DEF Of
  <1>5. ~Of(c).stopReq /\ Of(c).rel = "none" /\ ~Of(c).spent /\ ~Of(c).ok
    BY Continues
  <1>6. TypeOK'
    BY <1>2, <1>3 DEF IInv, TypeOK
  <1>7. ASSUME NEW d \in Calls \ {c} PROVE NumberHolds(d)' /\ SoundHolds(d)' /\ WaitHolds(d)'
    <2>1. call'[d] = call[d] /\ audio'[d] = audio[d]
      BY <1>3
    <2>2. CASE call[d].pc # "idle" /\ call[d].lease = l
      <3>1. Of(d) = Of(c) /\ Of(d)' = r
        BY <1>2, <2>1, <2>2 DEF Of
      <3>2. call[d].pc \notin Begun
        BY <2>2, OneBegun
      <3>3. Of(d)'.gen \in Nat /\ Of(d).gen <= Of(d)'.gen
        BY <1>1, <3>1
      <3> QED BY <2>1, <2>2, <3>1, <3>2, <3>3, Beside
    <2>3. CASE call[d].pc # "idle" /\ call[d].lease # l
      <3>1. Of(d)' = Of(d) /\ Of(d) \in Lease
        BY <1>2, <2>1, <2>3, CallTyped DEF Of
      <3>2. Of(d)'.gen \in Nat /\ Of(d).gen <= Of(d)'.gen
        BY <3>1 DEF Lease
      <3> QED BY <2>1, <2>3, <3>1, <3>2, Beside
    <2>4. CASE call[d].pc = "idle"
      BY <2>1, <2>4, Beside
    <2> QED BY <2>2, <2>3, <2>4
  <1>8. \A d \in Calls : NumberHolds(d)' /\ SoundHolds(d)' /\ WaitHolds(d)'
    BY <1>3, <1>4, <1>7
  <1>9. GenerationsHold'
    <2>1. \A k \in Leases : lease'[k].gen # 0 => lease'[k].acq = "granted" /\ k <= epoch'
      BY <1>1, <1>2 DEF IInv, GenerationsHold
    <2>2. \A d \in Calls : call[d].lease = l => call[d].gen <= Of(c).gen /\ call[d].gen \in Nat
      BY <1>1, CallTyped DEF IInv, GenerationsHold, NumberHolds, Of, Call
    <2>3. \A d \in Calls \ {c} :
            (call[d].lease = l /\ call[d].gen = x.gen /\ x.gen # 0) => FALSE
      BY <1>1, <2>2 DEF IInv, GenerationsHold
    <2>4. \A d, e \in Calls :
            (call'[d].lease = call'[e].lease /\ call'[d].gen = call'[e].gen /\ call'[d].gen # 0)
              => d = e
      BY <1>3, <2>3 DEF IInv, GenerationsHold
    <2>5. ASSUME NEW k \in Leases, lease'[k].active # 0
          PROVE  \E d \in Calls : call'[d].lease = k /\ call'[d].gen = lease'[k].active
      <3>1. lease'[k].active = lease[k].active
        BY <1>1, <1>2
      <3>2. PICK d \in Calls : call[d].lease = k /\ call[d].gen = lease[k].active
        BY <2>5, <3>1 DEF IInv, GenerationsHold
      <3> QED BY <1>3, <2>5, <3>1, <3>2
    <2> QED BY <1>8, <2>1, <2>4, <2>5 DEF GenerationsHold
  <1>10. ReleasesHold'
    <2>1. \A k \in Leases : /\ lease'[k].rel # "none" => lease'[k].stopReq
                            /\ lease'[k].ok => lease'[k].spent
                            /\ lease'[k].spent => lease'[k].rel # "none"
      BY <1>1, <1>2 DEF IInv, ReleasesHold
    <2> QED BY <1>8, <2>1 DEF ReleasesHold
  <1>11. OneAudible'
    <2>1. \A d \in Calls : call'[d].lease = call[d].lease
      BY <1>3
    <2>2. \A d \in Calls \ {c} : Sounding(d)' <=> Sounding(d)
      BY DEF Sounding
    <2> QED BY <2>1, <2>2 DEF IInv, OneAudible
  <1>12. SuccessIsEarned'
    <2>1. \A d \in Calls : audio[d] = "completed" =>
            d # c /\ call'[d] = call[d] /\ audio'[d] = audio[d]
      BY <1>3
    <2>2. \A k \in Leases : lease'[k].ok => lease'[k] = lease[k]
      BY <1>1, <1>2, <1>5
    <2>3. \A d \in Calls : call'[d].result = call[d].result
      BY <1>3
    <2> QED BY <2>1, <2>2, <2>3 DEF IInv, SuccessIsEarned
  <1> HIDE DEF l
  <1> QED BY <1>3, <1>4, <1>6, <1>8, <1>9, <1>10, <1>11, <1>12 DEF IInv, SoundsHold

\* Nothing sounds on a lease that can continue, and has no active playback, but what the
\* first of its chain has started.
LEMMA NothingElseSounds ==
  ASSUME IInv, NEW c \in Calls, call[c].pc # "idle", First(c), CanContinue(call[c].lease),
         Of(c).active = 0, NEW d \in Calls, d # c, call[d].lease = call[c].lease
  PROVE  ~Sounding(d)
  <1>1. SoundHolds(d) /\ NumberHolds(d) /\ Of(d) = Of(c)
    BY DEF IInv, GenerationsHold, SoundsHold, Of
  <1>2. ~Of(d).stopReq /\ Of(d).active = 0
    BY <1>1, Continues
  <1>3. call[d].pc \notin Begun
    BY OneBegun
  <1> QED BY <1>1, <1>2, <1>3 DEF SoundHolds, NumberHolds, Begun

\* A call that asks for its audio keeps the invariant.
LEMMA StartsInvariant ==
  ASSUME IInv, NEW c \in Calls, First(c), CanContinue(call[c].lease), Of(c).active = 0,
         NEW r, NEW g \in Nat,
         \/ call[c].pc = "playQueued" /\ g = Of(c).gen + 1
            /\ r = [Of(c) EXCEPT !.gen = @ + 1]
         \/ call[c].pc = "preparing" /\ g = call[c].gen /\ r = Of(c),
         StartsAudio(c, r, g), UNCHANGED <<epoch, current, fenced>>
  PROVE  IInv'
  <1> DEFINE x == [call[c] EXCEPT !.pc = "starting", !.gen = g]
  <1>1. /\ call[c] \in Call /\ Of(c) \in Lease /\ call[c].pc # "idle" /\ Of(c).gen \in Nat
        /\ call[c].gen \in Nat /\ NumberHolds(c) /\ SoundHolds(c)
    BY CallTyped DEF IInv, GenerationsHold, SoundsHold, Call, Lease
  <1>2. /\ r \in Lease /\ r.acq = Of(c).acq /\ r.stopReq = Of(c).stopReq
        /\ r.rel = Of(c).rel /\ r.ok = Of(c).ok /\ r.spent = Of(c).spent
        /\ r.active = 0 /\ r.frame = Of(c).frame /\ r.queue = Of(c).queue /\ r.gen = g
    BY <1>1 DEF NumberHolds, Lease
  <1>3. /\ x \in Call /\ x.pc = "starting" /\ x.lease = call[c].lease /\ x.gen = g
        /\ x.result = call[c].result
    BY <1>1 DEF Call
  <1>4. PutLease(c, r) /\ PutCall(c, x) /\ audio' = [audio EXCEPT ![c] = "requested"]
    BY DEF StartsAudio
  <1> HIDE DEF x
  <1>5. /\ audio' \in [Calls -> {"none", "requested", "playing", "completed", "failed"}]
        /\ audio'[c] = "requested" /\ \A d \in Calls \ {c} : audio'[d] = audio[d]
        /\ fenced' \subseteq Calls
    BY <1>4 DEF IInv, TypeOK
  <1>6. audio[c] = "none" /\ ~Of(c).spent
    BY <1>1, Continues DEF NumberHolds, SoundHolds
  <1>7. \A d \in Calls \ {c} : call[d].lease = call[c].lease => ~Sounding(d)
    BY <1>1, NothingElseSounds
  <1>8. \/ x.gen = call[c].gen /\ r.gen = Of(c).gen
        \/ /\ call[c].gen = 0 /\ x.gen = Of(c).gen + 1 /\ r.gen = Of(c).gen + 1
           /\ Of(c).acq = "granted"
    BY <1>1, <1>2, <1>3 DEF NumberHolds
  <1>9. ASSUME Of(c)' = r, call'[c] = x
        PROVE  ChainHolds' /\ NumberHolds(c)' /\ SoundHolds(c)' /\ WaitHolds(c)'
    <2>1. ChainHolds'
      <3>1. \A k \in Leases : lease'[k].queue = lease[k].queue
        BY <1>1, <1>2, <1>4, PutOne DEF Of
      <3>2. \A d \in Calls \ {c} : call'[d] = call[d]
        BY <1>3, <1>4, PutTheCall
      <3> QED BY <1>3, <1>9, <3>1, <3>2, ChainAdvances DEF InChain, Begun
    <2>2. NumberHolds(c)'
      <3>1. g # 0
        BY <1>1 DEF NumberHolds
      <3> QED BY <1>1, <1>2, <1>3, <1>9, <3>1 DEF NumberHolds
    <2>3. SoundHolds(c)'
      <3>1. g # 0
        BY <1>1 DEF NumberHolds
      <3> QED BY <1>2, <1>3, <1>5, <1>9, <3>1 DEF SoundHolds, Sounding
    <2>4. WaitHolds(c)'
      BY <1>2, <1>3, <1>6, <1>9 DEF WaitHolds, Begun
    <2> QED BY <2>1, <2>2, <2>3, <2>4
  <1> QED BY <1>1, <1>2, <1>3, <1>4, <1>5, <1>6, <1>7, <1>8, <1>9, CallProceeds

\* A replacement that is committed keeps the invariant.
LEMMA HandOverInvariant ==
  ASSUME IInv, NEW c \in Calls, First(c), CanContinue(call[c].lease),
         call[c].pc \in {"replaceQueued", "activation"}, Of(c).acq = "granted",
         HandOver(c), UNCHANGED <<epoch, current, audio, fenced>>
  PROVE  IInv'
  <1> DEFINE pc == IF Of(c).active = 0 THEN "preparing" ELSE "stopping"
             x == [call[c] EXCEPT !.gen = Of(c).gen + 1, !.pc = pc]
             r == [Of(c) EXCEPT !.gen = @ + 1, !.drain = 0]
  <1>1. /\ call[c] \in Call /\ Of(c) \in Lease /\ call[c].pc # "idle" /\ Of(c).gen \in Nat
        /\ NumberHolds(c) /\ SoundHolds(c)
    BY CallTyped DEF IInv, GenerationsHold, SoundsHold, Lease
  <1>2. /\ r \in Lease /\ r.acq = Of(c).acq /\ r.stopReq = Of(c).stopReq
        /\ r.rel = Of(c).rel /\ r.ok = Of(c).ok /\ r.spent = Of(c).spent
        /\ r.active = Of(c).active /\ r.frame = Of(c).frame /\ r.queue = Of(c).queue
        /\ r.gen = Of(c).gen + 1
    <2>1. Of(c) \in Lease /\ Of(c).gen + 1 \in Nat
      BY <1>1
    <2> QED BY <2>1 DEF Lease
  <1>3. /\ x \in Call /\ x.pc = pc /\ x.lease = call[c].lease /\ x.gen = Of(c).gen + 1
        /\ x.result = call[c].result
    <2>1. call[c] \in Call /\ Of(c).gen + 1 \in Nat /\ pc \in {"preparing", "stopping"}
      BY <1>1
    <2> HIDE DEF pc
    <2> QED BY <2>1 DEF Call
  <1>4. PutLease(c, r) /\ PutCall(c, x)
    BY DEF HandOver
  <1> HIDE DEF x, r
  <1>5. /\ call[c].gen = 0 /\ audio[c] = "none" /\ ~Of(c).spent /\ audio' = audio
        /\ audio' \in [Calls -> {"none", "requested", "playing", "completed", "failed"}]
        /\ fenced' \subseteq Calls
    BY <1>1, Continues DEF NumberHolds, SoundHolds, IInv, TypeOK
  <1>6. ASSUME Of(c)' = r, call'[c] = x
        PROVE  ChainHolds' /\ NumberHolds(c)' /\ SoundHolds(c)' /\ WaitHolds(c)'
    <2>1. ChainHolds'
      <3>1. \A k \in Leases : lease'[k].queue = lease[k].queue
        BY <1>1, <1>2, <1>4, PutOne DEF Of
      <3>2. \A d \in Calls \ {c} : call'[d] = call[d]
        BY <1>3, <1>4, PutTheCall
      <3> QED BY <1>3, <1>6, <3>1, <3>2, ChainAdvances DEF InChain, Begun
    <2>2. NumberHolds(c)'
      BY <1>1, <1>2, <1>3, <1>6 DEF NumberHolds
    <2>3. SoundHolds(c)'
      BY <1>2, <1>3, <1>5, <1>6 DEF SoundHolds, Sounding
    <2>4. WaitHolds(c)'
      BY <1>2, <1>3, <1>5, <1>6 DEF WaitHolds, Begun
    <2> QED BY <2>1, <2>2, <2>3, <2>4
  <1>7. ~Sounding(c)'
    BY <1>5 DEF Sounding
  <1> HIDE DEF pc
  <1> QED BY <1>1, <1>2, <1>3, <1>4, <1>5, <1>6, <1>7, CallProceeds

\* A transition that the chain has come to keeps the invariant.
LEMMA EnterInvariant == ASSUME IInv, NEW c \in Calls, Enter(c) PROVE IInv'
  <1>1. fenced' \subseteq Calls
    <2>1. fenced' = fenced
      BY DEF Enter, EnterPlay, EnterReplace
    <2> QED BY <2>1 DEF IInv, TypeOK
  <1>2. ASSUME call[c].pc \in {"playQueued", "replaceQueued", "activation"}
        PROVE  call[c].pc # "idle" /\ ~Sounding(c)
    <2>1. NumberHolds(c) /\ SoundHolds(c)
      BY DEF IInv, GenerationsHold, SoundsHold
    <2> QED BY <1>2, <2>1 DEF NumberHolds, SoundHolds, Sounding
  <1>3. CASE EnterPlay(c)
    <2>1. call[c].pc = "playQueued" /\ First(c) /\ UNCHANGED <<epoch, current, fenced>>
      BY <1>3 DEF EnterPlay
    <2>2. ASSUME NEW result \in {"thrown", "continues"}, Ends(c, result), UNCHANGED audio
          PROVE  IInv'
      BY <1>1, <1>2, <2>1, <2>2, EndsInvariant
    <2>3. CASE CanContinue(call[c].lease) /\ Of(c).frame = c /\ Of(c).active = 0
      <3>1. Of(c).gen + 1 \in Nat
        BY <1>2, <2>1, CallTyped DEF Lease
      <3>2. StartsAudio(c, [Of(c) EXCEPT !.gen = @ + 1], Of(c).gen + 1)
        BY <1>3, <2>3 DEF EnterPlay
      <3> QED BY <2>1, <2>3, <3>1, <3>2, StartsInvariant
    <2>4. CASE ~(CanContinue(call[c].lease) /\ Of(c).frame = c /\ Of(c).active = 0)
      BY <1>3, <2>2, <2>4 DEF EnterPlay
    <2> QED BY <2>3, <2>4
  <1>4. ASSUME NEW committed \in BOOLEAN, EnterReplace(c, committed) PROVE IInv'
    <2>1. /\ call[c].pc = "replaceQueued" /\ First(c)
          /\ UNCHANGED <<epoch, current, audio, fenced>>
      BY <1>4 DEF EnterReplace
    <2>2. CASE ReplaceFails(c)
      BY <1>1, <2>1, <2>2, ReplaceFailsInvariant
    <2>3. CASE Ends(c, "continues")
      BY <1>1, <1>2, <2>1, <2>3, EndsInvariant
    <2>4. CASE /\ CanContinue(call[c].lease) /\ AsExpected(c) /\ Of(c).acq # "granted"
               /\ PutCall(c, [call[c] EXCEPT !.pc = "activation"]) /\ UNCHANGED lease
      <3> DEFINE x == [call[c] EXCEPT !.pc = "activation"]
      <3>1. /\ call[c] \in Call /\ Of(c) \in Lease /\ call[c].pc # "idle"
            /\ call[c].lease \in Leases /\ Of(c) = lease[call[c].lease]
            /\ NumberHolds(c) /\ SoundHolds(c) /\ WaitHolds(c)
        BY <1>2, <2>1, CallTyped DEF IInv, GenerationsHold, SoundsHold, ReleasesHold, Of
      <3>2. /\ x \in Call /\ x.pc = "activation" /\ x.lease = call[c].lease
            /\ x.gen = call[c].gen /\ x.result = call[c].result
        BY <3>1 DEF Call
      <3>3. PutLease(c, Of(c)) /\ PutCall(c, x)
        BY <2>4, <3>1 DEF PutLease, IInv, TypeOK
      <3> HIDE DEF x
      <3>4. \A d \in Calls \ {c} : call'[d] = call[d]
        BY <3>2, <3>3, PutTheCall
      <3>5. Of(c).gen = 0 /\ audio' = audio /\ call[c].gen = 0 /\ audio[c] = "none"
        BY <2>1, <2>4, <3>1 DEF IInv, GenerationsHold, NumberHolds, SoundHolds
      <3>6. ASSUME Of(c)' = Of(c), call'[c] = x
            PROVE  ChainHolds' /\ NumberHolds(c)' /\ SoundHolds(c)' /\ WaitHolds(c)'
        <4>1. ChainHolds'
          BY <2>1, <2>4, <3>2, <3>4, <3>6, ChainAdvances DEF InChain, Begun
        <4>2. NumberHolds(c)'
          BY <2>1, <3>1, <3>2, <3>5, <3>6 DEF NumberHolds
        <4>3. SoundHolds(c)'
          BY <3>2, <3>5, <3>6 DEF SoundHolds, Sounding
        <4>4. WaitHolds(c)'
          BY <2>1, <3>1, <3>2, <3>6 DEF WaitHolds, Begun
        <4> QED BY <4>1, <4>2, <4>3, <4>4
      <3>7. /\ audio' \in [Calls -> {"none", "requested", "playing", "completed", "failed"}]
            /\ \A d \in Calls : audio'[d] = audio[d]
            /\ Sounding(c)' => Sounding(c)
        BY <3>5 DEF IInv, TypeOK, Sounding
      <3> QED BY <1>1, <2>1, <3>1, <3>2, <3>3, <3>6, <3>7, CallSteps
    <2>5. CASE CanContinue(call[c].lease) /\ Of(c).acq = "granted" /\ HandOver(c)
      BY <2>1, <2>5, HandOverInvariant
    <2> QED BY <1>4, <2>2, <2>3, <2>4, <2>5 DEF EnterReplace
  <1> QED BY <1>3, <1>4 DEF Enter

\* The playback that a replacement stops is one, and its only one.
LEMMA ReplacedIsOne ==
  ASSUME IInv, NEW c \in Calls, call[c].pc = "stopping"
  PROVE  /\ Replaced(c) \in Calls /\ call[Replaced(c)].lease = call[c].lease
         /\ call[Replaced(c)].gen = Of(c).active
         /\ \A d \in Calls : (call[d].lease = call[c].lease /\ call[d].gen = Of(c).active)
                               => d = Replaced(c)
  <1>1. Of(c).active # 0 /\ call[c].lease \in Leases /\ Of(c) = lease[call[c].lease]
    BY CallTyped DEF IInv, SoundsHold, SoundHolds, Of
  <1>2. \E d \in Calls : call[d].lease = call[c].lease /\ call[d].gen = Of(c).active
    BY <1>1 DEF IInv, GenerationsHold
  <1>3. /\ Replaced(c) \in Calls /\ call[Replaced(c)].lease = call[c].lease
        /\ call[Replaced(c)].gen = Of(c).active
    BY <1>2 DEF Replaced
  <1> QED BY <1>1, <1>3 DEF IInv, GenerationsHold

\* A replacement whose predecessor has stopped keeps the invariant.
LEMMA StoppedInvariant ==
  ASSUME IInv, NEW c \in Calls, call[c].pc = "stopping", ~Sounding(Replaced(c)),
         CanContinue(call[c].lease), PutLease(c, [Of(c) EXCEPT !.active = 0]),
         PutCall(c, [call[c] EXCEPT !.pc = "preparing"]),
         UNCHANGED <<epoch, current, audio, fenced>>
  PROVE  IInv'
  <1> DEFINE r == [Of(c) EXCEPT !.active = 0]
             x == [call[c] EXCEPT !.pc = "preparing"]
  <1>1. /\ call[c] \in Call /\ Of(c) \in Lease /\ call[c].pc # "idle"
        /\ NumberHolds(c) /\ SoundHolds(c) /\ WaitHolds(c)
    BY CallTyped DEF IInv, GenerationsHold, SoundsHold, ReleasesHold
  <1>2. /\ r \in Lease /\ r.acq = Of(c).acq /\ r.stopReq = Of(c).stopReq
        /\ r.rel = Of(c).rel /\ r.ok = Of(c).ok /\ r.spent = Of(c).spent
        /\ r.active = 0 /\ r.frame = Of(c).frame /\ r.queue = Of(c).queue
        /\ r.gen = Of(c).gen
    BY <1>1 DEF Lease
  <1>3. /\ x \in Call /\ x.pc = "preparing" /\ x.lease = call[c].lease
        /\ x.gen = call[c].gen /\ x.result = call[c].result
    BY <1>1 DEF Call
  <1>4. PutLease(c, r) /\ PutCall(c, x)
    OBVIOUS
  <1> HIDE DEF r, x
  <1>5. /\ First(c) /\ audio[c] = "none" /\ audio' = audio /\ fenced' \subseteq Calls
        /\ audio' \in [Calls -> {"none", "requested", "playing", "completed", "failed"}]
    BY <1>1 DEF IInv, ChainHolds, Begun, SoundHolds, TypeOK
  <1>6. ASSUME Of(c)' = r, call'[c] = x
        PROVE  ChainHolds' /\ NumberHolds(c)' /\ SoundHolds(c)' /\ WaitHolds(c)'
    <2>1. ChainHolds'
      <3>1. \A k \in Leases : lease'[k].queue = lease[k].queue
        BY <1>1, <1>2, <1>4, PutOne DEF Of
      <3>2. \A d \in Calls \ {c} : call'[d] = call[d]
        BY <1>3, <1>4, PutTheCall
      <3> QED BY <1>3, <1>5, <1>6, <3>1, <3>2, ChainAdvances DEF InChain, Begun
    <2>2. NumberHolds(c)'
      BY <1>1, <1>2, <1>3, <1>6 DEF NumberHolds
    <2>3. SoundHolds(c)'
      BY <1>2, <1>3, <1>5, <1>6 DEF SoundHolds, Sounding
    <2>4. WaitHolds(c)'
      BY <1>1, <1>2, <1>3, <1>6 DEF WaitHolds, Begun
    <2> QED BY <2>1, <2>2, <2>3, <2>4
  <1>7. ASSUME NEW d \in Calls \ {c}, call[d].lease = call[c].lease
        PROVE  call[d].pc \notin Begun /\ ~(call[d].pc = "observing" /\ Sounding(d))
    <2>1. SoundHolds(d) /\ Of(d) = Of(c) /\ ~Of(d).stopReq
      BY <1>1, <1>7, Continues DEF IInv, SoundsHold, Of
    <2>2. call[d].pc \notin Begun
      BY <1>5, <1>7, OneBegun
    <2>3. (call[d].pc = "observing" /\ Sounding(d)) => call[d].gen = Of(c).active
      BY <2>1 DEF SoundHolds
    <2>4. (call[d].pc = "observing" /\ Sounding(d)) => d = Replaced(c)
      BY <1>7, <2>3, ReplacedIsOne
    <2> QED BY <2>2, <2>4
  <1>8. Sounding(c)' => Sounding(c)
    BY <1>5 DEF Sounding
  <1>9. r.active \in {Of(c).active, 0, call[c].gen}
    BY <1>2
  <1> QED BY <1>1, <1>2, <1>3, <1>4, <1>5, <1>6, <1>7, <1>8, <1>9, CallSteps

\* A transition under way keeps the invariant.
LEMMA TransitionInvariant == ASSUME IInv, NEW c \in Calls, Transition(c) PROVE IInv'
  <1>1. call[c].pc \in Begun => First(c)
    BY DEF IInv, ChainHolds
  <1>2. ASSUME call[c].pc \in {"activation", "stopping", "preparing"}, ReplaceFails(c),
               UNCHANGED <<epoch, current, audio>>, fenced' \subseteq Calls
        PROVE  IInv'
    <2>1. First(c)
      BY <1>1, <1>2 DEF Begun
    <2> QED BY <1>2, <2>1, ReplaceFailsInvariant
  <1>3. ASSUME NEW committed \in BOOLEAN, Activated(c, committed) PROVE IInv'
    <2>1. /\ call[c].pc = "activation" /\ Of(c).acq = "granted" /\ First(c)
          /\ UNCHANGED <<epoch, current, audio, fenced>>
      BY <1>1, <1>3 DEF Activated, Begun
    <2>2. fenced' \subseteq Calls
      BY <2>1 DEF IInv, TypeOK
    <2>3. CASE ReplaceFails(c)
      BY <1>2, <2>1, <2>2, <2>3
    <2>4. CASE CanContinue(call[c].lease) /\ HandOver(c)
      BY <2>1, <2>4, HandOverInvariant
    <2>5. CASE Ends(c, "continues")
      <3>1. NumberHolds(c) /\ SoundHolds(c)
        BY DEF IInv, GenerationsHold, SoundsHold
      <3>2. ~Sounding(c)
        BY <2>1, <3>1 DEF NumberHolds, SoundHolds, Sounding
      <3> QED BY <2>1, <2>2, <2>5, <3>2, EndsInvariant
    <2> QED BY <1>3, <2>3, <2>4, <2>5 DEF Activated
  <1>4. CASE NotActivated(c)
    <2>1. fenced' = fenced
      BY <1>4 DEF NotActivated
    <2> QED BY <1>2, <1>4, <2>1 DEF NotActivated, IInv, TypeOK
  <1>5. CASE OldAudioStopped(c)
    <2>1. CASE CanContinue(call[c].lease)
      BY <1>5, <2>1, StoppedInvariant DEF OldAudioStopped
    <2>2. CASE ~CanContinue(call[c].lease)
      <3>1. fenced' = fenced /\ ReplaceFails(c)
        BY <1>5, <2>2 DEF OldAudioStopped
      <3> QED BY <1>2, <1>5, <3>1 DEF OldAudioStopped, IInv, TypeOK
    <2> QED BY <2>1, <2>2
  <1>6. CASE OldAudioStopTimesOut(c)
    <2>1. Replaced(c) \in Calls
      BY <1>6, ReplacedIsOne DEF OldAudioStopTimesOut
    <2>2. fenced' \subseteq Calls
      BY <1>6, <2>1 DEF OldAudioStopTimesOut, IInv, TypeOK
    <2> QED BY <1>2, <1>6, <2>2 DEF OldAudioStopTimesOut
  <1>7. ASSUME NEW ready \in BOOLEAN, OutputPrepared(c, ready) PROVE IInv'
    <2>1. call[c].pc = "preparing" /\ First(c) /\ UNCHANGED <<epoch, current, fenced>>
      BY <1>1, <1>7 DEF OutputPrepared, Begun
    <2>2. CASE ready /\ CanContinue(call[c].lease)
      <3>1. call[c].gen \in Nat /\ Of(c).active = 0
        BY <2>1, CallTyped DEF IInv, SoundsHold, SoundHolds, Call
      <3>2. StartsAudio(c, Of(c), call[c].gen)
        BY <1>7, <2>2 DEF OutputPrepared
      <3> QED BY <2>1, <2>2, <3>1, <3>2, StartsInvariant
    <2>3. CASE ~(ready /\ CanContinue(call[c].lease))
      <3>1. ReplaceFails(c) /\ UNCHANGED audio
        BY <1>7, <2>3 DEF OutputPrepared
      <3> QED BY <1>2, <2>1, <3>1 DEF IInv, TypeOK
    <2> QED BY <2>2, <2>3
  <1> QED BY <1>3, <1>4, <1>5, <1>6, <1>7 DEF Transition

\* What a call whose audio is being started knows.
LEMMA Starting ==
  ASSUME IInv, NEW c \in Calls, call[c].pc = "starting"
  PROVE  /\ call[c] \in Call /\ Of(c) \in Lease /\ call[c].pc # "idle"
         /\ call[c].lease \in Leases /\ Of(c) = lease[call[c].lease]
         /\ First(c) /\ audio[c] = "requested" /\ Sounding(c) /\ call[c].gen # 0
         /\ Of(c).gen = call[c].gen /\ Of(c).active = 0 /\ ~Of(c).spent /\ ~Of(c).ok
  <1>1. /\ call[c] \in Call /\ Of(c) \in Lease /\ call[c].pc # "idle"
        /\ call[c].lease \in Leases /\ Of(c) = lease[call[c].lease]
    BY CallTyped DEF Of
  <1>2. NumberHolds(c) /\ SoundHolds(c) /\ WaitHolds(c) /\ First(c)
    BY DEF IInv, GenerationsHold, SoundsHold, ReleasesHold, ChainHolds, Begun
  <1>3. ~Of(c).spent
    BY <1>2 DEF WaitHolds, Begun
  <1>4. ~Of(c).ok
    BY <1>1, <1>3 DEF IInv, ReleasesHold
  <1> QED BY <1>1, <1>2, <1>3, <1>4 DEF NumberHolds, SoundHolds, Sounding

\* A start of audio that fails keeps the invariant.
LEMMA StartFailsInvariant ==
  ASSUME IInv, NEW c \in Calls, call[c].pc = "starting", StartFails(c),
         UNCHANGED <<epoch, current>>,
         \/ audio' = audio
         \/ \E y \in {"playing", "failed"} : audio' = [audio EXCEPT ![c] = y]
  PROVE  IInv'
  <1>1. fenced' \subseteq Calls
    BY DEF StartFails, IInv, TypeOK
  <1>2. CASE Releases(c, FALSE)
    BY <1>1, <1>2, Starting, ReleasesInvariant
  <1>3. CASE UNCHANGED lease /\ PutCall(c, [call[c] EXCEPT !.pc = "cleaning"])
    <2> DEFINE x == [call[c] EXCEPT !.pc = "cleaning"]
    <2>1. /\ call[c] \in Call /\ Of(c) \in Lease /\ call[c].pc # "idle"
          /\ call[c].lease \in Leases /\ Of(c) = lease[call[c].lease] /\ First(c)
          /\ NumberHolds(c) /\ WaitHolds(c)
      BY Starting DEF IInv, GenerationsHold, ReleasesHold
    <2>2. /\ x \in Call /\ x.pc = "cleaning" /\ x.lease = call[c].lease
          /\ x.gen = call[c].gen /\ x.result = call[c].result
      BY <2>1 DEF Call
    <2>3. PutLease(c, Of(c)) /\ PutCall(c, x)
      BY <1>3, <2>1 DEF PutLease, IInv, TypeOK
    <2> HIDE DEF x
    <2>4. \A d \in Calls \ {c} : call'[d] = call[d]
      BY <2>2, <2>3, PutTheCall
    <2>5. /\ audio' \in [Calls -> {"none", "requested", "playing", "completed", "failed"}]
          /\ \A d \in Calls \ {c} : audio'[d] = audio[d]
      BY DEF IInv, TypeOK
    <2>6. ASSUME Of(c)' = Of(c), call'[c] = x
          PROVE  ChainHolds' /\ NumberHolds(c)' /\ SoundHolds(c)' /\ WaitHolds(c)'
      <3>1. ChainHolds'
        BY <1>3, <2>1, <2>2, <2>4, <2>6, ChainAdvances DEF InChain, Begun
      <3>2. NumberHolds(c)'
        BY <2>1, <2>2, <2>6, Starting DEF NumberHolds
      <3>3. SoundHolds(c)'
        BY <2>2, <2>6, Starting DEF SoundHolds, Sounding
      <3>4. WaitHolds(c)'
        BY <2>1, <2>2, <2>6 DEF WaitHolds, Begun
      <3> QED BY <3>1, <3>2, <3>3, <3>4
    <2>7. audio[c] = "requested" /\ Sounding(c)
      BY Starting
    <2> QED BY <1>1, <2>1, <2>2, <2>3, <2>5, <2>6, <2>7, CallSteps
  <1> QED BY <1>2, <1>3 DEF StartFails

\* A playback that has started, and is the active one from now on, keeps the invariant.
LEMMA StartedInvariant ==
  ASSUME IInv, NEW c \in Calls, call[c].pc = "starting",
         audio' = [audio EXCEPT ![c] = "playing"],
         PutLease(c, [Dequeued(Of(c), c) EXCEPT
           !.active = call[c].gen, !.frame = c, !.phase = "active"]),
         PutCall(c, [call[c] EXCEPT !.pc = "observing"]),
         UNCHANGED <<epoch, current, fenced>>
  PROVE  IInv'
  <1> DEFINE q == Dequeued(Of(c), c)
             r == [q EXCEPT !.active = call[c].gen, !.frame = c, !.phase = "active"]
             x == [call[c] EXCEPT !.pc = "observing"]
  <1>1. /\ call[c] \in Call /\ Of(c) \in Lease /\ call[c].pc # "idle"
        /\ call[c].lease \in Leases /\ Of(c) = lease[call[c].lease] /\ First(c)
        /\ audio[c] = "requested" /\ Sounding(c) /\ call[c].gen # 0
        /\ NumberHolds(c) /\ call[c].gen \in Nat /\ c \in 0..MaxCalls
    BY Starting, BoundsAssumption DEF IInv, GenerationsHold, Call, Calls
  <1>2. /\ q \in Lease /\ q.acq = Of(c).acq /\ q.stopReq = Of(c).stopReq
        /\ q.rel = Of(c).rel /\ q.ok = Of(c).ok /\ q.spent = Of(c).spent
        /\ q.gen = Of(c).gen
    BY <1>1, DequeuedChanges
  <1> HIDE DEF q
  <1>3. /\ r \in Lease /\ r.acq = Of(c).acq /\ r.stopReq = Of(c).stopReq
        /\ r.rel = Of(c).rel /\ r.ok = Of(c).ok /\ r.spent = Of(c).spent
        /\ r.active = call[c].gen /\ r.frame = c /\ r.queue = q.queue /\ r.gen = Of(c).gen
    BY <1>1, <1>2 DEF Lease
  <1>4. /\ x \in Call /\ x.pc = "observing" /\ x.lease = call[c].lease
        /\ x.gen = call[c].gen /\ x.result = call[c].result
    BY <1>1 DEF Call
  <1>5. PutLease(c, r) /\ PutCall(c, x)
    BY DEF q
  <1> HIDE DEF r, x
  <1>6. /\ audio' \in [Calls -> {"none", "requested", "playing", "completed", "failed"}]
        /\ audio'[c] = "playing" /\ \A d \in Calls \ {c} : audio'[d] = audio[d]
        /\ fenced' \subseteq Calls
    BY DEF IInv, TypeOK
  <1>7. ASSUME Of(c)' = r, call'[c] = x
        PROVE  ChainHolds' /\ NumberHolds(c)' /\ SoundHolds(c)' /\ WaitHolds(c)'
    <2>1. ChainHolds'
      <3>1. \A k \in Leases : lease'[k].queue =
              IF k = call[c].lease THEN Dequeued(lease[k], c).queue ELSE lease[k].queue
        BY <1>1, <1>3, <1>5, PutOne DEF q
      <3>2. \A d \in Calls \ {c} : call'[d] = call[d]
        BY <1>4, <1>5, PutTheCall
      <3>3. call'[c].pc \notin InChain
        BY <1>4, <1>7 DEF InChain, Begun
      <3> QED BY <1>1, <3>1, <3>2, <3>3, ChainLeaves
    <2>2. NumberHolds(c)'
      BY <1>1, <1>3, <1>4, <1>7 DEF NumberHolds
    <2>3. SoundHolds(c)'
      BY <1>1, <1>3, <1>4, <1>6, <1>7 DEF SoundHolds, Sounding
    <2>4. WaitHolds(c)'
      BY <1>4, <1>7 DEF WaitHolds, Begun
    <2> QED BY <2>1, <2>2, <2>3, <2>4
  <1>8. ASSUME NEW d \in Calls \ {c}, call[d].lease = call[c].lease
        PROVE  call[d].pc \notin Begun /\ ~Sounding(d)
    BY <1>1, <1>8, OneBegun DEF IInv, OneAudible
  <1>9. r.active \in {Of(c).active, 0, call[c].gen}
    BY <1>3
  <1> QED BY <1>1, <1>3, <1>4, <1>5, <1>6, <1>7, <1>8, <1>9, CallSteps

\* A playback whose tail begins keeps the invariant.
LEMMA TailInvariant ==
  ASSUME IInv, NEW c \in Calls, call[c].pc = "observing", ~Sounding(c),
         PlaybackIsCurrent(c), ~Of(c).stopReq, audio[c] # "failed",
         PutLease(c, [Of(c) EXCEPT !.active = 0, !.drain = call[c].gen,
                                   !.phase = "draining"]),
         PutCall(c, [call[c] EXCEPT !.pc = "tail"]),
         UNCHANGED <<epoch, current, audio, fenced>>
  PROVE  IInv'
  <1> DEFINE r == [Of(c) EXCEPT !.active = 0, !.drain = call[c].gen, !.phase = "draining"]
             x == [call[c] EXCEPT !.pc = "tail"]
  <1>1. /\ call[c] \in Call /\ Of(c) \in Lease /\ call[c].pc # "idle"
        /\ NumberHolds(c) /\ SoundHolds(c) /\ call[c].gen \in Nat
        /\ Of(c).gen = call[c].gen /\ Of(c).active = call[c].gen
    BY CallTyped DEF IInv, GenerationsHold, SoundsHold, PlaybackIsCurrent, Call
  <1>2. /\ r \in Lease /\ r.acq = Of(c).acq /\ r.stopReq = Of(c).stopReq
        /\ r.rel = Of(c).rel /\ r.ok = Of(c).ok /\ r.spent = Of(c).spent
        /\ r.active = 0 /\ r.frame = Of(c).frame /\ r.queue = Of(c).queue
        /\ r.gen = Of(c).gen
    BY <1>1 DEF Lease
  <1>3. /\ x \in Call /\ x.pc = "tail" /\ x.lease = call[c].lease
        /\ x.gen = call[c].gen /\ x.result = call[c].result
    BY <1>1 DEF Call
  <1>4. PutLease(c, r) /\ PutCall(c, x)
    OBVIOUS
  <1> HIDE DEF r, x
  <1>5. /\ audio[c] = "completed" /\ audio' = audio /\ fenced' \subseteq Calls
        /\ audio' \in [Calls -> {"none", "requested", "playing", "completed", "failed"}]
    BY <1>1 DEF IInv, TypeOK, SoundHolds, Sounding
  <1>6. ASSUME Of(c)' = r, call'[c] = x
        PROVE  ChainHolds' /\ NumberHolds(c)' /\ SoundHolds(c)' /\ WaitHolds(c)'
    <2>1. ChainHolds'
      <3>1. \A k \in Leases : lease'[k].queue = lease[k].queue
        BY <1>1, <1>2, <1>4, PutOne DEF Of
      <3>2. \A d \in Calls \ {c} : call'[d] = call[d]
        BY <1>3, <1>4, PutTheCall
      <3> QED BY <1>3, <1>6, <3>1, <3>2, ChainAdvances DEF InChain, Begun
    <2>2. NumberHolds(c)'
      BY <1>1, <1>2, <1>3, <1>6 DEF NumberHolds
    <2>3. SoundHolds(c)'
      BY <1>1, <1>2, <1>3, <1>5, <1>6 DEF SoundHolds, NumberHolds, Sounding
    <2>4. WaitHolds(c)'
      BY <1>3, <1>6 DEF WaitHolds, Begun
    <2> QED BY <2>1, <2>2, <2>3, <2>4
  <1>7. ASSUME NEW d \in Calls \ {c}, call[d].lease = call[c].lease
        PROVE  call[d].pc # "stopping" /\ ~(call[d].pc = "observing" /\ Sounding(d))
    <2>1. SoundHolds(d) /\ NumberHolds(d) /\ Of(d) = Of(c) /\ call[d].gen # call[c].gen
      BY <1>1, <1>7 DEF IInv, GenerationsHold, SoundsHold, NumberHolds, Of
    <2> QED BY <1>1, <2>1 DEF SoundHolds, NumberHolds
  <1>8. /\ r.active \in {Of(c).active, 0, call[c].gen}
        /\ Sounding(c)' => Sounding(c)
    BY <1>2, <1>5 DEF Sounding
  <1> QED BY <1>1, <1>2, <1>3, <1>4, <1>5, <1>6, <1>7, <1>8, CallSteps

\* When the tail of the last generation ends and nothing is due, no call is left that could
\* replace it.
LEMMA NothingReplaces ==
  ASSUME IInv, NEW c \in Calls, call[c].pc = "tail", TailIsCurrent(c),
         \A d \in Calls : ~Due(d),
         NEW d \in Calls, call[d].lease = call[c].lease
  PROVE  call[d].pc \notin {"replaceQueued"} \cup Begun
  <1> DEFINE l == call[c].lease
             q == lease[l].queue
  <1>1. /\ l \in Leases /\ Of(c) = lease[l] /\ NumberHolds(c) /\ Of(c).gen = call[c].gen
        /\ q \in Seq(Calls) /\ DOMAIN q = 1..Len(q) /\ Len(q) \in Nat
    BY CallTyped, LeaseTyped DEF IInv, GenerationsHold, TailIsCurrent, Of
  <1>2. ASSUME NEW e \in Calls, call[e].lease = l PROVE call[e].pc \notin Begun
    <2>1. NumberHolds(e) /\ Of(e) = Of(c)
      BY <1>2 DEF IInv, GenerationsHold, Of
    <2>2. call[e].gen = call[c].gen /\ call[c].gen # 0 => e = c
      BY <1>2 DEF IInv, GenerationsHold
    <2> QED BY <1>1, <2>1, <2>2 DEF NumberHolds, Begun
  <1>3. ASSUME call[d].pc = "replaceQueued" PROVE FALSE
    <2>1. PICK i \in DOMAIN q : q[i] = d
      BY <1>1, <1>3 DEF IInv, ChainHolds, InChain, Of
    <2>2. 1 \in DOMAIN q /\ q # <<>>
      BY <1>1, <2>1
    <2>3. Head(q) = q[1] /\ q[1] \in Calls
      BY <1>1, <2>2, HeadAndTail, ElementOfSeq
    <2>4. call[q[1]].lease = l /\ call[q[1]].pc \in InChain
      BY <1>1, <2>2 DEF IInv, ChainHolds
    <2>5. call[q[1]].pc \in {"playQueued", "replaceQueued"}
      BY <1>2, <2>3, <2>4 DEF InChain
    <2>6. Due(q[1])
      BY <2>2, <2>3, <2>4, <2>5 DEF Due, First, Of
    <2> QED BY <2>3, <2>6
  <1> QED BY <1>2, <1>3

\* A tail that ends as the last one of its lease, and begins the release that is a success,
\* keeps the invariant.
LEMMA SuccessInvariant ==
  ASSUME IInv, NEW c \in Calls, call[c].pc = "tail", Of(c).rel = "none", TailIsCurrent(c),
         \A d \in Calls : ~Due(d),
         PutLease(c, EnsureReleased([Of(c) EXCEPT !.drain = 0, !.spent = TRUE], TRUE)),
         PutCall(c, [call[c] EXCEPT !.pc = "releasing"]),
         UNCHANGED <<epoch, current, audio, fenced>>
  PROVE  IInv'
  <1> DEFINE r == EnsureReleased([Of(c) EXCEPT !.drain = 0, !.spent = TRUE], TRUE)
             x == [call[c] EXCEPT !.pc = "releasing"]
             l == call[c].lease
  <1>1. /\ call[c] \in Call /\ Of(c) \in Lease /\ call[c].pc # "idle"
        /\ l \in Leases /\ Of(c) = lease[l] /\ NumberHolds(c) /\ SoundHolds(c)
    BY CallTyped DEF IInv, GenerationsHold, SoundsHold, Of
  <1>2. /\ r \in Lease /\ r.acq = Of(c).acq /\ r.stopReq /\ r.rel = "running" /\ r.ok
        /\ r.spent /\ r.active = Of(c).active /\ r.frame = Of(c).frame
        /\ r.queue = Of(c).queue /\ r.gen = Of(c).gen
    BY <1>1 DEF EnsureReleased, Lease
  <1>3. /\ x \in Call /\ x.pc = "releasing" /\ x.lease = l /\ x.gen = call[c].gen
        /\ x.result = call[c].result
    BY <1>1 DEF Call
  <1>4. PutLease(c, r) /\ PutCall(c, x)
    OBVIOUS
  <1>5. audio[c] = "completed" /\ Of(c).gen = call[c].gen
    BY <1>1 DEF SoundHolds, TailIsCurrent
  <1> HIDE DEF r, x
  <1>6. /\ lease' \in [Leases -> Lease] /\ lease'[l] = r
        /\ \A k \in Leases : k # l => lease'[k] = lease[k]
    BY <1>1, <1>2, <1>4, PutOne
  <1>7. /\ call' \in [Calls -> Call] /\ call'[c] = x
        /\ \A d \in Calls \ {c} : call'[d] = call[d]
    BY <1>3, <1>4, PutTheCall
  <1>8. epoch' = epoch /\ current' = current /\ audio' = audio /\ fenced' = fenced
    OBVIOUS
  <1>9. TypeOK'
    BY <1>6, <1>7, <1>8 DEF IInv, TypeOK
  <1>10. ChainHolds'
    <2>1. \A k \in Leases : lease'[k].queue = lease[k].queue
      BY <1>1, <1>2, <1>6
    <2> QED BY <1>3, <1>7, <2>1, ChainAdvances DEF InChain, Begun
  <1>11. ASSUME NEW d \in Calls PROVE NumberHolds(d)' /\ SoundHolds(d)' /\ WaitHolds(d)'
    <2>1. CASE d = c
      <3>1. Of(c)' = r
        BY <1>3, <1>6, <1>7 DEF Of
      <3>2. NumberHolds(c)'
        BY <1>1, <1>2, <1>3, <1>7, <1>8, <3>1 DEF NumberHolds
      <3>3. SoundHolds(c)'
        BY <1>1, <1>3, <1>5, <1>7, <1>8, <3>1 DEF SoundHolds, NumberHolds, Sounding
      <3>4. WaitHolds(c)'
        BY <1>2, <1>3, <1>5, <1>7, <1>8, <3>1 DEF WaitHolds, Begun
      <3> QED BY <2>1, <3>2, <3>3, <3>4
    <2>2. CASE d # c /\ call[d].pc # "idle" /\ call[d].lease = l
      <3>1. Of(d) = Of(c) /\ Of(d)' = r
        BY <1>1, <1>6, <1>7, <2>2 DEF Of
      <3>2. call[d].pc \notin {"replaceQueued"} \cup Begun
        BY <2>2, NothingReplaces
      <3>3. WaitHolds(d)
        BY DEF IInv, ReleasesHold
      <3>4. call[d].pc # "releasing"
        BY <3>1, <3>3 DEF WaitHolds
      <3>5. Of(d)'.gen \in Nat /\ Of(d).gen <= Of(d)'.gen
        BY <1>1, <1>2, <3>1 DEF Lease
      <3>6. call'[d] = call[d] /\ audio'[d] = audio[d]
        BY <1>7, <1>8, <2>2
      <3> QED BY <1>2, <1>8, <3>1, <3>2, <3>4, <3>5, <3>6, Beside
    <2>3. CASE d # c /\ call[d].pc # "idle" /\ call[d].lease # l
      <3>1. call'[d] = call[d] /\ audio'[d] = audio[d]
        BY <1>7, <1>8, <2>3
      <3>2. Of(d)' = Of(d) /\ Of(d) \in Lease
        BY <1>6, <2>3, <3>1, CallTyped DEF Of
      <3>3. Of(d)'.gen \in Nat /\ Of(d).gen <= Of(d)'.gen
        BY <3>2 DEF Lease
      <3> QED BY <1>8, <2>3, <3>1, <3>2, <3>3, Beside
    <2>4. CASE d # c /\ call[d].pc = "idle"
      <3>1. call'[d] = call[d] /\ audio'[d] = audio[d]
        BY <1>7, <1>8, <2>4
      <3> QED BY <1>8, <2>4, <3>1, Beside
    <2> QED BY <2>1, <2>2, <2>3, <2>4
  <1>12. \A d \in Calls : /\ call'[d].lease = call[d].lease /\ call'[d].gen = call[d].gen
                          /\ call'[d].result = call[d].result
    BY <1>3, <1>7
  <1>13. \A k \in Leases : /\ lease'[k].gen = lease[k].gen /\ lease'[k].acq = lease[k].acq
                           /\ lease'[k].active = lease[k].active
    BY <1>1, <1>2, <1>6
  <1>14. GenerationsHold'
    <2>1. \A k \in Leases : lease'[k].gen # 0 => lease'[k].acq = "granted" /\ k <= epoch'
      BY <1>8, <1>13 DEF IInv, GenerationsHold
    <2>2. \A k \in Leases : lease'[k].active # 0 =>
            \E d \in Calls : call'[d].lease = k /\ call'[d].gen = lease'[k].active
      BY <1>12, <1>13 DEF IInv, GenerationsHold
    <2>3. \A d, e \in Calls :
            (call'[d].lease = call'[e].lease /\ call'[d].gen = call'[e].gen /\ call'[d].gen # 0)
              => d = e
      BY <1>12 DEF IInv, GenerationsHold
    <2> QED BY <1>11, <2>1, <2>2, <2>3 DEF GenerationsHold
  <1>15. ReleasesHold'
    <2>1. \A k \in Leases : /\ lease'[k].rel # "none" => lease'[k].stopReq
                            /\ lease'[k].ok => lease'[k].spent
                            /\ lease'[k].spent => lease'[k].rel # "none"
      BY <1>2, <1>6 DEF IInv, ReleasesHold
    <2> QED BY <1>11, <2>1 DEF ReleasesHold
  <1>16. OneAudible'
    BY <1>8, <1>12 DEF IInv, OneAudible, Sounding
  <1>17. SuccessIsEarned'
    <2>1. ASSUME NEW k \in Leases, lease'[k].ok
          PROVE  \E d \in Calls : call'[d].lease = k /\ call'[d].gen = lease'[k].gen
                                  /\ audio'[d] = "completed"
      <3>1. CASE k = l
        BY <1>2, <1>3, <1>5, <1>6, <1>7, <1>8, <3>1
      <3>2. CASE k # l
        BY <1>6, <1>8, <1>12, <2>1, <3>2 DEF IInv, SuccessIsEarned
      <3> QED BY <3>1, <3>2
    <2> QED BY <1>8, <1>12, <2>1 DEF IInv, SuccessIsEarned
  <1> HIDE DEF l
  <1> QED BY <1>9, <1>10, <1>11, <1>14, <1>15, <1>16, <1>17 DEF IInv, SoundsHold

\* What the backend reports, and what its observer makes of it, keeps the invariant.
LEMMA PlaybackInvariant ==
  ASSUME IInv, NEW c \in Calls, \A d \in Calls : ~Due(d), Playback(c) PROVE IInv'
  <1>1. NumberHolds(c) /\ SoundHolds(c) /\ WaitHolds(c)
    BY DEF IInv, GenerationsHold, SoundsHold, ReleasesHold
  <1>2. call[c].pc \in {"observing", "tail", "releasing"} =>
          call[c].pc # "idle" /\ call[c].pc \notin InChain
    BY DEF InChain, Begun
  <1>3. CASE AudioStarts(c)
    <2>1. audio[c] = "requested" /\ Sounding(c) /\ audio' = [audio EXCEPT ![c] = "playing"]
          /\ UNCHANGED <<epoch, current>>
      BY <1>3 DEF AudioStarts, Sounding
    <2>2. CASE call[c].pc # "starting"
      <3>1. UNCHANGED <<lease, call, fenced>>
        BY <1>3, <2>2 DEF AudioStarts
      <3> QED BY <2>1, <2>2, <3>1, HearsInvariant
    <2>3. CASE call[c].pc = "starting" /\ ~CanContinue(call[c].lease)
      <3>1. StartFails(c)
        BY <1>3, <2>3 DEF AudioStarts
      <3> QED BY <2>1, <2>3, <3>1, StartFailsInvariant
    <2>4. CASE call[c].pc = "starting" /\ CanContinue(call[c].lease)
      <3>1. Of(c).gen = call[c].gen
        BY <2>4, Starting
      <3>2. /\ PutLease(c, [Dequeued(Of(c), c) EXCEPT
                 !.active = call[c].gen, !.frame = c, !.phase = "active"])
            /\ PutCall(c, [call[c] EXCEPT !.pc = "observing"])
            /\ UNCHANGED fenced
        BY <1>3, <2>4, <3>1 DEF AudioStarts
      <3> QED BY <2>1, <2>4, <3>2, StartedInvariant
    <2> QED BY <2>2, <2>3, <2>4
  <1>4. CASE AudioStartFails(c)
    BY <1>4, StartFailsInvariant DEF AudioStartFails
  <1>5. CASE CleanupEnds(c)
    <2>1. /\ call[c].pc = "cleaning" /\ Releases(c, FALSE)
          /\ UNCHANGED <<epoch, current, audio>>
      BY <1>5 DEF CleanupEnds
    <2>2. First(c) /\ call[c].pc # "idle" /\ ~Of(c).spent
      BY <1>1, <2>1 DEF WaitHolds, IInv, ChainHolds, Begun
    <2>3. ~Of(c).ok
      BY <2>2, CallTyped DEF IInv, ReleasesHold, Of
    <2>4. fenced' \subseteq Calls
      BY <1>5 DEF CleanupEnds, IInv, TypeOK
    <2> QED BY <2>1, <2>2, <2>3, <2>4, ReleasesInvariant
  <1>6. CASE Observe(c)
    <2>1. /\ call[c].pc = "observing" /\ ~Sounding(c)
          /\ UNCHANGED <<epoch, current, audio, fenced>>
      BY <1>6 DEF Observe
    <2>2. fenced' \subseteq Calls
      BY <2>1 DEF IInv, TypeOK
    <2>3. CASE ~PlaybackIsCurrent(c)
      <3>1. Ends(c, "continues")
        BY <1>6, <2>3 DEF Observe
      <3> QED BY <1>2, <2>1, <2>2, <3>1, EndsInvariant
    <2>4. CASE PlaybackIsCurrent(c) /\ (Of(c).stopReq \/ audio[c] = "failed")
      <3>1. Releases(c, FALSE)
        BY <1>6, <2>4 DEF Observe
      <3>2. Of(c).ok => audio[c] = "completed"
        <4>1. SUFFICES ASSUME Of(c).ok PROVE audio[c] = "completed"
          OBVIOUS
        <4>2. call[c].lease \in Leases /\ Of(c) = lease[call[c].lease]
          BY <1>2, <2>1, CallTyped DEF Of
        <4>3. PICK d \in Calls : call[d].lease = call[c].lease /\ call[d].gen = Of(c).gen
                                 /\ audio[d] = "completed"
          BY <4>1, <4>2 DEF IInv, SuccessIsEarned
        <4>4. call[d].gen = call[c].gen /\ call[c].gen # 0
          BY <1>1, <2>1, <2>4, <4>3 DEF PlaybackIsCurrent, NumberHolds
        <4>5. d = c
          BY <4>3, <4>4 DEF IInv, GenerationsHold
        <4> QED BY <4>3, <4>5
      <3> QED BY <1>2, <2>1, <2>2, <3>1, <3>2, ReleasesInvariant
    <2>5. CASE PlaybackIsCurrent(c) /\ ~(Of(c).stopReq \/ audio[c] = "failed")
      <3>1. /\ PutLease(c, [Of(c) EXCEPT !.active = 0, !.drain = call[c].gen,
                                         !.phase = "draining"])
            /\ PutCall(c, [call[c] EXCEPT !.pc = "tail"])
        BY <1>6, <2>5 DEF Observe
      <3> QED BY <2>1, <2>5, <3>1, TailInvariant
    <2> QED BY <2>3, <2>4, <2>5
  <1>7. ASSUME NEW how \in {"completed", "failed"}, AudioSettles(c, how) PROVE IInv'
    BY <1>7, HearsInvariant DEF AudioSettles
  <1>8. CASE TailEnds(c)
    <2>1. /\ call[c].pc = "tail" /\ UNCHANGED <<epoch, current, audio, fenced>>
          /\ audio[c] = "completed" /\ ~Sounding(c)
      BY <1>1, <1>8 DEF TailEnds, SoundHolds, Sounding
    <2>2. fenced' \subseteq Calls
      BY <2>1 DEF IInv, TypeOK
    <2>3. CASE Releases(c, FALSE)
      BY <1>2, <2>1, <2>2, <2>3, ReleasesInvariant
    <2>4. CASE Ends(c, "continues")
      BY <1>2, <2>1, <2>2, <2>4, EndsInvariant
    <2>5. CASE /\ Of(c).rel = "none" /\ TailIsCurrent(c)
               /\ PutLease(c, EnsureReleased([Of(c) EXCEPT !.drain = 0, !.spent = TRUE], TRUE))
               /\ PutCall(c, [call[c] EXCEPT !.pc = "releasing"])
      BY <2>1, <2>5, SuccessInvariant
    <2> QED BY <1>8, <2>3, <2>4, <2>5 DEF TailEnds
  <1>9. CASE Released(c)
    <2>1. /\ call[c].pc = "releasing" /\ UNCHANGED <<epoch, current, audio, fenced>>
          /\ Ends(c, IF Of(c).rel = "done" /\ Of(c).ok THEN "success" ELSE "failure")
      BY <1>9 DEF Released
    <2>2. fenced' \subseteq Calls
      BY <2>1 DEF IInv, TypeOK
    <2>3. (Of(c).ok => audio[c] = "completed") /\ Of(c).rel # "none"
      BY <1>1, <2>1 DEF WaitHolds
    <2>4. ~Sounding(c) \/ Of(c).stopReq
      BY <1>1, <2>1 DEF SoundHolds
    <2>5. CASE Of(c).rel = "done" /\ Of(c).ok
      <3>1. Ends(c, "success") /\ audio[c] = "completed"
        BY <2>1, <2>3, <2>5
      <3> QED BY <1>2, <2>1, <2>2, <2>4, <3>1, EndsInvariant
    <2>6. CASE ~(Of(c).rel = "done" /\ Of(c).ok)
      <3>1. Ends(c, "failure")
        BY <2>1, <2>6
      <3> QED BY <1>2, <2>1, <2>2, <2>4, <3>1, EndsInvariant
    <2> QED BY <2>5, <2>6
  <1> QED BY <1>3, <1>4, <1>5, <1>6, <1>7, <1>8, <1>9 DEF Playback

-----------------------------------------------------------------------------
(* The theorems                                                            *)

\* Every step keeps the invariant.
LEMMA NextInvariant == IInv /\ [Next]_vars => IInv'
  <1> SUFFICES ASSUME IInv, [Next]_vars PROVE IInv'
    OBVIOUS
  <1>1. ASSUME NEW c \in Calls, Enter(c) PROVE IInv'
    BY <1>1, EnterInvariant
  <1>2. ASSUME NEW c \in Calls, Transition(c) PROVE IInv'
    BY <1>2, TransitionInvariant
  <1>3. ASSUME NEW c \in Calls, Playback(c), \A d \in Calls : ~Due(d) PROVE IInv'
    BY <1>3, PlaybackInvariant
  <1>4. ASSUME NEW c \in Calls, Pipeline(c) PROVE IInv'
    BY <1>4, PipelineInvariant
  <1>5. ASSUME NEW l \in Leases, Physical(l) PROVE IInv'
    BY <1>5, PhysicalInvariant
  <1>6. CASE UNCHANGED vars
    BY <1>6
       DEF vars, IInv, TypeOK, ChainHolds, GenerationsHold, NumberHolds, SoundsHold,
           SoundHolds, ReleasesHold, WaitHolds, OneAudible, SuccessIsEarned, Sounding, Of,
           First
  <1> QED BY <1>1, <1>2, <1>3, <1>4, <1>5, <1>6 DEF Next

\* The chain, the generations, the sounds and the release of every lease are as the
\* inductive invariant says, whatever is replaced, interrupted, stopped or late.
THEOREM PlaybackIsSound == Spec => []IInv
  <1> QED BY InitInvariant, NextInvariant, PTL DEF Spec

\* The state keeps its types.
THEOREM PlaybackTypes == Spec => []TypeOK
  <1>1. IInv => TypeOK
    BY DEF IInv
  <1> QED BY <1>1, PlaybackIsSound, PTL

\* A replacement never sounds together with what it replaces.
THEOREM OneIsAudible == Spec => []OneAudible
  <1>1. IInv => OneAudible
    BY DEF IInv
  <1> QED BY <1>1, PlaybackIsSound, PTL

\* A lease is released as a success only by its last generation, played to the end, and no
\* source is told that a frame was transmitted that was not.
THEOREM SuccessesAreEarned == Spec => []SuccessIsEarned
  <1>1. IInv => SuccessIsEarned
    BY DEF IInv
  <1> QED BY <1>1, PlaybackIsSound, PTL

\* While a frame's audio is on, through a whole handover, the lease carries that frame.
THEOREM TheFrameIsOnAir == Spec => []FrameIsOnAir
  <1>1. IInv => FrameIsOnAir
    BY DEF IInv, SoundsHold, SoundHolds, FrameIsOnAir
  <1> QED BY <1>1, PlaybackIsSound, PTL
=============================================================================
