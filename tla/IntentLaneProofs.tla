--------------------------- MODULE IntentLaneProofs ---------------------------
(***************************************************************************)
(* The safety of an operator's lane, for any set of priorities and any     *)
(* number of commands.                                                     *)
(***************************************************************************)
EXTENDS IntentLane, SequenceTheorems, TLAPS

USE MaxEpochAssumption DEF None, Epochs

\* What an epoch that is taken leaves of the earlier ones.
LEMMA Issue ==
  ASSUME NEW S, NEW s \in Seq(S), NEW x \in S
  PROVE  /\ Append(s, x) \in Seq(S)
         /\ Len(Append(s, x)) = Len(s) + 1
         /\ Append(s, x)[Len(s) + 1] = x
         /\ \A i \in 1..Len(s) : Append(s, x)[i] = s[i]
  BY AppendProperties

\* What starting, superseding and aborting a command change of the jobs.
LEMMA StartChanges ==
  ASSUME NEW js \in [Epochs -> Job], NEW e \in Epochs
  PROVE  /\ Start(js, e) \in [Epochs -> Job]
         /\ \A d \in Epochs :
              /\ Start(js, e)[d].pc = IF d = e THEN "running" ELSE js[d].pc
              /\ Start(js, e)[d].aborted = js[d].aborted
              /\ Start(js, e)[d].outcome = js[d].outcome
              /\ Start(js, e)[d].cleared = js[d].cleared
  BY DEF Start, Job

\* What answering a command as superseded changes of the jobs.
LEMMA SupersededChanges ==
  ASSUME NEW js \in [Epochs -> Job], NEW e \in Epochs
  PROVE  /\ Superseded(js, e) \in [Epochs -> Job]
         /\ \A d \in Epochs :
              /\ Superseded(js, e)[d].pc = IF d = e THEN "done" ELSE js[d].pc
              /\ Superseded(js, e)[d].aborted = js[d].aborted
              /\ Superseded(js, e)[d].outcome
                   = IF d = e THEN "superseded" ELSE js[d].outcome
              /\ Superseded(js, e)[d].cleared = js[d].cleared
  BY DEF Superseded, Job

\* What firing a signal changes of the jobs.
LEMMA AbortChanges ==
  ASSUME NEW js \in [Epochs -> Job], NEW e \in Epochs \cup {None}
  PROVE  /\ Abort(js, e) \in [Epochs -> Job]
         /\ \A d \in Epochs :
              /\ Abort(js, e)[d].pc = js[d].pc
              /\ Abort(js, e)[d].aborted <=> (js[d].aborted \/ d = e)
              /\ Abort(js, e)[d].outcome = js[d].outcome
              /\ Abort(js, e)[d].cleared = js[d].cleared
  <1>1. CASE e = None
    BY <1>1 DEF Abort
  <1>2. CASE e # None
    BY <1>2 DEF Abort, Job
  <1> QED BY <1>1, <1>2

\* The initial states satisfy the invariant.
LEMMA InitInvariant == Init => IInv
  BY
     DEF Init, IInv, TypeOK, JobsAreIssued, ActiveHolds, PendingHolds, TurnsHold, Running,
         Newest, Job

\* The order of the runs is kept by a step that starts none, keeps the active command and
\* does not turn the token back.
LEMMA TurnsKept ==
  ASSUME TurnsHold, active' = active, active \in Nat, auth \in Nat, auth' \in Nat,
         auth <= auth', \A d \in Epochs : Running(d)' => Running(d)
  PROVE  TurnsHold'
  BY DEF TurnsHold

\* A new command keeps the invariant, whether it starts, waits or is superseded at once.
LEMMA SubmitInvariant == ASSUME IInv, NEW p \in Priorities, Submit(p) PROVE IInv'
  <1> DEFINE n == Len(issued)
             e == n + 1
  <1>1. /\ issued' \in Seq(Priorities \cup {0}) /\ Len(issued') = e /\ issued'[e] = p
        /\ \A i \in 1..n : issued'[i] = issued[i]
        /\ n \in Nat /\ n < MaxEpoch /\ n = Len(issued)
    BY Issue, LenProperties DEF IInv, TypeOK, Submit
  <1>2. \A i \in 1..n : issued[i] \in Nat
    <2>1. \A i \in 1..n : issued[i] \in Priorities \cup {0}
      BY ElementOfSeq DEF IInv, TypeOK
    <2>2. Priorities \cup {0} \subseteq Nat
      BY PrioritiesAssumption
    <2> HIDE DEF n
    <2> QED BY <2>1, <2>2
  <1>3. /\ job \in [Epochs -> Job]
        /\ auth \in 0..n /\ active \in 0..n /\ pending \in 0..n
        /\ takeover \in [of : 0..n, over : BOOLEAN]
        /\ takeover.of # None => job[takeover.of].aborted
    BY DEF IInv, TypeOK, Submit
  <1>4. JobsAreIssued /\ ActiveHolds /\ PendingHolds /\ TurnsHold
    BY DEF IInv
  <1> HIDE DEF n
  <1>5. /\ e \in Epochs /\ e # None /\ job[e].pc = "unused" /\ ~job[e].aborted
        /\ p \in Nat \ {0}
    <2>1. e \in Epochs /\ e # None
      BY <1>1
    <2>2. ~(e <= Len(issued)) /\ job[e] \in Job
      BY <1>1, <1>3, <2>1
    <2> QED BY <2>1, <2>2, <1>4, PrioritiesAssumption DEF JobsAreIssued
  <1>6. CASE active = None
    <2>1. /\ active' = e /\ auth' = e /\ job' = Start(job, e) /\ pending = None
          /\ pending' = None /\ takeover' = takeover
      BY <1>4, <1>6 DEF Submit, PendingHolds, n
    <2>2. /\ job' \in [Epochs -> Job]
          /\ \A d \in Epochs : /\ job'[d].pc = IF d = e THEN "running" ELSE job[d].pc
                               /\ job'[d].aborted = job[d].aborted
      BY <2>1, <1>3, <1>5, StartChanges
    <2>3. TypeOK'
      BY <1>1, <1>3, <2>1, <2>2 DEF TypeOK
    <2>4. JobsAreIssued'
      <3> SUFFICES ASSUME NEW d \in Epochs
                   PROVE  /\ job'[d].pc # "unused" => d <= e /\ issued'[d] # 0
                          /\ job'[d].pc = "unused" => ~job'[d].aborted
                          /\ job'[d].pc = "pending" => pending' = d
        BY <1>1 DEF JobsAreIssued
      <3>1. CASE d = e
        BY <1>1, <1>5, <2>2, <3>1
      <3>2. CASE d # e
        BY <1>1, <1>4, <2>1, <2>2, <3>2 DEF JobsAreIssued
      <3> QED BY <3>1, <3>2
    <2>5. ActiveHolds'
      <3>1. \A d \in Epochs : (Running(d) /\ ~job[d].aborted)' => active' = d
        BY <1>4, <1>6, <2>1, <2>2 DEF ActiveHolds, Running
      <3>2. \A f \in Epochs : ~(e < f /\ f <= Len(issued'))
        BY <1>1
      <3>3. Newest(active)'
        BY <2>1, <3>2 DEF Newest
      <3> QED BY <1>5, <2>1, <2>2, <3>1, <3>3 DEF ActiveHolds
    <2>6. TurnsHold'
      BY <1>1, <1>4, <2>1, <2>2 DEF JobsAreIssued, TurnsHold, Running
    <2> QED
      BY <1>1, <1>3, <1>5, <2>1, <2>2, <2>3, <2>4, <2>5, <2>6 DEF IInv, PendingHolds
  <1>7. CASE active # None /\ Replaces(e)
    <2> DEFINE js == IF pending = None THEN job ELSE Superseded(job, pending)
               ks == [js EXCEPT ![e].pc = "pending"]
    <2>1. /\ pending' = e /\ active' = active
          /\ \/ auth' = e /\ job' = Abort(ks, active) /\ EnsureTakeover(active)
             \/ /\ auth' = auth /\ job' = ks /\ takeover' = takeover
                /\ ~(issued'[e] >= issued'[active])
      BY <1>7 DEF Submit, Wait, Supersedes, n
    <2>2. pending # None => p >= issued[pending]
      BY <1>1, <1>7 DEF Replaces
    <2>3. /\ js \in [Epochs -> Job]
          /\ \A d \in Epochs : /\ d = pending => js[d].pc = "done"
                               /\ d # pending => js[d].pc = job[d].pc
                               /\ js[d].aborted <=> job[d].aborted
      <3>1. CASE pending = None
        BY <1>3, <3>1
      <3>2. CASE pending # None
        BY <1>1, <1>3, <3>2, SupersededChanges
      <3> QED BY <3>1, <3>2
    <2>4. /\ ks \in [Epochs -> Job]
          /\ \A d \in Epochs : /\ d = e => ks[d].pc = "pending"
                               /\ d # e => ks[d].pc = js[d].pc
                               /\ ks[d].aborted <=> js[d].aborted
      BY <1>5, <2>3 DEF Job
    <2> HIDE DEF js, ks
    <2>5. \/ /\ auth' = e /\ job' = Abort(ks, active) /\ EnsureTakeover(active)
             /\ job' \in [Epochs -> Job]
             /\ \A d \in Epochs : /\ job'[d].pc = ks[d].pc
                                  /\ job'[d].aborted <=> (job[d].aborted \/ d = active)
          \/ /\ auth' = auth /\ takeover' = takeover /\ p < issued[active]
             /\ job' \in [Epochs -> Job]
             /\ \A d \in Epochs : /\ job'[d].pc = ks[d].pc
                                  /\ job'[d].aborted <=> job[d].aborted
      <3>1. active \in 1..n /\ active \in Epochs
        BY <1>1, <1>3, <1>7
      <3>2. issued'[active] = issued[active] /\ issued[active] \in Nat
        BY <1>1, <1>2, <3>1
      <3>3. CASE auth' = e /\ job' = Abort(ks, active) /\ EnsureTakeover(active)
        <4>1. /\ Abort(ks, active) \in [Epochs -> Job]
              /\ \A d \in Epochs :
                   /\ Abort(ks, active)[d].pc = ks[d].pc
                   /\ Abort(ks, active)[d].aborted <=> (ks[d].aborted \/ d = active)
          <5>1. ks \in [Epochs -> Job]
            BY <2>4
          <5>2. active \in Epochs \cup {None}
            BY <3>1
          <5> QED BY <5>1, <5>2, AbortChanges
        <4> QED BY <2>3, <2>4, <3>3, <4>1
      <3>4. CASE /\ auth' = auth /\ job' = ks /\ takeover' = takeover
                 /\ ~(issued'[e] >= issued'[active])
        BY <1>1, <1>5, <2>3, <2>4, <3>2, <3>4
      <3> QED BY <2>1, <3>3, <3>4
    <2>6. TypeOK'
      <3>1. takeover' \in [of : 0..e, over : BOOLEAN]
        <4>1. takeover' \in {takeover, [of |-> active, over |-> FALSE]}
          BY <2>5 DEF EnsureTakeover
        <4>2. [of |-> active, over |-> FALSE] \in [of : 0..n, over : BOOLEAN]
          BY <1>3
        <4>3. takeover' \in [of : 0..n, over : BOOLEAN]
          BY <1>3, <4>1, <4>2
        <4> QED BY <1>1, <4>3
      <3>2. auth' \in 0..e /\ active' \in 0..e /\ pending' \in 0..e
        BY <1>1, <1>3, <2>1, <2>5
      <3>3. job' \in [Epochs -> Job]
        BY <2>5
      <3> QED BY <1>1, <3>1, <3>2, <3>3 DEF TypeOK
    <2>7. JobsAreIssued'
      <3> SUFFICES ASSUME NEW d \in Epochs
                   PROVE  /\ job'[d].pc # "unused" => d <= e /\ issued'[d] # 0
                          /\ job'[d].pc = "unused" => ~job'[d].aborted
                          /\ job'[d].pc = "pending" => pending' = d
        BY <1>1 DEF JobsAreIssued
      <3>1. CASE d = e
        BY <1>1, <1>5, <2>1, <2>4, <2>5, <3>1
      <3>2. CASE d # e
        <4>1. d = pending => job[d].pc = "pending"
          BY <1>4 DEF PendingHolds
        <4>2. d = active => job[d].pc # "unused"
          BY <1>4 DEF ActiveHolds
        <4>3. job[d].pc # "unused" => d <= n /\ issued[d] # 0
          BY <1>1, <1>4 DEF JobsAreIssued
        <4>4. job'[d].pc # "pending" /\ (job'[d].pc = "unused" => job[d].pc = "unused")
          BY <1>4, <2>3, <2>4, <2>5, <3>2 DEF JobsAreIssued
        <4>5. job'[d].pc # "unused" => job[d].pc # "unused"
          BY <2>3, <2>4, <2>5, <3>2, <4>1
        <4>6. job'[d].pc = "unused" => ~job'[d].aborted
          BY <1>4, <2>5, <4>2, <4>4 DEF JobsAreIssued
        <4> QED BY <1>1, <4>3, <4>4, <4>5, <4>6
      <3> QED BY <3>1, <3>2
    <2>8. active \in 1..n /\ active # e /\ active # pending
          /\ job[active].pc \in {"running", "settled"}
      BY <1>1, <1>3, <1>4, <1>7 DEF ActiveHolds, PendingHolds
    <2>9. ActiveHolds'
      <3>1. \A d \in Epochs : (Running(d) /\ ~job[d].aborted)' => active' = d
        BY <1>4, <2>1, <2>3, <2>4, <2>5 DEF ActiveHolds, Running
      <3>2. job'[active].pc \in {"running", "settled"}
        BY <1>1, <2>3, <2>4, <2>5, <2>8
      <3>3. ASSUME ~job'[active].aborted PROVE (auth = active /\ Newest(active))'
        <4>1. auth' = auth /\ p < issued[active] /\ ~job[active].aborted
          BY <1>1, <2>5, <2>8, <3>3
        <4>2. auth = active /\ Newest(active)
          BY <1>4, <1>7, <4>1 DEF ActiveHolds
        <4> QED BY <1>1, <1>2, <1>5, <2>1, <2>8, <4>1, <4>2 DEF Newest
      <3> QED BY <2>1, <3>1, <3>2, <3>3 DEF ActiveHolds
    <2>10. PendingHolds'
      <3>1. \A f \in Epochs : ~(e < f /\ f <= Len(issued'))
        BY <1>1
      <3>4. Newest(pending)'
        BY <2>1, <3>1 DEF Newest
      <3>2. job'[e].pc = "pending" /\ ~job'[e].aborted
        BY <1>5, <2>3, <2>4, <2>5, <2>8
      <3>3. auth' <= e
        BY <1>1, <1>3, <2>5
      <3> QED BY <1>7, <2>1, <3>2, <3>3, <3>4 DEF PendingHolds
    <2>11. takeover'.of # None => job'[takeover'.of].aborted
      <3> SUFFICES ASSUME takeover'.of # None
                   PROVE  job'[takeover'.of].aborted
        OBVIOUS
      <3>1. CASE takeover' = takeover
        <4>1. takeover.of \in Epochs /\ job[takeover.of].aborted
          BY <1>1, <1>3, <3>1
        <4> QED BY <2>5, <3>1, <4>1
      <3>2. CASE takeover' # takeover
        <4>1. takeover'.of = active /\ active \in Epochs
          BY <1>1, <1>3, <2>5, <3>2 DEF EnsureTakeover
        <4> QED BY <2>5, <3>2, <4>1
      <3> QED BY <3>1, <3>2
    <2>12. TurnsHold'
      <3>1. \A d \in Epochs : Running(d)' => Running(d)
        BY <2>3, <2>4, <2>5 DEF Running
      <3> QED BY <1>1, <1>3, <1>4, <2>1, <2>5, <3>1, TurnsKept
    <2> QED BY <2>6, <2>7, <2>9, <2>10, <2>11, <2>12 DEF IInv
  <1>8. CASE active # None /\ ~Replaces(e)
    <2>1. /\ job' = Superseded(job, e) /\ pending # None
          /\ UNCHANGED <<auth, active, pending, takeover>>
      BY <1>8 DEF Submit, Replaces, n
    <2>2. pending \in 1..n /\ p < issued[pending]
      BY <1>1, <1>2, <1>3, <1>5, <1>8, <2>1 DEF Replaces
    <2>3. /\ job' \in [Epochs -> Job]
          /\ \A d \in Epochs : /\ job'[d].pc = IF d = e THEN "done" ELSE job[d].pc
                               /\ job'[d].aborted = job[d].aborted
      BY <2>1, <1>3, <1>5, SupersededChanges
    <2>4. TypeOK'
      BY <1>1, <1>3, <2>1, <2>3 DEF TypeOK
    <2>5. JobsAreIssued'
      <3> SUFFICES ASSUME NEW d \in Epochs
                   PROVE  /\ job'[d].pc # "unused" => d <= e /\ issued'[d] # 0
                          /\ job'[d].pc = "unused" => ~job'[d].aborted
                          /\ job'[d].pc = "pending" => pending' = d
        BY <1>1 DEF JobsAreIssued
      <3>1. CASE d = e
        BY <1>1, <1>5, <2>3, <3>1
      <3>2. CASE d # e
        BY <1>1, <1>4, <2>1, <2>3, <3>2 DEF JobsAreIssued
      <3> QED BY <3>1, <3>2
    <2>6. \A d \in 1..n : Newest(d) /\ p < issued[d] => Newest(d)'
      BY <1>1, <1>2, <1>5 DEF Newest
    <2>7. PendingHolds'
      BY <1>1, <1>4, <2>1, <2>2, <2>3, <2>6 DEF PendingHolds
    <2>8. ActiveHolds'
      <3>1. active \in 1..n /\ active # e
        BY <1>1, <1>3, <1>8
      <3>2. ASSUME ~job[active].aborted PROVE p < issued[active]
        <4>1. auth = active /\ Newest(active) /\ auth <= pending
          BY <1>4, <1>8, <2>1, <3>2 DEF ActiveHolds, PendingHolds
        <4>2. active # pending
          BY <1>4, <1>8, <2>1 DEF ActiveHolds, PendingHolds
        <4>3. issued[pending] \in 1..(issued[active] - 1)
          BY <1>1, <2>2, <3>1, <4>1, <4>2 DEF Newest
        <4> QED BY <1>2, <1>5, <2>2, <3>1, <4>3
      <3>3. \A d \in Epochs : (Running(d) /\ ~job[d].aborted)' => active' = d
        BY <1>4, <2>1, <2>3 DEF ActiveHolds, Running
      <3>4. job'[active].pc \in {"running", "settled"}
        BY <1>1, <1>4, <1>8, <2>3, <3>1 DEF ActiveHolds
      <3>5. ASSUME ~job'[active].aborted PROVE (auth = active /\ Newest(active))'
        <4>1. ~job[active].aborted
          BY <1>1, <2>1, <2>3, <3>1, <3>5
        <4>2. auth = active /\ Newest(active)
          BY <1>4, <1>8, <4>1 DEF ActiveHolds
        <4>3. \A d : d = active => Newest(d)'
          BY <2>6, <3>1, <3>2, <4>1, <4>2
        <4>4. Newest(active)'
          BY <2>1, <4>3
        <4> QED BY <2>1, <4>2, <4>4
      <3> QED BY <2>1, <3>3, <3>4, <3>5 DEF ActiveHolds
    <2>9. takeover'.of # None => job'[takeover'.of].aborted
      <3> SUFFICES ASSUME takeover.of # None
                   PROVE  job'[takeover.of].aborted
        BY <2>1
      <3>1. takeover.of \in Epochs
        BY <1>1, <1>3
      <3> QED BY <1>3, <2>3, <3>1
    <2>10. TurnsHold'
      BY <1>1, <1>3, <1>4, <2>1, <2>3, TurnsKept DEF Running
    <2> QED BY <1>3, <2>1, <2>4, <2>5, <2>7, <2>8, <2>9, <2>10 DEF IInv
  <1> QED BY <1>6, <1>7, <1>8

\* abortOperator keeps the invariant.
LEMMA AbortInvariant == ASSUME IInv, AbortOperator PROVE IInv'
  <1> DEFINE n == Len(issued)
             e == n + 1
             js == IF pending = None THEN job ELSE Superseded(job, pending)
  <1>1. /\ issued' \in Seq(Priorities \cup {0}) /\ Len(issued') = e
        /\ \A i \in 1..n : issued'[i] = issued[i]
        /\ n \in Nat /\ n < MaxEpoch /\ n = Len(issued)
    BY Issue, LenProperties DEF IInv, TypeOK, AbortOperator
  <1>2. /\ job \in [Epochs -> Job]
        /\ active \in 0..n /\ pending \in 0..n /\ auth \in 0..n
        /\ takeover \in [of : 0..n, over : BOOLEAN]
        /\ takeover.of # None => job[takeover.of].aborted
        /\ JobsAreIssued /\ ActiveHolds /\ PendingHolds /\ TurnsHold
    BY DEF IInv, TypeOK, AbortOperator
  <1>3. /\ auth' = e /\ pending' = None /\ active' = active /\ takeover' = takeover
        /\ job' = Abort(js, active)
    BY DEF AbortOperator
  <1> HIDE DEF n
  <1>4. /\ js \in [Epochs -> Job]
        /\ \A d \in Epochs : /\ d = pending => js[d].pc = "done"
                             /\ d # pending => js[d].pc = job[d].pc
                             /\ js[d].aborted <=> job[d].aborted
    <2>1. CASE pending = None
      BY <1>2, <2>1
    <2>2. CASE pending # None
      BY SMTT(30), <1>1, <1>2, <2>2, SupersededChanges
    <2> QED BY <2>1, <2>2
  <1> HIDE DEF js
  <1>5. /\ job' \in [Epochs -> Job]
        /\ \A d \in Epochs : /\ job'[d].pc = js[d].pc
                             /\ job'[d].aborted <=> (js[d].aborted \/ d = active)
    <2>1. active \in Epochs \cup {None}
      BY <1>1, <1>2
    <2> QED BY <1>3, <1>4, <2>1, AbortChanges
  <1>6. TypeOK'
    BY <1>1, <1>2, <1>3, <1>5 DEF TypeOK
  <1>7. active # None => active \in Epochs /\ active # pending
                         /\ job[active].pc \in {"running", "settled"}
    BY <1>1, <1>2 DEF ActiveHolds, PendingHolds
  <1>8. JobsAreIssued'
    <2> SUFFICES ASSUME NEW d \in Epochs
                 PROVE  /\ job'[d].pc # "unused" => d <= e /\ issued'[d] # 0
                        /\ job'[d].pc = "unused" => ~job'[d].aborted
                        /\ job'[d].pc # "pending"
      BY <1>1 DEF JobsAreIssued
    <2>1. d = pending => job[d].pc = "pending"
      BY <1>2 DEF PendingHolds
    <2>2. d = active => job[d].pc # "unused"
      BY <1>7
    <2>3. job'[d].pc # "unused" => job[d].pc # "unused"
      BY <1>4, <1>5, <2>1
    <2>4. job'[d].pc = "unused" => job[d].pc = "unused" /\ ~job'[d].aborted
      BY <1>2, <1>4, <1>5, <2>2 DEF JobsAreIssued
    <2>5. job'[d].pc # "pending"
      BY <1>2, <1>4, <1>5 DEF JobsAreIssued
    <2>6. job[d].pc # "unused" => d <= n /\ issued[d] # 0
      BY <1>1, <1>2 DEF JobsAreIssued
    <2> QED BY <1>1, <2>3, <2>4, <2>5, <2>6
  <1>9. ActiveHolds'
    <2>1. \A d \in Epochs : (Running(d) /\ ~job[d].aborted)' => active' = d
      BY <1>2, <1>3, <1>4, <1>5 DEF ActiveHolds, Running
    <2>2. active # None => job'[active].pc \in {"running", "settled"} /\ job'[active].aborted
      BY <1>4, <1>5, <1>7
    <2> QED BY <1>3, <2>1, <2>2 DEF ActiveHolds
  <1>10. takeover'.of # None => job'[takeover'.of].aborted
    <2> SUFFICES ASSUME takeover.of # None
                 PROVE  job'[takeover.of].aborted
      BY <1>3
    <2>1. takeover.of \in Epochs
      BY <1>1, <1>2
    <2>2. job[takeover.of].aborted
      BY <1>2
    <2>3. js[takeover.of].aborted
      BY <1>4, <2>1, <2>2
    <2> QED BY <1>5, <2>1, <2>3
  <1>11. TurnsHold'
    <2>1. \A d \in Epochs : Running(d)' => Running(d)
      BY <1>4, <1>5 DEF Running
    <2> QED BY <1>1, <1>2, <1>3, <2>1, TurnsKept
  <1> QED BY <1>1, <1>2, <1>3, <1>6, <1>8, <1>9, <1>10, <1>11 DEF IInv, PendingHolds

\* A check keeps the invariant: it changes only what the command may do.
LEMMA CheckInvariant == ASSUME IInv, NEW e \in Epochs, Check(e) PROVE IInv'
  <1>1. job \in [Epochs -> Job] /\ takeover.of \in Epochs \cup {None}
    BY LenProperties DEF IInv, TypeOK
  <1>2. /\ job' \in [Epochs -> Job] /\ UNCHANGED <<issued, auth, active, pending, takeover>>
        /\ \A d \in Epochs : job'[d].pc = job[d].pc /\ job'[d].aborted = job[d].aborted
    BY <1>1 DEF Check, Job, Unrevoked, IsCurrent
  <1>3. TypeOK' /\ active \in Epochs \cup {None} /\ pending \in Epochs \cup {None}
    BY <1>2, LenProperties DEF IInv, TypeOK
  <1>4. JobsAreIssued' /\ ActiveHolds' /\ PendingHolds' /\ TurnsHold'
    BY <1>2, <1>3
       DEF IInv, JobsAreIssued, ActiveHolds, PendingHolds, TurnsHold, Running, Newest
  <1> QED BY <1>1, <1>2, <1>3, <1>4 DEF IInv

\* A step that changes the jobs only by what Settle and Finish of an overtaken command do.
LEMMA JobsStepInvariant ==
  ASSUME IInv, UNCHANGED <<issued, auth, active, pending, takeover>>,
         job' \in [Epochs -> Job], NEW e \in Epochs,
         job[e].pc \in {"running", "settled"},
         job'[e].pc \in {"settled", "done"}, active = e => job'[e].pc = "settled",
         job'[e].aborted <=> job[e].aborted,
         \A d \in Epochs \ {e} : job'[d] = job[d]
  PROVE  IInv'
  <1>1. TypeOK' /\ Len(issued) \in Nat /\ Len(issued) <= MaxEpoch
        /\ active \in 0..Len(issued) /\ pending \in 0..Len(issued)
        /\ takeover.of \in 0..Len(issued)
    BY LenProperties DEF IInv, TypeOK
  <1>2. JobsAreIssued'
    BY DEF IInv, JobsAreIssued
  <1>3. ActiveHolds'
    BY <1>1 DEF IInv, ActiveHolds, Running, Newest
  <1>4. PendingHolds'
    BY <1>1 DEF IInv, PendingHolds, Newest
  <1>5. (takeover.of # None => job[takeover.of].aborted)'
    BY <1>1 DEF IInv
  <1>6. TurnsHold'
    BY <1>1 DEF IInv, TurnsHold, Running
  <1> QED BY <1>1, <1>2, <1>3, <1>4, <1>5, <1>6 DEF IInv

\* A run that settles keeps the invariant.
LEMMA SettleInvariant ==
  ASSUME IInv, NEW e \in Epochs, NEW ok \in BOOLEAN, Settle(e, ok) PROVE IInv'
  <1>1. job \in [Epochs -> Job]
    BY DEF IInv, TypeOK
  <1> DEFINE o == IF ~Unrevoked(e) THEN "superseded"
                  ELSE IF ok THEN "completed" ELSE "rejected"
             j == [job[e] EXCEPT !.pc = "settled", !.cleared = FALSE, !.outcome = o]
  <1>2. /\ o \in {"completed", "superseded", "rejected"}
        /\ job' = [job EXCEPT ![e].pc = "settled", ![e].cleared = FALSE, ![e].outcome = o]
    BY DEF Settle
  <1>3. job' = [job EXCEPT ![e] = j]
    BY <1>2
  <1> HIDE DEF o
  <1>4. j \in Job /\ j.pc = "settled" /\ (j.aborted <=> job[e].aborted)
    BY <1>1, <1>2 DEF Job
  <1> HIDE DEF j
  <1>5. /\ job' \in [Epochs -> Job] /\ job'[e] = j
        /\ \A d \in Epochs \ {e} : job'[d] = job[d]
    BY <1>1, <1>3, <1>4
  <1> QED BY <1>4, <1>5, JobsStepInvariant DEF Settle

\* The lane goes on from a command that ended, or whose signal has fired.
LEMMA AdvanceInvariant ==
  ASSUME IInv, active # None, NEW js \in [Epochs -> Job],
         \A d \in Epochs : (js[d].aborted <=> job[d].aborted)
                           /\ (d # active => js[d].pc = job[d].pc),
         js[active].pc \in {"running", "settled", "done"},
         js[active].pc = "running" => job[active].aborted,
         Advance(js), UNCHANGED issued
  PROVE  /\ (TypeOK' <=> takeover' \in [of : 0..Len(issued), over : BOOLEAN])
         /\ JobsAreIssued' /\ ActiveHolds' /\ PendingHolds' /\ TurnsHold'
         /\ \A d \in Epochs : job'[d].aborted <=> job[d].aborted
  <1> DEFINE n == Len(issued)
  <1>1. /\ n \in Nat /\ n <= MaxEpoch /\ active \in 1..n /\ active \in Epochs
        /\ pending \in 0..n /\ auth \in 0..n
        /\ JobsAreIssued /\ ActiveHolds /\ PendingHolds /\ TurnsHold
    BY LenProperties DEF IInv, TypeOK
  <1>2. active' = pending /\ pending' = None /\ UNCHANGED issued
    BY DEF Advance
  <1>3. CASE pending = None
    <2>1. job' = js /\ auth' = auth
      BY <1>3 DEF Advance
    <2>2. TypeOK' <=> takeover' \in [of : 0..Len(issued), over : BOOLEAN]
      BY <1>1, <1>2, <1>3, <2>1 DEF IInv, TypeOK
    <2>3. JobsAreIssued'
      BY <1>1, <1>2, <1>3, <2>1 DEF JobsAreIssued, ActiveHolds
    <2>4. ActiveHolds'
      BY <1>1, <1>2, <1>3, <2>1 DEF ActiveHolds, Running
    <2> QED BY <1>1, <1>2, <1>3, <2>1, <2>2, <2>3, <2>4 DEF PendingHolds, TurnsHold
  <1>4. CASE pending # None
    <2>1. /\ job' = Start(js, pending) /\ auth' = pending /\ pending \in Epochs
          /\ active # pending
      BY <1>1, <1>4 DEF Advance, PendingHolds, ActiveHolds
    <2>2. /\ job' \in [Epochs -> Job]
          /\ \A d \in Epochs : /\ job'[d].pc = IF d = pending THEN "running" ELSE js[d].pc
                               /\ job'[d].aborted = js[d].aborted
      <3>1. /\ Start(js, pending) \in [Epochs -> Job]
            /\ \A d \in Epochs :
                 /\ Start(js, pending)[d].pc = IF d = pending THEN "running" ELSE js[d].pc
                 /\ Start(js, pending)[d].aborted = js[d].aborted
        BY <2>1, StartChanges
      <3> QED BY <2>1, <3>1
    <2>3. TypeOK' <=> takeover' \in [of : 0..Len(issued), over : BOOLEAN]
      BY <1>1, <1>2, <2>1, <2>2 DEF IInv, TypeOK
    <2>4. JobsAreIssued'
      <3> SUFFICES ASSUME NEW d \in Epochs
                   PROVE  /\ job'[d].pc # "unused" => d <= n /\ issued[d] # 0
                          /\ job'[d].pc = "unused" => ~job'[d].aborted
                          /\ job'[d].pc # "pending"
        BY <1>2 DEF JobsAreIssued
      <3>1. job[active].pc # "unused" /\ job[pending].pc = "pending"
        BY <1>1, <1>4 DEF ActiveHolds, PendingHolds
      <3>2. job'[d].pc # "unused" => job[d].pc # "unused"
        BY <2>2, <3>1
      <3>3. job'[d].pc = "unused" => job[d].pc = "unused"
        BY <1>1, <2>2
      <3>4. job'[d].pc # "pending"
        BY <1>1, <2>2 DEF JobsAreIssued
      <3> QED BY <1>1, <2>2, <3>2, <3>3, <3>4 DEF JobsAreIssued
    <2>5. \A d \in Epochs : (Running(d) /\ ~job[d].aborted)' => active' = d
      BY <1>1, <1>2, <2>1, <2>2 DEF ActiveHolds, Running
    <2>6. Newest(active)'
      BY <1>1, <1>2, <1>4 DEF PendingHolds, Newest
    <2>7. ActiveHolds'
      BY <1>2, <2>1, <2>2, <2>5, <2>6 DEF ActiveHolds
    <2>8. TurnsHold'
      <3>1. active <= pending
        BY <1>1, <1>4 DEF PendingHolds, TurnsHold
      <3>2. \A d \in Epochs : Running(d) => d <= active
        BY <1>1 DEF TurnsHold
      <3>3. ASSUME NEW d \in Epochs, Running(d)' PROVE d <= pending
        BY <1>1, <2>2, <3>1, <3>2, <3>3 DEF Running
      <3> QED BY <1>1, <1>2, <2>1, <3>3 DEF TurnsHold
    <2> QED BY <1>2, <2>2, <2>3, <2>4, <2>7, <2>8 DEF PendingHolds
  <1> QED BY <1>3, <1>4

\* The end of a command keeps the invariant, the end of an overtaken one too.
LEMMA FinishInvariant == ASSUME IInv, NEW e \in Epochs, Finish(e) PROVE IInv'
  <1> DEFINE js == [job EXCEPT ![e].pc = "done"]
  <1>1. job \in [Epochs -> Job]
    BY DEF IInv, TypeOK
  <1>2. /\ js \in [Epochs -> Job] /\ js[e].pc = "done"
        /\ js[e].aborted <=> job[e].aborted
        /\ \A d \in Epochs \ {e} : js[d] = job[d]
    BY <1>1 DEF Job
  <1>3. CASE active = e
    <2>1. Advance(js) /\ UNCHANGED <<issued, takeover>>
      BY <1>3 DEF Finish
    <2> HIDE DEF js
    <2>2. /\ (TypeOK' <=> takeover' \in [of : 0..Len(issued), over : BOOLEAN])
          /\ JobsAreIssued' /\ ActiveHolds' /\ PendingHolds' /\ TurnsHold'
          /\ \A d \in Epochs : job'[d].aborted <=> job[d].aborted
      BY <1>2, <1>3, <2>1, AdvanceInvariant
    <2>3. takeover \in [of : 0..Len(issued), over : BOOLEAN] /\ Len(issued) \in Nat
          /\ Len(issued) <= MaxEpoch /\ (takeover.of # None => job[takeover.of].aborted)
      BY LenProperties DEF IInv, TypeOK
    <2> QED BY <2>1, <2>2, <2>3 DEF IInv
  <1>4. CASE active # e
    <2>1. job' = js /\ UNCHANGED <<issued, auth, active, pending, takeover>>
      BY <1>4 DEF Finish
    <2>2. job[e].pc = "settled"
      BY DEF Finish
    <2> HIDE DEF js
    <2> QED BY <1>2, <1>4, <2>1, <2>2, JobsStepInvariant
  <1> QED BY <1>3, <1>4

\* Overtaking a command that ignores its signal keeps the invariant.
LEMMA TakeoverTimesOutInvariant == ASSUME IInv, TakeoverTimesOut PROVE IInv'
  <1>1. /\ takeover \in [of : 0..Len(issued), over : BOOLEAN] /\ Len(issued) \in Nat
        /\ Len(issued) <= MaxEpoch /\ job[takeover.of].aborted /\ takeover.of # None
        /\ job \in [Epochs -> Job] /\ takeover' = [takeover EXCEPT !.over = TRUE]
        /\ UNCHANGED issued
    BY LenProperties DEF IInv, TypeOK, TakeoverTimesOut
  <1>2. takeover' \in [of : 0..Len(issued), over : BOOLEAN] /\ takeover'.of = takeover.of
    BY <1>1
  <1>3. CASE active = takeover.of
    <2>1. Advance(job) /\ job[active].pc \in {"running", "settled"}
      BY <1>1, <1>3 DEF TakeoverTimesOut, IInv, ActiveHolds
    <2>2. /\ (TypeOK' <=> takeover' \in [of : 0..Len(issued), over : BOOLEAN])
          /\ JobsAreIssued' /\ ActiveHolds' /\ PendingHolds' /\ TurnsHold'
          /\ \A d \in Epochs : job'[d].aborted <=> job[d].aborted
      BY <1>1, <1>3, <2>1, AdvanceInvariant
    <2> QED BY <1>1, <1>2, <2>2 DEF IInv
  <1>4. CASE active # takeover.of
    <2>1. UNCHANGED <<auth, active, pending, job>>
      BY <1>4 DEF TakeoverTimesOut
    <2> QED
      BY <1>1, <1>2, <2>1
         DEF IInv, TypeOK, JobsAreIssued, ActiveHolds, PendingHolds, TurnsHold, Running,
             Newest
  <1> QED BY <1>3, <1>4

\* The steps that only turn a page of the takeover.
LEMMA TakeoverStepInvariant ==
  ASSUME IInv, TakeoverWon \/ TakeoverCleared PROVE IInv'
  <1>1. /\ takeover \in [of : 0..Len(issued), over : BOOLEAN] /\ active \in 0..Len(issued)
        /\ (takeover.of # None => job[takeover.of].aborted)
        /\ UNCHANGED <<issued, auth, active, pending, job>>
    BY DEF IInv, TypeOK, TakeoverWon, TakeoverCleared
  <1>2. /\ takeover' \in [of : 0..Len(issued), over : BOOLEAN]
        /\ takeover'.of # None => job[takeover'.of].aborted
    <2>1. CASE TakeoverWon
      BY <1>1, <2>1 DEF TakeoverWon
    <2>2. CASE TakeoverCleared
      BY <1>1, <2>2, LenProperties DEF TakeoverCleared, IInv, TypeOK
    <2> QED BY <2>1, <2>2
  <1> QED
    BY <1>1, <1>2
       DEF IInv, TypeOK, JobsAreIssued, ActiveHolds, PendingHolds, TurnsHold, Running,
           Newest

\* Every step keeps the invariant.
LEMMA NextInvariant == IInv /\ [Next]_vars => IInv'
  <1> SUFFICES ASSUME IInv, [Next]_vars PROVE IInv'
    OBVIOUS
  <1>1. ASSUME NEW p \in Priorities, Submit(p) PROVE IInv'
    BY <1>1, SubmitInvariant
  <1>2. CASE AbortOperator
    BY <1>2, AbortInvariant
  <1>3. ASSUME NEW e \in Epochs, Check(e) PROVE IInv'
    BY <1>3, CheckInvariant
  <1>4. ASSUME NEW e \in Epochs, NEW ok \in BOOLEAN, Settle(e, ok) PROVE IInv'
    BY <1>4, SettleInvariant
  <1>5. ASSUME NEW e \in Epochs, Finish(e) PROVE IInv'
    BY <1>5, FinishInvariant
  <1>6. CASE TakeoverTimesOut
    BY <1>6, TakeoverTimesOutInvariant
  <1>7. CASE TakeoverWon \/ TakeoverCleared
    BY <1>7, TakeoverStepInvariant
  <1>8. CASE UNCHANGED vars
    BY <1>8
       DEF vars, IInv, TypeOK, JobsAreIssued, ActiveHolds, PendingHolds, TurnsHold,
           Running, Newest
  <1> QED BY <1>1, <1>2, <1>3, <1>4, <1>5, <1>6, <1>7, <1>8 DEF Next

\* The invariant of the lane: what runs unrevoked is the active command, it holds the
\* token, and nothing asked for later outranks it; the same for what waits.
THEOREM LaneInvariant == Spec => []IInv
  BY InitInvariant, NextInvariant, PTL DEF Spec

\* Of the commands that run, side by side after a takeover, one at most is unrevoked.
THEOREM OneCommandActs == Spec => []OneUnrevoked
  <1>1. IInv => OneUnrevoked
    BY DEF IInv, ActiveHolds, OneUnrevoked, Running
  <1> QED BY <1>1, LaneInvariant, PTL

\* A running command whose signal has not fired holds the token of its lane.
THEOREM SignalAndToken == Spec => []SignalFollowsToken
  <1>1. IInv => SignalFollowsToken
    BY DEF IInv, TypeOK, ActiveHolds, SignalFollowsToken, IsCurrent, Running
  <1> QED BY <1>1, LaneInvariant, PTL

\* What a step lets pass a check or complete is unrevoked and running.
LEMMA PasserIsUnrevoked ==
  ASSUME IInv, [Next]_vars, NEW e \in Epochs,
         \/ job'[e].cleared /\ ~job[e].cleared
         \/ job'[e].outcome = "completed" /\ job[e].outcome # "completed"
  PROVE  Running(e) /\ Unrevoked(e)
  <1> DEFINE Kept(js, d) == /\ js[d].outcome \in {job[d].outcome, "superseded"}
                            /\ js[d].cleared = job[d].cleared
  <1> job \in [Epochs -> Job] /\ active \in Epochs \cup {None} /\ pending \in Epochs \cup {None}
    BY LenProperties DEF IInv, TypeOK
  <1>1. ASSUME NEW d \in Epochs, Check(d) PROVE Running(e) /\ Unrevoked(e)
    BY <1>1 DEF Check, Running, Job
  <1>2. ASSUME NEW d \in Epochs, NEW ok \in BOOLEAN, Settle(d, ok)
        PROVE  Running(e) /\ Unrevoked(e)
    BY <1>2 DEF Settle, Running, Job
  <1>3. ASSUME NEW js \in [Epochs -> Job],
               \A d \in Epochs : js[d].outcome = job[d].outcome /\ js[d].cleared = job[d].cleared,
               Advance(js)
        PROVE  FALSE
    BY <1>3, StartChanges DEF Advance
  <1>4. ASSUME NEW d \in Epochs, Finish(d) PROVE FALSE
    <2>1. /\ [job EXCEPT ![d].pc = "done"] \in [Epochs -> Job]
          /\ \A c \in Epochs :
               /\ [job EXCEPT ![d].pc = "done"][c].outcome = job[c].outcome
               /\ [job EXCEPT ![d].pc = "done"][c].cleared = job[c].cleared
      BY DEF Job
    <2> QED BY <1>3, <1>4, <2>1 DEF Finish
  <1>5. CASE TakeoverTimesOut
    BY <1>3, <1>5 DEF TakeoverTimesOut
  <1>6. CASE TakeoverWon \/ TakeoverCleared \/ UNCHANGED vars
    BY <1>6 DEF TakeoverWon, TakeoverCleared, vars
  <1>7. ASSUME NEW js \in [Epochs -> Job],
               \A d \in Epochs : Kept(js, d),
               job' = js \/ job' = Abort(js, active)
        PROVE  FALSE
    BY <1>7, AbortChanges
  <1>8. CASE AbortOperator
    <2> DEFINE js == IF pending = None THEN job ELSE Superseded(job, pending)
    <2>1. js \in [Epochs -> Job] /\ \A d \in Epochs : Kept(js, d)
      BY SupersededChanges
    <2> QED BY <1>7, <1>8, <2>1 DEF AbortOperator
  <1>9. ASSUME NEW p \in Priorities, Submit(p) PROVE FALSE
    <2> DEFINE f == Len(issued) + 1
    <2>1. f \in Epochs
      BY <1>9, LenProperties DEF Submit, IInv, TypeOK
    <2>2. CASE active = None
      BY <1>7, <1>9, <2>1, <2>2, StartChanges DEF Submit
    <2>3. CASE active # None /\ Replaces(f)
      <3> DEFINE js == IF pending = None THEN job ELSE Superseded(job, pending)
                 ks == [js EXCEPT ![f].pc = "pending"]
      <3>1. js \in [Epochs -> Job] /\ \A d \in Epochs : Kept(js, d)
        <4>1. CASE pending = None
          BY <4>1
        <4>2. CASE pending # None
          <5>1. js = Superseded(job, pending) /\ pending \in Epochs
            BY <4>2
          <5> HIDE DEF js
          <5> QED BY <5>1, SupersededChanges
        <4> QED BY <4>1, <4>2
      <3>2. ks \in [Epochs -> Job] /\ \A d \in Epochs : Kept(ks, d)
        BY <2>1, <3>1 DEF Job
      <3>3. job' = ks \/ job' = Abort(ks, active)
        BY <1>9, <2>3 DEF Submit, Wait
      <3> HIDE DEF ks
      <3> QED BY <1>7, <2>1, <3>2, <3>3
    <2>4. CASE active # None /\ ~Replaces(f)
      BY <1>7, <1>9, <2>1, <2>4, SupersededChanges DEF Submit
    <2> QED BY <2>2, <2>3, <2>4
  <1> QED BY <1>1, <1>2, <1>4, <1>5, <1>6, <1>8, <1>9 DEF Next

\* A command passes a check, or completes, only while nothing asked for after it
\* outranks it.
THEOREM NewestPasses == Spec => OnlyNewestPasses
  <1>1. IInv /\ [Next]_vars =>
          [\A e \in Epochs :
             (\/ job'[e].cleared /\ ~job[e].cleared
              \/ job'[e].outcome = "completed" /\ job[e].outcome # "completed")
               => Newest(e)]_vars
    <2> SUFFICES ASSUME IInv, [Next]_vars, NEW e \in Epochs,
                        \/ job'[e].cleared /\ ~job[e].cleared
                        \/ job'[e].outcome = "completed" /\ job[e].outcome # "completed"
                 PROVE  Newest(e)
      OBVIOUS
    <2> QED BY PasserIsUnrevoked DEF IInv, ActiveHolds, Running, Unrevoked
  <1> QED BY <1>1, LaneInvariant, PTL DEF Spec, OnlyNewestPasses

\* What may act beside the command that has the lane is older and has been revoked.
THEOREM ActsInTurnHolds == Spec => []ActsInTurn
  <1>1. IInv => ActsInTurn
    <2> SUFFICES ASSUME IInv, NEW e \in Epochs, Running(e), e # active
                 PROVE  job[e].aborted /\ (active = None \/ e < active)
      BY DEF ActsInTurn, MayAct
    <2>1. job[e].aborted
      BY DEF IInv, ActiveHolds
    <2>2. active \in Nat /\ (active # None => e <= active)
      BY LenProperties DEF IInv, TypeOK, TurnsHold
    <2> QED BY <2>1, <2>2
  <1> QED BY <1>1, LaneInvariant, PTL
=============================================================================
