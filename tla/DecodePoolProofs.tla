--------------------------- MODULE DecodePoolProofs ---------------------------
(***************************************************************************)
(* PoolInv of DecodePool is inductive, for any number of workers, jobs and  *)
(* faults and any threshold.  The handlers compose helpers that leave a     *)
(* pool, or a set of pools, to the next; so the lemmas are about a pool p   *)
(* in the middle of a handler, what a helper makes of it, and its           *)
(* processes ps.                                                            *)
(***************************************************************************)
EXTENDS DecodePool, FiniteSetTheorems, TLAPS

-----------------------------------------------------------------------------
(* The conjuncts of PoolInv for a pool in the middle of a handler, which may *)
(* still have to deal with the workers of X.                                 *)

OwnIn(p) == \A j \in Jobs : p.answer[j] \in {NoJob, Refused, j}

SerialIn(p, X) == \A w \in p.members \ (p.killed \cup p.stopping \cup X) :
  Len(p.sent[w]) <= 1 /\ Range(p.sent[w]) \ {NoJob} \subseteq {p.job[w]}

TimedIn(p, X) ==
  ~p.destroyed => p.members \subseteq p.ready \cup p.starting \cup p.recorded \cup X

Core(p, ps, X) ==
  /\ p \in PoolType /\ ps \in [Ids -> Process]
  /\ OwnIn(p) /\ JobsHold(p) /\ WorkersHold(p) /\ SparesHold(p, ps) /\ ProcessesHold(p, ps)
  /\ SerialIn(p, X) /\ TimedIn(p, X)

\* Nothing waits beside a free worker.
Waiting(p, X) == p.pending # <<>> => Free(p) \subseteq p.killed \cup X

\* No place without a worker is forgotten.
Full(p) == ~p.destroyed => p.respawn \/ Cardinality(p.members) >= p.desired

\* The status is true.
TrueIn(p) == ~p.destroyed => p.status = Resolve(p)

-----------------------------------------------------------------------------
(* Sets of workers, and sequences                                          *)

\* There are finitely many workers.
LEMMA Counted ==
  ASSUME NEW S \in SUBSET Ids
  PROVE  IsFiniteSet(S) /\ Cardinality(S) \in Nat
  <1>1. 1 \in Int /\ Desired + MaxFaults \in Int
    BY PoolAssumption
  <1>2. IsFiniteSet(Ids)
    BY <1>1, FS_Interval DEF Ids
  <1>3. IsFiniteSet(S)
    BY <1>2, FS_Subset
  <1> QED BY <1>3, FS_CardinalityType

\* What a command adds to what a worker was told.
LEMMA RangeAppend ==
  ASSUME NEW S, NEW s \in Seq(S), NEW x \in S
  PROVE  /\ Append(s, x) \in Seq(S) /\ Append(s, x) # <<>>
         /\ Range(Append(s, x)) = Range(s) \cup {x} /\ Len(Append(s, x)) = Len(s) + 1
  <1>1. /\ Append(s, x) \in Seq(S) /\ Len(Append(s, x)) = Len(s) + 1
        /\ DOMAIN Append(s, x) = 1..(Len(s) + 1) /\ DOMAIN s = 1..Len(s)
        /\ \A i \in 1..Len(s) : Append(s, x)[i] = s[i]
        /\ Append(s, x)[Len(s) + 1] = x
    OBVIOUS
  <1>2. Len(s) \in Nat
    OBVIOUS
  <1>3. 1..(Len(s) + 1) = 1..Len(s) \cup {Len(s) + 1}
    BY <1>2
  <1>4. Append(s, x) # <<>>
    BY <1>1, <1>2
  <1> QED BY <1>1, <1>3, <1>4 DEF Range

\* What is left when a worker has finished a command.
LEMMA RangeTail ==
  ASSUME NEW S, NEW s \in Seq(S), s # <<>>
  PROVE  /\ Tail(s) \in Seq(S) /\ Head(s) \in Range(s) /\ Range(s) \subseteq S
         /\ Range(Tail(s)) \subseteq Range(s) /\ Len(Tail(s)) = Len(s) - 1
         /\ Range(s) \subseteq Range(Tail(s)) \cup {Head(s)}
  <1>1. Len(s) \in Nat \ {0} /\ DOMAIN s = 1..Len(s)
    OBVIOUS
  <1>2. /\ Tail(s) \in Seq(S) /\ Len(Tail(s)) = Len(s) - 1 /\ Head(s) = s[1]
        /\ DOMAIN Tail(s) = 1..(Len(s) - 1)
        /\ \A i \in 1..(Len(s) - 1) : Tail(s)[i] = s[i + 1]
    OBVIOUS
  <1>3. Range(s) \subseteq S
    BY DEF Range
  <1>4. Head(s) \in Range(s)
    BY <1>1, <1>2 DEF Range
  <1>5. Range(Tail(s)) \subseteq Range(s)
    <2>1. \A i \in 1..(Len(s) - 1) : i + 1 \in 1..Len(s)
      BY <1>1
    <2> QED BY <1>1, <1>2, <2>1 DEF Range
  <1>6. Range(s) \subseteq Range(Tail(s)) \cup {Head(s)}
    <2>1. \A i \in 1..Len(s) : i = 1 \/ (i - 1 \in 1..(Len(s) - 1) /\ (i - 1) + 1 = i)
      BY <1>1
    <2>2. ASSUME NEW i \in 1..Len(s) PROVE s[i] \in Range(Tail(s)) \cup {Head(s)}
      <3>1. CASE i = 1
        BY <1>2, <3>1
      <3>2. CASE i - 1 \in 1..(Len(s) - 1)
        <4>1. Tail(s)[i - 1] = s[i]
          BY <1>2, <2>1, <3>2
        <4> QED BY <1>2, <3>2, <4>1 DEF Range
      <3> QED BY <2>1, <3>1, <3>2
    <2> QED BY <1>1, <2>2 DEF Range
  <1> QED BY <1>2, <1>3, <1>4, <1>5, <1>6

\* A worker that was told nothing was told no job and no shutdown.
LEMMA RangeEmpty ==
  ASSUME NEW S, NEW s \in Seq(S), Range(s) = {}
  PROVE  s = <<>>
  <1>1. ASSUME s # <<>> PROVE FALSE
    <2>1. Len(s) \in Nat \ {0} /\ DOMAIN s = 1..Len(s)
      BY <1>1
    <2>2. s[1] \in Range(s)
      BY <2>1 DEF Range
    <2> QED BY <2>2
  <1> QED BY <1>1

-----------------------------------------------------------------------------
(* Small changes                                                           *)

\* What the invariant says of a pool does not depend on its failures, and a
\* due respawn or one more recorded failure does it no harm.
LEMMA Quiet ==
  ASSUME NEW p, NEW ps, NEW X, Core(p, ps, X), NEW q \in PoolType,
         q.pending = p.pending, q.members = p.members, q.ready = p.ready,
         q.starting = p.starting, q.stopping = p.stopping, q.killed = p.killed,
         q.quitting = p.quitting, q.unborn = p.unborn, q.job = p.job, q.sent = p.sent,
         q.spawned = p.spawned, q.desired \in {p.desired, 1}, q.destroyed = p.destroyed,
         q.asked = p.asked, q.answer = p.answer, q.faults = p.faults,
         p.recorded \subseteq q.recorded, q.recorded \subseteq 1..q.spawned,
         q.destroyed => ~q.respawn,
         q.status = "unavailable" => q.pending = <<>>
  PROVE  Core(q, ps, X) /\ (Waiting(p, X) => Waiting(q, X))
  <1>0. p \in PoolType BY DEF Core
  <1>1. OwnIn(q) BY DEF Core, OwnIn
  <1>2. JobsHold(q) BY DEF Core, JobsHold
  <1>3. WorkersHold(q) BY DEF Core, WorkersHold
  <1>4. SparesHold(q, ps)
    <2>1. Faulty(q, ps) = Faulty(p, ps) BY DEF Faulty
    <2>2. Cardinality(Faulty(p, ps)) \in Nat /\ Cardinality(p.members) \in Nat
      <3>1. Faulty(p, ps) \subseteq Ids /\ p.members \subseteq Ids
        BY <1>0 DEF Faulty, PoolType
      <3> QED BY <3>1, Counted
    <2>3. p.desired \in Nat /\ q.desired \in Nat /\ p.spawned \in Nat /\ p.faults \in Nat
      BY <1>0, PoolAssumption DEF PoolType
    <2>4. q.desired <= p.desired
      BY <1>0, PoolAssumption DEF PoolType
    <2>5. SparesHold(p, ps)
      BY DEF Core
    <2> QED BY <2>1, <2>2, <2>3, <2>4, <2>5, PoolAssumption DEF SparesHold
  <1>5. ProcessesHold(q, ps) BY DEF Core, ProcessesHold
  <1>6. SerialIn(q, X) BY DEF Core, SerialIn
  <1>7. TimedIn(q, X) BY DEF Core, TimedIn
  <1>8. Waiting(p, X) => Waiting(q, X) BY DEF Waiting, Free, Idle
  <1> QED BY <1>1, <1>2, <1>3, <1>4, <1>5, <1>6, <1>7, <1>8 DEF Core

-----------------------------------------------------------------------------
(* What the helpers change                                                 *)

SameWorkers(p, q) ==
  /\ q.members = p.members /\ q.ready = p.ready /\ q.starting = p.starting
  /\ q.stopping = p.stopping /\ q.recorded = p.recorded /\ q.killed = p.killed
  /\ q.quitting = p.quitting /\ q.unborn = p.unborn /\ q.spawned = p.spawned

SameFlags(p, q) ==
  /\ q.desired = p.desired /\ q.streak = p.streak /\ q.failed = p.failed
  /\ q.status = p.status /\ q.respawn = p.respawn /\ q.destroyed = p.destroyed
  /\ q.over = p.over /\ q.faults = p.faults /\ q.asked = p.asked

SameJobs(p, q) ==
  q.pending = p.pending /\ q.job = p.job /\ q.sent = p.sent /\ q.answer = p.answer

Answers(p, q, S, value) == \A j \in Jobs :
  q.answer[j] = IF j \in S /\ p.answer[j] = NoJob THEN value ELSE p.answer[j]

\* An answer is all that changes.
LEMMA AnswerFields ==
  ASSUME NEW p \in PoolType, NEW S, NEW value \in Jobs \cup {NoJob, Refused}
  PROVE  LET q == Answer(p, S, value)
         IN  /\ q \in PoolType /\ SameWorkers(p, q) /\ SameFlags(p, q)
             /\ q.pending = p.pending /\ q.job = p.job /\ q.sent = p.sent
             /\ Answers(p, q, S, value)
  BY DEF Answer, PoolType, SameWorkers, SameFlags, Answers

\* A refusal of what waits empties the queue and answers it.
LEMMA RefuseFields ==
  ASSUME NEW p \in PoolType
  PROVE  LET q == RefusePending(p)
         IN  /\ q \in PoolType /\ SameWorkers(p, q) /\ SameFlags(p, q)
             /\ q.pending = <<>> /\ q.job = p.job /\ q.sent = p.sent
             /\ Answers(p, q, Range(p.pending), Refused)
  <1> DEFINE a == Answer(p, Range(p.pending), Refused)
  <1>1. /\ a \in PoolType /\ SameWorkers(p, a) /\ SameFlags(p, a)
        /\ a.pending = p.pending /\ a.job = p.job /\ a.sent = p.sent
        /\ Answers(p, a, Range(p.pending), Refused)
    BY AnswerFields, Zenon
  <1>2. RefusePending(p) = [a EXCEPT !.pending = <<>>]
    BY DEF RefusePending
  <1> HIDE DEF a
  <1>3. <<>> \in Seq(Jobs)
    OBVIOUS
  <1> DEFINE q == RefusePending(p)
  <1>4. a \in PoolType
    BY <1>1
  <1>5. /\ q \in PoolType /\ SameWorkers(a, q) /\ SameFlags(a, q)
        /\ q.pending = <<>> /\ q.job = a.job /\ q.sent = a.sent
        /\ q.answer = a.answer
    BY <1>2, <1>3, <1>4 DEF PoolType, SameWorkers, SameFlags
  <1> HIDE DEF q
  <1>6. /\ q \in PoolType /\ SameWorkers(p, q) /\ SameFlags(p, q)
        /\ q.pending = <<>> /\ q.job = p.job /\ q.sent = p.sent
        /\ Answers(p, q, Range(p.pending), Refused)
    BY <1>1, <1>5 DEF SameWorkers, SameFlags, Answers
  <1> QED BY <1>6 DEF q
-----------------------------------------------------------------------------
(* The status                                                              *)

\* A refusal of what waits leaves no job without an answer.
LEMMA RefuseCore ==
  ASSUME NEW p, NEW ps, NEW X, Core(p, ps, X)
  PROVE  Core(RefusePending(p), ps, X) /\ Waiting(RefusePending(p), X)
  <1> DEFINE q == RefusePending(p)
  <1>0. p \in PoolType BY DEF Core
  <1>1. /\ q \in PoolType /\ SameWorkers(p, q) /\ SameFlags(p, q)
        /\ q.pending = <<>> /\ q.job = p.job /\ q.sent = p.sent
        /\ Answers(p, q, Range(p.pending), Refused)
    BY <1>0, RefuseFields
  <1> HIDE DEF q
  <1>2. OwnIn(q) BY <1>1 DEF Core, OwnIn, Answers
  <1>3. JobsHold(q)
    <2>1. \A j \in Range(p.pending) :
            j \in Jobs /\ j <= p.asked /\ p.answer[j] = NoJob /\ \A w \in Ids : p.job[w] # j
      BY <1>0 DEF Core, JobsHold, Range, PoolType
    <2>2. IsInjective(q.pending) /\ DOMAIN q.pending = {} /\ Range(q.pending) = {}
      BY <1>1 DEF IsInjective, Range
    <2>3. \A w \in Ids : q.job[w] # NoJob =>
            /\ q.job[w] <= q.asked /\ q.answer[q.job[w]] = NoJob
            /\ w \in q.members \cap q.ready
            /\ \A v \in Ids : q.job[v] = q.job[w] => v = w
      <3> SUFFICES ASSUME NEW w \in Ids, q.job[w] # NoJob
                   PROVE  /\ q.job[w] <= q.asked /\ q.answer[q.job[w]] = NoJob
                          /\ w \in q.members \cap q.ready
                          /\ \A v \in Ids : q.job[v] = q.job[w] => v = w
        OBVIOUS
      <3>1. p.job[w] \in Jobs
        BY <1>0, <1>1 DEF PoolType
      <3>2. p.job[w] \notin Range(p.pending)
        BY <2>1
      <3> QED BY <1>1, <3>1, <3>2 DEF Core, JobsHold, SameWorkers, SameFlags, Answers
    <2>4. \A j \in Jobs : q.answer[j] = NoJob =>
            j \in Range(q.pending) \cup Range(q.job) \/ j > q.asked
      BY <1>1, PoolAssumption DEF Core, JobsHold, SameFlags, Answers
    <2>5. \A j \in Jobs : j > q.asked => q.answer[j] = NoJob
      <3> SUFFICES ASSUME NEW j \in Jobs, j > q.asked PROVE q.answer[j] = NoJob
        OBVIOUS
      <3>1. j \notin Range(p.pending)
        BY <1>0, <1>1, <2>1 DEF Jobs, PoolType, SameFlags
      <3> QED BY <1>1, <3>1 DEF Core, JobsHold, SameFlags, Answers
    <2>6. \A w \in Ids : \A j \in Range(q.sent[w]) \ {NoJob} :
            q.job[w] = j \/ q.answer[j] # NoJob
      <3> SUFFICES ASSUME NEW w \in Ids, NEW j \in Range(p.sent[w]) \ {NoJob}
                   PROVE  p.job[w] = j \/ q.answer[j] # NoJob
        BY <1>1
      <3>1. j \in Jobs
        BY <1>0 DEF PoolType, Range
      <3> QED BY <1>1, <3>1, PoolAssumption DEF Core, JobsHold, Answers
    <2> QED BY <2>2, <2>3, <2>4, <2>5, <2>6 DEF JobsHold
  <1>4. WorkersHold(q) BY <1>1 DEF Core, WorkersHold, SameWorkers, SameFlags
  <1>5. SparesHold(q, ps) BY <1>1 DEF Core, SparesHold, Faulty, SameWorkers, SameFlags
  <1>6. ProcessesHold(q, ps) BY <1>1 DEF Core, ProcessesHold, SameWorkers
  <1>7. SerialIn(q, X) BY <1>1 DEF Core, SerialIn, SameWorkers
  <1>8. TimedIn(q, X) BY <1>1 DEF Core, TimedIn, SameWorkers, SameFlags
  <1>9. Waiting(q, X) BY <1>1 DEF Waiting
  <1> QED BY <1>1, <1>2, <1>3, <1>4, <1>5, <1>6, <1>7, <1>8, <1>9 DEF Core, q

\* What the lemmas below need to know of what a helper leaves alone.
Keeps(p, q) ==
  /\ q.destroyed = p.destroyed /\ q.killed = p.killed /\ q.unborn = p.unborn
  /\ q.ready = p.ready /\ q.members \subseteq p.members /\ p.recorded \subseteq q.recorded
  /\ q.quitting \subseteq p.quitting \cup p.members
  /\ \A w \in Ids \ p.members : q.sent[w] = p.sent[w]

\* A refresh makes the status true.
LEMMA RefreshCore ==
  ASSUME NEW p, NEW ps, NEW X, Core(p, ps, X)
  PROVE  LET q == Refresh(p)
         IN  /\ Core(q, ps, X) /\ TrueIn(q) /\ Keeps(p, q)
             /\ q.respawn = p.respawn /\ q.members = p.members /\ q.desired = p.desired
             /\ Waiting(p, X) => Waiting(q, X)
  <1> DEFINE q == Refresh(p)
             h == [p EXCEPT !.status = Resolve(p)]
             r == RefusePending(h)
  <1>0. p \in PoolType BY DEF Core
  <1>1. Resolve(p) \in Statuses
    BY DEF Resolve, Statuses
  <1>2. /\ h \in PoolType /\ SameWorkers(p, h) /\ SameJobs(p, h)
        /\ h.desired = p.desired /\ h.failed = p.failed /\ h.respawn = p.respawn
        /\ h.destroyed = p.destroyed /\ h.asked = p.asked /\ h.faults = p.faults
        /\ h.status = Resolve(p)
    BY <1>0, <1>1 DEF PoolType, SameWorkers, SameJobs
  <1>3. q = IF Resolve(p) = "unavailable" /\ p.status # Resolve(p) THEN r ELSE h
    BY DEF Refresh
  <1> HIDE DEF h, q
  <1>4. Resolve(h) = Resolve(p)
    BY <1>2 DEF Resolve, ReadyMembers, SameWorkers
  <1>5. CASE Resolve(p) # "unavailable" \/ p.status = Resolve(p)
    <2>1. q = h
      BY <1>3, <1>5
    <2>2. h.recorded = p.recorded /\ h.recorded \subseteq 1..h.spawned
      BY <1>2 DEF SameWorkers, Core, WorkersHold
    <2>3. h.destroyed => ~h.respawn
      BY <1>2 DEF Core, WorkersHold
    <2>4. h.status = "unavailable" => h.pending = <<>>
      BY <1>2, <1>5 DEF Core, WorkersHold, SameJobs
    <2>5. Core(h, ps, X) /\ (Waiting(p, X) => Waiting(h, X))
      BY <1>2, <2>2, <2>3, <2>4, Quiet DEF SameWorkers, SameJobs
    <2>6. TrueIn(h) /\ Keeps(p, h)
      BY <1>2, <1>4 DEF TrueIn, Keeps, SameWorkers, SameJobs
    <2>7. h.respawn = p.respawn /\ h.members = p.members /\ h.desired = p.desired
      BY <1>2 DEF SameWorkers
    <2> QED BY <2>1, <2>5, <2>6, <2>7 DEF q
  <1>6. CASE Resolve(p) = "unavailable" /\ p.status # Resolve(p)
    <2>1. q = r
      BY <1>3, <1>6
    <2>2. /\ r \in PoolType /\ SameWorkers(h, r) /\ SameFlags(h, r)
          /\ r.pending = <<>> /\ r.job = h.job /\ r.sent = h.sent
          /\ Answers(h, r, Range(h.pending), Refused)
      BY <1>2, RefuseFields
    <2> DEFINE u == RefusePending(p)
    <2>3. /\ u \in PoolType /\ SameWorkers(p, u) /\ SameFlags(p, u)
          /\ u.pending = <<>> /\ u.job = p.job /\ u.sent = p.sent
          /\ Answers(p, u, Range(p.pending), Refused)
      BY <1>0, RefuseFields
    <2>4. Core(u, ps, X) /\ Waiting(u, X)
      BY RefuseCore
    <2> HIDE DEF u, r
    <2>5. r.answer = u.answer
      <3>1. /\ r.answer \in [Jobs -> Jobs \cup {NoJob, Refused}]
            /\ u.answer \in [Jobs -> Jobs \cup {NoJob, Refused}]
        BY <2>2, <2>3 DEF PoolType
      <3>2. \A j \in Jobs : r.answer[j] = u.answer[j]
        BY <1>2, <2>2, <2>3 DEF Answers, SameJobs
      <3> QED BY <3>1, <3>2
    <2>6. /\ SameWorkers(u, r) /\ r.job = u.job /\ r.sent = u.sent /\ r.pending = u.pending
          /\ r.desired = u.desired /\ r.destroyed = u.destroyed /\ r.asked = u.asked
          /\ r.faults = u.faults /\ r.respawn = u.respawn
      BY <1>2, <2>2, <2>3 DEF SameWorkers, SameJobs, SameFlags
    <2>7. r.recorded \subseteq 1..r.spawned /\ (r.destroyed => ~r.respawn)
      BY <2>4, <2>6 DEF SameWorkers, Core, WorkersHold
    <2>8. Core(r, ps, X)
      BY <2>2, <2>4, <2>5, <2>6, <2>7, Quiet DEF SameWorkers
    <2>9. Waiting(r, X)
      BY <2>2 DEF Waiting
    <2>10. TrueIn(r)
      <3>1. Resolve(r) = Resolve(h)
        BY <2>2 DEF Resolve, ReadyMembers, SameWorkers, SameFlags
      <3> QED BY <1>2, <1>4, <2>2, <3>1 DEF TrueIn, SameFlags
    <2>11. Keeps(p, r)
      BY <2>3, <2>6 DEF Keeps, SameWorkers, SameFlags
    <2>12. r.respawn = p.respawn /\ r.members = p.members /\ r.desired = p.desired
      BY <2>3, <2>6 DEF SameWorkers, SameFlags
    <2> QED BY <2>1, <2>8, <2>9, <2>10, <2>11, <2>12 DEF q
  <1> QED BY <1>5, <1>6
-----------------------------------------------------------------------------
(* Counting workers                                                        *)

\* A smaller set has fewer elements.
LEMMA ChainCounts ==
  ASSUME NEW F, IsFiniteSet(F), NEW A \in SUBSET F, NEW B \in SUBSET F, A \subseteq B, A # B
  PROVE  Cardinality(A) < Cardinality(B)
  <1>1. IsFiniteSet(B)
    BY FS_Subset
  <1>2. /\ IsFiniteSet(A) /\ Cardinality(A) <= Cardinality(B)
        /\ Cardinality(B) = Cardinality(A) => B = A
    BY <1>1, FS_Subset
  <1>3. Cardinality(A) \in Nat /\ Cardinality(B) \in Nat
    BY <1>1, <1>2, FS_CardinalityType
  <1> QED BY <1>2, <1>3

\* Where the ranks of a finite set are different and at most its size, the
\* elements of rank n at most are one of each rank, up to n or the last.
LEMMA LowRanks ==
  ASSUME NEW F, IsFiniteSet(F), NEW n \in Nat,
         NEW r \in [F -> 1..Cardinality(F)], IsInjective(r)
  PROVE  LET W == {w \in F : r[w] <= n}
         IN  /\ IsFiniteSet(W) /\ Cardinality(W) \in 0..n
             /\ \A w \in W : r[w] \in 1..Cardinality(W)
             /\ \A i \in 1..Cardinality(W) : \E w \in W : r[w] = i
             /\ Cardinality(W) < n => W = F
  <1> DEFINE size == Cardinality(F)
             W == {w \in F : r[w] <= n}
  <1>1. size \in Nat
    BY FS_CardinalityType
  <1> HIDE DEF size
  <1>2. r \in Injection(F, 1..size)
    BY DEF Injection, size
  <1>3. IsFiniteSet(1..size) /\ Cardinality(1..size) = size
    BY <1>1, FS_Interval
  <1>4. r \in Surjection(F, 1..size)
    BY <1>2, <1>3, FS_Injection DEF size
  <1>5. r \in [F -> 1..size] /\ \A i \in 1..size : \E w \in F : r[w] = i
    BY <1>4 DEF Surjection
  <1>6. IsFiniteSet(W)
    BY FS_Subset
  <1>7. CASE size <= n
    <2>1. W = F
      BY <1>1, <1>5, <1>7
    <2> HIDE DEF W
    <2>2. Cardinality(W) = size
      BY <2>1 DEF size
    <2>3. \A w \in W : r[w] \in 1..Cardinality(W)
      BY <1>5, <2>1, <2>2
    <2>4. \A i \in 1..Cardinality(W) : \E w \in W : r[w] = i
      BY <1>5, <2>1, <2>2
    <2>5. Cardinality(W) \in 0..n /\ (Cardinality(W) < n => W = F)
      BY <1>1, <1>7, <2>1, <2>2
    <2> QED BY <1>6, <2>3, <2>4, <2>5 DEF W
  <1>8. CASE n < size
    <2> DEFINE g == [w \in W |-> r[w]]
    <2>1. g \in [W -> 1..n]
      BY <1>1, <1>5
    <2>2. \A i \in 1..n : \E w \in W : g[w] = i
      BY <1>1, <1>5, <1>8
    <2>3. IsInjective(g)
      BY DEF IsInjective
    <2> HIDE DEF g
    <2>4. ExistsBijection(W, 1..n)
      BY <2>1, <2>2, <2>3 DEF ExistsBijection, Bijection, Injection, Surjection
    <2>5. Cardinality(1..n) = n
      <3>1. 1 \in Int /\ n \in Int
        OBVIOUS
      <3> QED BY <3>1, FS_Interval
    <2> HIDE DEF W
    <2>6. Cardinality(W) = n
      BY <1>6, <2>4, <2>5, FS_Bijection
    <2>7. \A i \in 1..n : \E w \in W : r[w] = i
      BY <2>2 DEF g
    <2>8. \A w \in W : r[w] \in 1..n
      BY <1>1, <1>5 DEF W
    <2> QED BY <1>6, <2>6, <2>7, <2>8 DEF W
  <1> QED BY <1>1, <1>7, <1>8

\* Workers are dispatched in order: the ranks of the first n are 1..n.
LEMMA FirstRanks ==
  ASSUME NEW F \in SUBSET Nat, IsFiniteSet(F)
  PROVE  LET r == [w \in F |-> Cardinality({v \in F : v <= w})]
         IN  r \in [F -> 1..Cardinality(F)] /\ IsInjective(r)
  <1> DEFINE upto == [w \in F |-> {v \in F : v <= w}]
             r == [w \in F |-> Cardinality({v \in F : v <= w})]
  <1>1. Cardinality(F) \in Nat
    BY FS_CardinalityType
  <1>2. \A w \in F : w \in Nat /\ w \in upto[w] /\ upto[w] \in SUBSET F
    OBVIOUS
  <1>3. ASSUME NEW v \in F, NEW w \in F, v < w
        PROVE  upto[v] \subseteq upto[w] /\ w \notin upto[v]
    <2>1. \A u \in F : u \in Nat
      OBVIOUS
    <2>2. upto[v] = {u \in F : u <= v} /\ upto[w] = {u \in F : u <= w}
      OBVIOUS
    <2> HIDE DEF upto
    <2>3. ASSUME NEW u \in F, u <= v PROVE u <= w /\ u # w
      BY <1>3, <2>1, <2>3
    <2> QED BY <2>2, <2>3
  <1>4. \A w \in F : r[w] = Cardinality(upto[w])
    OBVIOUS
  <1>5. DOMAIN r = F /\ r = [w \in F |-> r[w]]
    OBVIOUS
  <1> HIDE DEF upto, r
  <1>6. \A w \in F : r[w] \in 1..Cardinality(F)
    <2> TAKE w \in F
    <2>1. IsFiniteSet(upto[w]) /\ Cardinality(upto[w]) <= Cardinality(F)
      BY <1>2, FS_Subset
    <2>2. upto[w] # {}
      BY <1>2
    <2>3. Cardinality(upto[w]) \in Nat /\ Cardinality(upto[w]) # 0
      BY <2>1, <2>2, FS_CardinalityType, FS_EmptySet
    <2> QED BY <1>1, <1>4, <2>1, <2>3
  <1>7. ASSUME NEW v \in F, NEW w \in F, v < w PROVE r[v] < r[w]
    <2>1. upto[v] \in SUBSET F /\ upto[w] \in SUBSET F
      BY <1>2
    <2>2. upto[v] \subseteq upto[w] /\ upto[v] # upto[w]
      BY <1>2, <1>3, <1>7
    <2>3. Cardinality(upto[v]) < Cardinality(upto[w])
      BY <2>1, <2>2, ChainCounts
    <2> QED BY <1>4, <2>3
  <1>8. IsInjective(r)
    <2> SUFFICES ASSUME NEW v \in F, NEW w \in F, r[v] = r[w] PROVE v = w
      BY <1>5 DEF IsInjective
    <2>1. v \in Nat /\ w \in Nat
      BY <1>2
    <2>2. r[v] \in 1..Cardinality(F) /\ r[w] \in 1..Cardinality(F)
      BY <1>6
    <2>3. r[v] \in Nat /\ r[w] \in Nat
      BY <1>1, <2>2
    <2>4. ~(v < w) /\ ~(w < v)
      BY <1>7, <2>3
    <2> QED BY <2>1, <2>4
  <1>9. r \in [F -> 1..Cardinality(F)]
    BY <1>5, <1>6
  <1> QED BY <1>8, <1>9 DEF r

\* The first n workers of I to be stopped.
Surplus(p, I, n) == {w \in I : Cardinality({v \in I : StopsBefore(p, v, w)}) < n}

\* Of the idle workers, no more are stopped than there are too many.
LEMMA FewStopped ==
  ASSUME NEW I \in SUBSET Nat, IsFiniteSet(I), NEW p, NEW n \in Int
  PROVE  /\ n <= 0 => Surplus(p, I, n) = {}
         /\ n >= 0 => Cardinality(Surplus(p, I, n)) <= n
  <1> DEFINE before == [w \in I |-> {v \in I : StopsBefore(p, v, w)}]
             r == [w \in I |-> Cardinality({v \in I : StopsBefore(p, v, w)})]
             W == {w \in I : r[w] < n}
  <1>0. W = Surplus(p, I, n)
    <2>1. \A w \in I : r[w] = Cardinality({v \in I : StopsBefore(p, v, w)})
      OBVIOUS
    <2> HIDE DEF r
    <2> QED BY <2>1 DEF Surplus
  <1>1. \A w \in I : w \in Nat /\ before[w] \in SUBSET I /\ r[w] = Cardinality(before[w])
    OBVIOUS
  <1>2. \A v, w \in I : v # w => StopsBefore(p, v, w) \/ StopsBefore(p, w, v)
    BY <1>1 DEF StopsBefore
  <1>3. ASSUME NEW v \in I, NEW w \in I, StopsBefore(p, v, w)
        PROVE  v \in before[w] /\ v \notin before[v] /\ before[v] \subseteq before[w]
    <2>1. \A u \in I : u \in Nat
      OBVIOUS
    <2>2. /\ before[v] = {u \in I : StopsBefore(p, u, v)}
          /\ before[w] = {u \in I : StopsBefore(p, u, w)}
      OBVIOUS
    <2> HIDE DEF before
    <2>3. \A x, y \in I : StopsBefore(p, x, y) <=>
            \/ x \notin p.ready /\ y \in p.ready
            \/ (x \in p.ready <=> y \in p.ready) /\ x < y
      <3> TAKE x, y \in I
      <3>1. ASSUME NEW a \in BOOLEAN, NEW b \in BOOLEAN PROVE (a = b) <=> (a <=> b)
        OBVIOUS
      <3>2. (x \in p.ready) \in BOOLEAN /\ (y \in p.ready) \in BOOLEAN
        OBVIOUS
      <3>3. ((x \in p.ready) = (y \in p.ready)) <=> (x \in p.ready <=> y \in p.ready)
        BY <3>1, <3>2
      <3> DEFINE same == (x \in p.ready) = (y \in p.ready)
      <3>4. StopsBefore(p, x, y) <=> (same /\ x < y) \/ (~same /\ x \notin p.ready)
        BY Zenon DEF StopsBefore
      <3> HIDE DEF same
      <3>5. same <=> (x \in p.ready <=> y \in p.ready)
        BY <3>3 DEF same
      <3> QED BY <3>4, <3>5
    <2>4. ~StopsBefore(p, v, v)
      BY <2>1, <2>3
    <2>5. ASSUME NEW u \in I, StopsBefore(p, u, v) PROVE StopsBefore(p, u, w)
      <3>1. u \in Nat /\ v \in Nat /\ w \in Nat
        BY <2>1
      <3>2. u < v /\ v < w => u < w
        BY <3>1
      <3> QED BY <1>3, <2>3, <2>5, <3>2
    <2> QED BY <1>3, <2>2, <2>4, <2>5
  <1> HIDE DEF before, r
  <1>4. \A w \in I : r[w] \in Nat
    <2> TAKE w \in I
    <2>1. IsFiniteSet(before[w])
      BY <1>1, FS_Subset
    <2> QED BY <1>1, <2>1, FS_CardinalityType
  <1>5. ASSUME NEW v \in I, NEW w \in I, StopsBefore(p, v, w) PROVE r[v] < r[w]
    <2>1. /\ before[v] \in SUBSET I /\ before[w] \in SUBSET I
          /\ before[v] \subseteq before[w] /\ before[v] # before[w]
      BY <1>1, <1>3, <1>5
    <2>2. Cardinality(before[v]) < Cardinality(before[w])
      BY <2>1, ChainCounts
    <2> QED BY <1>1, <2>2
  <1>6. ASSUME n <= 0 PROVE W = {}
    <2>1. ASSUME NEW w \in I PROVE ~(r[w] < n)
      BY <1>4, <1>6
    <2> QED BY <2>1
  <1>7. ASSUME n >= 0 PROVE Cardinality(W) <= n
    <2> DEFINE f == [w \in W |-> r[w]]
    <2>1. f \in [W -> 0 .. n - 1]
      <3>1. ASSUME NEW w \in W PROVE r[w] \in 0 .. n - 1
        <4>1. r[w] \in Nat /\ r[w] < n
          BY <1>4
        <4> QED BY <4>1
      <3> QED BY <3>1
    <2>2. IsInjective(f)
      <3> SUFFICES ASSUME NEW v \in W, NEW w \in W, r[v] = r[w] PROVE v = w
        BY DEF IsInjective
      <3> QED BY <1>2, <1>4, <1>5
    <2>3. f \in Injection(W, 0 .. n - 1)
      BY <2>1, <2>2 DEF Injection
    <2>4. 0 \in Int /\ n - 1 \in Int
      BY <1>7
    <2>5. IsFiniteSet(0 .. n - 1) /\ Cardinality(0 .. n - 1) = n
      BY <1>7, <2>4, FS_Interval
    <2> HIDE DEF f, W
    <2> QED BY <2>3, <2>5, FS_Injection
  <1> QED BY <1>0, <1>6, <1>7
-----------------------------------------------------------------------------
(* Stopping idle workers                                                   *)

\* What it is to stop the workers of W.
LEMMA StopFields ==
  ASSUME NEW p \in PoolType, NEW W \in SUBSET Ids
  PROVE  LET q == StopWorkers(p, W)
         IN  /\ q \in PoolType /\ SameFlags(p, q) /\ q.pending = p.pending
             /\ q.members = p.members /\ q.ready = p.ready /\ q.recorded = p.recorded
             /\ q.killed = p.killed /\ q.unborn = p.unborn /\ q.spawned = p.spawned
             /\ q.stopping = p.stopping \cup W /\ q.starting = p.starting \ W
             /\ q.quitting = p.quitting \cup (W \ p.killed)
             /\ \A w \in Ids :
                  /\ q.job[w] = IF w \in W THEN NoJob ELSE p.job[w]
                  /\ q.sent[w] = IF w \in W \ p.killed THEN Append(p.sent[w], NoJob)
                                                       ELSE p.sent[w]
             /\ Answers(p, q, {p.job[w] : w \in W}, Refused)
  <1> DEFINE a == Answer(p, {p.job[w] : w \in W}, Refused)
             q == StopWorkers(p, W)
  <1>1. /\ a \in PoolType /\ SameWorkers(p, a) /\ SameFlags(p, a)
        /\ a.pending = p.pending /\ a.job = p.job /\ a.sent = p.sent
        /\ Answers(p, a, {p.job[w] : w \in W}, Refused)
    BY AnswerFields
  <1> DEFINE job == [w \in Ids |-> IF w \in W THEN NoJob ELSE a.job[w]]
             sent == [w \in Ids |-> IF w \in W \ p.killed THEN Append(a.sent[w], NoJob)
                                                          ELSE a.sent[w]]
  <1>2. q = [a EXCEPT !.stopping = a.stopping \cup W, !.starting = a.starting \ W,
                      !.quitting = a.quitting \cup (W \ p.killed),
                      !.job = job, !.sent = sent]
    BY DEF StopWorkers
  <1> HIDE DEF a, q
  <1>3. job \in [Ids -> Jobs \cup {NoJob}]
    BY <1>1 DEF PoolType
  <1>4. sent \in [Ids -> Seq(Jobs \cup {NoJob})]
    <2> SUFFICES ASSUME NEW w \in Ids
                 PROVE  sent[w] \in Seq(Jobs \cup {NoJob})
      OBVIOUS
    <2>1. a.sent[w] \in Seq(Jobs \cup {NoJob})
      BY <1>1 DEF PoolType
    <2> QED BY <2>1, RangeAppend
  <1>5. \A w \in Ids :
          /\ job[w] = IF w \in W THEN NoJob ELSE p.job[w]
          /\ sent[w] = IF w \in W \ p.killed THEN Append(p.sent[w], NoJob) ELSE p.sent[w]
    BY <1>1
  <1> HIDE DEF job, sent
  <1>6. a \in PoolType
    BY <1>1
  <1>7. /\ q \in PoolType /\ SameFlags(a, q) /\ q.pending = a.pending
        /\ q.members = a.members /\ q.ready = a.ready /\ q.recorded = a.recorded
        /\ q.killed = a.killed /\ q.unborn = a.unborn /\ q.spawned = a.spawned
        /\ q.stopping = a.stopping \cup W /\ q.starting = a.starting \ W
        /\ q.quitting = a.quitting \cup (W \ p.killed)
        /\ q.job = job /\ q.sent = sent /\ q.answer = a.answer
    BY <1>2, <1>3, <1>4, <1>6 DEF PoolType, SameFlags
  <1>8. /\ q \in PoolType /\ SameFlags(p, q) /\ q.pending = p.pending
        /\ q.members = p.members /\ q.ready = p.ready /\ q.recorded = p.recorded
        /\ q.killed = p.killed /\ q.unborn = p.unborn /\ q.spawned = p.spawned
        /\ q.stopping = p.stopping \cup W /\ q.starting = p.starting \ W
        /\ q.quitting = p.quitting \cup (W \ p.killed)
    BY <1>1, <1>7 DEF SameWorkers, SameFlags
  <1>9. Answers(p, q, {p.job[w] : w \in W}, Refused)
    BY <1>1, <1>7 DEF Answers
  <1>10. \A w \in Ids :
           /\ q.job[w] = IF w \in W THEN NoJob ELSE p.job[w]
           /\ q.sent[w] = IF w \in W \ p.killed THEN Append(p.sent[w], NoJob) ELSE p.sent[w]
    BY <1>5, <1>7
  <1> QED BY <1>8, <1>9, <1>10 DEF q

\* A pool that has become smaller keeps the workers it wants.
LEMMA StopExtraCore ==
  ASSUME NEW p, NEW ps, NEW X, Core(p, ps, X)
  PROVE  LET q == StopExtraIdleWorkers(p)
         IN  /\ Core(q, ps, X) /\ Keeps(p, q) /\ q.respawn = p.respawn
             /\ Full(p) => Full(q)
             /\ Waiting(p, X) => Waiting(q, X)
  <1> DEFINE extra == Cardinality(p.members) - p.desired
             W == {w \in Idle(p) : Cardinality({v \in Idle(p) : StopsBefore(p, v, w)}) < extra}
             s == StopWorkers(p, W)
             q == StopExtraIdleWorkers(p)
  <1>0. p \in PoolType BY DEF Core
  <1>1. /\ Idle(p) \in SUBSET Ids /\ Idle(p) \in SUBSET Nat /\ p.members \in SUBSET Ids
        /\ IsFiniteSet(Idle(p)) /\ Cardinality(p.members) \in Nat /\ p.desired \in Nat
        /\ Faulty(p, ps) \in SUBSET Ids /\ p.spawned \in Nat /\ p.faults \in Nat
    <2>1. Idle(p) \in SUBSET Ids /\ p.members \in SUBSET Ids /\ Faulty(p, ps) \in SUBSET Ids
      BY <1>0 DEF Idle, PoolType, Faulty
    <2>2. Ids \subseteq Nat
      BY PoolAssumption DEF Ids
    <2>3. p.desired \in Nat /\ p.spawned \in Nat /\ p.faults \in Nat
      BY <1>0, PoolAssumption DEF PoolType
    <2> QED BY <2>1, <2>2, <2>3, Counted
  <1>2. (extra <= 0 => W = {}) /\ (extra >= 0 => Cardinality(W) <= extra)
    <2>1. extra \in Int
      BY <1>1
    <2> HIDE DEF extra
    <2>2. W = Surplus(p, Idle(p), extra)
      BY DEF Surplus
    <2> HIDE DEF W
    <2> QED BY <1>1, <2>1, <2>2, FewStopped
  <1>3. W \subseteq Idle(p)
    OBVIOUS
  <1>4. q = [s EXCEPT !.members = s.members \ W]
    BY DEF StopExtraIdleWorkers
  <1> HIDE DEF W
  <1>5. W \in SUBSET Ids /\ W \subseteq p.members /\ \A w \in W : p.job[w] = NoJob
    BY <1>1, <1>3 DEF Idle
  <1>6. /\ s \in PoolType /\ SameFlags(p, s) /\ s.pending = p.pending
        /\ s.members = p.members /\ s.ready = p.ready /\ s.recorded = p.recorded
        /\ s.killed = p.killed /\ s.unborn = p.unborn /\ s.spawned = p.spawned
        /\ s.stopping = p.stopping \cup W /\ s.starting = p.starting \ W
        /\ s.quitting = p.quitting \cup (W \ p.killed)
        /\ \A w \in Ids :
             /\ s.job[w] = IF w \in W THEN NoJob ELSE p.job[w]
             /\ s.sent[w] = IF w \in W \ p.killed THEN Append(p.sent[w], NoJob)
                                                  ELSE p.sent[w]
        /\ Answers(p, s, {p.job[w] : w \in W}, Refused)
    BY <1>0, <1>5, StopFields
  <1> HIDE DEF s, q
  <1>7. s \in PoolType
    BY <1>6
  <1>8. /\ q \in PoolType /\ SameFlags(s, q) /\ SameJobs(s, q)
        /\ q.members = s.members \ W /\ q.ready = s.ready /\ q.recorded = s.recorded
        /\ q.killed = s.killed /\ q.unborn = s.unborn /\ q.spawned = s.spawned
        /\ q.stopping = s.stopping /\ q.starting = s.starting /\ q.quitting = s.quitting
    BY <1>4, <1>7 DEF PoolType, SameFlags, SameJobs
  <1>9. /\ q \in PoolType /\ SameFlags(p, q) /\ q.pending = p.pending
        /\ q.members = p.members \ W /\ q.ready = p.ready /\ q.recorded = p.recorded
        /\ q.killed = p.killed /\ q.unborn = p.unborn /\ q.spawned = p.spawned
        /\ q.stopping = p.stopping \cup W /\ q.starting = p.starting \ W
        /\ q.quitting = p.quitting \cup (W \ p.killed)
    BY <1>6, <1>8 DEF SameFlags, SameJobs
  <1>10. q.job = p.job
    <2>1. \A w \in Ids : q.job[w] = p.job[w]
      BY <1>5, <1>6, <1>8 DEF SameJobs
    <2>2. q.job \in [Ids -> Jobs \cup {NoJob}] /\ p.job \in [Ids -> Jobs \cup {NoJob}]
      BY <1>0, <1>8 DEF PoolType
    <2> QED BY <2>1, <2>2
  <1>11. q.answer = p.answer
    <2>1. q.answer \in [Jobs -> Jobs \cup {NoJob, Refused}]
          /\ p.answer \in [Jobs -> Jobs \cup {NoJob, Refused}]
      BY <1>0, <1>8 DEF PoolType
    <2>2. \A j \in Jobs : j \notin {p.job[w] : w \in W}
      BY <1>5, PoolAssumption DEF Jobs
    <2>3. \A j \in Jobs : q.answer[j] = p.answer[j]
      BY <1>6, <1>8, <2>2 DEF Answers, SameJobs
    <2> QED BY <2>1, <2>3
  <1>12. \A w \in Ids :
           /\ Range(q.sent[w]) \subseteq Range(p.sent[w]) \cup {NoJob}
           /\ w \notin W => q.sent[w] = p.sent[w]
    <2> SUFFICES ASSUME NEW w \in Ids
                 PROVE  /\ Range(q.sent[w]) \subseteq Range(p.sent[w]) \cup {NoJob}
                        /\ w \notin W => q.sent[w] = p.sent[w]
      OBVIOUS
    <2>1. p.sent[w] \in Seq(Jobs \cup {NoJob})
      BY <1>0 DEF PoolType
    <2>2. Range(Append(p.sent[w], NoJob)) = Range(p.sent[w]) \cup {NoJob}
      BY <2>1, RangeAppend
    <2>3. q.sent[w] = s.sent[w]
      BY <1>8 DEF SameJobs
    <2>4. CASE w \in W \ p.killed
      BY <1>6, <2>2, <2>3, <2>4
    <2>5. CASE w \notin W \ p.killed
      BY <1>6, <2>3, <2>5
    <2> QED BY <2>4, <2>5
  <1> HIDE DEF extra
  <1>13. OwnIn(q) BY <1>11 DEF Core, OwnIn
  <1>14. JobsHold(q)
    <2>1. \A w \in Ids : q.job[w] # NoJob => w \in q.members
      BY <1>5, <1>9, <1>10 DEF Core, JobsHold
    <2>2. \A w \in Ids : \A j \in Range(q.sent[w]) \ {NoJob} :
            q.job[w] = j \/ q.answer[j] # NoJob
      BY <1>10, <1>11, <1>12 DEF Core, JobsHold
    <2> QED BY <1>9, <1>10, <1>11, <2>1, <2>2 DEF Core, JobsHold, SameFlags
  <1>15. WorkersHold(q)
    <2>1. \A w \in Ids : /\ NoJob \in Range(q.sent[w]) => w \in q.stopping
                         /\ q.sent[w] # <<>> => w \in q.ready \cup q.stopping
      BY <1>9, <1>12 DEF Core, WorkersHold
    <2> QED BY <1>5, <1>9, <1>10, <2>1 DEF Core, WorkersHold, SameFlags
  <1>16. /\ Faulty(q, ps) \subseteq Faulty(p, ps)
         /\ extra <= 0 => q.members = p.members
         /\ extra >= 0 => Cardinality(q.members) >= p.desired
    <2>1. Faulty(q, ps) \subseteq Faulty(p, ps)
      BY <1>9 DEF Faulty
    <2>2. extra >= 0 => Cardinality(q.members) >= p.desired
      <3>1. IsFiniteSet(p.members) /\ IsFiniteSet(W) /\ Cardinality(W) \in Nat
        BY <1>1, <1>5, Counted
      <3>2. p.members \cap W = W
        BY <1>5
      <3>3. Cardinality(q.members) = Cardinality(p.members) - Cardinality(W)
        <4>1. /\ Cardinality(p.members \ W) = Cardinality(p.members) - Cardinality(p.members \cap W)
              /\ q.members = p.members \ W
          BY <1>9, <3>1, FS_Difference
        <4> QED BY <3>2, <4>1
      <3>4. ASSUME extra >= 0 PROVE Cardinality(W) <= Cardinality(p.members) - p.desired
        BY <1>2, <3>4 DEF extra
      <3>5. \A a, b, c \in Nat : b <= a - c => a - b >= c
        OBVIOUS
      <3> QED BY <1>1, <3>1, <3>3, <3>4, <3>5
    <2> QED BY <1>2, <1>9, <2>1, <2>2
  <1>17. SparesHold(q, ps)
    <2>1. /\ Cardinality(Faulty(q, ps)) <= Cardinality(Faulty(p, ps))
          /\ Cardinality(Faulty(q, ps)) \in Nat
          /\ Cardinality(Faulty(p, ps)) \in Nat
      <3>1. IsFiniteSet(Faulty(p, ps)) /\ Cardinality(Faulty(p, ps)) \in Nat
        BY <1>1, Counted
      <3>2. IsFiniteSet(Faulty(q, ps)) /\ Cardinality(Faulty(q, ps)) <= Cardinality(Faulty(p, ps))
        BY <1>16, <3>1, FS_Subset
      <3> QED BY <3>1, <3>2, FS_CardinalityType
    <2>2. Cardinality(q.members) \in Nat
      <3>1. q.members \in SUBSET Ids
        BY <1>1, <1>9
      <3> QED BY <3>1, Counted
    <2> DEFINE c == Cardinality(Faulty(p, ps))
               d == Cardinality(Faulty(q, ps))
               m == Cardinality(p.members)
               n == Cardinality(q.members)
    <2>3. c \in Nat /\ d \in Nat /\ m \in Nat /\ n \in Nat /\ d <= c
      BY <1>1, <2>1, <2>2
    <2>4. ~p.destroyed =>
            /\ p.spawned + c <= Desired + p.faults
            /\ p.spawned + p.desired + c <= Desired + p.faults + m
      BY DEF Core, SparesHold
    <2>5. extra \in Int
      BY <1>1 DEF extra
    <2>6. (extra <= 0 => m = n) /\ (extra >= 0 => n >= p.desired)
      BY <1>16
    <2> HIDE DEF c, d, m, n
    <2>7. ~p.destroyed =>
            /\ p.spawned + d <= Desired + p.faults
            /\ p.spawned + p.desired + d <= Desired + p.faults + n
      <3>1. CASE extra <= 0
        BY <1>1, <2>3, <2>4, <2>6, <3>1, PoolAssumption
      <3>2. CASE extra >= 0
        BY <1>1, <2>3, <2>4, <2>6, <3>2, PoolAssumption
      <3> QED BY <2>5, <3>1, <3>2
    <2> QED BY <1>9, <2>7 DEF SparesHold, SameFlags, d, n
  <1>18. ProcessesHold(q, ps) BY <1>9 DEF Core, ProcessesHold
  <1>19. SerialIn(q, X) BY <1>1, <1>9, <1>10, <1>12 DEF Core, SerialIn
  <1>20. TimedIn(q, X) BY <1>9 DEF Core, TimedIn, SameFlags
  <1>21. Full(p) => Full(q)
    <2>1. extra \in Int
      BY <1>1 DEF extra
    <2> QED BY <1>9, <1>16, <2>1 DEF Full, SameFlags
  <1>22. Keeps(p, q) /\ q.respawn = p.respawn
    BY <1>5, <1>9, <1>12 DEF Keeps, SameFlags
  <1>23. Waiting(p, X) => Waiting(q, X)
    BY <1>9, <1>10 DEF Waiting, Free, Idle
  <1> QED BY <1>9, <1>13, <1>14, <1>15, <1>17, <1>18, <1>19, <1>20, <1>21, <1>22, <1>23
          DEF Core, q
-----------------------------------------------------------------------------
(* Failures                                                                *)

\* A change of the pool that leaves a bad worker to be dealt with as it was.
Passes(p, ps, q, X) ==
  Core(q, ps, X) /\ Keeps(p, q) /\ q.respawn = p.respawn /\ (Waiting(p, X) => Waiting(q, X))

\* One helper after another.
LEMMA KeepsChain ==
  ASSUME NEW p, NEW q, NEW r, Keeps(p, q), Keeps(q, r)
  PROVE  Keeps(p, r)
  BY DEF Keeps

\* A recorded failure may make the pool smaller, and the status is true.
LEMMA RecordCore ==
  ASSUME NEW p, NEW ps, NEW X, Core(p, ps, X), NEW oom \in BOOLEAN,
         NEW q \in RecordWorkerFailure(p, oom)
  PROVE  Passes(p, ps, q, X) /\ TrueIn(q) /\ (Full(p) => Full(q))
  <1> DEFINE r == [p EXCEPT !.streak = IF p.streak < Threshold THEN p.streak + 1 ELSE p.streak,
                            !.failed = TRUE]
             d == [r EXCEPT !.desired = 1]
             small == r.desired > 1 /\ (oom \/ r.streak >= Threshold)
             t == IF small THEN StopExtraIdleWorkers(d) ELSE r
  <1>0. p \in PoolType BY DEF Core
  <1>1. q = Refresh(t)
    BY DEF RecordWorkerFailure
  <1>2. (IF p.streak < Threshold THEN p.streak + 1 ELSE p.streak) \in 0..Threshold
    BY <1>0, PoolAssumption DEF PoolType
  <1>3. /\ r \in PoolType /\ SameWorkers(p, r) /\ SameJobs(p, r) /\ r.desired = p.desired
        /\ r.status = p.status /\ r.respawn = p.respawn /\ r.destroyed = p.destroyed
        /\ r.faults = p.faults /\ r.asked = p.asked
    BY <1>0, <1>2 DEF PoolType, SameWorkers, SameJobs
  <1> HIDE DEF r
  <1>4. r \in PoolType
    BY <1>3
  <1>5. 1 \in 1..Desired
    BY PoolAssumption
  <1>6. /\ d \in PoolType /\ SameWorkers(r, d) /\ SameJobs(r, d) /\ d.desired = 1
        /\ d.status = r.status /\ d.respawn = r.respawn /\ d.destroyed = r.destroyed
        /\ d.faults = r.faults /\ d.asked = r.asked
    BY <1>4, <1>5 DEF PoolType, SameWorkers, SameJobs
  <1> HIDE DEF d, t
  <1>7. ASSUME NEW u, u = r \/ u = d
        PROVE  Passes(p, ps, u, X) /\ (Full(p) => Full(u))
    <2>1. /\ u \in PoolType /\ SameWorkers(p, u) /\ SameJobs(p, u) /\ u.desired \in {p.desired, 1}
          /\ u.status = p.status /\ u.respawn = p.respawn /\ u.destroyed = p.destroyed
          /\ u.faults = p.faults /\ u.asked = p.asked
      BY <1>3, <1>6, <1>7 DEF SameWorkers, SameJobs
    <2>2. /\ u.recorded = p.recorded /\ u.recorded \subseteq 1..u.spawned
          /\ u.destroyed => ~u.respawn
          /\ u.status = "unavailable" => u.pending = <<>>
      BY <2>1 DEF Core, WorkersHold, SameWorkers, SameJobs
    <2>3. Core(u, ps, X) /\ (Waiting(p, X) => Waiting(u, X))
      BY <2>1, <2>2, Quiet DEF SameWorkers, SameJobs
    <2>4. Keeps(p, u)
      BY <2>1 DEF Keeps, SameWorkers, SameJobs
    <2>5. Full(p) => Full(u)
      <3>1. p.desired \in Nat \ {0} /\ p.members \in SUBSET Ids
        BY <1>0, PoolAssumption DEF PoolType
      <3>2. Cardinality(p.members) \in Nat
        BY <3>1, Counted
      <3>3. Cardinality(p.members) >= p.desired => Cardinality(p.members) >= u.desired
        BY <2>1, <3>1, <3>2
      <3> QED BY <2>1, <3>3 DEF Full, SameWorkers
    <2> QED BY <2>1, <2>3, <2>4, <2>5 DEF Passes
  <1>8. Passes(p, ps, t, X) /\ (Full(p) => Full(t))
    <2>1. CASE small
      <3>1. t = StopExtraIdleWorkers(d)
        BY <2>1 DEF t
      <3>2. Passes(p, ps, d, X) /\ (Full(p) => Full(d))
        BY <1>7
      <3>3. /\ Core(t, ps, X) /\ Keeps(d, t) /\ t.respawn = d.respawn
            /\ Full(d) => Full(t)
            /\ Waiting(d, X) => Waiting(t, X)
        BY <3>1, <3>2, StopExtraCore DEF Passes
      <3> QED BY <3>2, <3>3, KeepsChain DEF Passes
    <2>2. CASE ~small
      <3>1. t = r
        BY <2>2 DEF t
      <3> QED BY <1>7, <3>1
    <2> QED BY <2>1, <2>2
  <1>9. /\ Core(q, ps, X) /\ TrueIn(q) /\ Keeps(t, q)
        /\ q.respawn = t.respawn /\ q.members = t.members /\ q.desired = t.desired
        /\ Waiting(t, X) => Waiting(q, X)
    BY <1>1, <1>8, RefreshCore DEF Passes
  <1>10. Full(t) => Full(q)
    BY <1>9 DEF Full, Keeps
  <1> QED BY <1>8, <1>9, <1>10, KeepsChain DEF Passes

\* A failure is recorded once for each worker.
LEMMA HandleCore ==
  ASSUME NEW p, NEW ps, NEW X, Core(p, ps, X), NEW w \in 1..p.spawned, NEW oom \in BOOLEAN,
         NEW q \in HandleWorkerFailure(p, w, oom)
  PROVE  /\ Passes(p, ps, q, X) /\ w \in q.recorded
         /\ Full(p) => Full(q)
         /\ TrueIn(p) => TrueIn(q)
  <1>0. p \in PoolType BY DEF Core
  <1>1. CASE w \in p.recorded
    <2>1. q = p
      BY <1>1 DEF HandleWorkerFailure
    <2>2. Keeps(p, p)
      BY DEF Keeps
    <2> QED BY <1>1, <2>1, <2>2 DEF Passes
  <1>2. CASE w \notin p.recorded
    <2> DEFINE r == [p EXCEPT !.recorded = p.recorded \cup {w}]
    <2>1. q \in RecordWorkerFailure(r, oom)
      BY <1>2 DEF HandleWorkerFailure
    <2>2. w \in Ids
      BY <1>0, PoolAssumption DEF PoolType, Ids
    <2>3. /\ r \in PoolType /\ SameFlags(p, r) /\ SameJobs(p, r)
          /\ r.recorded = p.recorded \cup {w} /\ r.members = p.members /\ r.ready = p.ready
          /\ r.starting = p.starting /\ r.stopping = p.stopping /\ r.killed = p.killed
          /\ r.quitting = p.quitting /\ r.unborn = p.unborn /\ r.spawned = p.spawned
      BY <1>0, <2>2 DEF PoolType, SameFlags, SameJobs
    <2> HIDE DEF r
    <2>4. /\ p.recorded \subseteq r.recorded /\ r.recorded \subseteq 1..r.spawned
          /\ r.destroyed => ~r.respawn
          /\ r.status = "unavailable" => r.pending = <<>>
      BY <2>3 DEF Core, WorkersHold, SameFlags, SameJobs
    <2>5. Core(r, ps, X) /\ (Waiting(p, X) => Waiting(r, X))
      BY <2>3, <2>4, Quiet DEF SameFlags, SameJobs
    <2>6. Keeps(p, r) /\ r.respawn = p.respawn /\ (Full(p) => Full(r))
      BY <2>3 DEF Keeps, Full, SameFlags, SameJobs
    <2>7. Passes(r, ps, q, X) /\ TrueIn(q) /\ (Full(r) => Full(q))
      BY <2>1, <2>5, RecordCore
    <2>8. w \in q.recorded
      BY <2>3, <2>7 DEF Passes, Keeps
    <2> QED BY <2>5, <2>6, <2>7, <2>8, KeepsChain DEF Passes
  <1> QED BY <1>1, <1>2

\* After a respawn is scheduled the pool knows that it may lack a worker.
LEMMA ScheduleCore ==
  ASSUME NEW p, NEW ps, NEW X, Core(p, ps, X)
  PROVE  LET q == ScheduleRespawn(p)
         IN  /\ Core(q, ps, X) /\ Keeps(p, q) /\ Full(q) /\ (~q.destroyed => q.respawn)
             /\ q.members = p.members
             /\ TrueIn(p) => TrueIn(q)
             /\ Waiting(p, X) => Waiting(q, X)
  <1> DEFINE q == ScheduleRespawn(p)
  <1>0. p \in PoolType BY DEF Core
  <1>1. CASE p.destroyed \/ p.respawn
    <2>1. q = p
      BY <1>1 DEF ScheduleRespawn
    <2>2. Keeps(p, p)
      BY DEF Keeps
    <2>3. Full(p)
      BY <1>1 DEF Full
    <2> QED BY <1>1, <2>1, <2>2, <2>3
  <1>2. CASE ~p.destroyed /\ ~p.respawn
    <2> DEFINE r == [p EXCEPT !.respawn = TRUE]
    <2>1. q = Refresh(r)
      BY <1>2 DEF ScheduleRespawn
    <2>2. /\ r \in PoolType /\ SameWorkers(p, r) /\ SameJobs(p, r) /\ r.respawn = TRUE
          /\ r.desired = p.desired /\ r.status = p.status /\ r.destroyed = p.destroyed
          /\ r.asked = p.asked /\ r.faults = p.faults
      BY <1>0 DEF PoolType, SameWorkers, SameJobs
    <2> HIDE DEF r, q
    <2>3. /\ r.recorded = p.recorded /\ r.recorded \subseteq 1..r.spawned
          /\ r.destroyed => ~r.respawn
          /\ r.status = "unavailable" => r.pending = <<>>
      BY <1>2, <2>2 DEF Core, WorkersHold, SameWorkers, SameJobs
    <2>4. Core(r, ps, X) /\ (Waiting(p, X) => Waiting(r, X))
      BY <2>2, <2>3, Quiet DEF SameWorkers, SameJobs
    <2>5. Keeps(p, r)
      BY <2>2 DEF Keeps, SameWorkers, SameJobs
    <2>6. /\ Core(q, ps, X) /\ TrueIn(q) /\ Keeps(r, q)
          /\ q.respawn = r.respawn /\ q.members = r.members
          /\ Waiting(r, X) => Waiting(q, X)
      BY <2>1, <2>4, RefreshCore
    <2>7. Full(q) /\ q.respawn /\ q.members = p.members
      BY <2>2, <2>6 DEF Full, SameWorkers
    <2>8. Keeps(p, q)
      BY <2>5, <2>6, KeepsChain
    <2> QED BY <2>4, <2>6, <2>7, <2>8 DEF q
  <1> QED BY <1>1, <1>2
-----------------------------------------------------------------------------
(* Killing                                                                 *)

\* A worker with which something is wrong.
Bad(p, ps, w) == ps[w].late \/ ps[w].at = "dead" \/ w \in p.unborn

\* A worker is killed for a reason, or after it was stopped.
LEMMA KillCore ==
  ASSUME NEW p, NEW ps, NEW X, Core(p, ps, X), NEW w \in 1..p.spawned,
         ~p.destroyed /\ w \in p.members => Bad(p, ps, w)
  PROVE  LET q == Kill(p, w)
         IN  /\ Core(q, ps, X) /\ q.recorded = p.recorded /\ q.unborn = p.unborn
             /\ q.members = p.members /\ q.ready = p.ready /\ q.sent = p.sent
             /\ w \in q.killed \cup q.unborn
             /\ Full(p) => Full(q)
             /\ TrueIn(p) => TrueIn(q)
             /\ Waiting(p, X) => Waiting(q, X)
  <1> DEFINE q == Kill(p, w)
  <1>0. p \in PoolType BY DEF Core
  <1>1. CASE w \in p.unborn
    <2>1. q = p
      BY <1>1 DEF Kill
    <2> QED BY <1>1, <2>1
  <1>2. CASE w \notin p.unborn
    <2>1. w \in Ids
      BY <1>0, PoolAssumption DEF PoolType, Ids
    <2> DEFINE K == p.killed \cup {w}
    <2>2. q = [p EXCEPT !.killed = K]
      BY <1>2 DEF Kill
    <2> HIDE DEF q
    <2>3. /\ q \in PoolType /\ SameFlags(p, q) /\ SameJobs(p, q)
          /\ q.members = p.members /\ q.ready = p.ready /\ q.starting = p.starting
          /\ q.stopping = p.stopping /\ q.recorded = p.recorded /\ q.quitting = p.quitting
          /\ q.unborn = p.unborn /\ q.spawned = p.spawned /\ q.killed = p.killed \cup {w}
      <3>1. K \in SUBSET Ids
        BY <1>0, <2>1 DEF PoolType
      <3> HIDE DEF K
      <3>2. /\ q \in PoolType /\ SameFlags(p, q) /\ SameJobs(p, q)
            /\ q.members = p.members /\ q.ready = p.ready /\ q.starting = p.starting
            /\ q.stopping = p.stopping /\ q.recorded = p.recorded /\ q.quitting = p.quitting
            /\ q.unborn = p.unborn /\ q.spawned = p.spawned /\ q.killed = K
        BY <1>0, <2>2, <3>1 DEF PoolType, SameFlags, SameJobs
      <3> QED BY <3>2 DEF K
    <2>4. OwnIn(q) /\ JobsHold(q)
      BY <2>3 DEF Core, OwnIn, JobsHold, SameFlags, SameJobs
    <2>5. WorkersHold(q)
      <3>1. WorkersHold(p)
        BY DEF Core
      <3> QED BY <2>3, <3>1 DEF WorkersHold, SameFlags, SameJobs
    <2>6. SparesHold(q, ps)
      <3>1. ~p.destroyed => Faulty(q, ps) = Faulty(p, ps)
        BY <2>3 DEF Faulty, Bad
      <3> QED BY <2>3, <3>1 DEF Core, SparesHold, SameFlags
    <2>7. ProcessesHold(q, ps) BY <2>3 DEF Core, ProcessesHold
    <2>8. SerialIn(q, X) BY <2>3 DEF Core, SerialIn, SameJobs
    <2>9. TimedIn(q, X) BY <2>3 DEF Core, TimedIn, SameFlags
    <2>10. (Full(p) => Full(q)) /\ (TrueIn(p) => TrueIn(q)) /\ (Waiting(p, X) => Waiting(q, X))
      <3>1. Full(p) => Full(q)
        BY <2>3 DEF Full, SameFlags
      <3>2. Resolve(q) = Resolve(p)
        BY <2>3 DEF Resolve, ReadyMembers, SameFlags
      <3>3. TrueIn(p) => TrueIn(q)
        BY <2>3, <3>2 DEF TrueIn, SameFlags
      <3>4. Waiting(p, X) => Waiting(q, X)
        BY <2>3 DEF Waiting, Free, Idle, SameJobs
      <3> QED BY <3>1, <3>3, <3>4
    <2>11. q.sent = p.sent
      BY <2>3 DEF SameJobs
    <2> QED BY <2>3, <2>4, <2>5, <2>6, <2>7, <2>8, <2>9, <2>10, <2>11 DEF Core, q
  <1> QED BY <1>1, <1>2

\* What PoolInv says of a pool between two handlers.
Whole(p, ps) == Core(p, ps, {}) /\ Waiting(p, {}) /\ Full(p) /\ TrueIn(p)

\* A worker that was given up needs no more of the pool than a respawn.
LEMMA GivenUp ==
  ASSUME NEW p, NEW ps, NEW w, Core(p, ps, {w}), w \in p.recorded, w \in p.killed \cup p.unborn
  PROVE  Core(p, ps, {}) /\ (Waiting(p, {w}) => Waiting(p, {}))
  <1>0. p \in PoolType BY DEF Core
  <1>1. SerialIn(p, {})
    <2> SUFFICES ASSUME NEW v \in p.members \ (p.killed \cup p.stopping)
                 PROVE  Len(p.sent[v]) <= 1 /\ Range(p.sent[v]) \ {NoJob} \subseteq {p.job[v]}
      BY DEF SerialIn
    <2>1. CASE v # w
      BY <2>1 DEF Core, SerialIn
    <2>2. CASE v = w
      <3>1. v \in Ids /\ v \notin p.ready
        BY <1>0, <2>2 DEF Core, WorkersHold, PoolType
      <3>2. p.sent[v] = <<>>
        BY <3>1 DEF Core, WorkersHold
      <3> QED BY <3>2 DEF Range
    <2> QED BY <2>1, <2>2
  <1>2. TimedIn(p, {})
    BY DEF Core, TimedIn
  <1>3. Waiting(p, {w}) => Waiting(p, {})
    BY DEF Core, WorkersHold, Waiting, Free
  <1> QED BY <1>1, <1>2, <1>3 DEF Core

\* A bad worker is recorded, killed and replaced.
LEMMA GiveUpCore ==
  ASSUME NEW p, NEW ps, NEW w \in 1..p.spawned, Core(p, ps, {w}), Waiting(p, {w}),
         Full(p), TrueIn(p),
         Bad(p, ps, w), NEW oom \in BOOLEAN, NEW q \in GiveUp(p, w, oom)
  PROVE  Whole(q, ps)
  <1>1. PICK h \in HandleWorkerFailure(p, w, oom) : q = ScheduleRespawn(Kill(h, w))
    BY DEF GiveUp
  <1>2. Passes(p, ps, h, {w}) /\ w \in h.recorded /\ Full(h) /\ TrueIn(h)
    BY HandleCore
  <1>3. Core(h, ps, {w}) /\ Waiting(h, {w}) /\ w \in 1..h.spawned /\ Bad(h, ps, w)
    <2>1. Core(h, ps, {w}) /\ Waiting(h, {w}) /\ h.unborn = p.unborn
      BY <1>2 DEF Passes, Keeps
    <2>2. w \in 1..h.spawned
      BY <1>2, <2>1 DEF Core, WorkersHold
    <2> QED BY <2>1, <2>2 DEF Bad
  <1> DEFINE k == Kill(h, w)
  <1>4. /\ Core(k, ps, {w}) /\ k.recorded = h.recorded /\ k.unborn = h.unborn
        /\ w \in k.killed \cup k.unborn /\ Full(k) /\ TrueIn(k) /\ Waiting(k, {w})
    BY <1>2, <1>3, KillCore
  <1> HIDE DEF k
  <1>5. Core(k, ps, {}) /\ Waiting(k, {})
    BY <1>2, <1>4, GivenUp
  <1>6. Core(q, ps, {}) /\ Full(q) /\ TrueIn(q) /\ Waiting(q, {})
    BY <1>1, <1>4, <1>5, ScheduleCore DEF k
  <1> QED BY <1>6 DEF Whole
-----------------------------------------------------------------------------
(* Purging and spawning                                                    *)

\* Killed workers make place for others, one for each fault.
LEMMA PurgeCore ==
  ASSUME NEW p, NEW ps, NEW X, Core(p, ps, X)
  PROVE  LET q == PurgeKilledIdleWorkers(p)
         IN  /\ Core(q, ps, X) /\ q.destroyed = p.destroyed /\ q.respawn = p.respawn
             /\ Waiting(p, X) => Waiting(q, X)
  <1> DEFINE W == p.killed \cap Idle(p)
             q == PurgeKilledIdleWorkers(p)
  <1>0. p \in PoolType BY DEF Core
  <1>1. q = [p EXCEPT !.members = p.members \ W, !.starting = p.starting \ W]
    BY DEF PurgeKilledIdleWorkers
  <1>2. W \subseteq p.members /\ W \subseteq p.killed /\ \A w \in W : p.job[w] = NoJob
    BY DEF Idle
  <1> HIDE DEF W, q
  <1>3. /\ q \in PoolType /\ SameFlags(p, q) /\ SameJobs(p, q)
        /\ q.members = p.members \ W /\ q.starting = p.starting \ W
        /\ q.ready = p.ready /\ q.stopping = p.stopping /\ q.recorded = p.recorded
        /\ q.quitting = p.quitting /\ q.unborn = p.unborn /\ q.spawned = p.spawned
        /\ q.killed = p.killed
    BY <1>0, <1>1 DEF PoolType, SameFlags, SameJobs
  <1>4. OwnIn(q) BY <1>3 DEF Core, OwnIn, SameJobs
  <1>5. JobsHold(q)
    <2>1. \A w \in Ids : q.job[w] # NoJob => w \in q.members
      BY <1>2, <1>3 DEF Core, JobsHold, SameJobs
    <2> QED BY <1>3, <2>1 DEF Core, JobsHold, SameFlags, SameJobs
  <1>6. WorkersHold(q)
    <2>1. WorkersHold(p)
      BY DEF Core
    <2> QED BY <1>2, <1>3, <2>1 DEF WorkersHold, SameFlags, SameJobs
  <1>7. SparesHold(q, ps)
    <2>1. W \subseteq Faulty(p, ps) /\ Faulty(q, ps) = Faulty(p, ps) \ W
      BY <1>2, <1>3 DEF Faulty
    <2>2. Faulty(p, ps) \in SUBSET Ids /\ p.members \in SUBSET Ids /\ W \in SUBSET Ids
      BY <1>0, <1>2 DEF Faulty, PoolType
    <2>3. /\ IsFiniteSet(Faulty(p, ps)) /\ IsFiniteSet(p.members)
          /\ Cardinality(Faulty(p, ps)) \in Nat /\ Cardinality(p.members) \in Nat
          /\ Cardinality(W) \in Nat
      BY <2>2, Counted
    <2>4. Cardinality(Faulty(q, ps)) = Cardinality(Faulty(p, ps)) - Cardinality(W)
      <3>1. /\ Cardinality(Faulty(p, ps) \ W) 
                   = Cardinality(Faulty(p, ps)) - Cardinality(Faulty(p, ps) \cap W)
            /\ Faulty(p, ps) \cap W = W
        BY <2>1, <2>3, FS_Difference
      <3> QED BY <2>1, <3>1
    <2>5. Cardinality(q.members) = Cardinality(p.members) - Cardinality(W)
      <3>1. /\ Cardinality(p.members \ W) = Cardinality(p.members) - Cardinality(p.members \cap W)
            /\ p.members \cap W = W
        BY <1>2, <2>3, FS_Difference
      <3> QED BY <1>3, <3>1
    <2>6. p.spawned \in Nat /\ p.desired \in Nat /\ p.faults \in Nat
      BY <1>0, PoolAssumption DEF PoolType
    <2> DEFINE c == Cardinality(Faulty(p, ps))
               m == Cardinality(p.members)
               k == Cardinality(W)
    <2>7. ~p.destroyed => /\ p.spawned + c <= Desired + p.faults
                          /\ p.spawned + p.desired + c <= Desired + p.faults + m
      BY DEF Core, SparesHold
    <2>8. c \in Nat /\ m \in Nat /\ k \in Nat
      BY <2>3
    <2> HIDE DEF c, m, k
    <2>9. ~p.destroyed => /\ p.spawned + (c - k) <= Desired + p.faults
                          /\ p.spawned + p.desired + (c - k) <= Desired + p.faults + (m - k)
      BY <2>6, <2>7, <2>8, PoolAssumption
    <2> QED BY <1>3, <2>4, <2>5, <2>9 DEF SparesHold, SameFlags, c, m, k
  <1>8. ProcessesHold(q, ps) BY <1>3 DEF Core, ProcessesHold
  <1>9. SerialIn(q, X) BY <1>3 DEF Core, SerialIn, SameJobs
  <1>10. TimedIn(q, X) BY <1>3 DEF Core, TimedIn, SameFlags
  <1>11. Waiting(p, X) => Waiting(q, X)
    BY <1>3 DEF Waiting, Free, Idle, SameJobs
  <1>12. q.destroyed = p.destroyed /\ q.respawn = p.respawn
    BY <1>3 DEF SameFlags
  <1> QED BY <1>3, <1>4, <1>5, <1>6, <1>7, <1>8, <1>9, <1>10, <1>11, <1>12 DEF Core, q

\* The ids of n new workers.
LEMMA Block ==
  ASSUME NEW a \in Nat, NEW n \in Nat
  PROVE  IsFiniteSet((a + 1)..(a + n)) /\ Cardinality((a + 1)..(a + n)) = n
  <1> DEFINE b == a + 1
             c == a + n
  <1>1. b \in Int /\ c \in Int /\ (b > c => n = 0) /\ c - b + 1 = n
    OBVIOUS
  <1> HIDE DEF b, c
  <1>2. IsFiniteSet(b..c) /\ Cardinality(b..c) = IF b > c THEN 0 ELSE c - b + 1
    BY <1>1, FS_Interval
  <1>3. IsFiniteSet(b..c) /\ Cardinality(b..c) = n
    BY <1>1, <1>2
  <1> QED BY <1>3 DEF b, c

\* There are ids enough for the workers that are missing.
LEMMA SpawnCore ==
  ASSUME NEW p, NEW ps, NEW X, Core(p, ps, X), ~p.destroyed, NEW n \in 0..Missing(p),
         NEW f \in {p.faults, p.faults + 1}, f <= MaxFaults
  PROVE  LET q == [Spawn(p, n) EXCEPT !.faults = f]
         IN  /\ Core(q, ps, X) /\ q.destroyed = p.destroyed /\ q.respawn = p.respawn
             /\ n = Missing(p) => Full(q)
             /\ Waiting(p, X) => Waiting(q, X)
  <1> DEFINE W == (p.spawned + 1)..(p.spawned + n)
             q == [Spawn(p, n) EXCEPT !.faults = f]
             c == Cardinality(Faulty(p, ps))
             m == Cardinality(p.members)
  <1>0. p \in PoolType BY DEF Core
  <1>1. q = [p EXCEPT !.spawned = p.spawned + n, !.members = p.members \cup W,
                      !.starting = p.starting \cup W, !.faults = f]
    BY DEF Spawn
  <1>2. /\ p.spawned \in Nat /\ p.desired \in Nat /\ p.faults \in Nat
        /\ c \in Nat /\ m \in Nat /\ IsFiniteSet(p.members) /\ p.faults <= MaxFaults
    <2>1. Faulty(p, ps) \in SUBSET Ids /\ p.members \in SUBSET Ids
      BY <1>0 DEF Faulty, PoolType
    <2>2. p.spawned \in Nat /\ p.desired \in Nat /\ p.faults \in 0..MaxFaults
      BY <1>0, PoolAssumption DEF PoolType
    <2> QED BY <2>1, <2>2, Counted, PoolAssumption
  <1>3. /\ p.spawned + c <= Desired + p.faults
        /\ p.spawned + p.desired + c <= Desired + p.faults + m
    BY DEF Core, SparesHold
  <1>4. /\ n \in Nat /\ (n = 0 \/ n <= p.desired - m) /\ Missing(p) \in Nat
        /\ n = Missing(p) => m + n >= p.desired
    BY <1>2 DEF Missing
  <1>5. f \in Nat /\ f >= p.faults
    BY <1>2
  <1> HIDE DEF c, m
  <1>6. /\ p.spawned + n \in 0..(Desired + MaxFaults)
        /\ p.spawned + n + c <= Desired + f
        /\ p.spawned + n + p.desired + c <= Desired + f + (m + n)
    BY <1>2, <1>3, <1>4, <1>5, PoolAssumption
  <1>7. /\ W \in SUBSET Ids /\ IsFiniteSet(W) /\ Cardinality(W) = n
        /\ \A w \in W : w > p.spawned /\ w <= p.spawned + n
        /\ W \cap (1..p.spawned) = {} /\ 1..p.spawned \subseteq 1..(p.spawned + n)
        /\ W \subseteq 1..(p.spawned + n)
    <2>2. IsFiniteSet(W) /\ Cardinality(W) = n
      BY <1>2, <1>4, Block
    <2>3. \A w \in W : /\ w \in Nat /\ w >= 1 /\ w <= Desired + MaxFaults
                      /\ w > p.spawned /\ w <= p.spawned + n
      <3>1. p.spawned + n <= Desired + MaxFaults
        BY <1>2, <1>6, PoolAssumption
      <3>2. \A w \in W : w \in Int /\ w >= p.spawned + 1 /\ w <= p.spawned + n
        BY <1>2, <1>4
      <3>3. Desired + MaxFaults \in Int /\ p.spawned + n \in Int /\ p.spawned \in Nat
        BY <1>2, <1>4, PoolAssumption
      <3> HIDE DEF W
      <3> QED BY <3>1, <3>2, <3>3
    <2>4. W \in SUBSET Ids
      BY <2>3, PoolAssumption DEF Ids
    <2> QED BY <1>2, <1>4, <2>2, <2>3, <2>4
  <1> HIDE DEF W, q
  <1>8. f \in 0..MaxFaults
    BY <1>5, PoolAssumption
  <1>9. /\ q \in PoolType /\ SameJobs(p, q) /\ q.desired = p.desired
        /\ q.status = p.status /\ q.respawn = p.respawn /\ q.destroyed = p.destroyed
        /\ q.asked = p.asked /\ q.faults = f /\ q.failed = p.failed
        /\ q.members = p.members \cup W /\ q.starting = p.starting \cup W
        /\ q.ready = p.ready /\ q.stopping = p.stopping /\ q.recorded = p.recorded
        /\ q.quitting = p.quitting /\ q.unborn = p.unborn /\ q.spawned = p.spawned + n
        /\ q.killed = p.killed
    <2> DEFINE M == p.members \cup W
               S == p.starting \cup W
               k == p.spawned + n
    <2>1. M \in SUBSET Ids /\ S \in SUBSET Ids /\ k \in 0..(Desired + MaxFaults)
      BY <1>0, <1>6, <1>7 DEF PoolType
    <2>2. q = [p EXCEPT !.spawned = k, !.members = M, !.starting = S, !.faults = f]
      BY <1>1
    <2> HIDE DEF M, S, k
    <2>3. /\ q \in PoolType /\ SameJobs(p, q) /\ q.desired = p.desired
          /\ q.status = p.status /\ q.respawn = p.respawn /\ q.destroyed = p.destroyed
          /\ q.asked = p.asked /\ q.faults = f /\ q.failed = p.failed
          /\ q.members = M /\ q.starting = S
          /\ q.ready = p.ready /\ q.stopping = p.stopping /\ q.recorded = p.recorded
          /\ q.quitting = p.quitting /\ q.unborn = p.unborn /\ q.spawned = k
          /\ q.killed = p.killed
      BY <1>0, <1>8, <2>1, <2>2 DEF PoolType, SameJobs
    <2> QED BY <2>3 DEF M, S, k
  <1>10. /\ p.members \cup p.ready \cup p.stopping \cup p.recorded \cup p.killed \cup p.unborn
              \subseteq 1..p.spawned
         /\ W \cap (p.members \cup p.ready \cup p.stopping \cup p.killed \cup p.unborn) = {}
    BY <1>7 DEF Core, WorkersHold
  <1>11. \A w \in W : ps[w] = [at |-> "booting", late |-> FALSE] /\ p.sent[w] = <<>>
    BY <1>7, <1>10 DEF Core, ProcessesHold, WorkersHold
  <1>12. Cardinality(q.members) = m + n
    <2>1. p.members \cap W = {}
      BY <1>10
    <2>2. Cardinality(p.members \cup W)
            = Cardinality(p.members) + Cardinality(W) - Cardinality(p.members \cap W)
      BY <1>2, <1>7, FS_Union
    <2>3. Cardinality(p.members \cap W) = 0
      BY <2>1, FS_EmptySet
    <2>4. Cardinality(q.members) = m + Cardinality(W) - 0
      BY <1>9, <2>2, <2>3 DEF m
    <2> QED BY <1>2, <1>4, <1>7, <2>4
  <1>13. OwnIn(q) BY <1>9 DEF Core, OwnIn, SameJobs
  <1>14. JobsHold(q)
    <2>1. JobsHold(p)
      BY DEF Core
    <2> QED BY <1>9, <2>1 DEF JobsHold, SameJobs
  <1>15. WorkersHold(q)
    <2>1. WorkersHold(p)
      BY DEF Core
    <2>2. q.members \cup q.ready \cup q.stopping \cup q.recorded \cup q.killed \cup q.unborn
            \subseteq 1..q.spawned
      BY <1>7, <1>9, <1>10
    <2> QED BY <1>9, <1>10, <2>1, <2>2 DEF WorkersHold, SameJobs
  <1>16. SparesHold(q, ps)
    <2>1. Faulty(q, ps) = Faulty(p, ps)
      BY <1>9, <1>10, <1>11 DEF Faulty
    <2> QED BY <1>6, <1>9, <1>12, <2>1 DEF SparesHold, c
  <1>17. ProcessesHold(q, ps)
    <2>1. \A w \in Ids : w > p.spawned + n => w > p.spawned
      BY <1>2, <1>4, PoolAssumption DEF Ids
    <2> QED BY <1>9, <1>11, <2>1 DEF Core, ProcessesHold
  <1>18. SerialIn(q, X)
    BY <1>9, <1>11 DEF Core, SerialIn, SameJobs, Range
  <1>19. TimedIn(q, X) BY <1>9 DEF Core, TimedIn
  <1>20. Waiting(p, X) => Waiting(q, X)
    BY <1>9, <1>10 DEF Waiting, Free, Idle, SameJobs
  <1>21. n = Missing(p) => Full(q)
    BY <1>4, <1>9, <1>12 DEF Full
  <1> QED BY <1>9, <1>13, <1>14, <1>15, <1>16, <1>17, <1>18, <1>19, <1>20, <1>21 DEF Core, q
\* The pool is filled, or a respawn is due.
LEMMA EnsureCore ==
  ASSUME NEW p, NEW ps, NEW X, Core(p, ps, X), NEW q \in EnsureWorkerCount(p)
  PROVE  /\ Core(q, ps, X) /\ Full(q) /\ q.destroyed = p.destroyed
         /\ TrueIn(p) \/ ~p.respawn => TrueIn(q)
         /\ p.respawn => q = p
         /\ Waiting(p, X) => Waiting(q, X)
  <1>1. CASE p.destroyed \/ p.respawn
    <2>1. q = p
      BY <1>1 DEF EnsureWorkerCount
    <2> QED BY <1>1, <2>1 DEF Full, TrueIn
  <1>2. CASE ~p.destroyed /\ ~p.respawn
    <2> DEFINE g == PurgeKilledIdleWorkers(p)
               n == Missing(g)
    <2>1. q = Refresh(Spawn(g, n)) \/ q \in SpawnsFail(g)
      BY <1>2 DEF EnsureWorkerCount
    <2>2. /\ Core(g, ps, X) /\ g.destroyed = p.destroyed /\ g.respawn = p.respawn
          /\ Waiting(p, X) => Waiting(g, X)
      BY PurgeCore
    <2> HIDE DEF g
    <2>3. g \in PoolType /\ g.faults \in 0..MaxFaults /\ n \in Nat
      <3>1. g \in PoolType /\ g.faults \in 0..MaxFaults
        BY <2>2 DEF Core, PoolType
      <3>2. g.members \in SUBSET Ids /\ g.desired \in Nat
        BY <3>1, PoolAssumption DEF PoolType
      <3>3. Cardinality(g.members) \in Nat
        BY <3>2, Counted
      <3> QED BY <3>1, <3>2, <3>3 DEF Missing
    <2>4. CASE q = Refresh(Spawn(g, n))
      <3> DEFINE s == Spawn(g, n)
                 t == [s EXCEPT !.faults = g.faults]
      <3>1. n \in 0..Missing(g) /\ g.faults <= MaxFaults
        BY <2>3
      <3> HIDE DEF n
      <3>2. /\ Core(t, ps, X) /\ t.destroyed = g.destroyed /\ t.respawn = g.respawn
            /\ n = Missing(g) => Full(t)
            /\ Waiting(g, X) => Waiting(t, X)
        BY <1>2, <2>2, <3>1, SpawnCore
      <3>3. t = s
        BY <2>3 DEF Spawn, PoolType
      <3> HIDE DEF s, t
      <3>4. /\ Core(q, ps, X) /\ TrueIn(q) /\ Keeps(t, q)
            /\ q.respawn = t.respawn /\ q.members = t.members /\ q.desired = t.desired
            /\ Waiting(t, X) => Waiting(q, X)
        BY <2>4, <3>2, <3>3, RefreshCore DEF s
      <3>5. Full(t) => Full(q)
        BY <3>4 DEF Full, Keeps
      <3> QED BY <1>2, <2>2, <3>2, <3>4, <3>5 DEF n, Keeps
    <2>5. CASE q \in SpawnsFail(g)
      <3>1. /\ g.faults < MaxFaults
            /\ \E m \in 0..(Missing(g) - 1), oom \in BOOLEAN :
                 \E r \in RecordWorkerFailure([Spawn(g, m) EXCEPT !.faults = g.faults + 1], oom) :
                   q = ScheduleRespawn(r)
        <4>1. \A m : [Spawn(g, m) EXCEPT !.faults = @ + 1]
                       = [Spawn(g, m) EXCEPT !.faults = g.faults + 1]
          BY DEF Spawn
        <4>2. ~(g.faults >= MaxFaults)
          BY <2>5 DEF SpawnsFail
        <4>3. PICK r \in UNION {UNION {RecordWorkerFailure(u, oom) : oom \in BOOLEAN} :
                    u \in {[Spawn(g, m) EXCEPT !.faults = @ + 1] : m \in 0..(Missing(g) - 1)}} :
                q = ScheduleRespawn(r)
          BY <2>5, <4>2 DEF SpawnsFail
        <4>4. PICK m \in 0..(Missing(g) - 1), oom \in BOOLEAN :
                r \in RecordWorkerFailure([Spawn(g, m) EXCEPT !.faults = @ + 1], oom)
          BY <4>3
        <4> QED BY <2>3, <4>1, <4>2, <4>3, <4>4, PoolAssumption
      <3>2. PICK m \in 0..(Missing(g) - 1), oom \in BOOLEAN :
              \E r \in RecordWorkerFailure([Spawn(g, m) EXCEPT !.faults = g.faults + 1], oom) :
                q = ScheduleRespawn(r)
        BY <3>1
      <3> DEFINE t == [Spawn(g, m) EXCEPT !.faults = g.faults + 1]
      <3>3. PICK r \in RecordWorkerFailure(t, oom) : q = ScheduleRespawn(r)
        BY <3>2
      <3>4. m \in 0..Missing(g) /\ g.faults + 1 <= MaxFaults
        BY <2>3, <3>1, PoolAssumption
      <3>5. /\ Core(t, ps, X) /\ t.destroyed = g.destroyed /\ t.respawn = g.respawn
            /\ Waiting(g, X) => Waiting(t, X)
        BY <1>2, <2>2, <3>4, SpawnCore
      <3> HIDE DEF t
      <3>6. Passes(t, ps, r, X) /\ TrueIn(r)
        BY <3>3, <3>5, RecordCore
      <3>7. /\ Core(q, ps, X) /\ Keeps(r, q) /\ Full(q) /\ (TrueIn(r) => TrueIn(q))
            /\ Waiting(r, X) => Waiting(q, X)
        BY <3>3, <3>6, ScheduleCore DEF Passes
      <3> QED BY <1>2, <2>2, <3>5, <3>6, <3>7 DEF Passes, Keeps
    <2> QED BY <2>1, <2>4, <2>5
  <1> QED BY <1>1, <1>2
-----------------------------------------------------------------------------
(* Dispatching                                                             *)

\* The place of a free worker among the free workers, and those for whom there
\* is a job.
Rank(p) == [w \in Free(p) |-> Cardinality({v \in Free(p) : v <= w})]

Taken(p) == {w \in Free(p) : Rank(p)[w] <= Len(p.pending)}

\* As many are taken as there are jobs, or all.
LEMMA TakenRanks ==
  ASSUME NEW p \in PoolType
  PROVE  /\ Taken(p) \subseteq Free(p) /\ Free(p) \subseteq Ids
         /\ Cardinality(Taken(p)) \in 0..Len(p.pending)
         /\ \A w \in Taken(p) : Rank(p)[w] \in 1..Cardinality(Taken(p))
         /\ \A v, w \in Taken(p) : Rank(p)[v] = Rank(p)[w] => v = w
         /\ \A i \in 1..Cardinality(Taken(p)) : \E w \in Taken(p) : Rank(p)[w] = i
         /\ Cardinality(Taken(p)) < Len(p.pending) => Taken(p) = Free(p)
  <1> DEFINE F == Free(p)
             r == Rank(p)
             n == Len(p.pending)
  <1>1. F \in SUBSET Ids /\ F \in SUBSET Nat
    BY PoolAssumption DEF Free, Idle, PoolType, Ids
  <1>2. IsFiniteSet(F) /\ n \in Nat
    <2>1. p.pending \in Seq(Jobs)
      BY DEF PoolType
    <2> QED BY <1>1, <2>1, Counted
  <1>3. r = [w \in F |-> Cardinality({v \in F : v <= w})]
    BY DEF Rank
  <1>4. Taken(p) = {w \in F : r[w] <= n}
    BY DEF Taken
  <1> HIDE DEF F, r, n
  <1>5. r \in [F -> 1..Cardinality(F)] /\ IsInjective(r)
    BY <1>1, <1>2, <1>3, FirstRanks
  <1> DEFINE W == {w \in F : r[w] <= n}
  <1>6. /\ IsFiniteSet(W) /\ Cardinality(W) \in 0..n
        /\ \A w \in W : r[w] \in 1..Cardinality(W)
        /\ \A i \in 1..Cardinality(W) : \E w \in W : r[w] = i
        /\ Cardinality(W) < n => W = F
    BY <1>2, <1>5, LowRanks
  <1>7. \A v, w \in W : r[v] = r[w] => v = w
    BY <1>5 DEF IsInjective
  <1>8. W \subseteq F /\ W = Taken(p)
    BY <1>4
  <1> HIDE DEF W
  <1> QED BY <1>1, <1>6, <1>7, <1>8 DEF F, r, n

\* The jobs go from the head of the queue to the workers that are taken.
LEMMA AssignFields ==
  ASSUME NEW p \in PoolType
  PROVE  LET q == Assign(p)
             k == Cardinality(Taken(p))
         IN  /\ q \in PoolType /\ SameWorkers(p, q) /\ SameFlags(p, q) /\ q.answer = p.answer
             /\ \A w \in Taken(p) : p.pending[Rank(p)[w]] \in Jobs
             /\ \A w \in Ids : q.job[w] = IF w \in Taken(p) THEN p.pending[Rank(p)[w]]
                                          ELSE p.job[w]
             /\ \A w \in Ids : q.sent[w] = IF w \in Taken(p)
                                           THEN Append(p.sent[w], p.pending[Rank(p)[w]])
                                           ELSE p.sent[w]
             /\ Len(q.pending) = Len(p.pending) - k
             /\ \A i \in 1..(Len(p.pending) - k) : q.pending[i] = p.pending[i + k]
  <1> DEFINE q == Assign(p)
             W == Taken(p)
             r == Rank(p)
             n == Len(p.pending)
             k == Cardinality(W)
             job == [w \in Ids |-> IF w \in W THEN p.pending[r[w]] ELSE p.job[w]]
             sent == [w \in Ids |-> IF w \in W THEN Append(p.sent[w], p.pending[r[w]])
                                    ELSE p.sent[w]]
             pending == SubSeq(p.pending, k + 1, n)
  <1>1. /\ W \subseteq Free(p) /\ Free(p) \subseteq Ids /\ k \in 0..n
        /\ \A w \in W : r[w] \in 1..k
    BY TakenRanks
  <1>2. n \in Nat /\ p.pending \in Seq(Jobs)
    <2>1. p.pending \in Seq(Jobs)
      BY DEF PoolType
    <2> QED BY <2>1
  <1>3. q = [p EXCEPT !.job = job, !.sent = sent, !.pending = pending]
    <2> DEFINE rank(w) == Cardinality({v \in Free(p) : v <= w})
               V == {w \in Free(p) : rank(w) <= Len(p.pending)}
               j == [w \in Ids |-> IF w \in V THEN p.pending[rank(w)] ELSE p.job[w]]
               s == [w \in Ids |-> IF w \in V THEN Append(p.sent[w], p.pending[rank(w)])
                                   ELSE p.sent[w]]
    <2>1. \A w \in Free(p) : r[w] = rank(w)
      BY DEF Rank
    <2>2. V = W
      BY <2>1 DEF Taken
    <2>3. q = [p EXCEPT !.job = j, !.sent = s,
                        !.pending = SubSeq(p.pending, Cardinality(V) + 1, Len(p.pending))]
      BY DEF Assign
    <2> HIDE DEF rank, V, W, r
    <2>4. \A w \in W : r[w] = rank(w)
      BY <1>1, <2>1
    <2>5. j = job /\ s = sent
      BY <2>2, <2>4
    <2> HIDE DEF j, s, q, job, sent
    <2> QED BY <2>2, <2>3, <2>5
  <1> HIDE DEF W, r, k, n
  <1>4. \A w \in W : p.pending[r[w]] \in Jobs
    <2> TAKE w \in W
    <2>1. r[w] \in 1..n
      BY <1>1, <1>2
    <2> QED BY <1>2, <2>1 DEF n
  <1>5. job \in [Ids -> Jobs \cup {NoJob}]
    BY <1>4 DEF PoolType
  <1>6. sent \in [Ids -> Seq(Jobs \cup {NoJob})]
    <2>1. ASSUME NEW w \in W PROVE Append(p.sent[w], p.pending[r[w]]) \in Seq(Jobs \cup {NoJob})
      <3>1. p.sent[w] \in Seq(Jobs \cup {NoJob}) /\ p.pending[r[w]] \in Jobs \cup {NoJob}
        BY <1>1, <1>4 DEF PoolType
      <3> QED BY <3>1
    <2> QED BY <2>1 DEF PoolType
  <1>7. /\ pending \in Seq(Jobs) /\ Len(pending) = n - k
        /\ \A i \in 1..(n - k) : pending[i] = p.pending[i + k]
    <2>1. k \in Nat /\ n \in Nat /\ k <= n
      BY <1>1, <1>2
    <2>2. \A i \in (k + 1)..n : p.pending[i] \in Jobs
      BY <1>2, <2>1 DEF n
    <2>3. /\ Len(pending) = n - k /\ pending \in Seq(Jobs)
          /\ \A i \in 1..(n - k) : pending[i] = p.pending[(k + 1) + i - 1]
      BY <1>2, <2>1, <2>2 DEF n
    <2>4. \A i \in 1..(n - k) : (k + 1) + i - 1 = i + k
      BY <2>1
    <2> QED BY <2>3, <2>4
  <1>8. /\ \A w \in Ids : job[w] = IF w \in W THEN p.pending[r[w]] ELSE p.job[w]
        /\ \A w \in Ids : sent[w] = IF w \in W THEN Append(p.sent[w], p.pending[r[w]])
                                    ELSE p.sent[w]
    OBVIOUS
  <1> HIDE DEF job, sent, pending, q
  <1>9. /\ q \in PoolType /\ SameWorkers(p, q) /\ SameFlags(p, q) /\ q.answer = p.answer
        /\ q.job = job /\ q.sent = sent /\ q.pending = pending
    BY <1>3, <1>5, <1>6, <1>7 DEF PoolType, SameWorkers, SameFlags
  <1> QED BY <1>4, <1>7, <1>8, <1>9 DEF q, W, r, n, k
\* A job that is dispatched has left the queue and is where it was sent.
LEMMA AssignCore ==
  ASSUME NEW p, NEW ps, Core(p, ps, {}), ~p.destroyed
  PROVE  LET q == Assign(p)
         IN  /\ Core(q, ps, {}) /\ Waiting(q, {}) /\ Keeps(p, q) /\ q.members = p.members
             /\ q.respawn = p.respawn
             /\ Full(p) => Full(q)
             /\ TrueIn(p) => TrueIn(q)
  <1> DEFINE q == Assign(p)
             W == Taken(p)
             r == Rank(p)
             n == Len(p.pending)
             k == Cardinality(W)
  <1>0. p \in PoolType BY DEF Core
  <1>1. /\ W \subseteq Free(p) /\ Free(p) \subseteq Ids /\ k \in 0..n
        /\ \A w \in W : r[w] \in 1..k
        /\ \A v, w \in W : r[v] = r[w] => v = w
        /\ \A i \in 1..k : \E w \in W : r[w] = i
        /\ k < n => W = Free(p)
    BY <1>0, TakenRanks
  <1>2. /\ q \in PoolType /\ SameWorkers(p, q) /\ SameFlags(p, q) /\ q.answer = p.answer
        /\ \A w \in W : p.pending[r[w]] \in Jobs
        /\ \A w \in Ids : q.job[w] = IF w \in W THEN p.pending[r[w]] ELSE p.job[w]
        /\ \A w \in Ids : q.sent[w] = IF w \in W THEN Append(p.sent[w], p.pending[r[w]])
                                      ELSE p.sent[w]
        /\ Len(q.pending) = n - k
        /\ \A i \in 1..(n - k) : q.pending[i] = p.pending[i + k]
    BY <1>0, AssignFields
  <1>3. /\ n \in Nat /\ p.pending \in Seq(Jobs) /\ q.pending \in Seq(Jobs)
        /\ DOMAIN p.pending = 1..n /\ DOMAIN q.pending = 1..(n - k)
    <2>1. p.pending \in Seq(Jobs) /\ q.pending \in Seq(Jobs)
      BY <1>0, <1>2 DEF PoolType
    <2> QED BY <1>2, <2>1
  <1> HIDE DEF q, W, r, n, k
  <1>4. \A w \in W : /\ w \in Ids /\ w \in p.members /\ w \in p.ready /\ p.job[w] = NoJob
                     /\ r[w] \in 1..n
    <2>1. \A w \in W : w \in Ids /\ w \in p.members /\ w \in p.ready /\ p.job[w] = NoJob
      BY <1>1 DEF Free, Idle
    <2>2. \A i \in 1..k : i \in 1..n
      BY <1>1, <1>3
    <2> QED BY <1>1, <2>1, <2>2
  <1>5. \A i \in 1..n : \A j \in 1..n : p.pending[i] = p.pending[j] => i = j
    BY <1>3 DEF Core, JobsHold, IsInjective
  <1>6. \A i \in 1..(n - k) : i + k \in 1..n /\ i + k > k
    BY <1>1, <1>3
  <1>7. \A i \in 1..n : /\ p.pending[i] \in Jobs /\ p.pending[i] <= p.asked
                        /\ p.answer[p.pending[i]] = NoJob
                        /\ \A w \in Ids : p.job[w] # p.pending[i]
    BY <1>3 DEF Core, JobsHold
  <1>8. NoJob \notin Jobs
    BY PoolAssumption DEF Jobs
  <1>9. \A w \in W : \A i \in 1..(n - k) : p.pending[r[w]] # q.pending[i]
    <2> TAKE w \in W
    <2> TAKE i \in 1..(n - k)
    <2>1. r[w] # i + k
      <3>1. r[w] \in 1..k /\ i + k > k /\ k \in Nat /\ i + k \in 1..n
        BY <1>1, <1>3, <1>6
      <3> QED BY <3>1
    <2> QED BY <1>2, <1>4, <1>5, <1>6, <2>1
  <1>10. OwnIn(q) BY <1>2 DEF Core, OwnIn
  <1>11. JobsHold(q)
    <2>1. IsInjective(q.pending)
      <3> SUFFICES ASSUME NEW i \in 1..(n - k), NEW j \in 1..(n - k), q.pending[i] = q.pending[j]
                   PROVE  i = j
        BY <1>3 DEF IsInjective
      <3>1. i + k = j + k
        BY <1>2, <1>5, <1>6
      <3> QED BY <1>1, <1>3, <3>1
    <2>2. \A i \in DOMAIN q.pending :
            /\ q.pending[i] <= q.asked /\ q.answer[q.pending[i]] = NoJob
            /\ \A w \in Ids : q.job[w] # q.pending[i]
      <3> SUFFICES ASSUME NEW i \in 1..(n - k)
                   PROVE  /\ q.pending[i] <= q.asked /\ q.answer[q.pending[i]] = NoJob
                          /\ \A w \in Ids : q.job[w] # q.pending[i]
        BY <1>3
      <3>1. q.pending[i] = p.pending[i + k] /\ i + k \in 1..n
        BY <1>2, <1>6
      <3> QED BY <1>2, <1>7, <1>9, <3>1 DEF SameFlags
    <2>3. \A w \in Ids : q.job[w] # NoJob =>
            /\ q.job[w] <= q.asked /\ q.answer[q.job[w]] = NoJob
            /\ w \in q.members \cap q.ready
            /\ \A v \in Ids : q.job[v] = q.job[w] => v = w
      <3> TAKE w \in Ids
      <3> HAVE q.job[w] # NoJob
      <3>1. CASE w \in W
        <4>1. q.job[w] = p.pending[r[w]] /\ r[w] \in 1..n
          BY <1>2, <1>4, <3>1
        <4>2. ASSUME NEW v \in Ids, q.job[v] = q.job[w] PROVE v = w
          <5>1. CASE v \in W
            BY <1>1, <1>2, <1>4, <1>5, <3>1, <4>1, <4>2, <5>1
          <5>2. CASE v \notin W
            BY <1>2, <1>7, <4>1, <4>2, <5>2
          <5> QED BY <5>1, <5>2
        <4>3. w \in q.members \cap q.ready
          BY <1>2, <1>4, <3>1 DEF SameWorkers
        <4>4. q.job[w] <= q.asked /\ q.answer[q.job[w]] = NoJob
          BY <1>2, <1>7, <4>1 DEF SameFlags
        <4> QED BY <4>2, <4>3, <4>4
      <3>2. CASE w \notin W
        <4>1. q.job[w] = p.job[w]
          BY <1>2, <3>2
        <4>2. /\ p.job[w] <= p.asked /\ p.answer[p.job[w]] = NoJob
              /\ w \in p.members \cap p.ready
              /\ \A v \in Ids : p.job[v] = p.job[w] => v = w
          BY <4>1 DEF Core, JobsHold
        <4>3. ASSUME NEW v \in Ids, q.job[v] = q.job[w] PROVE v = w
          <5>1. CASE v \in W
            BY <1>2, <1>4, <1>7, <4>1, <4>3, <5>1
          <5>2. CASE v \notin W
            BY <1>2, <4>1, <4>2, <4>3, <5>2
          <5> QED BY <5>1, <5>2
        <4> QED BY <1>2, <4>1, <4>2, <4>3 DEF SameWorkers, SameFlags
      <3> QED BY <3>1, <3>2
    <2>4. \A j \in Jobs : q.answer[j] = NoJob =>
            j \in Range(q.pending) \cup Range(q.job) \/ j > q.asked
      <3> TAKE j \in Jobs
      <3> HAVE q.answer[j] = NoJob
      <3>0. DOMAIN q.job = Ids /\ DOMAIN p.job = Ids
        BY <1>0, <1>2 DEF PoolType
      <3>1. j \in Range(p.pending) \/ j \in Range(p.job) \/ j > p.asked
        BY <1>2 DEF Core, JobsHold
      <3>2. CASE j \in Range(p.pending)
        <4>1. PICK i \in 1..n : p.pending[i] = j
          BY <1>3, <3>2 DEF Range
        <4>2. CASE i <= k
          <5>1. i \in 1..k
            BY <1>1, <1>3, <4>2
          <5>2. PICK w \in W : r[w] = i
            BY <1>1, <5>1
          <5>3. q.job[w] = j /\ w \in Ids
            BY <1>2, <1>4, <4>1, <5>2
          <5> QED BY <3>0, <5>3 DEF Range
        <4>3. CASE i > k
          <5>1. i - k \in 1..(n - k) /\ (i - k) + k = i
            BY <1>1, <1>3, <4>3
          <5>2. q.pending[i - k] = j
            BY <1>2, <4>1, <5>1
          <5> QED BY <1>3, <5>1, <5>2 DEF Range
        <4> QED BY <1>1, <1>3, <4>2, <4>3
      <3>3. CASE j \in Range(p.job)
        <4>1. PICK w \in Ids : p.job[w] = j
          BY <3>0, <3>3 DEF Range
        <4>2. q.job[w] = j
          BY <1>2, <1>4, <1>8, <4>1
        <4> QED BY <3>0, <4>2 DEF Range
      <3> QED BY <1>2, <3>1, <3>2, <3>3 DEF SameFlags
    <2>5. \A j \in Jobs : j > q.asked => q.answer[j] = NoJob
      BY <1>2 DEF Core, JobsHold, SameFlags
    <2>6. \A w \in Ids : \A j \in Range(q.sent[w]) \ {NoJob} :
            q.job[w] = j \/ q.answer[j] # NoJob
      <3> TAKE w \in Ids
      <3>1. CASE w \in W
        <4>1. /\ p.sent[w] \in Seq(Jobs \cup {NoJob})
              /\ p.pending[r[w]] \in Jobs \cup {NoJob}
          BY <1>0, <1>2, <3>1 DEF PoolType
        <4>2. Range(q.sent[w]) = Range(p.sent[w]) \cup {p.pending[r[w]]}
          BY <1>2, <3>1, <4>1, RangeAppend
        <4>3. \A j \in Range(p.sent[w]) \ {NoJob} : p.answer[j] # NoJob
          BY <1>4, <3>1 DEF Core, JobsHold
        <4> QED BY <1>2, <3>1, <4>2, <4>3
      <3>2. CASE w \notin W
        BY <1>2, <3>2 DEF Core, JobsHold
      <3> QED BY <3>1, <3>2
    <2> QED BY <2>1, <2>2, <2>3, <2>4, <2>5, <2>6 DEF JobsHold
  <1>12. WorkersHold(q)
    <2>1. WorkersHold(p)
      BY DEF Core
    <2>2. \A w \in Ids : /\ NoJob \in Range(q.sent[w]) => w \in q.stopping
                         /\ q.sent[w] # <<>> => w \in q.ready \cup q.stopping
      <3> TAKE w \in Ids
      <3>1. CASE w \in W
        <4>1. /\ p.sent[w] \in Seq(Jobs \cup {NoJob})
              /\ p.pending[r[w]] \in Jobs \cup {NoJob}
          BY <1>0, <1>2, <3>1 DEF PoolType
        <4>2. Range(q.sent[w]) = Range(p.sent[w]) \cup {p.pending[r[w]]}
          BY <1>2, <3>1, <4>1, RangeAppend
        <4>3. p.pending[r[w]] # NoJob
          BY <1>2, <1>8, <3>1
        <4> QED BY <1>2, <1>4, <2>1, <3>1, <4>2, <4>3 DEF WorkersHold, SameWorkers
      <3>2. CASE w \notin W
        BY <1>2, <2>1, <3>2 DEF WorkersHold, SameWorkers
      <3> QED BY <3>1, <3>2
    <2>3. p.pending = <<>> => q.pending = <<>>
      <3>1. ASSUME p.pending = <<>> PROVE q.pending = <<>>
        <4>1. n = 0
          BY <3>1 DEF n
        <4>2. k = 0
          BY <1>1, <4>1
        <4>3. Len(q.pending) = 0
          BY <1>2, <4>1, <4>2
        <4> QED BY <1>3, <4>3
      <3> QED BY <3>1
    <2>4. /\ q.members \cup q.ready \cup q.stopping \cup q.recorded \cup q.killed \cup q.unborn
               \subseteq 1..q.spawned
          /\ q.starting \subseteq q.members /\ q.quitting \subseteq q.stopping
          /\ q.unborn \cap q.ready = {}
          /\ ~q.destroyed /\ (~q.destroyed => q.members \cap q.stopping = {})
          /\ q.status = "unavailable" => q.pending = <<>>
      BY <1>2, <2>1, <2>3 DEF WorkersHold, SameWorkers, SameFlags
    <2> QED BY <2>2, <2>4 DEF WorkersHold
  <1>13. SparesHold(q, ps)
    <2>1. Faulty(q, ps) = Faulty(p, ps)
      BY <1>2 DEF Faulty, SameWorkers
    <2> QED BY <1>2, <2>1 DEF Core, SparesHold, SameWorkers, SameFlags
  <1>14. ProcessesHold(q, ps) BY <1>2 DEF Core, ProcessesHold, SameWorkers
  <1>15. SerialIn(q, {})
    <2> SUFFICES ASSUME NEW w \in p.members \ (p.killed \cup p.stopping)
                 PROVE  Len(q.sent[w]) <= 1 /\ Range(q.sent[w]) \ {NoJob} \subseteq {q.job[w]}
      BY <1>2 DEF SerialIn, SameWorkers
    <2>1. w \in Ids /\ Len(p.sent[w]) <= 1 /\ Range(p.sent[w]) \ {NoJob} \subseteq {p.job[w]}
      BY <1>0 DEF Core, SerialIn, PoolType
    <2>2. CASE w \in W
      <3>1. p.sent[w] \in Seq(Jobs \cup {NoJob}) /\ p.pending[r[w]] \in Jobs \cup {NoJob}
        BY <1>0, <1>2, <2>1, <2>2 DEF PoolType
      <3>2. p.sent[w] = <<>>
        <4>1. NoJob \notin Range(p.sent[w])
          BY <2>1 DEF Core, WorkersHold
        <4>2. Range(p.sent[w]) = {}
          BY <1>4, <2>1, <2>2, <4>1
        <4> QED BY <3>1, <4>2, RangeEmpty
      <3>3. Len(p.sent[w]) = 0 /\ Range(p.sent[w]) = {}
        BY <3>2 DEF Range
      <3>4. Range(q.sent[w]) = {q.job[w]} /\ Len(q.sent[w]) = 1
        <4>1. /\ Range(q.sent[w]) = Range(p.sent[w]) \cup {p.pending[r[w]]}
              /\ Len(q.sent[w]) = Len(p.sent[w]) + 1
          <5>1. q.sent[w] = Append(p.sent[w], p.pending[r[w]])
            BY <1>2, <2>1, <2>2
          <5>2. /\ Range(Append(p.sent[w], p.pending[r[w]]))
                     = Range(p.sent[w]) \cup {p.pending[r[w]]}
                /\ Len(Append(p.sent[w], p.pending[r[w]])) = Len(p.sent[w]) + 1
            BY <3>1, RangeAppend
          <5> QED BY <5>1, <5>2
        <4>2. q.job[w] = p.pending[r[w]]
          BY <1>2, <2>1, <2>2
        <4>3. Range(q.sent[w]) = {} \cup {q.job[w]} /\ Len(q.sent[w]) = 0 + 1
          BY <3>3, <4>1, <4>2
        <4> QED BY <4>3
      <3> QED BY <3>4
    <2>3. CASE w \notin W
      BY <1>2, <2>1, <2>3
    <2> QED BY <2>2, <2>3
  <1>16. TimedIn(q, {}) BY <1>2 DEF Core, TimedIn, SameWorkers, SameFlags
  <1>17. Waiting(q, {})
    <2> SUFFICES ASSUME q.pending # <<>> PROVE Free(q) = {}
      BY DEF Waiting
    <2>1. n - k # 0
      BY <1>2, <1>3
    <2>2. W = Free(p)
      BY <1>1, <1>3, <2>1
    <2>3. ASSUME NEW w \in Free(q) PROVE FALSE
      <3>1. w \in Ids /\ q.job[w] = NoJob /\ w \in p.members /\ w \in p.ready
        BY <1>0, <1>2, <2>3 DEF Free, Idle, SameWorkers, PoolType
      <3>2. CASE w \in W
        BY <1>2, <1>8, <3>1, <3>2
      <3>3. CASE w \notin W
        BY <1>2, <2>2, <3>1, <3>3 DEF Free, Idle
      <3> QED BY <3>2, <3>3
    <2> QED BY <2>3
  <1>18. Keeps(p, q)
    <2>1. \A w \in Ids \ p.members : q.sent[w] = p.sent[w]
      BY <1>2, <1>4
    <2> QED BY <1>2, <2>1 DEF Keeps, SameWorkers, SameFlags
  <1>19. (Full(p) => Full(q)) /\ (TrueIn(p) => TrueIn(q))
    <2>1. Resolve(q) = Resolve(p)
      BY <1>2 DEF Resolve, ReadyMembers, SameWorkers, SameFlags
    <2> QED BY <1>2, <2>1 DEF Full, TrueIn, SameWorkers, SameFlags
  <1>20. q.members = p.members /\ q.respawn = p.respawn
    BY <1>2 DEF SameWorkers, SameFlags
  <1> QED BY <1>2, <1>10, <1>11, <1>12, <1>13, <1>14, <1>15, <1>16, <1>17, <1>18, <1>19, <1>20
          DEF Core, q

\* A dispatch fills the pool, and no job waits beside a free worker.
LEMMA DispatchCore ==
  ASSUME NEW p, NEW ps, Core(p, ps, {}), NEW q \in Dispatch(p)
  PROVE  /\ Core(q, ps, {}) /\ Waiting(q, {}) /\ Full(q)
         /\ TrueIn(p) \/ ~p.respawn => TrueIn(q)
         /\ p.respawn => Keeps(p, q) /\ q.members = p.members
  <1>1. CASE p.destroyed
    <2>1. q = p
      BY <1>1 DEF Dispatch
    <2>2. p.pending = <<>> /\ ~p.respawn
      BY <1>1 DEF Core, WorkersHold
    <2> QED BY <1>1, <2>1, <2>2 DEF Waiting, Full, TrueIn
  <1>2. CASE ~p.destroyed
    <2>1. PICK e \in EnsureWorkerCount(p) : q = Assign(e)
      BY <1>2 DEF Dispatch
    <2>2. /\ Core(e, ps, {}) /\ Full(e) /\ e.destroyed = p.destroyed
          /\ TrueIn(p) \/ ~p.respawn => TrueIn(e)
          /\ p.respawn => e = p
      BY EnsureCore
    <2>3. /\ Core(q, ps, {}) /\ Waiting(q, {}) /\ Keeps(e, q) /\ q.members = e.members
          /\ Full(e) => Full(q)
          /\ TrueIn(e) => TrueIn(q)
      BY <1>2, <2>1, <2>2, AssignCore
    <2> QED BY <2>2, <2>3
  <1> QED BY <1>1, <1>2
-----------------------------------------------------------------------------
(* The invariant                                                           *)

\* Between two handlers the parts are PoolInv.
LEMMA WholeIsInv == PoolInv <=> Whole(pool, process)
  <1>1. ASSUME PoolInv PROVE Whole(pool, process)
    <2>1. pool \in PoolType /\ process \in [Ids -> Process]
      BY <1>1 DEF PoolInv, TypeOK
    <2>2. /\ JobsHold(pool) /\ WorkersHold(pool) /\ SparesHold(pool, process)
          /\ ProcessesHold(pool, process) /\ OwnIn(pool) /\ TrueIn(pool)
      BY <1>1 DEF PoolInv, OwnResult, OwnIn, StatusIsTrue, TrueIn
    <2>3. SerialIn(pool, {})
      BY <1>1 DEF PoolInv, Serial, SerialIn
    <2>4. TimedIn(pool, {}) /\ Full(pool)
      BY <1>1 DEF PoolInv, NeverStranded, TimedIn, Full
    <2>5. Waiting(pool, {})
      BY <1>1 DEF PoolInv, NobodyIdles, Waiting
    <2> QED BY <2>1, <2>2, <2>3, <2>4, <2>5 DEF Whole, Core
  <1>2. ASSUME Whole(pool, process) PROVE PoolInv
    <2>1. /\ pool \in PoolType /\ process \in [Ids -> Process]
          /\ OwnIn(pool) /\ JobsHold(pool) /\ WorkersHold(pool) /\ SparesHold(pool, process)
          /\ ProcessesHold(pool, process) /\ SerialIn(pool, {}) /\ TimedIn(pool, {})
          /\ Waiting(pool, {}) /\ Full(pool) /\ TrueIn(pool)
      BY <1>2 DEF Whole, Core
    <2>2. NothingLost
      <3> DEFINE places(j) == {i \in 1..Len(pool.pending) : pool.pending[i] = j}
      <3>0. /\ DOMAIN pool.pending = 1..Len(pool.pending) /\ DOMAIN pool.job = Ids
            /\ pool.asked \in 0..MaxJobs
        <4>1. pool.pending \in Seq(Jobs) /\ pool.job \in [Ids -> Jobs \cup {NoJob}]
              /\ pool.asked \in 0..MaxJobs
          BY <2>1 DEF PoolType
        <4> QED BY <4>1
      <3>1. ASSUME NEW j \in 1..pool.asked
            PROVE  Cardinality(places(j)) + Cardinality(Holders(j))
                     = IF pool.answer[j] = NoJob THEN 1 ELSE 0
        <4>1. j \in Jobs /\ j <= pool.asked /\ ~(j > pool.asked)
          BY <3>0, PoolAssumption DEF Jobs
        <4>2. CASE pool.answer[j] # NoJob
          <5>1. places(j) = {} /\ Holders(j) = {}
            <6>1. \A i \in 1..Len(pool.pending) : pool.answer[pool.pending[i]] = NoJob
              BY <2>1, <3>0 DEF JobsHold
            <6>2. \A w \in Ids : pool.job[w] # NoJob => pool.answer[pool.job[w]] = NoJob
              BY <2>1 DEF JobsHold
            <6>3. j # NoJob
              BY <4>1, PoolAssumption DEF Jobs
            <6> QED BY <4>2, <6>1, <6>2, <6>3 DEF Holders
          <5> HIDE DEF places
          <5>2. Cardinality(places(j)) = 0 /\ Cardinality(Holders(j)) = 0
            BY <5>1, FS_EmptySet
          <5> QED BY <4>2, <5>2
        <4>3. CASE pool.answer[j] = NoJob
          <5>1. j \in Range(pool.pending) \/ j \in Range(pool.job)
            BY <2>1, <4>1, <4>3 DEF JobsHold
          <5>2. CASE j \in Range(pool.pending)
            <6>1. PICK i \in 1..Len(pool.pending) : pool.pending[i] = j
              BY <3>0, <5>2 DEF Range
            <6>2. places(j) = {i}
              BY <2>1, <3>0, <6>1 DEF JobsHold, IsInjective
            <6>3. Holders(j) = {}
              BY <2>1, <3>0, <6>1 DEF JobsHold, Holders
            <6> HIDE DEF places
            <6>4. Cardinality(places(j)) = 1
              BY <6>2, FS_Singleton
            <6>5. Cardinality(Holders(j)) = 0
              BY <6>3, FS_EmptySet
            <6> QED BY <4>3, <6>4, <6>5
          <5>3. CASE j \in Range(pool.job)
            <6>1. PICK w \in Ids : pool.job[w] = j
              BY <3>0, <5>3 DEF Range
            <6>2. Holders(j) = {w}
              <7>1. j # NoJob
                BY <4>1, PoolAssumption DEF Jobs
              <7> QED BY <2>1, <6>1, <7>1 DEF JobsHold, Holders
            <6>3. places(j) = {}
              BY <2>1, <3>0, <6>1 DEF JobsHold
            <6> HIDE DEF places
            <6>4. Cardinality(Holders(j)) = 1
              BY <6>2, FS_Singleton
            <6>5. Cardinality(places(j)) = 0
              BY <6>3, FS_EmptySet
            <6> QED BY <4>3, <6>4, <6>5
          <5> QED BY <5>1, <5>2, <5>3
        <4> QED BY <4>2, <4>3
      <3> QED BY <3>1 DEF NothingLost
    <2>3. NobodyIdles
      BY <2>1 DEF NobodyIdles, Waiting, WorkersHold
    <2>4. OwnResult /\ StatusIsTrue
      BY <2>1 DEF OwnResult, OwnIn, StatusIsTrue, TrueIn
    <2>5. Serial
      BY <2>1 DEF Serial, SerialIn
    <2>6. NeverStranded
      <3>1. \A w \in pool.members : process[w].at # "gone"
        BY <2>1 DEF ProcessesHold, PoolType
      <3> QED BY <2>1, <3>1 DEF NeverStranded, TimedIn, Full
    <2> QED BY <2>1, <2>2, <2>3, <2>4, <2>5, <2>6 DEF PoolInv, TypeOK
  <1> QED BY <1>1, <1>2

\* What a handler leaves behind satisfies PoolInv.
LEMMA WholeNext ==
  ASSUME NEW q, NEW ps, Whole(q, ps), pool' = q, process' = ps
  PROVE  PoolInv'
  <1>1. (PoolInv <=> Whole(pool, process))'
    BY WholeIsInv, PTL
  <1>2. Whole(pool', process')
    OBVIOUS
  <1> QED BY <1>1, <1>2
-----------------------------------------------------------------------------
(* What is heard of a worker                                               *)

\* One worker more can be at fault.
LEMMA OneMore ==
  ASSUME NEW F \in SUBSET Ids, NEW G \in SUBSET Ids, NEW w \in Ids, G \subseteq F \cup {w}
  PROVE  /\ Cardinality(G) \in Nat /\ Cardinality(F) \in Nat
         /\ Cardinality(G) <= Cardinality(F) + 1
         /\ G \subseteq F => Cardinality(G) <= Cardinality(F)
  <1>1. /\ IsFiniteSet(F) /\ IsFiniteSet(G) /\ Cardinality(F) \in Nat /\ Cardinality(G) \in Nat
    BY Counted
  <1> DEFINE H == F \cup {w}
  <1>2. IsFiniteSet(H) /\ Cardinality(H) = IF w \in F THEN Cardinality(F) ELSE Cardinality(F) + 1
    BY <1>1, FS_AddElement
  <1>3. G \subseteq H
    OBVIOUS
  <1> HIDE DEF H
  <1>4. Cardinality(G) <= Cardinality(H)
    BY <1>2, <1>3, FS_Subset
  <1>5. Cardinality(G) <= Cardinality(F) + 1
    <2>1. CASE w \in F
      BY <1>1, <1>2, <1>4, <2>1
    <2>2. CASE w \notin F
      BY <1>2, <1>4, <2>2
    <2> QED BY <2>1, <2>2
  <1>6. G \subseteq F => Cardinality(G) <= Cardinality(F)
    BY <1>1, FS_Subset
  <1> QED BY <1>1, <1>5, <1>6

Told(p, w, s) == [p EXCEPT !.sent[w] = s]

\* What a worker is done with is no longer among what it was sent.
LEMMA TrimCore ==
  ASSUME NEW p, NEW ps, Core(p, ps, {}), NEW w \in Ids, NEW s \in Seq(Jobs \cup {NoJob}),
         Range(s) \subseteq Range(p.sent[w]), Len(s) <= Len(p.sent[w]),
         p.sent[w] = <<>> => s = <<>>
  PROVE  LET q == Told(p, w, s)
         IN  /\ Core(q, ps, {}) /\ q.sent[w] = s /\ SameWorkers(p, q) /\ SameFlags(p, q)
             /\ q.pending = p.pending /\ q.job = p.job /\ q.answer = p.answer
             /\ Waiting(p, {}) => Waiting(q, {})
             /\ Full(p) => Full(q)
             /\ TrueIn(p) => TrueIn(q)
  <1> DEFINE q == Told(p, w, s)
  <1>0. p \in PoolType BY DEF Core
  <1>1. /\ q \in PoolType /\ SameWorkers(p, q) /\ SameFlags(p, q) /\ q.pending = p.pending
        /\ q.job = p.job /\ q.answer = p.answer /\ q.sent = [p.sent EXCEPT ![w] = s]
    <2> DEFINE t == [p.sent EXCEPT ![w] = s]
    <2>1. t \in [Ids -> Seq(Jobs \cup {NoJob})]
      BY <1>0 DEF PoolType
    <2>2. q = [p EXCEPT !.sent = t]
      BY <1>0 DEF PoolType, Told
    <2> HIDE DEF t, q
    <2>3. /\ q \in PoolType /\ SameWorkers(p, q) /\ SameFlags(p, q) /\ q.pending = p.pending
          /\ q.job = p.job /\ q.answer = p.answer /\ q.sent = t
      BY <1>0, <2>1, <2>2 DEF PoolType, SameWorkers, SameFlags
    <2> QED BY <2>3 DEF t
  <1>2. p.sent \in [Ids -> Seq(Jobs \cup {NoJob})]
    BY <1>0 DEF PoolType
  <1>3. q.sent[w] = s /\ \A v \in Ids : v # w => q.sent[v] = p.sent[v]
    BY <1>1, <1>2
  <1> HIDE DEF q
  <1>4. \A v \in Ids : /\ Range(q.sent[v]) \subseteq Range(p.sent[v])
                       /\ Len(q.sent[v]) <= Len(p.sent[v])
                       /\ p.sent[v] = <<>> => q.sent[v] = <<>>
    <2> TAKE v \in Ids
    <2>1. Len(p.sent[v]) \in Nat
      BY <1>2
    <2>2. Len(p.sent[v]) <= Len(p.sent[v])
      BY <2>1
    <2> QED BY <1>3, <2>2
  <1>5. OwnIn(q) BY <1>1 DEF Core, OwnIn
  <1>6. JobsHold(q)
    <2>1. \A v \in Ids : \A j \in Range(q.sent[v]) \ {NoJob} :
            q.job[v] = j \/ q.answer[j] # NoJob
      BY <1>1, <1>4 DEF Core, JobsHold
    <2> QED BY <1>1, <2>1 DEF Core, JobsHold, SameWorkers, SameFlags
  <1>7. WorkersHold(q)
    <2>1. WorkersHold(p)
      BY DEF Core
    <2>2. \A v \in Ids : /\ NoJob \in Range(q.sent[v]) => v \in q.stopping
                         /\ q.sent[v] # <<>> => v \in q.ready \cup q.stopping
      BY <1>1, <1>4, <2>1 DEF WorkersHold, SameWorkers
    <2> QED BY <1>1, <2>1, <2>2 DEF WorkersHold, SameWorkers, SameFlags
  <1>8. SparesHold(q, ps)
    <2>1. Faulty(q, ps) = Faulty(p, ps)
      BY <1>1 DEF Faulty, SameWorkers
    <2> QED BY <1>1, <2>1 DEF Core, SparesHold, SameWorkers, SameFlags
  <1>9. ProcessesHold(q, ps) BY <1>1 DEF Core, ProcessesHold, SameWorkers
  <1>10. SerialIn(q, {})
    <2> SUFFICES ASSUME NEW v \in p.members \ (p.killed \cup p.stopping)
                 PROVE  Len(q.sent[v]) <= 1 /\ Range(q.sent[v]) \ {NoJob} \subseteq {p.job[v]}
      BY <1>1 DEF SerialIn, SameWorkers
    <2>1. v \in Ids
      BY <1>0 DEF PoolType
    <2>2. Len(p.sent[v]) <= 1 /\ Range(p.sent[v]) \ {NoJob} \subseteq {p.job[v]}
      BY DEF Core, SerialIn
    <2>3. Len(p.sent[v]) \in Nat /\ Len(q.sent[v]) \in Nat
      <3>1. q.sent[v] \in Seq(Jobs \cup {NoJob}) /\ p.sent[v] \in Seq(Jobs \cup {NoJob})
        BY <1>1, <1>2, <2>1 DEF PoolType
      <3> QED BY <3>1
    <2>4. Range(q.sent[v]) \subseteq Range(p.sent[v]) /\ Len(q.sent[v]) <= Len(p.sent[v])
      BY <1>4, <2>1
    <2> QED BY <2>2, <2>3, <2>4
  <1>11. TimedIn(q, {}) BY <1>1 DEF Core, TimedIn, SameWorkers, SameFlags
  <1>12. /\ Waiting(p, {}) => Waiting(q, {})
         /\ Full(p) => Full(q)
         /\ TrueIn(p) => TrueIn(q)
    <2>1. Waiting(p, {}) => Waiting(q, {})
      BY <1>1 DEF Waiting, Free, Idle, SameWorkers
    <2>2. Full(p) => Full(q)
      BY <1>1 DEF Full, SameWorkers, SameFlags
    <2>3. TrueIn(p) => TrueIn(q)
      BY <1>1 DEF TrueIn, Resolve, ReadyMembers, SameWorkers, SameFlags
    <2> QED BY <2>1, <2>2, <2>3
  <1> QED BY <1>0, <1>1, <1>3, <1>5, <1>6, <1>7, <1>8, <1>9, <1>10, <1>11, <1>12 DEF Core, q

\* The job of w is answered: w has none.
LEMMA SettleFields ==
  ASSUME NEW p \in PoolType, NEW w \in Ids, NEW value \in Jobs \cup {Refused}
  PROVE  LET q == [Answer(p, {p.job[w]}, value) EXCEPT !.job[w] = NoJob]
         IN  /\ q \in PoolType /\ SameWorkers(p, q) /\ SameFlags(p, q)
             /\ q.pending = p.pending /\ q.sent = p.sent /\ q.job[w] = NoJob
             /\ \A v \in Ids : v # w => q.job[v] = p.job[v]
             /\ Answers(p, q, {p.job[w]}, value)
  <1> DEFINE a == Answer(p, {p.job[w]}, value)
             q == [a EXCEPT !.job[w] = NoJob]
             job == [p.job EXCEPT ![w] = NoJob]
  <1>1. /\ a \in PoolType /\ SameWorkers(p, a) /\ SameFlags(p, a)
        /\ a.pending = p.pending /\ a.job = p.job /\ a.sent = p.sent
        /\ Answers(p, a, {p.job[w]}, value)
    BY AnswerFields
  <1>2. p.job \in [Ids -> Jobs \cup {NoJob}]
    BY DEF PoolType
  <1>3. /\ job \in [Ids -> Jobs \cup {NoJob}] /\ job[w] = NoJob
        /\ \A v \in Ids : v # w => job[v] = p.job[v]
    BY <1>2
  <1> HIDE DEF a
  <1>4. q = [a EXCEPT !.job = job]
    BY <1>1 DEF PoolType
  <1>5. a \in PoolType
    BY <1>1
  <1> HIDE DEF q, job
  <1>6. /\ q \in PoolType /\ SameWorkers(a, q) /\ SameFlags(a, q)
        /\ q.pending = a.pending /\ q.sent = a.sent /\ q.job = job /\ q.answer = a.answer
    BY <1>3, <1>4, <1>5 DEF PoolType, SameWorkers, SameFlags
  <1>7. /\ q \in PoolType /\ SameWorkers(p, q) /\ SameFlags(p, q)
        /\ q.pending = p.pending /\ q.sent = p.sent /\ q.job[w] = NoJob
        /\ \A v \in Ids : v # w => q.job[v] = p.job[v]
        /\ Answers(p, q, {p.job[w]}, value)
    BY <1>1, <1>3, <1>6 DEF SameWorkers, SameFlags, Answers
  <1> QED BY <1>7 DEF q, a
\* An answer to the job of w is the job's own, or a refusal.
LEMMA SettleCore ==
  ASSUME NEW p, NEW ps, Core(p, ps, {}), NEW w \in Ids, NEW value \in Jobs \cup {Refused},
         value \in {p.job[w], Refused}
  PROVE  LET q == [Answer(p, {p.job[w]}, value) EXCEPT !.job[w] = NoJob]
         IN  /\ Core(q, ps, {w}) /\ SameWorkers(p, q) /\ SameFlags(p, q)
             /\ q.sent = p.sent /\ q.pending = p.pending /\ q.job[w] = NoJob
             /\ Waiting(p, {}) => Waiting(q, {w})
             /\ Full(p) => Full(q)
             /\ TrueIn(p) => TrueIn(q)
  <1> DEFINE q == [Answer(p, {p.job[w]}, value) EXCEPT !.job[w] = NoJob]
  <1>0. p \in PoolType BY DEF Core
  <1>1. /\ q \in PoolType /\ SameWorkers(p, q) /\ SameFlags(p, q)
        /\ q.pending = p.pending /\ q.sent = p.sent /\ q.job[w] = NoJob
        /\ \A v \in Ids : v # w => q.job[v] = p.job[v]
        /\ Answers(p, q, {p.job[w]}, value)
    BY <1>0, SettleFields
  <1> HIDE DEF q
  <1>2. value # NoJob /\ NoJob \notin Jobs /\ Refused # NoJob
    BY PoolAssumption DEF Jobs
  <1>3. JobsHold(p)
    BY DEF Core
  <1>4. /\ DOMAIN p.job = Ids /\ DOMAIN q.job = Ids /\ p.sent \in [Ids -> Seq(Jobs \cup {NoJob})]
        /\ \A v \in Ids : p.job[v] # NoJob => p.job[v] \in Jobs
        /\ \A i \in DOMAIN p.pending : p.pending[i] \in Jobs
    <2>1. /\ p.job \in [Ids -> Jobs \cup {NoJob}] /\ q.job \in [Ids -> Jobs \cup {NoJob}]
          /\ p.sent \in [Ids -> Seq(Jobs \cup {NoJob})] /\ p.pending \in Seq(Jobs)
      BY <1>0, <1>1 DEF PoolType
    <2> QED BY <2>1
  <1>5. \A j \in Jobs : /\ j # p.job[w] => q.answer[j] = p.answer[j]
                        /\ q.answer[j] = NoJob => p.answer[j] = NoJob /\ j # p.job[w]
                        /\ p.answer[j] # NoJob => q.answer[j] = p.answer[j]
    BY <1>1, <1>2 DEF Answers
  <1>6. OwnIn(q)
    BY <1>1 DEF Core, OwnIn, Answers
  <1>7. JobsHold(q)
    <2>1. \A i \in DOMAIN q.pending :
            /\ q.pending[i] <= q.asked /\ q.answer[q.pending[i]] = NoJob
            /\ \A v \in Ids : q.job[v] # q.pending[i]
      <3> TAKE i \in DOMAIN q.pending
      <3>1. /\ p.pending[i] <= p.asked /\ p.answer[p.pending[i]] = NoJob
            /\ \A v \in Ids : p.job[v] # p.pending[i]
            /\ p.pending[i] \in Jobs
        BY <1>1, <1>3, <1>4 DEF JobsHold
      <3>2. \A v \in Ids : q.job[v] # q.pending[i]
        BY <1>1, <1>2, <3>1
      <3>3. q.answer[q.pending[i]] = NoJob
        BY <1>1, <1>5, <3>1
      <3> QED BY <1>1, <3>1, <3>2, <3>3 DEF SameFlags
    <2>2. \A v \in Ids : q.job[v] # NoJob =>
            /\ q.job[v] <= q.asked /\ q.answer[q.job[v]] = NoJob
            /\ v \in q.members \cap q.ready
            /\ \A u \in Ids : q.job[u] = q.job[v] => u = v
      <3> TAKE v \in Ids
      <3> HAVE q.job[v] # NoJob
      <3>1. v # w /\ q.job[v] = p.job[v] /\ p.job[v] \in Jobs
        BY <1>1, <1>4
      <3>2. /\ p.job[v] <= p.asked /\ p.answer[p.job[v]] = NoJob
            /\ v \in p.members \cap p.ready
            /\ \A u \in Ids : p.job[u] = p.job[v] => u = v
        BY <1>2, <1>3, <3>1 DEF JobsHold
      <3>3. q.answer[q.job[v]] = NoJob
        BY <1>5, <3>1, <3>2
      <3>4. ASSUME NEW u \in Ids, q.job[u] = q.job[v] PROVE u = v
        BY <1>1, <3>1, <3>2, <3>4
      <3> QED BY <1>1, <3>1, <3>2, <3>3, <3>4 DEF SameWorkers, SameFlags
    <2>3. \A j \in Jobs : q.answer[j] = NoJob =>
            j \in Range(q.pending) \cup Range(q.job) \/ j > q.asked
      <3> TAKE j \in Jobs
      <3> HAVE q.answer[j] = NoJob
      <3>1. j \in Range(p.pending) \/ j \in Range(p.job) \/ j > p.asked
        BY <1>3, <1>5 DEF JobsHold
      <3>2. ASSUME j \in Range(p.job) PROVE j \in Range(q.job)
        <4>1. PICK v \in Ids : p.job[v] = j
          BY <1>4, <3>2 DEF Range
        <4>2. v # w
          BY <1>5, <4>1
        <4>3. q.job[v] = j
          BY <1>1, <4>1, <4>2
        <4> QED BY <1>4, <4>3 DEF Range
      <3> QED BY <1>1, <3>1, <3>2 DEF SameFlags
    <2>4. \A j \in Jobs : j > q.asked => q.answer[j] = NoJob
      <3> TAKE j \in Jobs
      <3> HAVE j > q.asked
      <3>1. j # p.job[w]
        <4>1. q.asked = p.asked /\ p.asked \in Nat /\ j \in Nat
          BY <1>0, <1>1, PoolAssumption DEF PoolType, SameFlags, Jobs
        <4>2. p.job[w] # NoJob => p.job[w] <= p.asked
          BY <1>3 DEF JobsHold
        <4> QED BY <1>2, <4>1, <4>2
      <3> QED BY <1>1, <1>3, <1>5, <3>1 DEF JobsHold, SameFlags
    <2>5. \A v \in Ids : \A j \in Range(q.sent[v]) \ {NoJob} :
            q.job[v] = j \/ q.answer[j] # NoJob
      <3> TAKE v \in Ids
      <3> TAKE j \in Range(q.sent[v]) \ {NoJob}
      <3>1. j \in Jobs
        BY <1>1, <1>4 DEF Range
      <3>2. p.job[v] = j \/ p.answer[j] # NoJob
        BY <1>1, <1>3 DEF JobsHold
      <3> QED BY <1>1, <1>5, <3>1, <3>2
    <2> QED BY <1>1, <1>3, <2>1, <2>2, <2>3, <2>4, <2>5 DEF JobsHold
  <1>8. WorkersHold(q)
    <2>1. WorkersHold(p)
      BY DEF Core
    <2>2. q.destroyed => \A v \in Ids : q.job[v] = NoJob
      BY <1>1, <2>1 DEF WorkersHold, SameFlags
    <2> QED BY <1>1, <2>1, <2>2 DEF WorkersHold, SameWorkers, SameFlags
  <1>9. SparesHold(q, ps)
    <2>1. Faulty(q, ps) = Faulty(p, ps)
      BY <1>1 DEF Faulty, SameWorkers
    <2> QED BY <1>1, <2>1 DEF Core, SparesHold, SameWorkers, SameFlags
  <1>10. ProcessesHold(q, ps) BY <1>1 DEF Core, ProcessesHold, SameWorkers
  <1>11. SerialIn(q, {w})
    <2> SUFFICES ASSUME NEW v \in p.members \ (p.killed \cup p.stopping \cup {w})
                 PROVE  Len(q.sent[v]) <= 1 /\ Range(q.sent[v]) \ {NoJob} \subseteq {q.job[v]}
      BY <1>1 DEF SerialIn, SameWorkers
    <2>1. v \in Ids
      BY <1>0 DEF PoolType
    <2> QED BY <1>1, <2>1 DEF Core, SerialIn
  <1>12. TimedIn(q, {w}) BY <1>1 DEF Core, TimedIn, SameWorkers, SameFlags
  <1>13. /\ Waiting(p, {}) => Waiting(q, {w})
         /\ Full(p) => Full(q)
         /\ TrueIn(p) => TrueIn(q)
    <2>1. Waiting(p, {}) => Waiting(q, {w})
      <3>1. Free(q) \subseteq Free(p) \cup {w}
        <4> SUFFICES ASSUME NEW v \in Free(q), v # w PROVE v \in Free(p)
          OBVIOUS
        <4>1. v \in Ids
          BY <1>1 DEF Free, Idle, PoolType
        <4> QED BY <1>1, <4>1 DEF Free, Idle, SameWorkers
      <3> QED BY <1>1, <3>1 DEF Waiting, SameWorkers
    <2>2. Full(p) => Full(q)
      BY <1>1 DEF Full, SameWorkers, SameFlags
    <2>3. TrueIn(p) => TrueIn(q)
      BY <1>1 DEF TrueIn, Resolve, ReadyMembers, SameWorkers, SameFlags
    <2> QED BY <2>1, <2>2, <2>3
  <1>14. ps \in [Ids -> Process]
    BY DEF Core
  <1> QED BY <1>1, <1>6, <1>7, <1>8, <1>9, <1>10, <1>11, <1>12, <1>13, <1>14 DEF Core, q

\* A worker whose command is done is as good as the others.
LEMMA Unexempt ==
  ASSUME NEW p, NEW ps, NEW w, Core(p, ps, {w}), w \in p.ready,
         p.sent[w] = <<>> \/ w \in p.killed \cup p.stopping
  PROVE  Core(p, ps, {})
  <1>1. SerialIn(p, {})
    <2> SUFFICES ASSUME NEW v \in p.members \ (p.killed \cup p.stopping)
                 PROVE  Len(p.sent[v]) <= 1 /\ Range(p.sent[v]) \ {NoJob} \subseteq {p.job[v]}
      BY DEF SerialIn
    <2>1. CASE v # w
      BY <2>1 DEF Core, SerialIn
    <2>2. CASE v = w
      BY <2>2 DEF Range
    <2> QED BY <2>1, <2>2
  <1>2. TimedIn(p, {})
    BY DEF Core, TimedIn
  <1> QED BY <1>1, <1>2 DEF Core

\* An answer that is of the active job frees the worker for the next.
LEMMA HearCore ==
  ASSUME NEW p, NEW ps, Whole(p, ps), NEW w \in Ids, NEW j \in Jobs,
         NEW value \in {j, Refused},
         w \in p.members => p.sent[w] = <<>> \/ w \in p.killed \cup p.stopping,
         NEW q \in Hear(p, w, j, value)
  PROVE  Whole(q, ps)
  <1>1. CASE p.job[w] # j
    <2>1. q = p
      BY <1>1 DEF Hear
    <2> QED BY <2>1
  <1>2. CASE p.job[w] = j
    <2> DEFINE s == [Answer(p, {p.job[w]}, value) EXCEPT !.job[w] = NoJob]
               t == [s EXCEPT !.streak = 0]
    <2>1. q \in Dispatch(t)
      <3>1. t = [Answer(p, {j}, value) EXCEPT !.job[w] = NoJob, !.streak = 0]
        BY <1>2
      <3> QED BY <1>2, <3>1 DEF Hear
    <2>2. /\ Core(s, ps, {w}) /\ SameWorkers(p, s) /\ SameFlags(p, s) /\ s.sent = p.sent
          /\ TrueIn(s)
      <3>1. value \in Jobs \cup {Refused} /\ value \in {p.job[w], Refused}
        BY <1>2
      <3>2. Core(p, ps, {}) /\ TrueIn(p)
        BY DEF Whole
      <3> HIDE DEF s
      <3>3. /\ Core(s, ps, {w}) /\ SameWorkers(p, s) /\ SameFlags(p, s) /\ s.sent = p.sent
            /\ TrueIn(p) => TrueIn(s)
        BY <3>1, <3>2, SettleCore DEF s
      <3> QED BY <3>2, <3>3
    <2>3. w \in p.ready /\ w \in p.members
      BY <1>2, PoolAssumption DEF Whole, Core, JobsHold, Jobs
    <2> HIDE DEF s
    <2>4. Core(s, ps, {})
      BY <2>2, <2>3, Unexempt DEF SameWorkers
    <2>5. /\ t \in PoolType /\ SameWorkers(s, t) /\ SameJobs(s, t)
          /\ t.desired = s.desired /\ t.status = s.status /\ t.respawn = s.respawn
          /\ t.destroyed = s.destroyed /\ t.asked = s.asked /\ t.faults = s.faults
          /\ t.failed = s.failed
      <3>1. s \in PoolType /\ 0 \in 0..Threshold
        BY <2>2, PoolAssumption DEF Core
      <3> QED BY <3>1 DEF PoolType, SameWorkers, SameJobs
    <2> HIDE DEF t
    <2>6. /\ t.recorded = s.recorded /\ t.recorded \subseteq 1..t.spawned
          /\ t.destroyed => ~t.respawn
          /\ t.status = "unavailable" => t.pending = <<>>
      BY <2>4, <2>5 DEF Core, WorkersHold, SameWorkers, SameJobs
    <2>7. Core(t, ps, {})
      BY <2>4, <2>5, <2>6, Quiet DEF SameWorkers, SameJobs
    <2>8. TrueIn(t)
      BY <2>2, <2>5 DEF TrueIn, Resolve, ReadyMembers, SameWorkers
    <2> QED BY <2>1, <2>7, <2>8, DispatchCore DEF Whole
  <1> QED BY <1>1, <1>2
-----------------------------------------------------------------------------
(* The steps                                                               *)

\* A pool with no worker yet is filled.
LEMMA InitInv ==
  ASSUME Init
  PROVE  PoolInv
  <1> DEFINE e == Empty
  <1>0. /\ process \in [Ids -> Process]
        /\ \A w \in Ids : process[w] = [at |-> "booting", late |-> FALSE]
    BY DEF Init, Process
  <1>1. e \in PoolType
    <2>1. /\ <<>> \in Seq(Jobs) /\ <<>> \in Seq(Jobs \cup {NoJob}) /\ 0 \in 0..(Desired + MaxFaults)
          /\ Desired \in 1..Desired /\ 0 \in 0..Threshold /\ 0 \in 0..MaxJobs /\ 0 \in 0..MaxFaults
      BY PoolAssumption
    <2> QED BY <2>1 DEF Empty, PoolType, Statuses
  <1>2. /\ e.pending = <<>> /\ e.members = {} /\ e.ready = {} /\ e.starting = {}
        /\ e.stopping = {} /\ e.recorded = {} /\ e.killed = {} /\ e.quitting = {}
        /\ e.unborn = {} /\ e.spawned = 0 /\ e.desired = Desired /\ e.failed = FALSE
        /\ e.status = "starting" /\ e.respawn = FALSE /\ e.destroyed = FALSE /\ e.asked = 0
        /\ e.faults = 0 /\ \A w \in Ids : e.job[w] = NoJob /\ e.sent[w] = <<>>
        /\ \A j \in Jobs : e.answer[j] = NoJob
    BY DEF Empty
  <1> HIDE DEF e
  <1>3. OwnIn(e) BY <1>2 DEF OwnIn
  <1>4. JobsHold(e)
    <2>1. DOMAIN e.pending = {} /\ IsInjective(e.pending)
      BY <1>2 DEF IsInjective
    <2>2. \A j \in Jobs : j > e.asked
      BY <1>2, PoolAssumption DEF Jobs
    <2>3. \A w \in Ids : Range(e.sent[w]) = {}
      BY <1>2 DEF Range
    <2> QED BY <1>2, <2>1, <2>2, <2>3 DEF JobsHold
  <1>5. WorkersHold(e)
    BY <1>2 DEF WorkersHold, Range
  <1>6. SparesHold(e, process)
    <2>1. Faulty(e, process) = {}
      BY <1>2 DEF Faulty
    <2>2. Cardinality(Faulty(e, process)) = 0 /\ Cardinality(e.members) = 0
      BY <1>2, <2>1, FS_EmptySet
    <2> QED BY <1>2, <2>2, PoolAssumption DEF SparesHold
  <1>7. ProcessesHold(e, process)
    BY <1>0, <1>2 DEF ProcessesHold
  <1>8. SerialIn(e, {}) /\ TimedIn(e, {}) /\ Waiting(e, {})
    BY <1>2 DEF SerialIn, TimedIn, Waiting
  <1>9. Core(e, process, {})
    BY <1>0, <1>1, <1>3, <1>4, <1>5, <1>6, <1>7, <1>8 DEF Core
  <1>10. pool \in EnsureWorkerCount(e)
    BY DEF Init, e
  <1>11. Core(pool, process, {}) /\ Full(pool) /\ TrueIn(pool) /\ Waiting(pool, {})
    BY <1>2, <1>8, <1>9, <1>10, EnsureCore
  <1> QED BY <1>11, WholeIsInv DEF Whole

\* A call is refused, or waits until it is dispatched.
LEMMA DecodeInv ==
  ASSUME PoolInv, Decode
  PROVE  PoolInv'
  <1> DEFINE c == [pool EXCEPT !.asked = pool.asked + 1]
             j == pool.asked + 1
             queue == Append(pool.pending, j)
             d == [c EXCEPT !.pending = queue]
             r == Answer(c, {j}, Refused)
  <1>1. Whole(pool, process)
    BY WholeIsInv
  <1>2. pool \in PoolType /\ process \in [Ids -> Process]
    BY <1>1 DEF Whole, Core
  <1>3. j \in Jobs /\ j \in 0..MaxJobs /\ j > pool.asked /\ pool.asked \in Nat
    BY <1>2, PoolAssumption DEF Decode, PoolType, Jobs
  <1>4. /\ c \in PoolType /\ SameWorkers(pool, c) /\ SameJobs(pool, c) /\ c.asked = j
        /\ c.desired = pool.desired /\ c.failed = pool.failed /\ c.status = pool.status
        /\ c.respawn = pool.respawn /\ c.destroyed = pool.destroyed /\ c.faults = pool.faults
    BY <1>2, <1>3 DEF PoolType, SameWorkers, SameJobs
  <1>5. ~pool.destroyed => Refresh(c) = c
    <2> SUFFICES ASSUME ~pool.destroyed PROVE Refresh(c) = c
      OBVIOUS
    <2>1. Resolve(c) = Resolve(pool) /\ pool.status = Resolve(pool)
      <3>1. pool.status = Resolve(pool)
        BY <1>1 DEF Whole, TrueIn
      <3> HIDE DEF c
      <3> QED BY <1>4, <3>1 DEF Resolve, ReadyMembers, SameWorkers
    <2>2. c.status = Resolve(c)
      BY <1>4, <2>1
    <2>3. [c EXCEPT !.status = Resolve(c)] = c
      BY <1>4, <2>2 DEF PoolType
    <2> QED BY <2>2, <2>3 DEF Refresh
  <1>6. /\ \/ pool' = r
           \/ /\ ~pool.destroyed /\ ~(pool.status = "unavailable" /\ ReadyMembers(c) = {})
              /\ pool' \in Dispatch(d)
        /\ process' = process
    <2>1. Append(c.pending, c.asked) = queue /\ c.asked = j
      BY <1>4 DEF SameJobs
    <2>2. PICK p \in {IF pool.destroyed THEN c ELSE Refresh(c)} :
            IF p.destroyed \/ (p.status = "unavailable" /\ ReadyMembers(p) = {})
              THEN pool' = Answer(p, {p.asked}, Refused)
              ELSE pool' \in Dispatch([p EXCEPT !.pending = Append(p.pending, p.asked)])
      BY DEF Decode
    <2>3. p = c
      BY <1>5, <2>2
    <2> HIDE DEF c, queue, j
    <2>4. IF c.destroyed \/ (c.status = "unavailable" /\ ReadyMembers(c) = {})
            THEN pool' = Answer(c, {c.asked}, Refused)
            ELSE pool' \in Dispatch([c EXCEPT !.pending = Append(c.pending, c.asked)])
      BY <2>2, <2>3
    <2> QED BY <1>4, <2>1, <2>4 DEF Decode
  <1>7. /\ pool.pending \in Seq(Jobs) /\ \A i \in DOMAIN pool.pending : pool.pending[i] \in Jobs
        /\ DOMAIN pool.pending = 1..Len(pool.pending) /\ Len(pool.pending) \in Nat
        /\ \A v \in Ids : pool.job[v] \in Jobs \cup {NoJob}
        /\ \A k \in Jobs : k \in Nat
    <2>1. pool.pending \in Seq(Jobs) /\ pool.job \in [Ids -> Jobs \cup {NoJob}]
      BY <1>2 DEF PoolType
    <2> QED BY <2>1, PoolAssumption DEF Jobs
  <1>8. JobsHold(pool) /\ WorkersHold(pool) /\ TrueIn(pool)
    BY <1>1 DEF Whole, Core
  <1>9. NoJob \notin Jobs /\ Refused # NoJob
    BY PoolAssumption DEF Jobs
  <1>10. /\ pool.answer[j] = NoJob
         /\ \A v \in Ids : pool.job[v] # j
         /\ \A i \in DOMAIN pool.pending : pool.pending[i] # j
    <2>1. pool.answer[j] = NoJob
      BY <1>3, <1>8 DEF JobsHold
    <2>2. ASSUME NEW v \in Ids PROVE pool.job[v] # j
      <3>1. pool.job[v] # NoJob => pool.job[v] \in Nat /\ pool.job[v] <= pool.asked
        BY <1>7, <1>8 DEF JobsHold
      <3> HIDE DEF j
      <3> QED BY <1>3, <1>9, <3>1
    <2>3. ASSUME NEW i \in DOMAIN pool.pending PROVE pool.pending[i] # j
      <3>1. pool.pending[i] \in Nat /\ pool.pending[i] <= pool.asked
        BY <1>7, <1>8 DEF JobsHold
      <3> HIDE DEF j
      <3> QED BY <1>3, <3>1
    <2> QED BY <2>1, <2>2, <2>3
  <1>11. /\ \A i \in DOMAIN pool.pending : pool.pending[i] <= j
         /\ \A v \in Ids : pool.job[v] # NoJob => pool.job[v] <= j
         /\ \A k \in Jobs : k > pool.asked => k = j \/ k > j
         /\ \A k \in Jobs : k > j => k > pool.asked /\ k # j
    <2>1. \A k \in Jobs : /\ k <= pool.asked => k <= j
                          /\ k > pool.asked => k = j \/ k > j
                          /\ k > j => k > pool.asked /\ k # j
      BY <1>3, <1>7
    <2> HIDE DEF j
    <2>2. /\ \A i \in DOMAIN pool.pending : pool.pending[i] <= pool.asked
          /\ \A v \in Ids : pool.job[v] # NoJob => pool.job[v] <= pool.asked
      BY <1>8 DEF JobsHold
    <2> QED BY <1>7, <2>1, <2>2
  <1> HIDE DEF j, c
  <1>12. CASE pool' = r
    <2>1. /\ r \in PoolType /\ SameWorkers(c, r) /\ SameFlags(c, r) /\ r.pending = c.pending
          /\ r.job = c.job /\ r.sent = c.sent /\ Answers(c, r, {j}, Refused)
      BY <1>4, AnswerFields
    <2> HIDE DEF r
    <2>2. /\ SameWorkers(pool, r) /\ r.pending = pool.pending /\ r.job = pool.job
          /\ r.sent = pool.sent /\ r.asked = j /\ r.desired = pool.desired
          /\ r.failed = pool.failed /\ r.status = pool.status /\ r.respawn = pool.respawn
          /\ r.destroyed = pool.destroyed /\ r.faults = pool.faults
          /\ r.answer[j] = Refused
          /\ \A k \in Jobs : k # j => r.answer[k] = pool.answer[k]
      BY <1>3, <1>4, <1>10, <2>1 DEF SameWorkers, SameFlags, SameJobs, Answers
    <2>3. OwnIn(r)
      BY <1>1, <2>2 DEF Whole, Core, OwnIn
    <2>4. JobsHold(r)
      <3>1. \A i \in DOMAIN r.pending :
              /\ r.pending[i] <= r.asked /\ r.answer[r.pending[i]] = NoJob
              /\ \A w \in Ids : r.job[w] # r.pending[i]
        BY <1>7, <1>8, <1>10, <1>11, <2>2 DEF JobsHold
      <3>2. \A w \in Ids : r.job[w] # NoJob =>
              /\ r.job[w] <= r.asked /\ r.answer[r.job[w]] = NoJob
              /\ w \in r.members \cap r.ready
              /\ \A v \in Ids : r.job[v] = r.job[w] => v = w
        BY <1>7, <1>8, <1>10, <1>11, <2>2 DEF JobsHold, SameWorkers
      <3>3. \A k \in Jobs : r.answer[k] = NoJob =>
              k \in Range(r.pending) \cup Range(r.job) \/ k > r.asked
        BY <1>8, <1>9, <1>11, <2>2 DEF JobsHold
      <3>4. \A k \in Jobs : k > r.asked => r.answer[k] = NoJob
        BY <1>8, <1>11, <2>2 DEF JobsHold
      <3>5. \A w \in Ids : \A k \in Range(r.sent[w]) \ {NoJob} :
              r.job[w] = k \/ r.answer[k] # NoJob
        <4> TAKE w \in Ids
        <4> TAKE k \in Range(r.sent[w]) \ {NoJob}
        <4>1. k \in Jobs
          BY <1>2, <2>2 DEF PoolType, Range
        <4> QED BY <1>8, <1>9, <2>2, <4>1 DEF JobsHold
      <3> QED BY <1>8, <2>2, <3>1, <3>2, <3>3, <3>4, <3>5 DEF JobsHold
    <2>5. WorkersHold(r)
      BY <1>8, <2>2 DEF WorkersHold, SameWorkers
    <2>6. SparesHold(r, process)
      <3>1. Faulty(r, process) = Faulty(pool, process)
        BY <2>2 DEF Faulty, SameWorkers
      <3> QED BY <1>1, <2>2, <3>1 DEF Whole, Core, SparesHold, SameWorkers
    <2>7. ProcessesHold(r, process)
      BY <1>1, <2>2 DEF Whole, Core, ProcessesHold, SameWorkers
    <2>8. SerialIn(r, {}) /\ TimedIn(r, {}) /\ Waiting(r, {})
      BY <1>1, <2>2 DEF Whole, Core, SerialIn, TimedIn, Waiting, Free, Idle, SameWorkers
    <2>9. Full(r) /\ TrueIn(r)
      BY <1>1, <2>2 DEF Whole, Full, TrueIn, Resolve, ReadyMembers, SameWorkers
    <2>10. Whole(r, process)
      BY <1>2, <2>1, <2>3, <2>4, <2>5, <2>6, <2>7, <2>8, <2>9 DEF Whole, Core
    <2> QED BY <1>6, <1>12, <2>10, WholeNext
  <1>13. CASE /\ ~pool.destroyed /\ ~(pool.status = "unavailable" /\ ReadyMembers(c) = {})
              /\ pool' \in Dispatch(d)
    <2>1. /\ queue \in Seq(Jobs) /\ Len(queue) = Len(pool.pending) + 1
          /\ DOMAIN queue = 1..(Len(pool.pending) + 1)
          /\ Range(queue) = Range(pool.pending) \cup {j}
          /\ queue[Len(pool.pending) + 1] = j
          /\ \A i \in 1..Len(pool.pending) : queue[i] = pool.pending[i]
      <3>1. pool.pending \in Seq(Jobs) /\ j \in Jobs
        BY <1>3, <1>7
      <3>2. /\ queue \in Seq(Jobs) /\ Len(queue) = Len(pool.pending) + 1
            /\ DOMAIN queue = 1..(Len(pool.pending) + 1)
            /\ queue[Len(pool.pending) + 1] = j
            /\ \A i \in 1..Len(pool.pending) : queue[i] = pool.pending[i]
        BY <3>1
      <3> QED BY <3>1, <3>2, RangeAppend
    <2> HIDE DEF queue
    <2>2. /\ d \in PoolType /\ SameWorkers(c, d) /\ SameFlags(c, d) /\ d.pending = queue
          /\ d.job = c.job /\ d.sent = c.sent /\ d.answer = c.answer
      BY <1>4, <2>1 DEF PoolType, SameWorkers, SameFlags
    <2> HIDE DEF d
    <2>3. /\ SameWorkers(pool, d) /\ d.job = pool.job
          /\ d.sent = pool.sent /\ d.asked = j /\ d.desired = pool.desired
          /\ d.failed = pool.failed /\ d.status = pool.status /\ d.respawn = pool.respawn
          /\ d.destroyed = pool.destroyed /\ d.faults = pool.faults
          /\ d.answer = pool.answer
      BY <1>4, <2>2 DEF SameWorkers, SameFlags, SameJobs
    <2>4. pool.status # "unavailable"
      <3>1. ReadyMembers(c) = ReadyMembers(pool)
        BY <1>4 DEF ReadyMembers, SameWorkers
      <3> QED BY <1>8, <1>13, <3>1 DEF TrueIn, Resolve
    <2>5. OwnIn(d)
      BY <1>1, <2>3 DEF Whole, Core, OwnIn
    <2>6. \A i \in DOMAIN d.pending : /\ d.pending[i] = j \/ i \in DOMAIN pool.pending
                                      /\ i \in DOMAIN pool.pending => d.pending[i] = pool.pending[i]
                                      /\ i \notin DOMAIN pool.pending => i = Len(pool.pending) + 1
      BY <1>7, <2>1, <2>2
    <2>7. JobsHold(d)
      <3>1. \A i \in DOMAIN d.pending :
              /\ d.pending[i] <= d.asked /\ d.answer[d.pending[i]] = NoJob
              /\ \A w \in Ids : d.job[w] # d.pending[i]
        <4>1. j <= j
          BY <1>3, <1>7
        <4> QED BY <1>7, <1>8, <1>10, <1>11, <2>3, <2>6, <4>1 DEF JobsHold
      <3>2. IsInjective(d.pending)
        <4> SUFFICES ASSUME NEW a \in DOMAIN d.pending, NEW b \in DOMAIN d.pending,
                            d.pending[a] = d.pending[b]
                     PROVE  a = b
          BY DEF IsInjective
        <4>1. IsInjective(pool.pending)
          BY <1>8 DEF JobsHold
        <4>2. CASE a \in DOMAIN pool.pending /\ b \in DOMAIN pool.pending
          BY <2>6, <4>1, <4>2 DEF IsInjective
        <4>3. CASE a \notin DOMAIN pool.pending \/ b \notin DOMAIN pool.pending
          BY <1>10, <2>6, <4>3
        <4> QED BY <4>2, <4>3
      <3>3. \A w \in Ids : d.job[w] # NoJob =>
              /\ d.job[w] <= d.asked /\ d.answer[d.job[w]] = NoJob
              /\ w \in d.members \cap d.ready
              /\ \A v \in Ids : d.job[v] = d.job[w] => v = w
        BY <1>8, <1>11, <2>3 DEF JobsHold, SameWorkers
      <3>4. \A k \in Jobs : d.answer[k] = NoJob =>
              k \in Range(d.pending) \cup Range(d.job) \/ k > d.asked
        BY <1>8, <1>11, <2>1, <2>2, <2>3 DEF JobsHold
      <3>5. \A k \in Jobs : k > d.asked => d.answer[k] = NoJob
        BY <1>8, <1>11, <2>3 DEF JobsHold
      <3> QED BY <1>8, <2>3, <3>1, <3>2, <3>3, <3>4, <3>5 DEF JobsHold
    <2>8. WorkersHold(d)
      BY <1>8, <1>13, <2>3, <2>4 DEF WorkersHold, SameWorkers
    <2>9. SparesHold(d, process)
      <3>1. Faulty(d, process) = Faulty(pool, process)
        BY <2>3 DEF Faulty, SameWorkers
      <3> QED BY <1>1, <2>3, <3>1 DEF Whole, Core, SparesHold, SameWorkers
    <2>10. ProcessesHold(d, process)
      BY <1>1, <2>3 DEF Whole, Core, ProcessesHold, SameWorkers
    <2>11. SerialIn(d, {}) /\ TimedIn(d, {})
      BY <1>1, <2>3 DEF Whole, Core, SerialIn, TimedIn, SameWorkers
    <2>12. TrueIn(d)
      BY <1>8, <2>3 DEF TrueIn, Resolve, ReadyMembers, SameWorkers
    <2>13. Core(d, process, {})
      BY <1>2, <2>2, <2>5, <2>7, <2>8, <2>9, <2>10, <2>11 DEF Core
    <2>14. Whole(pool', process)
      BY <1>13, <2>12, <2>13, DispatchCore DEF Whole
    <2> QED BY <1>6, <2>14, WholeNext
  <1> QED BY <1>6, <1>12, <1>13
\* The respawn fills the pool, and dispatches.
LEMMA RespawnInv ==
  ASSUME PoolInv, Respawn
  PROVE  PoolInv'
  <1> DEFINE r == [pool EXCEPT !.respawn = FALSE]
  <1>1. Whole(pool, process) /\ pool \in PoolType
    BY WholeIsInv DEF Whole, Core
  <1>2. PICK e \in EnsureWorkerCount(r) : pool' \in Dispatch(e)
    BY DEF Respawn
  <1>3. /\ r \in PoolType /\ SameWorkers(pool, r) /\ SameJobs(pool, r)
        /\ r.desired = pool.desired /\ r.status = pool.status /\ r.respawn = FALSE
        /\ r.destroyed = pool.destroyed /\ r.asked = pool.asked /\ r.faults = pool.faults
    BY <1>1 DEF PoolType, SameWorkers, SameJobs
  <1> HIDE DEF r
  <1>4. /\ r.recorded = pool.recorded /\ r.recorded \subseteq 1..r.spawned
        /\ r.status = "unavailable" => r.pending = <<>>
    BY <1>1, <1>3 DEF Whole, Core, WorkersHold, SameWorkers, SameJobs
  <1>5. Core(pool, process, {})
    BY <1>1 DEF Whole
  <1>6. Core(r, process, {})
    BY <1>3, <1>4, <1>5, Quiet DEF SameWorkers, SameJobs
  <1>7. Core(e, process, {}) /\ TrueIn(e)
    BY <1>2, <1>3, <1>6, EnsureCore
  <1>8. Whole(pool', process)
    BY <1>2, <1>7, DispatchCore DEF Whole
  <1>9. process' = process
    BY DEF Respawn
  <1> QED BY <1>8, <1>9, WholeNext

\* A job that takes too long is refused, and its worker given up.
LEMMA JobTimeoutInv ==
  ASSUME PoolInv, NEW w \in Ids, JobTimeout(w)
  PROVE  PoolInv'
  <1> DEFINE s == [Answer(pool, {pool.job[w]}, Refused) EXCEPT !.job[w] = NoJob]
  <1>1. Whole(pool, process)
    BY WholeIsInv
  <1>2. pool' \in GiveUp(s, w, FALSE) /\ process' = process
    BY DEF JobTimeout, Settled
  <1> HIDE DEF s
  <1>3. /\ Core(s, process, {w}) /\ SameWorkers(pool, s) /\ Waiting(s, {w})
        /\ Full(s) /\ TrueIn(s)
    BY <1>1, SettleCore DEF Whole, s
  <1>4. w \in 1..s.spawned
    <2>1. w \in pool.members
      BY <1>1 DEF JobTimeout, Whole, Core, JobsHold
    <2> QED BY <1>1, <1>3, <2>1 DEF Whole, Core, WorkersHold, SameWorkers
  <1>5. Bad(s, process, w)
    BY DEF JobTimeout, Bad
  <1>6. Whole(pool', process)
    BY <1>2, <1>3, <1>4, <1>5, GiveUpCore
  <1> QED BY <1>2, <1>6, WholeNext

\* A worker that does not start in time is given up.
LEMMA StartTimeoutInv ==
  ASSUME PoolInv, NEW w \in Ids, StartTimeout(w)
  PROVE  PoolInv'
  <1> DEFINE s == [pool EXCEPT !.starting = pool.starting \ {w}]
  <1>1. Whole(pool, process) /\ pool \in PoolType /\ process \in [Ids -> Process]
    BY WholeIsInv DEF Whole, Core
  <1>2. pool' \in GiveUp(s, w, FALSE) /\ process' = process
    BY DEF StartTimeout
  <1>3. /\ s \in PoolType /\ SameJobs(pool, s) /\ SameFlags(pool, s)
        /\ s.members = pool.members /\ s.ready = pool.ready /\ s.starting = pool.starting \ {w}
        /\ s.stopping = pool.stopping /\ s.recorded = pool.recorded /\ s.killed = pool.killed
        /\ s.quitting = pool.quitting /\ s.unborn = pool.unborn /\ s.spawned = pool.spawned
    BY <1>1 DEF PoolType, SameJobs, SameFlags
  <1> HIDE DEF s
  <1>4. OwnIn(s) /\ JobsHold(s)
    BY <1>1, <1>3 DEF Whole, Core, OwnIn, JobsHold, SameJobs, SameFlags
  <1>5. WorkersHold(s)
    <2>1. WorkersHold(pool)
      BY <1>1 DEF Whole, Core
    <2> QED BY <1>3, <2>1 DEF WorkersHold, SameJobs, SameFlags
  <1>6. SparesHold(s, process)
    <2>1. Faulty(s, process) = Faulty(pool, process)
      BY <1>3 DEF Faulty
    <2> QED BY <1>1, <1>3, <2>1 DEF Whole, Core, SparesHold, SameFlags
  <1>7. ProcessesHold(s, process)
    BY <1>1, <1>3 DEF Whole, Core, ProcessesHold
  <1>8. SerialIn(s, {w}) /\ TimedIn(s, {w}) /\ Waiting(s, {w})
    BY <1>1, <1>3
    DEF Whole, Core, SerialIn, TimedIn, Waiting, Free, Idle, SameJobs, SameFlags
  <1>9. Full(s) /\ TrueIn(s)
    BY <1>1, <1>3 DEF Whole, Full, TrueIn, Resolve, ReadyMembers, SameFlags
  <1>10. Core(s, process, {w})
    BY <1>1, <1>3, <1>4, <1>5, <1>6, <1>7, <1>8 DEF Core
  <1>11. w \in 1..s.spawned /\ Bad(s, process, w)
    BY <1>1, <1>3 DEF StartTimeout, Whole, Core, WorkersHold, Bad
  <1>12. Whole(pool', process)
    BY <1>2, <1>8, <1>9, <1>10, <1>11, GiveUpCore
  <1> QED BY <1>2, <1>12, WholeNext

\* A worker that does not shut down in time is killed.
LEMMA ShutdownTimeoutInv ==
  ASSUME PoolInv, NEW w \in Ids, ShutdownTimeout(w)
  PROVE  PoolInv'
  <1> DEFINE s == [pool EXCEPT !.quitting = pool.quitting \ {w}]
  <1>1. Whole(pool, process) /\ pool \in PoolType /\ process \in [Ids -> Process]
    BY WholeIsInv DEF Whole, Core
  <1>2. pool' = Kill(s, w) /\ process' = process
    BY DEF ShutdownTimeout
  <1>3. /\ s \in PoolType /\ SameJobs(pool, s) /\ SameFlags(pool, s)
        /\ s.members = pool.members /\ s.ready = pool.ready /\ s.starting = pool.starting
        /\ s.stopping = pool.stopping /\ s.recorded = pool.recorded /\ s.killed = pool.killed
        /\ s.quitting = pool.quitting \ {w} /\ s.unborn = pool.unborn
        /\ s.spawned = pool.spawned
    BY <1>1 DEF PoolType, SameJobs, SameFlags
  <1> HIDE DEF s
  <1>4. OwnIn(s) /\ JobsHold(s)
    BY <1>1, <1>3 DEF Whole, Core, OwnIn, JobsHold, SameJobs, SameFlags
  <1>5. WorkersHold(s)
    <2>1. WorkersHold(pool)
      BY <1>1 DEF Whole, Core
    <2> QED BY <1>3, <2>1 DEF WorkersHold, SameJobs, SameFlags
  <1>6. SparesHold(s, process)
    <2>1. Faulty(s, process) = Faulty(pool, process)
      BY <1>3 DEF Faulty
    <2> QED BY <1>1, <1>3, <2>1 DEF Whole, Core, SparesHold, SameFlags
  <1>7. ProcessesHold(s, process)
    BY <1>1, <1>3 DEF Whole, Core, ProcessesHold
  <1>8. SerialIn(s, {}) /\ TimedIn(s, {}) /\ Waiting(s, {})
    BY <1>1, <1>3
    DEF Whole, Core, SerialIn, TimedIn, Waiting, Free, Idle, SameJobs, SameFlags
  <1>9. Full(s) /\ TrueIn(s)
    BY <1>1, <1>3 DEF Whole, Full, TrueIn, Resolve, ReadyMembers, SameFlags
  <1>10. Core(s, process, {})
    BY <1>1, <1>3, <1>4, <1>5, <1>6, <1>7, <1>8 DEF Core
  <1>11. w \in 1..s.spawned /\ (~s.destroyed => w \notin s.members)
    BY <1>1, <1>3 DEF ShutdownTimeout, Whole, Core, WorkersHold, SameFlags
  <1>12. Whole(pool', process)
    <2> DEFINE k == Kill(s, w)
    <2>1. ~s.destroyed /\ w \in s.members => Bad(s, process, w)
      BY <1>11
    <2>2. Core(k, process, {}) /\ Full(k) /\ TrueIn(k) /\ Waiting(k, {})
      BY <1>8, <1>9, <1>10, <1>11, <2>1, KillCore
    <2> HIDE DEF k
    <2>3. pool' = k
      BY <1>2 DEF k
    <2> QED BY <2>2, <2>3 DEF Whole
  <1> QED BY <1>2, <1>12, WholeNext

\* A pool that is destroyed and has no worker to wait for has ended.
LEMMA DestroyedInv ==
  ASSUME PoolInv, Destroyed
  PROVE  PoolInv'
  <1> DEFINE s == [pool EXCEPT !.members = {}, !.over = TRUE]
  <1>1. Whole(pool, process) /\ pool \in PoolType /\ process \in [Ids -> Process]
    BY WholeIsInv DEF Whole, Core
  <1>2. pool' = s /\ process' = process /\ pool.destroyed
    BY DEF Destroyed
  <1>3. /\ s \in PoolType /\ SameJobs(pool, s) /\ s.desired = pool.desired
        /\ s.status = pool.status /\ s.respawn = pool.respawn /\ s.destroyed = pool.destroyed
        /\ s.faults = pool.faults /\ s.asked = pool.asked
        /\ s.members = {} /\ s.ready = pool.ready /\ s.starting = pool.starting
        /\ s.stopping = pool.stopping /\ s.recorded = pool.recorded /\ s.killed = pool.killed
        /\ s.quitting = pool.quitting /\ s.unborn = pool.unborn /\ s.spawned = pool.spawned
    BY <1>1 DEF PoolType, SameJobs
  <1> HIDE DEF s
  <1>4. WorkersHold(pool) /\ JobsHold(pool)
    BY <1>1 DEF Whole, Core
  <1>5. OwnIn(s)
    BY <1>1, <1>3 DEF Whole, Core, OwnIn, SameJobs
  <1>6. JobsHold(s)
    <2>1. \A w \in Ids : s.job[w] = NoJob
      BY <1>2, <1>3, <1>4 DEF WorkersHold, SameJobs
    <2> QED BY <1>3, <1>4, <2>1 DEF JobsHold, SameJobs
  <1>7. WorkersHold(s)
    BY <1>2, <1>3, <1>4 DEF WorkersHold, SameJobs
  <1>8. SparesHold(s, process)
    BY <1>2, <1>3 DEF SparesHold
  <1>9. ProcessesHold(s, process)
    BY <1>1, <1>3 DEF Whole, Core, ProcessesHold
  <1>10. SerialIn(s, {}) /\ TimedIn(s, {})
    BY <1>3 DEF SerialIn, TimedIn
  <1>11. Waiting(s, {}) /\ Full(s) /\ TrueIn(s)
    BY <1>2, <1>3 DEF Waiting, Free, Idle, Full, TrueIn
  <1>12. Whole(s, process)
    BY <1>1, <1>3, <1>5, <1>6, <1>7, <1>8, <1>9, <1>10, <1>11 DEF Whole, Core
  <1> QED BY <1>2, <1>12, WholeNext

\* Destroy refuses every job and stops every worker.
LEMMA DestroyInv ==
  ASSUME PoolInv, Destroy
  PROVE  PoolInv'
  <1> DEFINE M == pool.members
             d == [pool EXCEPT !.destroyed = TRUE, !.respawn = FALSE]
             r == RefusePending(d)
             q == StopWorkers(r, M)
  <1>1. Whole(pool, process) /\ pool \in PoolType /\ process \in [Ids -> Process]
    BY WholeIsInv DEF Whole, Core
  <1>2. pool' = q /\ process' = process
    BY DEF Destroy
  <1>3. /\ d \in PoolType /\ SameWorkers(pool, d) /\ SameJobs(pool, d)
        /\ d.respawn = FALSE /\ d.destroyed = TRUE /\ d.asked = pool.asked
    BY <1>1 DEF PoolType, SameWorkers, SameJobs
  <1>4. M \in SUBSET Ids
    BY <1>1 DEF PoolType
  <1> HIDE DEF M, d
  <1>5. /\ r \in PoolType /\ SameWorkers(d, r) /\ SameFlags(d, r)
        /\ r.pending = <<>> /\ r.job = d.job /\ r.sent = d.sent
        /\ Answers(d, r, Range(d.pending), Refused)
    BY <1>3, RefuseFields
  <1> HIDE DEF r
  <1>6. /\ q \in PoolType /\ SameFlags(r, q) /\ q.pending = r.pending
        /\ q.members = r.members /\ q.ready = r.ready /\ q.recorded = r.recorded
        /\ q.killed = r.killed /\ q.unborn = r.unborn /\ q.spawned = r.spawned
        /\ q.stopping = r.stopping \cup M /\ q.starting = r.starting \ M
        /\ q.quitting = r.quitting \cup (M \ r.killed)
        /\ \A w \in Ids :
             /\ q.job[w] = IF w \in M THEN NoJob ELSE r.job[w]
             /\ q.sent[w] = IF w \in M \ r.killed THEN Append(r.sent[w], NoJob)
                                                  ELSE r.sent[w]
        /\ Answers(r, q, {r.job[w] : w \in M}, Refused)
    BY <1>4, <1>5, StopFields
  <1> HIDE DEF q
  <1>7. /\ q.pending = <<>> /\ q.members = pool.members /\ q.ready = pool.ready
        /\ q.recorded = pool.recorded /\ q.killed = pool.killed /\ q.unborn = pool.unborn
        /\ q.spawned = pool.spawned /\ q.stopping = pool.stopping \cup M
        /\ q.starting = pool.starting \ M /\ q.quitting = pool.quitting \cup (M \ pool.killed)
        /\ q.destroyed = TRUE /\ q.respawn = FALSE /\ q.asked = pool.asked
    BY <1>3, <1>5, <1>6 DEF SameWorkers, SameFlags
  <1>8. \A w \in Ids :
          /\ q.job[w] = IF w \in M THEN NoJob ELSE pool.job[w]
          /\ q.sent[w] = IF w \in M \ pool.killed THEN Append(pool.sent[w], NoJob)
                                                  ELSE pool.sent[w]
    BY <1>3, <1>5, <1>6 DEF SameWorkers, SameJobs
  <1>9. \A j \in Jobs :
          q.answer[j] = IF /\ j \in Range(pool.pending) \cup {pool.job[w] : w \in M}
                           /\ pool.answer[j] = NoJob
                        THEN Refused ELSE pool.answer[j]
    <2>1. \A j \in Jobs :
            /\ r.answer[j] = IF j \in Range(pool.pending) /\ pool.answer[j] = NoJob
                             THEN Refused ELSE pool.answer[j]
            /\ q.answer[j] = IF j \in {r.job[w] : w \in M} /\ r.answer[j] = NoJob
                             THEN Refused ELSE r.answer[j]
      BY <1>3, <1>5, <1>6 DEF Answers, SameJobs
    <2>2. r.job = pool.job
      BY <1>3, <1>5 DEF SameJobs
    <2>3. Refused # NoJob
      BY PoolAssumption
    <2> QED BY <2>1, <2>2, <2>3
  <1>10. JobsHold(pool) /\ WorkersHold(pool) /\ M = pool.members
    BY <1>1 DEF Whole, Core, M
  <1>11. \A w \in Ids : q.job[w] = NoJob
    BY <1>8, <1>10 DEF JobsHold
  <1>12. \A w \in Ids : /\ Range(q.sent[w]) \subseteq Range(pool.sent[w]) \cup {NoJob}
                        /\ w \notin M => q.sent[w] = pool.sent[w]
    <2> TAKE w \in Ids
    <2>1. pool.sent[w] \in Seq(Jobs \cup {NoJob})
      BY <1>1 DEF PoolType
    <2>2. Range(Append(pool.sent[w], NoJob)) = Range(pool.sent[w]) \cup {NoJob}
      BY <2>1, RangeAppend
    <2> QED BY <1>8, <2>2
  <1>13. /\ DOMAIN pool.job = Ids /\ pool.pending \in Seq(Jobs) /\ pool.asked \in Nat
         /\ Refused # NoJob
         /\ \A w \in Ids : pool.sent[w] \in Seq(Jobs \cup {NoJob})
    BY <1>1, PoolAssumption DEF PoolType
  <1>14. OwnIn(q)
    BY <1>1, <1>9 DEF Whole, Core, OwnIn
  <1>15. JobsHold(q)
    <2>1. IsInjective(q.pending) /\ DOMAIN q.pending = {}
      BY <1>7 DEF IsInjective
    <2>2. \A j \in Jobs : q.answer[j] = NoJob => j > q.asked
      <3> TAKE j \in Jobs
      <3> HAVE q.answer[j] = NoJob
      <3>1. /\ pool.answer[j] = NoJob /\ j \notin Range(pool.pending)
            /\ \A w \in M : pool.job[w] # j
        BY <1>9, <1>13
      <3>2. j \notin Range(pool.job)
        <4> SUFFICES ASSUME NEW w \in Ids, pool.job[w] = j PROVE FALSE
          BY <1>13 DEF Range
        <4>1. w \in M
          BY <1>10, PoolAssumption DEF JobsHold, Jobs
        <4> QED BY <3>1, <4>1
      <3> QED BY <1>7, <1>10, <3>1, <3>2 DEF JobsHold
    <2>3. \A j \in Jobs : j > q.asked => q.answer[j] = NoJob
      <3> TAKE j \in Jobs
      <3> HAVE j > q.asked
      <3>1. j \in Nat /\ ~(j <= pool.asked) /\ j # NoJob
        BY <1>7, <1>13, PoolAssumption DEF Jobs
      <3>2. j \notin Range(pool.pending)
        BY <1>10, <3>1 DEF JobsHold, Range
      <3>3. \A w \in Ids : pool.job[w] # j
        BY <1>10, <3>1 DEF JobsHold
      <3> QED BY <1>4, <1>7, <1>9, <1>10, <3>2, <3>3 DEF JobsHold
    <2>4. \A w \in Ids : \A j \in Range(q.sent[w]) \ {NoJob} : q.answer[j] # NoJob
      <3> TAKE w \in Ids
      <3> TAKE j \in Range(q.sent[w]) \ {NoJob}
      <3>1. j \in Range(pool.sent[w]) /\ j \in Jobs
        <4>1. j \in Range(pool.sent[w]) /\ j # NoJob
          BY <1>12
        <4>2. Range(pool.sent[w]) \subseteq Jobs \cup {NoJob}
          BY <1>13 DEF Range
        <4> QED BY <4>1, <4>2
      <3>2. pool.job[w] = j \/ pool.answer[j] # NoJob
        BY <1>10, <3>1 DEF JobsHold
      <3>3. pool.job[w] = j => w \in M
        BY <1>10 DEF JobsHold
      <3> QED BY <1>9, <1>13, <3>1, <3>2, <3>3
    <2> QED BY <1>11, <2>1, <2>2, <2>3, <2>4 DEF JobsHold
  <1>16. WorkersHold(q)
    <2>1. \A w \in Ids : /\ NoJob \in Range(q.sent[w]) => w \in q.stopping
                         /\ q.sent[w] # <<>> => w \in q.ready \cup q.stopping
      BY <1>7, <1>10, <1>12 DEF WorkersHold
    <2> QED BY <1>7, <1>10, <1>11, <2>1 DEF WorkersHold
  <1>17. SparesHold(q, process) /\ TimedIn(q, {}) /\ Waiting(q, {}) /\ Full(q) /\ TrueIn(q)
    BY <1>7 DEF SparesHold, TimedIn, Waiting, Full, TrueIn
  <1>18. ProcessesHold(q, process)
    BY <1>1, <1>7 DEF Whole, Core, ProcessesHold
  <1>19. SerialIn(q, {})
    BY <1>7, <1>10 DEF SerialIn
  <1>20. Whole(q, process)
    BY <1>1, <1>6, <1>14, <1>15, <1>16, <1>17, <1>18, <1>19 DEF Whole, Core
  <1> QED BY <1>2, <1>20, WholeNext
\* A process that dies or lags is a fault, unless it was killed or stopped.
LEMMA ProcessCore ==
  ASSUME NEW p, NEW ps, Whole(p, ps), NEW w \in 1..p.spawned, w \notin p.unborn,
         NEW v \in Process, v.at # "gone", v.at = "booting" => ps[w].at = "booting",
         NEW f \in {p.faults, p.faults + 1}, f <= MaxFaults,
         f = p.faults /\ ~p.destroyed => w \notin p.members \/ w \in p.killed
  PROVE  Whole([p EXCEPT !.faults = f], [ps EXCEPT ![w] = v])
  <1> DEFINE q == [p EXCEPT !.faults = f]
             qs == [ps EXCEPT ![w] = v]
  <1>1. p \in PoolType /\ ps \in [Ids -> Process]
    BY DEF Whole, Core
  <1>2. w \in Ids /\ p.faults \in Nat /\ f \in Nat /\ f \in 0..MaxFaults /\ p.spawned \in Nat
    <2>1. p.faults \in 0..MaxFaults /\ p.spawned \in 0..(Desired + MaxFaults)
      BY <1>1 DEF PoolType
    <2>2. p.faults \in Nat /\ p.spawned \in Nat /\ p.spawned <= Desired + MaxFaults
      BY <2>1, PoolAssumption
    <2>3. f \in 0..MaxFaults
      BY <2>2, PoolAssumption
    <2>4. w \in Ids
      BY <2>2, PoolAssumption DEF Ids
    <2> QED BY <2>2, <2>3, <2>4, PoolAssumption
  <1>3. /\ q \in PoolType /\ SameWorkers(p, q) /\ SameJobs(p, q) /\ q.desired = p.desired
        /\ q.status = p.status /\ q.respawn = p.respawn /\ q.destroyed = p.destroyed
        /\ q.faults = f /\ q.asked = p.asked /\ q.failed = p.failed
    BY <1>1, <1>2 DEF PoolType, SameWorkers, SameJobs
  <1>4. /\ qs \in [Ids -> Process] /\ qs[w] = v /\ \A u \in Ids : u # w => qs[u] = ps[u]
    BY <1>1, <1>2
  <1> HIDE DEF q, qs
  <1>5. OwnIn(q) /\ JobsHold(q) /\ WorkersHold(q)
    BY <1>3 DEF Whole, Core, OwnIn, JobsHold, WorkersHold, SameWorkers, SameJobs
  <1>6. SparesHold(q, qs)
    <2> SUFFICES ASSUME ~p.destroyed PROVE SparesHold(q, qs)
      BY <1>3 DEF SparesHold
    <2>1. Faulty(q, qs) \subseteq Faulty(p, ps) \cup {w}
      <3> SUFFICES ASSUME NEW u \in Faulty(q, qs), u # w PROVE u \in Faulty(p, ps)
        OBVIOUS
      <3>1. u \in Ids
        BY <1>3 DEF Faulty, PoolType
      <3> QED BY <1>3, <1>4, <3>1 DEF Faulty, SameWorkers
    <2>2. f = p.faults => Faulty(q, qs) \subseteq Faulty(p, ps)
      BY <1>3, <2>1 DEF Faulty, SameWorkers
    <2>3. Faulty(q, qs) \in SUBSET Ids /\ Faulty(p, ps) \in SUBSET Ids /\ p.members \in SUBSET Ids
      BY <1>1, <1>3 DEF Faulty, PoolType
    <2> DEFINE c == Cardinality(Faulty(p, ps))
               d == Cardinality(Faulty(q, qs))
               m == Cardinality(p.members)
    <2>4. /\ c \in Nat /\ d \in Nat /\ m \in Nat /\ d <= c + 1
          /\ f = p.faults => d <= c
      BY <1>2, <2>1, <2>2, <2>3, OneMore, Counted
    <2>5. /\ p.spawned + c <= Desired + p.faults
          /\ p.spawned + p.desired + c <= Desired + p.faults + m
      BY DEF Whole, Core, SparesHold
    <2>6. p.desired \in Nat
      BY <1>1, PoolAssumption DEF PoolType
    <2> HIDE DEF c, d, m
    <2>7. /\ p.spawned + d <= Desired + f
          /\ p.spawned + p.desired + d <= Desired + f + m
      BY <1>2, <2>4, <2>5, <2>6, PoolAssumption
    <2> QED BY <1>3, <2>7 DEF SparesHold, SameWorkers, c, d, m
  <1>7. ProcessesHold(q, qs)
    <2>1. ~(w > p.spawned)
      BY <1>2
    <2>2. ProcessesHold(p, ps)
      BY DEF Whole, Core
    <2> SUFFICES ASSUME NEW u \in Ids
                 PROVE  /\ u > q.spawned => qs[u] = [at |-> "booting", late |-> FALSE]
                        /\ u \in q.unborn => qs[u].at = "booting"
                        /\ u \in q.ready => qs[u].at # "booting"
                        /\ qs[u].at = "gone" => u \notin q.members
      BY DEF ProcessesHold
    <2>3. CASE u = w
      BY <1>2, <1>3, <1>4, <2>1, <2>2, <2>3 DEF ProcessesHold, SameWorkers
    <2>4. CASE u # w
      BY <1>3, <1>4, <2>2, <2>4 DEF ProcessesHold, SameWorkers
    <2> QED BY <2>3, <2>4
  <1>8. SerialIn(q, {}) /\ TimedIn(q, {}) /\ Waiting(q, {})
    BY <1>3 DEF Whole, Core, SerialIn, TimedIn, Waiting, Free, Idle, SameWorkers, SameJobs
  <1>9. Full(q) /\ TrueIn(q)
    BY <1>3 DEF Whole, Full, TrueIn, Resolve, ReadyMembers, SameWorkers
  <1>10. Whole(q, qs)
    BY <1>3, <1>4, <1>5, <1>6, <1>7, <1>8, <1>9 DEF Whole, Core
  <1> QED BY <1>10 DEF q, qs

\* A crash and a delay are faults; a worker that was stopped or killed ends.
LEMMA ProcessInv ==
  ASSUME PoolInv, NEW w \in Ids, Leave(w) \/ Die(w) \/ Crash(w) \/ Lag(w)
  PROVE  PoolInv'
  <1>1. Whole(pool, process) /\ pool \in PoolType /\ process \in [Ids -> Process]
    BY WholeIsInv DEF Whole, Core
  <1>2. /\ w \in 1..pool.spawned /\ w \notin pool.unborn /\ process[w].at \in {"booting", "up"}
        /\ ~pool.destroyed
    BY <1>1, PoolAssumption DEF Leave, AtWork, Die, Crash, Lag, Lives, PoolType, Ids
  <1>3. pool.faults \in 0..MaxFaults /\ pool = [pool EXCEPT !.faults = pool.faults]
    BY <1>1 DEF PoolType
  <1> DEFINE dead == [process[w] EXCEPT !.at = "dead"]
             late == [process[w] EXCEPT !.late = TRUE]
  <1>4. /\ dead \in Process /\ dead.at = "dead"
        /\ late \in Process /\ late.at = process[w].at
    BY <1>1 DEF Process
  <1>5. /\ [process EXCEPT ![w].at = "dead"] = [process EXCEPT ![w] = dead]
        /\ [process EXCEPT ![w].late = TRUE] = [process EXCEPT ![w] = late]
    BY <1>1
  <1> HIDE DEF dead, late
  <1>6. CASE Leave(w) \/ Die(w)
    <2>1. pool' = pool /\ process' = [process EXCEPT ![w] = dead]
      BY <1>5, <1>6 DEF Leave, Die, Ends
    <2>2. w \notin pool.members \/ w \in pool.killed
      <3>1. CASE Leave(w)
        <4>1. pool.sent[w] \in Seq(Jobs \cup {NoJob}) /\ pool.sent[w] # <<>>
          BY <1>1, <3>1 DEF Leave, AtWork, PoolType
        <4>2. NoJob \in Range(pool.sent[w])
          BY <3>1, <4>1, RangeTail DEF Leave
        <4> QED BY <1>1, <1>2, <4>2 DEF Whole, Core, WorkersHold
      <3>2. CASE Die(w)
        BY <3>2 DEF Die
      <3> QED BY <1>6, <3>1, <3>2
    <2>3. pool.faults <= MaxFaults
      BY <1>3, PoolAssumption
    <2>4. Whole([pool EXCEPT !.faults = pool.faults], [process EXCEPT ![w] = dead])
      BY <1>1, <1>2, <1>4, <2>2, <2>3, ProcessCore
    <2> QED BY <1>3, <2>1, <2>4, WholeNext
  <1>7. CASE Crash(w) \/ Lag(w)
    <2>1. PICK v \in {dead, late} :
            /\ process' = [process EXCEPT ![w] = v]
            /\ pool' = [pool EXCEPT !.faults = pool.faults + 1] /\ pool.faults < MaxFaults
      BY <1>5, <1>7 DEF Crash, Ends, Lag
    <2>2. pool.faults + 1 <= MaxFaults /\ pool.faults + 1 # pool.faults
      BY <1>3, <2>1, PoolAssumption
    <2>3. v \in Process /\ v.at # "gone" /\ (v.at = "booting" => process[w].at = "booting")
      BY <1>2, <1>4
    <2>4. Whole([pool EXCEPT !.faults = pool.faults + 1], [process EXCEPT ![w] = v])
      BY <1>1, <1>2, <2>2, <2>3, ProcessCore
    <2> QED BY <2>1, <2>4, WholeNext
  <1> QED BY <1>6, <1>7
\* A worker that is to be given up may be left out.
LEMMA Exempt ==
  ASSUME NEW p, NEW ps, NEW w, Core(p, ps, {})
  PROVE  Core(p, ps, {w}) /\ (Waiting(p, {}) => Waiting(p, {w}))
  <1>1. SerialIn(p, {w}) /\ TimedIn(p, {w})
    BY DEF Core, SerialIn, TimedIn
  <1>2. Waiting(p, {}) => Waiting(p, {w})
    BY DEF Waiting
  <1> QED BY <1>1, <1>2 DEF Core

\* The worker of a job whose send failed is given up.
LEMMA SendFailsInv ==
  ASSUME PoolInv, NEW w \in Ids, SendFails(w)
  PROVE  PoolInv'
  <1> DEFINE s == pool.sent[w]
             j == Head(s)
             t == Tail(s)
             p == Told(pool, w, t)
             q == [Answer(p, {j}, Refused) EXCEPT
                     !.job[w] = IF Answer(p, {j}, Refused).job[w] = j THEN NoJob
                                ELSE Answer(p, {j}, Refused).job[w]]
  <1>1. Whole(pool, process) /\ pool \in PoolType /\ process \in [Ids -> Process]
    BY WholeIsInv DEF Whole, Core
  <1>2. /\ s \in Seq(Jobs \cup {NoJob}) /\ s # <<>> /\ j # NoJob /\ process[w].at = "dead"
        /\ process' = process
    BY <1>1 DEF SendFails, PoolType
  <1>3. \E oom \in BOOLEAN : pool' \in GiveUp(q, w, oom)
    BY DEF SendFails, Told
  <1>4. /\ t \in Seq(Jobs \cup {NoJob}) /\ j \in Range(s) /\ j \in Jobs
        /\ Range(t) \subseteq Range(s) /\ Len(t) <= Len(s)
    <2>1. Len(s) \in Nat
      BY <1>2
    <2> HIDE DEF s
    <2>2. /\ Tail(s) \in Seq(Jobs \cup {NoJob}) /\ j \in Range(s)
          /\ Range(s) \subseteq Jobs \cup {NoJob}
          /\ Range(Tail(s)) \subseteq Range(s) /\ Len(Tail(s)) = Len(s) - 1
      BY <1>2, RangeTail
    <2> QED BY <1>2, <2>1, <2>2
  <1> HIDE DEF t
  <1>5. /\ Core(p, process, {}) /\ SameWorkers(pool, p) /\ SameFlags(pool, p)
        /\ p.job = pool.job /\ p.answer = pool.answer
        /\ Waiting(p, {}) /\ Full(p) /\ TrueIn(p)
    BY <1>1, <1>2, <1>4, TrimCore DEF Whole
  <1>6. p \in PoolType
    BY <1>5 DEF Core
  <1>7. w \in 1..p.spawned
    <2>1. w \in pool.ready \cup pool.stopping
      BY <1>1, <1>2 DEF Whole, Core, WorkersHold
    <2> HIDE DEF p
    <2> QED BY <1>1, <1>5, <2>1 DEF Whole, Core, WorkersHold, SameWorkers
  <1> HIDE DEF p, s, j
  <1>8. Answer(p, {j}, Refused).job = p.job
    BY DEF Answer
  <1>9. /\ Core(q, process, {w}) /\ Waiting(q, {w}) /\ Full(q) /\ TrueIn(q)
        /\ SameWorkers(p, q)
    <2>1. CASE p.job[w] = j
      <3> DEFINE freed == [Answer(p, {p.job[w]}, Refused) EXCEPT !.job[w] = NoJob]
      <3>1. q = freed
        BY <1>8, <2>1
      <3> HIDE DEF q, freed
      <3>2. /\ Core(freed, process, {w}) /\ Waiting(freed, {w}) /\ Full(freed) /\ TrueIn(freed)
            /\ SameWorkers(p, freed)
        BY <1>5, SettleCore DEF freed
      <3> QED BY <3>1, <3>2
    <2>2. CASE p.job[w] # j
      <3>1. pool.answer[j] # NoJob
        BY <1>1, <1>2, <1>4, <1>5, <2>2 DEF Whole, Core, JobsHold, s
      <3>2. Answer(p, {j}, Refused) = p
        <4>1. {k \in {j} \cap Jobs : p.answer[k] = NoJob} = {}
          BY <1>5, <3>1
        <4>2. [k \in Jobs |-> IF k \in {} THEN Refused ELSE p.answer[k]] = p.answer
          BY <1>6 DEF PoolType
        <4>3. Answer(p, {j}, Refused)
                = [p EXCEPT !.answer = [k \in Jobs |-> IF k \in {} THEN Refused ELSE p.answer[k]]]
          BY <4>1 DEF Answer
        <4> QED BY <1>6, <4>2, <4>3 DEF PoolType
      <3>3. q = [p EXCEPT !.job[w] = p.job[w]]
        BY <2>2, <3>2
      <3>4. [p EXCEPT !.job[w] = p.job[w]] = p
        BY <1>6 DEF PoolType
      <3> HIDE DEF q
      <3>5. q = p
        BY <3>3, <3>4
      <3>6. SameWorkers(p, p)
        BY DEF SameWorkers
      <3> QED BY <1>5, <3>5, <3>6, Exempt
    <2> QED BY <2>1, <2>2
  <1> HIDE DEF q
  <1>10. w \in 1..q.spawned /\ Bad(q, process, w)
    BY <1>2, <1>7, <1>9 DEF SameWorkers, Bad
  <1>11. Whole(pool', process)
    BY <1>3, <1>9, <1>10, GiveUpCore
  <1> QED BY <1>2, <1>11, WholeNext

\* A child that never came into being is given up; it is not replaced.
LEMMA ForkFailsInv ==
  ASSUME PoolInv, NEW w \in Ids, ForkFails(w)
  PROVE  PoolInv'
  <1> DEFINE s == [pool EXCEPT !.unborn = pool.unborn \cup {w}, !.faults = pool.faults + 1]
  <1>1. Whole(pool, process) /\ pool \in PoolType /\ process \in [Ids -> Process]
    BY WholeIsInv DEF Whole, Core
  <1>2. process' = process /\ \E oom \in BOOLEAN : pool' \in GiveUp(s, w, oom)
    BY DEF ForkFails
  <1>3. /\ pool.faults \in Nat /\ pool.faults + 1 \in 0..MaxFaults /\ pool.spawned \in Nat
        /\ w \in 1..pool.spawned /\ w \notin pool.ready
    <2>1. pool.faults \in 0..MaxFaults /\ pool.spawned \in 0..(Desired + MaxFaults)
      BY <1>1 DEF PoolType
    <2>2. pool.faults \in Nat /\ pool.spawned \in Nat
      BY <2>1, PoolAssumption
    <2>3. pool.faults + 1 \in 0..MaxFaults
      BY <2>2, PoolAssumption DEF ForkFails
    <2>4. w \in 1..pool.spawned
      BY <2>2, PoolAssumption DEF Ids, ForkFails
    <2>5. w \notin pool.ready
      BY <1>1 DEF Whole, Core, ProcessesHold, ForkFails
    <2> QED BY <2>2, <2>3, <2>4, <2>5
  <1>4. /\ s \in PoolType /\ SameJobs(pool, s) /\ s.desired = pool.desired
        /\ s.status = pool.status /\ s.respawn = pool.respawn /\ s.destroyed = pool.destroyed
        /\ s.failed = pool.failed /\ s.asked = pool.asked /\ s.faults = pool.faults + 1
        /\ s.members = pool.members /\ s.ready = pool.ready /\ s.starting = pool.starting
        /\ s.stopping = pool.stopping /\ s.recorded = pool.recorded /\ s.killed = pool.killed
        /\ s.quitting = pool.quitting /\ s.unborn = pool.unborn \cup {w}
        /\ s.spawned = pool.spawned
    <2> DEFINE U == pool.unborn \cup {w}
               f == pool.faults + 1
    <2>1. U \in SUBSET Ids /\ f \in 0..MaxFaults
      BY <1>1, <1>3 DEF PoolType
    <2>2. s = [pool EXCEPT !.unborn = U, !.faults = f]
      OBVIOUS
    <2> HIDE DEF U, f, s
    <2>3. /\ s \in PoolType /\ SameJobs(pool, s) /\ s.desired = pool.desired
          /\ s.status = pool.status /\ s.respawn = pool.respawn /\ s.destroyed = pool.destroyed
          /\ s.failed = pool.failed /\ s.asked = pool.asked /\ s.faults = f
          /\ s.members = pool.members /\ s.ready = pool.ready /\ s.starting = pool.starting
          /\ s.stopping = pool.stopping /\ s.recorded = pool.recorded /\ s.killed = pool.killed
          /\ s.quitting = pool.quitting /\ s.unborn = U /\ s.spawned = pool.spawned
      BY <1>1, <2>1, <2>2 DEF PoolType, SameJobs
    <2> QED BY <2>3 DEF U, f
  <1> HIDE DEF s
  <1>5. OwnIn(s) /\ JobsHold(s)
    BY <1>1, <1>4 DEF Whole, Core, OwnIn, JobsHold, SameJobs
  <1>6. WorkersHold(s)
    <2>1. WorkersHold(pool)
      BY <1>1 DEF Whole, Core
    <2> QED BY <1>3, <1>4, <2>1 DEF WorkersHold, SameJobs
  <1>7. SparesHold(s, process)
    <2>1. Faulty(s, process) \subseteq Faulty(pool, process) \cup {w}
      BY <1>4 DEF Faulty
    <2>2. Faulty(s, process) \in SUBSET Ids /\ Faulty(pool, process) \in SUBSET Ids
          /\ pool.members \in SUBSET Ids /\ pool.desired \in Nat
      BY <1>1, <1>4, PoolAssumption DEF Faulty, PoolType
    <2> DEFINE c == Cardinality(Faulty(pool, process))
               d == Cardinality(Faulty(s, process))
               m == Cardinality(pool.members)
    <2>3. c \in Nat /\ d \in Nat /\ m \in Nat /\ d <= c + 1
      BY <2>1, <2>2, OneMore, Counted
    <2>4. ~pool.destroyed => /\ pool.spawned + c <= Desired + pool.faults
                             /\ pool.spawned + pool.desired + c <= Desired + pool.faults + m
      BY <1>1 DEF Whole, Core, SparesHold
    <2> HIDE DEF c, d, m
    <2>5. ~pool.destroyed =>
            /\ pool.spawned + d <= Desired + (pool.faults + 1)
            /\ pool.spawned + pool.desired + d <= Desired + (pool.faults + 1) + m
      BY <1>3, <2>2, <2>3, <2>4, PoolAssumption
    <2> QED BY <1>4, <2>5 DEF SparesHold, d, m
  <1>8. ProcessesHold(s, process)
    BY <1>1, <1>4 DEF Whole, Core, ProcessesHold, ForkFails
  <1>9. SerialIn(s, {}) /\ TimedIn(s, {}) /\ Waiting(s, {})
    BY <1>1, <1>4 DEF Whole, Core, SerialIn, TimedIn, Waiting, Free, Idle, SameJobs
  <1>10. Full(s) /\ TrueIn(s)
    BY <1>1, <1>4 DEF Whole, Full, TrueIn, Resolve, ReadyMembers
  <1>11. Core(s, process, {})
    BY <1>1, <1>4, <1>5, <1>6, <1>7, <1>8, <1>9 DEF Core
  <1>12. Core(s, process, {w}) /\ Waiting(s, {w})
    BY <1>9, <1>11, Exempt
  <1>13. w \in 1..s.spawned /\ Bad(s, process, w)
    BY <1>3, <1>4 DEF Bad
  <1>14. Whole(pool', process)
    BY <1>2, <1>10, <1>12, <1>13, GiveUpCore
  <1> QED BY <1>2, <1>14, WholeNext
\* A worker that is ready may take a job at once.
LEMMA ReadyInv ==
  ASSUME PoolInv, NEW w \in Ids, Ready(w)
  PROVE  PoolInv'
  <1> DEFINE s == [pool EXCEPT !.starting = pool.starting \ {w}, !.ready = pool.ready \cup {w},
                               !.streak = 0, !.failed = FALSE]
             qs == [process EXCEPT ![w].at = "up"]
  <1>1. Whole(pool, process) /\ pool \in PoolType /\ process \in [Ids -> Process]
    BY WholeIsInv DEF Whole, Core
  <1>2. process' = qs /\ pool' \in Dispatch(Refresh(s))
    BY DEF Ready
  <1>3. /\ w <= pool.spawned /\ w \notin pool.unborn /\ process[w].at = "booting"
        /\ ~pool.destroyed /\ w \in 1..pool.spawned /\ ~(w > pool.spawned)
    <2>1. pool.spawned \in Nat
      BY <1>1, PoolAssumption DEF PoolType
    <2> QED BY <2>1, PoolAssumption DEF Ready, Lives, Ids
  <1>4. /\ qs \in [Ids -> Process] /\ qs[w].at = "up" /\ qs[w].late = process[w].late
        /\ \A u \in Ids : u # w => qs[u] = process[u]
    BY <1>1 DEF Process
  <1>5. /\ s \in PoolType /\ SameJobs(pool, s) /\ s.desired = pool.desired
        /\ s.status = pool.status /\ s.respawn = pool.respawn /\ s.destroyed = pool.destroyed
        /\ s.asked = pool.asked /\ s.faults = pool.faults
        /\ s.members = pool.members /\ s.ready = pool.ready \cup {w}
        /\ s.starting = pool.starting \ {w} /\ s.stopping = pool.stopping
        /\ s.recorded = pool.recorded /\ s.killed = pool.killed /\ s.quitting = pool.quitting
        /\ s.unborn = pool.unborn /\ s.spawned = pool.spawned
    <2> DEFINE R == pool.ready \cup {w}
               S == pool.starting \ {w}
    <2>1. R \in SUBSET Ids /\ S \in SUBSET Ids /\ 0 \in 0..Threshold
      BY <1>1, PoolAssumption DEF PoolType
    <2>2. s = [pool EXCEPT !.starting = S, !.ready = R, !.streak = 0, !.failed = FALSE]
      OBVIOUS
    <2> HIDE DEF R, S, s
    <2>3. /\ s \in PoolType /\ SameJobs(pool, s) /\ s.desired = pool.desired
          /\ s.status = pool.status /\ s.respawn = pool.respawn /\ s.destroyed = pool.destroyed
          /\ s.asked = pool.asked /\ s.faults = pool.faults
          /\ s.members = pool.members /\ s.ready = R /\ s.starting = S
          /\ s.stopping = pool.stopping
          /\ s.recorded = pool.recorded /\ s.killed = pool.killed /\ s.quitting = pool.quitting
          /\ s.unborn = pool.unborn /\ s.spawned = pool.spawned
      BY <1>1, <2>1, <2>2 DEF PoolType, SameJobs
    <2> QED BY <2>3 DEF R, S
  <1> HIDE DEF s, qs
  <1>6. OwnIn(s) /\ JobsHold(s)
    BY <1>1, <1>5 DEF Whole, Core, OwnIn, JobsHold, SameJobs
  <1>7. WorkersHold(s)
    <2>1. WorkersHold(pool)
      BY <1>1 DEF Whole, Core
    <2> QED BY <1>3, <1>5, <2>1 DEF WorkersHold, SameJobs
  <1>8. SparesHold(s, qs)
    <2>1. ASSUME NEW u \in pool.members
          PROVE  /\ qs[u].late = process[u].late
                 /\ qs[u].at = "dead" <=> process[u].at = "dead"
      <3>1. u \in Ids
        BY <1>1 DEF PoolType
      <3>2. CASE u = w
        BY <1>3, <1>4, <3>2
      <3>3. CASE u # w
        BY <1>4, <3>1, <3>3
      <3> QED BY <3>2, <3>3
    <2>2. Faulty(s, qs) = Faulty(pool, process)
      BY <1>5, <2>1 DEF Faulty
    <2> QED BY <1>1, <1>5, <2>2 DEF Whole, Core, SparesHold
  <1>9. ProcessesHold(s, qs)
    <2>1. ProcessesHold(pool, process)
      BY <1>1 DEF Whole, Core
    <2> SUFFICES ASSUME NEW u \in Ids
                 PROVE  /\ u > s.spawned => qs[u] = [at |-> "booting", late |-> FALSE]
                        /\ u \in s.unborn => qs[u].at = "booting"
                        /\ u \in s.ready => qs[u].at # "booting"
                        /\ qs[u].at = "gone" => u \notin s.members
      BY DEF ProcessesHold
    <2>2. CASE u = w
      BY <1>3, <1>4, <1>5, <2>2
    <2>3. CASE u # w
      BY <1>4, <1>5, <2>1, <2>3 DEF ProcessesHold
    <2> QED BY <2>2, <2>3
  <1>10. SerialIn(s, {}) /\ TimedIn(s, {})
    BY <1>1, <1>5 DEF Whole, Core, SerialIn, TimedIn, SameJobs
  <1>11. Core(s, qs, {})
    BY <1>4, <1>5, <1>6, <1>7, <1>8, <1>9, <1>10 DEF Core
  <1> DEFINE f == Refresh(s)
  <1>12. Core(f, qs, {}) /\ TrueIn(f)
    BY <1>11, RefreshCore
  <1> HIDE DEF f
  <1>13. pool' \in Dispatch(f)
    BY <1>2 DEF f
  <1>14. Whole(pool', qs)
    BY <1>12, <1>13, DispatchCore DEF Whole
  <1> QED BY <1>2, <1>14, WholeNext

\* A worker that was not given up is done with the only command it was sent.
LEMMA OnlyCommand ==
  ASSUME NEW p, NEW ps, Whole(p, ps), NEW w \in p.members
  PROVE  Len(p.sent[w]) <= 1 \/ w \in p.killed \cup p.stopping
  BY DEF Whole, Core, SerialIn

\* A job that is done is answered with its own result.
LEMMA FinishInv ==
  ASSUME PoolInv, NEW w \in Ids, Finish(w)
  PROVE  PoolInv'
  <1> DEFINE s == pool.sent[w]
             j == Head(s)
             t == Tail(s)
             p == Told(pool, w, t)
  <1>1. Whole(pool, process) /\ pool \in PoolType
    BY WholeIsInv DEF Whole, Core
  <1>2. s \in Seq(Jobs \cup {NoJob}) /\ s # <<>> /\ j # NoJob
    BY <1>1 DEF Finish, AtWork, PoolType
  <1>3. pool' \in Hear(p, w, j, j) /\ process' = process
    BY DEF Finish, Told
  <1>4. /\ t \in Seq(Jobs \cup {NoJob}) /\ j \in Range(s) /\ j \in Jobs
        /\ Range(t) \subseteq Range(s) /\ Len(t) <= Len(s)
        /\ Len(t) = Len(s) - 1 /\ Len(s) \in Nat
    <2>1. Len(s) \in Nat
      BY <1>2
    <2> HIDE DEF s
    <2>2. /\ Tail(s) \in Seq(Jobs \cup {NoJob}) /\ j \in Range(s)
          /\ Range(s) \subseteq Jobs \cup {NoJob}
          /\ Range(Tail(s)) \subseteq Range(s) /\ Len(Tail(s)) = Len(s) - 1
      BY <1>2, RangeTail
    <2> QED BY <1>2, <2>1, <2>2
  <1> HIDE DEF t
  <1>5. /\ Core(p, process, {}) /\ p.sent[w] = t /\ SameWorkers(pool, p)
        /\ Waiting(p, {}) /\ Full(p) /\ TrueIn(p)
    <2>1. /\ Core(p, process, {}) /\ SameWorkers(pool, p)
          /\ Waiting(p, {}) /\ Full(p) /\ TrueIn(p)
      BY <1>1, <1>2, <1>4, TrimCore DEF Whole
    <2>2. p.sent[w] = t
      BY <1>1 DEF PoolType, Told
    <2> QED BY <2>1, <2>2
  <1>6. w \in p.members => p.sent[w] = <<>> \/ w \in p.killed \cup p.stopping
    <2>1. CASE w \in pool.members /\ Len(s) <= 1
      <3>1. Len(t) = 0
        <4>1. Len(t) \in Nat
          BY <1>4
        <4> HIDE DEF s
        <4> QED BY <1>4, <2>1, <4>1
      <3>2. t = <<>>
        BY <1>4, <3>1
      <3> QED BY <1>5, <3>2
    <2>2. CASE w \in pool.killed \cup pool.stopping
      BY <1>5, <2>2 DEF SameWorkers
    <2>3. CASE w \notin pool.members
      BY <1>5, <2>3 DEF SameWorkers
    <2> QED BY <1>1, <2>1, <2>2, <2>3, OnlyCommand
  <1>7. j \in {j, Refused}
    OBVIOUS
  <1> HIDE DEF p, j, s
  <1>8. Whole(p, process)
    BY <1>5 DEF Whole
  <1>9. Whole(pool', process)
    BY <1>3, <1>4, <1>6, <1>7, <1>8, HearCore
  <1> QED BY <1>3, <1>9, WholeNext

\* A decode that meets another is refused by the process.
LEMMA RefuseSecondInv ==
  ASSUME PoolInv, NEW w \in Ids, RefuseSecond(w)
  PROVE  PoolInv'
  <1> DEFINE s == pool.sent[w]
             j == s[2]
             t == <<Head(s)>> \o SubSeq(s, 3, Len(s))
             p == Told(pool, w, t)
  <1>1. Whole(pool, process) /\ pool \in PoolType
    BY WholeIsInv DEF Whole, Core
  <1>2. s \in Seq(Jobs \cup {NoJob}) /\ Len(s) > 1 /\ j # NoJob
    BY <1>1 DEF RefuseSecond, PoolType
  <1>3. pool' \in Hear(p, w, j, Refused) /\ process' = process
    BY DEF RefuseSecond, Told
  <1>4. /\ t \in Seq(Jobs \cup {NoJob}) /\ j \in Jobs /\ s # <<>>
        /\ Range(t) \subseteq Range(s) /\ Len(t) <= Len(s)
    <2> DEFINE S == Jobs \cup {NoJob}
               n == Len(s)
               k == 2
               u == SubSeq(s, k + 1, n)
    <2>1. n \in Nat /\ n > 1 /\ s \in Seq(S) /\ s # <<>> /\ j \in S
      BY <1>2
    <2> HIDE DEF s, S
    <2>2. k \in Nat /\ k <= n /\ \A i \in (k + 1)..n : s[i] \in S
      BY <2>1
    <2>3. /\ u \in Seq(S) /\ Len(u) = n - 2
          /\ \A i \in 1..(n - 2) : u[i] = s[3 + i - 1]
      <3> HIDE DEF k
      <3>1. /\ u \in Seq(S) /\ Len(u) = n - k
            /\ \A i \in 1..(n - k) : u[i] = s[(k + 1) + i - 1]
        BY <2>1, <2>2
      <3> QED BY <3>1 DEF k
    <2>4. <<Head(s)>> \in Seq(S) /\ Len(<<Head(s)>>) = 1 /\ Head(s) = s[1]
      BY <2>1
    <2> HIDE DEF u
    <2>5. /\ t \in Seq(S) /\ Len(t) = 1 + (n - 2)
          /\ DOMAIN t = 1..(n - 1)
          /\ \A i \in 1..(n - 1) : t[i] = IF i = 1 THEN s[1] ELSE u[i - 1]
      BY <2>1, <2>3, <2>4 DEF u
    <2>6. \A i \in 1..(n - 1) : t[i] \in Range(s)
      <3> TAKE i \in 1..(n - 1)
      <3>1. CASE i = 1
        BY <2>1, <2>5, <3>1 DEF Range
      <3>2. CASE i # 1
        <4>1. i - 1 \in 1..(n - 2) /\ 3 + (i - 1) - 1 = i + 1 /\ i + 1 \in 1..n
          BY <2>1, <3>2
        <4>2. t[i] = s[i + 1]
          BY <2>3, <2>5, <3>2, <4>1
        <4> QED BY <2>1, <4>1, <4>2 DEF Range
      <3> QED BY <3>1, <3>2
    <2>7. Range(t) \subseteq Range(s)
      BY <2>5, <2>6 DEF Range
    <2> QED BY <1>2, <2>1, <2>5, <2>7 DEF S
  <1> HIDE DEF t
  <1>5. /\ Core(p, process, {}) /\ SameWorkers(pool, p)
        /\ Waiting(p, {}) /\ Full(p) /\ TrueIn(p)
    BY <1>1, <1>4, TrimCore DEF Whole
  <1>6. w \in p.members => w \in p.killed \cup p.stopping
    <2>1. Len(s) \in Nat /\ ~(Len(s) <= 1)
      BY <1>2
    <2> QED BY <1>1, <1>5, <2>1, OnlyCommand DEF SameWorkers
  <1> HIDE DEF p, j, s
  <1>7. Whole(p, process)
    BY <1>5 DEF Whole
  <1>8. Refused \in {j, Refused}
    OBVIOUS
  <1>9. Whole(pool', process)
    BY <1>3, <1>4, <1>6, <1>7, <1>8, HearCore
  <1> QED BY <1>3, <1>9, WholeNext
\* The pool without a worker that is gone.
Without(p, w) ==
  [p EXCEPT !.members = p.members \ {w}, !.starting = p.starting \ {w},
            !.quitting = p.quitting \ {w}, !.sent[w] = <<>>]

WithGone(ps, w) == [ps EXCEPT ![w] = [at |-> "gone", late |-> FALSE]]

\* A worker that has left takes nothing with it: its job has its answer.
LEMMA LeaveCore ==
  ASSUME NEW p, NEW ps, NEW w \in Ids, Core(p, ps, {w}), p.job[w] = NoJob,
         ~(w > p.spawned), w \notin p.unborn, ~p.destroyed => ps[w].at = "dead"
  PROVE  LET q == Without(p, w)
         IN  /\ Core(q, WithGone(ps, w), {}) /\ q.members = p.members \ {w}
             /\ q.sent[w] = <<>>
             /\ q.quitting = p.quitting \ {w} /\ SameFlags(p, q)
             /\ q.stopping = p.stopping /\ q.spawned = p.spawned
             /\ Waiting(p, {w}) => Waiting(q, {})
  <1> DEFINE q == Without(p, w)
             qs == WithGone(ps, w)
             gone == [at |-> "gone", late |-> FALSE]
  <1>1. p \in PoolType /\ ps \in [Ids -> Process]
    BY DEF Core
  <1>2. /\ qs \in [Ids -> Process] /\ qs[w] = gone /\ gone.at = "gone"
        /\ \A u \in Ids : u # w => qs[u] = ps[u]
    BY <1>1 DEF Process, WithGone
  <1>3. /\ q \in PoolType /\ SameFlags(p, q) /\ q.pending = p.pending /\ q.job = p.job
        /\ q.answer = p.answer /\ q.members = p.members \ {w} /\ q.ready = p.ready
        /\ q.starting = p.starting \ {w} /\ q.stopping = p.stopping
        /\ q.recorded = p.recorded /\ q.killed = p.killed /\ q.quitting = p.quitting \ {w}
        /\ q.unborn = p.unborn /\ q.spawned = p.spawned
        /\ q.sent[w] = <<>> /\ \A u \in Ids : u # w => q.sent[u] = p.sent[u]
    <2> DEFINE M == p.members \ {w}
               S == p.starting \ {w}
               U == p.quitting \ {w}
               t == [p.sent EXCEPT ![w] = <<>>]
    <2>1. M \in SUBSET Ids /\ S \in SUBSET Ids /\ U \in SUBSET Ids
      BY <1>1 DEF PoolType
    <2>2. /\ t \in [Ids -> Seq(Jobs \cup {NoJob})] /\ t[w] = <<>>
          /\ \A u \in Ids : u # w => t[u] = p.sent[u]
      <3>1. p.sent \in [Ids -> Seq(Jobs \cup {NoJob})] /\ <<>> \in Seq(Jobs \cup {NoJob})
        BY <1>1 DEF PoolType
      <3> QED BY <3>1
    <2>3. q = [p EXCEPT !.members = M, !.starting = S, !.quitting = U, !.sent = t]
      BY <1>1 DEF PoolType, Without
    <2> HIDE DEF M, S, U, t, q
    <2>4. /\ q \in PoolType /\ SameFlags(p, q) /\ q.pending = p.pending /\ q.job = p.job
          /\ q.answer = p.answer /\ q.members = M /\ q.ready = p.ready
          /\ q.starting = S /\ q.stopping = p.stopping
          /\ q.recorded = p.recorded /\ q.killed = p.killed /\ q.quitting = U
          /\ q.unborn = p.unborn /\ q.spawned = p.spawned /\ q.sent = t
      BY <1>1, <2>1, <2>2, <2>3 DEF PoolType, SameFlags
    <2> QED BY <2>2, <2>4 DEF M, S, U
  <1> HIDE DEF q, qs, gone
  <1>4. JobsHold(p) /\ WorkersHold(p)
    BY DEF Core
  <1>5. OwnIn(q)
    BY <1>3 DEF Core, OwnIn
  <1>6. \A u \in Ids : Range(q.sent[u]) \subseteq Range(p.sent[u])
    BY <1>3 DEF Range
  <1>7. JobsHold(q)
    <2>1. \A u \in Ids : q.job[u] # NoJob => u \in q.members
      BY <1>3, <1>4 DEF JobsHold
    <2>2. \A u \in Ids : \A j \in Range(q.sent[u]) \ {NoJob} :
            q.job[u] = j \/ q.answer[j] # NoJob
      BY <1>3, <1>4, <1>6 DEF JobsHold
    <2> QED BY <1>3, <1>4, <2>1, <2>2 DEF JobsHold, SameFlags
  <1>8. WorkersHold(q)
    <2>1. \A u \in Ids : /\ NoJob \in Range(q.sent[u]) => u \in q.stopping
                         /\ q.sent[u] # <<>> => u \in q.ready \cup q.stopping
      BY <1>3, <1>4, <1>6 DEF WorkersHold
    <2> QED BY <1>3, <1>4, <2>1 DEF WorkersHold, SameFlags
  <1>9. SparesHold(q, qs)
    <2> SUFFICES ASSUME ~p.destroyed PROVE SparesHold(q, qs)
      BY <1>3 DEF SparesHold, SameFlags
    <2>1. Faulty(q, qs) = Faulty(p, ps) \ {w}
      <3>1. p.members \subseteq Ids
        BY <1>1 DEF PoolType
      <3> QED BY <1>2, <1>3, <3>1 DEF Faulty
    <2>2. w \in p.members <=> w \in Faulty(p, ps)
      BY DEF Faulty
    <2>3. /\ IsFiniteSet(p.members) /\ Cardinality(p.members) \in Nat
          /\ IsFiniteSet(Faulty(p, ps)) /\ Cardinality(Faulty(p, ps)) \in Nat
      <3>1. p.members \in SUBSET Ids /\ Faulty(p, ps) \in SUBSET Ids
        BY <1>1 DEF PoolType, Faulty
      <3> QED BY <3>1, Counted
    <2> DEFINE c == Cardinality(Faulty(p, ps))
               d == Cardinality(Faulty(q, qs))
               m == Cardinality(p.members)
               n == Cardinality(q.members)
    <2>4. n = IF w \in p.members THEN m - 1 ELSE m
      <3>1. Cardinality(p.members \ {w}) = IF w \in p.members THEN m - 1 ELSE m
        BY <2>3, FS_RemoveElement
      <3> QED BY <1>3, <3>1
    <2>5. d = IF w \in p.members THEN c - 1 ELSE c
      <3>1. Cardinality(Faulty(p, ps) \ {w}) = IF w \in Faulty(p, ps) THEN c - 1 ELSE c
        BY <2>3, FS_RemoveElement
      <3> QED BY <2>1, <2>2, <3>1
    <2>6. /\ p.spawned + c <= Desired + p.faults
          /\ p.spawned + p.desired + c <= Desired + p.faults + m
      BY DEF Core, SparesHold
    <2>7. p.spawned \in Nat /\ p.faults \in Nat /\ p.desired \in Nat /\ c \in Nat /\ m \in Nat
      BY <1>1, <2>3, PoolAssumption DEF PoolType
    <2> HIDE DEF c, d, m, n
    <2>8. /\ p.spawned + d <= Desired + p.faults
          /\ p.spawned + p.desired + d <= Desired + p.faults + n
      <3>1. CASE w \in p.members
        <4>1. n = m - 1 /\ d = c - 1
          BY <2>4, <2>5, <3>1
        <4> QED BY <2>6, <2>7, <4>1, PoolAssumption
      <3>2. CASE w \notin p.members
        <4>1. n = m /\ d = c
          BY <2>4, <2>5, <3>2
        <4> QED BY <2>6, <4>1
      <3> QED BY <3>1, <3>2
    <2> QED BY <1>3, <2>8 DEF SparesHold, SameFlags, d, n
  <1>10. ProcessesHold(q, qs)
    <2> SUFFICES ASSUME NEW u \in Ids
                 PROVE  /\ u > q.spawned => qs[u] = [at |-> "booting", late |-> FALSE]
                        /\ u \in q.unborn => qs[u].at = "booting"
                        /\ u \in q.ready => qs[u].at # "booting"
                        /\ qs[u].at = "gone" => u \notin q.members
      BY DEF ProcessesHold
    <2>1. CASE u = w
      BY <1>2, <1>3, <2>1
    <2>2. CASE u # w
      BY <1>2, <1>3, <2>2 DEF Core, ProcessesHold
    <2> QED BY <2>1, <2>2
  <1>11. SerialIn(q, {})
    <2> SUFFICES ASSUME NEW v \in p.members \ (p.killed \cup p.stopping \cup {w})
                 PROVE  Len(q.sent[v]) <= 1 /\ Range(q.sent[v]) \ {NoJob} \subseteq {q.job[v]}
      BY <1>3 DEF SerialIn
    <2>1. v \in Ids /\ v # w
      BY <1>1 DEF PoolType
    <2> QED BY <1>3, <2>1 DEF Core, SerialIn
  <1>12. TimedIn(q, {})
    BY <1>3 DEF Core, TimedIn, SameFlags
  <1>13. Waiting(p, {w}) => Waiting(q, {})
    BY <1>3 DEF Waiting, Free, Idle
  <1> QED BY <1>2, <1>3, <1>5, <1>7, <1>8, <1>9, <1>10, <1>11, <1>12, <1>13 DEF Core, q, qs

\* A worker that is not a member and hears nothing can be forgotten.
LEMMA ForgetCore ==
  ASSUME NEW p, NEW ps, Whole(p, ps), NEW w \in Ids, w \notin p.members, p.sent[w] = <<>>,
         w \notin p.quitting
  PROVE  Whole(Forget(p, w), ps)
  <1> DEFINE q == Forget(p, w)
             R == p.ready \ {w}
             K == p.killed \ {w}
             S == p.stopping \ {w}
             D == p.recorded \ {w}
  <1>1. p \in PoolType /\ ps \in [Ids -> Process] /\ JobsHold(p) /\ WorkersHold(p)
    BY DEF Whole, Core
  <1>2. q = [p EXCEPT !.ready = R, !.killed = K, !.stopping = S, !.recorded = D]
    BY DEF Forget
  <1>3. R \in SUBSET Ids /\ K \in SUBSET Ids /\ S \in SUBSET Ids /\ D \in SUBSET Ids
    BY <1>1 DEF PoolType
  <1> HIDE DEF q, R, K, S, D
  <1>4. /\ q \in PoolType /\ SameFlags(p, q) /\ SameJobs(p, q) /\ q.members = p.members
        /\ q.ready = R /\ q.starting = p.starting /\ q.stopping = S /\ q.recorded = D
        /\ q.killed = K /\ q.quitting = p.quitting /\ q.unborn = p.unborn
        /\ q.spawned = p.spawned
    BY <1>1, <1>2, <1>3 DEF PoolType, SameFlags, SameJobs
  <1>5. /\ \A u : u # w => /\ u \in R <=> u \in p.ready
                           /\ u \in K <=> u \in p.killed
                           /\ u \in S <=> u \in p.stopping
                           /\ u \in D <=> u \in p.recorded
        /\ R \subseteq p.ready /\ K \subseteq p.killed /\ S \subseteq p.stopping
        /\ D \subseteq p.recorded
    BY DEF R, K, S, D
  <1>6. OwnIn(q)
    BY <1>4 DEF Whole, Core, OwnIn, SameJobs
  <1>7. JobsHold(q)
    <2>1. \A u \in Ids : q.job[u] # NoJob => u \in q.members \cap q.ready
      BY <1>1, <1>4, <1>5 DEF JobsHold, SameJobs
    <2> QED BY <1>1, <1>4, <2>1 DEF JobsHold, SameJobs, SameFlags
  <1>8. WorkersHold(q)
    <2>1. \A u \in Ids : /\ NoJob \in Range(q.sent[u]) => u \in q.stopping
                         /\ q.sent[u] # <<>> => u \in q.ready \cup q.stopping
      <3> TAKE u \in Ids
      <3>1. CASE u = w
        BY <1>4, <3>1 DEF SameJobs, Range
      <3>2. CASE u # w
        BY <1>1, <1>4, <1>5, <3>2 DEF WorkersHold, SameJobs
      <3> QED BY <3>1, <3>2
    <2>2. q.quitting \subseteq q.stopping
      BY <1>1, <1>4, <1>5 DEF WorkersHold
    <2>3. p.members \subseteq p.stopping => q.members \subseteq q.stopping
      BY <1>4, <1>5
    <2> QED BY <1>1, <1>4, <1>5, <2>1, <2>2, <2>3 DEF WorkersHold, SameJobs, SameFlags
  <1>9. SparesHold(q, ps)
    <2>1. Faulty(q, ps) = Faulty(p, ps)
      BY <1>4, <1>5 DEF Faulty
    <2> QED BY <1>4, <2>1 DEF Whole, Core, SparesHold, SameFlags
  <1>10. ProcessesHold(q, ps)
    BY <1>4, <1>5 DEF Whole, Core, ProcessesHold
  <1>11. SerialIn(q, {})
    BY <1>4, <1>5 DEF Whole, Core, SerialIn, SameJobs
  <1>12. TimedIn(q, {})
    BY <1>4, <1>5 DEF Whole, Core, TimedIn, SameFlags
  <1>13. Waiting(q, {})
    BY <1>4, <1>5 DEF Whole, Waiting, Free, Idle, SameJobs
  <1>14. Full(q) /\ TrueIn(q)
    <2>1. ReadyMembers(q) = ReadyMembers(p)
      BY <1>4, <1>5 DEF ReadyMembers
    <2> QED BY <1>4, <2>1 DEF Whole, Full, TrueIn, Resolve, SameFlags
  <1> QED BY <1>1, <1>4, <1>6, <1>7, <1>8, <1>9, <1>10, <1>11, <1>12, <1>13, <1>14
          DEF Whole, Core, q

\* An exit answers the job of the worker; unless it was expected it is a
\* failure, and the worker is replaced.
LEMMA ExitInv ==
  ASSUME PoolInv, NEW w \in Ids, Exit(w)
  PROVE  PoolInv'
  <1> DEFINE s == [Answer(pool, {pool.job[w]}, Refused) EXCEPT !.job[w] = NoJob]
             l == Without(s, w)
             qs == WithGone(process, w)
  <1>1. Whole(pool, process) /\ pool \in PoolType /\ process \in [Ids -> Process]
    BY WholeIsInv DEF Whole, Core
  <1>2. ~(w > pool.spawned) /\ w \notin pool.unborn /\ (~pool.destroyed => process[w].at = "dead")
    <2>1. pool.spawned \in Nat /\ w \in Nat
      BY <1>1, PoolAssumption DEF PoolType, Ids
    <2>2. CASE process[w].at = "dead"
      BY <1>1, <2>2 DEF Whole, Core, ProcessesHold
    <2>3. CASE pool.destroyed /\ Lives(w)
      BY <2>1, <2>3 DEF Lives
    <2> QED BY <2>2, <2>3 DEF Exit, Dead
  <1>3. l = Left(w)
    BY DEF Left, Settled, Without
  <1>4. process' = qs /\
        \/ /\ l.destroyed \/ w \in l.stopping
           /\ pool' = Forget(Refresh(l), w)
        \/ /\ ~l.destroyed
           /\ \E q \in HandleWorkerFailure(l, w, FALSE) :
                \E r \in Dispatch(ScheduleRespawn(q)) : pool' = Forget(Refresh(r), w)
    <2>1. process' = qs
      BY DEF Exit, WithGone
    <2>2. PICK p \in {Left(w)} :
            IF p.destroyed \/ w \in p.stopping THEN pool' = Forget(Refresh(p), w)
            ELSE \E q \in HandleWorkerFailure(p, w, FALSE) :
                   \E r \in Dispatch(ScheduleRespawn(q)) : pool' = Forget(Refresh(r), w)
      BY Zenon DEF Exit
    <2>3. p = l
      BY <1>3, <2>2
    <2> HIDE DEF l, qs
    <2>4. IF l.destroyed \/ w \in l.stopping THEN pool' = Forget(Refresh(l), w)
          ELSE \E q \in HandleWorkerFailure(l, w, FALSE) :
                 \E r \in Dispatch(ScheduleRespawn(q)) : pool' = Forget(Refresh(r), w)
      BY <2>2, <2>3
    <2> QED BY <2>1, <2>4
  <1> HIDE DEF s
  <1>5. /\ Core(s, process, {w}) /\ SameWorkers(pool, s) /\ SameFlags(pool, s)
        /\ s.job[w] = NoJob /\ Waiting(s, {w}) /\ Full(s)
    <2>1. Refused \in Jobs \cup {Refused} /\ Refused \in {pool.job[w], Refused}
      OBVIOUS
    <2>2. Core(pool, process, {}) /\ Waiting(pool, {}) /\ Full(pool)
      BY <1>1 DEF Whole
    <2>3. /\ Core(s, process, {w}) /\ SameWorkers(pool, s) /\ SameFlags(pool, s)
          /\ Waiting(pool, {}) => Waiting(s, {w})
          /\ Full(pool) => Full(s)
      <3>1. Core(s, process, {w}) /\ SameWorkers(pool, s) /\ (Full(pool) => Full(s))
        BY <2>1, <2>2, SettleCore DEF s
      <3>2. Waiting(pool, {}) => Waiting(s, {w})
        BY <2>1, <2>2, SettleCore DEF s
      <3>3. SameFlags(pool, s)
        BY <1>1, SettleFields DEF s
      <3> QED BY <3>1, <3>2, <3>3
    <2>4. s.job[w] = NoJob
      <3> DEFINE a == Answer(pool, {pool.job[w]}, Refused)
      <3>1. a \in PoolType
        BY <1>1, AnswerFields
      <3>2. s = [a EXCEPT !.job[w] = NoJob]
        BY DEF s
      <3> HIDE DEF a
      <3> QED BY <3>1, <3>2 DEF PoolType
    <2> QED BY <2>2, <2>3, <2>4
  <1> HIDE DEF l, qs
  <1>6. /\ Core(l, qs, {}) /\ l.members = s.members \ {w} /\ l.sent[w] = <<>>
        /\ l.quitting = s.quitting \ {w} /\ SameFlags(s, l) /\ l.stopping = s.stopping
        /\ l.spawned = s.spawned /\ Waiting(l, {})
    <2>1. ~(w > s.spawned) /\ w \notin s.unborn /\ (~s.destroyed => process[w].at = "dead")
      BY <1>2, <1>5 DEF SameWorkers, SameFlags
    <2>2. /\ Core(l, qs, {}) /\ l.members = s.members \ {w} /\ l.sent[w] = <<>>
          /\ l.quitting = s.quitting \ {w} /\ SameFlags(s, l) /\ l.stopping = s.stopping
          /\ l.spawned = s.spawned
          /\ Waiting(s, {w}) => Waiting(l, {})
      <3>1. Core(s, process, {w}) /\ s.job[w] = NoJob
        BY <1>5
      <3> QED BY <2>1, <3>1, LeaveCore DEF l, qs
    <2> QED BY <1>5, <2>2
  <1>7. w \notin l.members /\ w \notin l.quitting
    BY <1>6
  <1>8. CASE /\ l.destroyed \/ w \in l.stopping
             /\ pool' = Forget(Refresh(l), w)
    <2> DEFINE f == Refresh(l)
    <2>1. /\ Core(f, qs, {}) /\ TrueIn(f) /\ Keeps(l, f) /\ f.respawn = l.respawn
          /\ f.members = l.members /\ f.desired = l.desired /\ Waiting(f, {})
      BY <1>6, RefreshCore
    <2> HIDE DEF f
    <2>2. Full(f)
      <3>1. CASE l.destroyed
        BY <2>1, <3>1 DEF Full, Keeps
      <3>2. CASE ~l.destroyed /\ w \in l.stopping
        <4>1. w \notin s.members
          BY <1>5, <1>6, <3>2 DEF Core, WorkersHold, SameFlags
        <4>2. l.members = s.members
          BY <1>6, <4>1
        <4> QED BY <1>5, <1>6, <2>1, <4>2 DEF Full, Keeps, SameFlags
      <3> QED BY <1>8, <3>1, <3>2
    <2>3. w \notin f.members /\ f.sent[w] = <<>> /\ w \notin f.quitting
      BY <1>6, <1>7, <2>1 DEF Keeps
    <2>4. Whole(f, qs)
      BY <2>1, <2>2 DEF Whole
    <2>5. Whole(Forget(f, w), qs)
      BY <2>3, <2>4, ForgetCore
    <2> QED BY <1>4, <1>8, <2>5, WholeNext DEF f
  <1>9. CASE /\ ~l.destroyed
             /\ \E q \in HandleWorkerFailure(l, w, FALSE) :
                  \E r \in Dispatch(ScheduleRespawn(q)) : pool' = Forget(Refresh(r), w)
    <2>1. PICK h \in HandleWorkerFailure(l, w, FALSE) :
            \E r \in Dispatch(ScheduleRespawn(h)) : pool' = Forget(Refresh(r), w)
      BY <1>9
    <2> DEFINE c == ScheduleRespawn(h)
    <2>2. PICK r \in Dispatch(c) : pool' = Forget(Refresh(r), w)
      BY <2>1
    <2>3. w \in 1..l.spawned
      <3>1. l.spawned = pool.spawned /\ l.spawned \in Nat
        <4>1. l.spawned = pool.spawned
          BY <1>5, <1>6 DEF SameWorkers
        <4> QED BY <1>1, <4>1, PoolAssumption DEF PoolType
      <3> QED BY <1>2, <3>1, PoolAssumption DEF Ids
    <2>4. Core(h, qs, {}) /\ Keeps(l, h)
      BY <1>6, <2>3, HandleCore DEF Passes
    <2>5. Core(c, qs, {}) /\ Keeps(h, c) /\ (~c.destroyed => c.respawn)
      BY <2>4, ScheduleCore
    <2> HIDE DEF c
    <2>6. ~c.destroyed /\ c.respawn
      BY <1>9, <2>4, <2>5 DEF Keeps
    <2>7. Core(r, qs, {}) /\ Waiting(r, {}) /\ Full(r) /\ Keeps(c, r)
      BY <2>2, <2>5, <2>6, DispatchCore
    <2> DEFINE f == Refresh(r)
    <2>8. /\ Core(f, qs, {}) /\ TrueIn(f) /\ Keeps(r, f) /\ f.respawn = r.respawn
          /\ f.members = r.members /\ f.desired = r.desired /\ Waiting(f, {})
      BY <2>7, RefreshCore
    <2> HIDE DEF f
    <2>9. Full(f)
      BY <2>7, <2>8 DEF Full, Keeps
    <2>10. w \notin f.members /\ f.sent[w] = <<>> /\ w \notin f.quitting
      <3>1. w \notin h.members /\ h.sent[w] = <<>> /\ w \notin h.quitting
        BY <1>6, <1>7, <2>4 DEF Keeps
      <3>2. w \notin c.members /\ c.sent[w] = <<>> /\ w \notin c.quitting
        BY <2>5, <3>1 DEF Keeps
      <3>3. w \notin r.members /\ r.sent[w] = <<>> /\ w \notin r.quitting
        BY <2>7, <3>2 DEF Keeps
      <3> QED BY <2>8, <3>3 DEF Keeps
    <2>11. Whole(Forget(f, w), qs)
      <3>1. Whole(f, qs)
        BY <2>8, <2>9 DEF Whole
      <3> QED BY <2>10, <3>1, ForgetCore
    <2> QED BY <1>4, <2>2, <2>11, WholeNext DEF f
  <1> QED BY <1>4, <1>8, <1>9
\* Every step of the pool and of its processes keeps what the pool knows true.
LEMMA NextInv ==
  ASSUME PoolInv, [Next]_vars
  PROVE  PoolInv'
  <1>1. CASE Decode
    BY <1>1, DecodeInv
  <1>2. CASE Destroy
    BY <1>2, DestroyInv
  <1>3. CASE Respawn
    BY <1>3, RespawnInv
  <1>4. CASE Destroyed
    BY <1>4, DestroyedInv
  <1>5. ASSUME NEW w \in Ids,
               \/ JobTimeout(w) \/ StartTimeout(w) \/ ShutdownTimeout(w)
               \/ Exit(w) \/ SendFails(w) \/ ForkFails(w)
               \/ Ready(w) \/ Finish(w) \/ RefuseSecond(w)
               \/ Leave(w) \/ Die(w) \/ Crash(w) \/ Lag(w)
        PROVE  PoolInv'
    <2>1. CASE JobTimeout(w)
      BY <2>1, JobTimeoutInv
    <2>2. CASE StartTimeout(w)
      BY <2>2, StartTimeoutInv
    <2>3. CASE ShutdownTimeout(w)
      BY <2>3, ShutdownTimeoutInv
    <2>4. CASE Exit(w)
      BY <2>4, ExitInv
    <2>5. CASE SendFails(w)
      BY <2>5, SendFailsInv
    <2>6. CASE ForkFails(w)
      BY <2>6, ForkFailsInv
    <2>7. CASE Ready(w)
      BY <2>7, ReadyInv
    <2>8. CASE Finish(w)
      BY <2>8, FinishInv
    <2>9. CASE RefuseSecond(w)
      BY <2>9, RefuseSecondInv
    <2>10. CASE Leave(w) \/ Die(w) \/ Crash(w) \/ Lag(w)
      BY <2>10, ProcessInv
    <2> QED BY <1>5, <2>1, <2>2, <2>3, <2>4, <2>5, <2>6, <2>7, <2>8, <2>9, <2>10
  <1>6. CASE UNCHANGED vars
    <2>1. Whole(pool, process) /\ pool' = pool /\ process' = process
      BY <1>6, WholeIsInv DEF vars
    <2> QED BY <2>1, WholeNext
  <1> QED BY <1>1, <1>2, <1>3, <1>4, <1>5, <1>6 DEF Next

-----------------------------------------------------------------------------
(* The theorems                                                            *)

\* What the pool knows of its jobs, its workers and its status is always true.
THEOREM PoolIsSound == Spec => []PoolInv
  <1>1. Init => PoolInv
    BY InitInv
  <1>2. PoolInv /\ [Next]_vars => PoolInv'
    BY NextInv
  <1> QED BY <1>1, <1>2, PTL DEF Spec

\* Every job that was accepted is in one place until it is answered, and in none
\* when it is: decode never loses one and never holds one twice.
THEOREM NoJobIsLost == Spec => []NothingLost
  <1>1. PoolInv => NothingLost
    BY DEF PoolInv
  <1> QED BY <1>1, PoolIsSound, PTL

\* No job is answered with the result of another, however late a worker answers.
THEOREM ResultsAreOwn == Spec => []OwnResult
  <1>1. PoolInv => OwnResult
    BY DEF PoolInv
  <1> QED BY <1>1, PoolIsSound, PTL

\* No job waits while a worker that is not given up is free, nor in a pool that
\* says it is unavailable.
THEOREM NoJobWaitsInVain == Spec => []NobodyIdles
  <1>1. PoolInv => NobodyIdles
    BY DEF PoolInv
  <1> QED BY <1>1, PoolIsSound, PTL

\* A worker that is not given up is never sent a second job over its first.
THEOREM OneCommandAtATime == Spec => []Serial
  <1>1. PoolInv => Serial
    BY DEF PoolInv
  <1> QED BY <1>1, PoolIsSound, PTL

\* A place without a worker has a respawn due, and a member that is not ready a
\* timer, or it was given up.
THEOREM NoPlaceIsForgotten == Spec => []NeverStranded
  <1>1. PoolInv => NeverStranded
    BY DEF PoolInv
  <1> QED BY <1>1, PoolIsSound, PTL

=============================================================================
