------------------------------ MODULE DecodePool ------------------------------
(***************************************************************************)
(* The pool of decode processes of WSJTXDecodeProcessPool.ts with the      *)
(* processes it forks (decode-worker-entry.ts).  `pool` is what the pool   *)
(* knows, `process` what is true of the processes: a child may be dead     *)
(* before its exit is heard, may answer after it was given up, and may     *)
(* never have come into being.  Every handler of the pool is synchronous   *)
(* and is one action; its helpers are operators on the record `pool`.      *)
(* What a job decodes, AP suppression and telemetry are left out.          *)
(***************************************************************************)
EXTENDS Integers, Sequences, FiniteSets, Functions

CONSTANTS Desired,    \* initialDesiredWorkers
          Threshold,  \* MAX_CONSECUTIVE_FAILURES_BEFORE_DEGRADE
          MaxJobs,    \* bound: calls of decode
          MaxFaults,  \* bound: crashes, late workers and failed forks
          NoJob, Refused

ASSUME PoolAssumption ==
  /\ Desired \in Nat \ {0} /\ Threshold \in Nat \ {0}
  /\ MaxJobs \in Nat /\ MaxFaults \in Nat
  /\ NoJob # Refused /\ {NoJob, Refused} \cap (1..MaxJobs) = {}

VARIABLES pool, process

vars == <<pool, process>>

Jobs == 1..MaxJobs

\* A worker is replaced once for every fault.
Ids == 1..(Desired + MaxFaults)

Statuses == {"starting", "ready", "degraded", "unavailable"}

-----------------------------------------------------------------------------
(* The pool: status and answers *)

ReadyMembers(p) == p.ready \cap p.members

Idle(p) == {w \in p.members : p.job[w] = NoJob}

Free(p) == Idle(p) \cap p.ready

Resolve(p) ==
  IF ReadyMembers(p) # {}
    THEN IF p.desired < Desired \/ Cardinality(ReadyMembers(p)) < p.desired
           THEN "degraded" ELSE "ready"
    ELSE IF p.failed THEN "unavailable" ELSE "starting"

\* A promise keeps its first answer.
Answer(p, jobs, value) ==
  LET open == {j \in jobs \cap Jobs : p.answer[j] = NoJob}
  IN  [p EXCEPT !.answer = [j \in Jobs |-> IF j \in open THEN value ELSE @[j]]]

RefusePending(p) == [Answer(p, Range(p.pending), Refused) EXCEPT !.pending = <<>>]

Refresh(p) ==
  LET next == Resolve(p)
      heard == [p EXCEPT !.status = next]
  IN  IF next = "unavailable" /\ p.status # next THEN RefusePending(heard) ELSE heard

-----------------------------------------------------------------------------
(* The pool: stopping and killing workers *)

\* What never came into being cannot be killed.
Kill(p, w) == IF w \in p.unborn THEN p ELSE [p EXCEPT !.killed = @ \cup {w}]

\* stopWorker for every worker of W: a killed one is not waited for.
StopWorkers(p, W) ==
  LET asked == W \ p.killed
  IN  [Answer(p, {p.job[w] : w \in W}, Refused) EXCEPT
        !.stopping = @ \cup W, !.starting = @ \ W, !.quitting = @ \cup asked,
        !.job = [w \in Ids |-> IF w \in W THEN NoJob ELSE @[w]],
        !.sent = [w \in Ids |-> IF w \in asked THEN Append(@[w], NoJob) ELSE @[w]]]

\* Idle workers in the order in which they are stopped: those not ready first.
StopsBefore(p, v, w) ==
  IF (v \in p.ready) = (w \in p.ready) THEN v < w ELSE v \notin p.ready

StopExtraIdleWorkers(p) ==
  LET extra == Cardinality(p.members) - p.desired
      W == {w \in Idle(p) : Cardinality({v \in Idle(p) : StopsBefore(p, v, w)}) < extra}
  IN  [StopWorkers(p, W) EXCEPT !.members = @ \ W]

\* The helpers below are sets of pools: what they may leave behind.
RecordWorkerFailure(p, oom) ==
  {Refresh(q) : q \in {
     IF r.desired > 1 /\ (oom \/ r.streak >= Threshold)
       THEN StopExtraIdleWorkers([r EXCEPT !.desired = 1]) ELSE r :
     r \in {[p EXCEPT !.streak = IF @ < Threshold THEN @ + 1 ELSE @, !.failed = TRUE]}}}

HandleWorkerFailure(p, w, oom) ==
  IF w \in p.recorded THEN {p}
  ELSE RecordWorkerFailure([p EXCEPT !.recorded = @ \cup {w}], oom)

-----------------------------------------------------------------------------
(* The pool: spawning and dispatching *)

ScheduleRespawn(p) ==
  IF p.destroyed \/ p.respawn THEN p ELSE Refresh([p EXCEPT !.respawn = TRUE])

PurgeKilledIdleWorkers(p) ==
  LET W == p.killed \cap Idle(p)
  IN  [p EXCEPT !.members = @ \ W, !.starting = @ \ W]

Spawn(p, n) ==
  LET W == (p.spawned + 1)..(p.spawned + n)
  IN  [p EXCEPT !.spawned = @ + n, !.members = @ \cup W, !.starting = @ \cup W]

Missing(p) ==
  IF p.desired > Cardinality(p.members) THEN p.desired - Cardinality(p.members) ELSE 0

\* Mutant: nothing is tried again after a spawn that threw.
SpawnsFailUnheard(p) ==
  IF p.faults >= MaxFaults THEN {}
  ELSE UNION {UNION {RecordWorkerFailure(q, oom) : oom \in BOOLEAN} :
                q \in {[Spawn(p, n) EXCEPT !.faults = @ + 1] : n \in 0..(Missing(p) - 1)}}

\* Of the workers to be spawned one throws, for want of memory or not.
SpawnsFail(p) ==
  IF p.faults >= MaxFaults THEN {}
  ELSE {ScheduleRespawn(r) :
          r \in UNION {UNION {RecordWorkerFailure(q, oom) : oom \in BOOLEAN} :
                         q \in {[Spawn(p, n) EXCEPT !.faults = @ + 1] : n \in 0..(Missing(p) - 1)}}}

EnsureWorkerCount(p) ==
  IF p.destroyed \/ p.respawn THEN {p}
  ELSE UNION {{Refresh(Spawn(q, Missing(q)))} \cup SpawnsFail(q) : q \in {PurgeKilledIdleWorkers(p)}}

\* The pending jobs in order to the free workers in order; a worker that was
\* killed and has not exited is still ready.
Assign(p) ==
  LET rank(w) == Cardinality({v \in Free(p) : v <= w})
      W == {w \in Free(p) : rank(w) <= Len(p.pending)}
  IN  [p EXCEPT !.job = [w \in Ids |-> IF w \in W THEN p.pending[rank(w)] ELSE @[w]],
                !.sent = [w \in Ids |-> IF w \in W THEN Append(@[w], p.pending[rank(w)]) ELSE @[w]],
                !.pending = SubSeq(@, Cardinality(W) + 1, Len(@))]

Dispatch(p) == IF p.destroyed THEN {p} ELSE {Assign(q) : q \in EnsureWorkerCount(p)}

GiveUp(p, w, oom) == {ScheduleRespawn(Kill(q, w)) : q \in HandleWorkerFailure(p, w, oom)}

-----------------------------------------------------------------------------
Empty ==
  [pending |-> <<>>, members |-> {}, ready |-> {}, starting |-> {}, stopping |-> {},
   recorded |-> {}, killed |-> {}, quitting |-> {}, unborn |-> {},
   job |-> [w \in Ids |-> NoJob], sent |-> [w \in Ids |-> <<>>], spawned |-> 0,
   desired |-> Desired, streak |-> 0, failed |-> FALSE, status |-> "starting",
   respawn |-> FALSE, destroyed |-> FALSE, over |-> FALSE,
   asked |-> 0, answer |-> [j \in Jobs |-> NoJob], faults |-> 0]

Process == [at : {"booting", "up", "dead", "gone"}, late : BOOLEAN]

Init ==
  /\ pool \in EnsureWorkerCount(Empty)
  /\ process = [w \in Ids |-> [at |-> "booting", late |-> FALSE]]

-----------------------------------------------------------------------------
(* Calls of the pool and its timers *)

Decode ==
  /\ pool.asked < MaxJobs
  /\ \E called \in {[pool EXCEPT !.asked = @ + 1]} :
     \E p \in {IF pool.destroyed THEN called ELSE Refresh(called)} :
       IF p.destroyed \/ (p.status = "unavailable" /\ ReadyMembers(p) = {})
         THEN pool' = Answer(p, {p.asked}, Refused)
         ELSE pool' \in Dispatch([p EXCEPT !.pending = Append(@, p.asked)])
  /\ UNCHANGED process

Respawn ==
  /\ pool.respawn
  /\ \E p \in EnsureWorkerCount([pool EXCEPT !.respawn = FALSE]) : pool' \in Dispatch(p)
  /\ UNCHANGED process

\* The job w is at is answered and no longer its job.
Settled(w, value) == [Answer(pool, {pool.job[w]}, value) EXCEPT !.job[w] = NoJob]

JobTimeout(w) ==
  /\ pool.job[w] # NoJob /\ process[w].late
  /\ \E p \in {Settled(w, Refused)} : pool' \in GiveUp(p, w, FALSE)
  /\ UNCHANGED process

StartTimeout(w) ==
  /\ w \in pool.starting /\ (process[w].late \/ w \in pool.unborn)
  /\ pool' \in GiveUp([pool EXCEPT !.starting = @ \ {w}], w, FALSE)
  /\ UNCHANGED process

Destroy ==
  /\ ~pool.destroyed
  /\ pool' = StopWorkers(RefusePending([pool EXCEPT !.destroyed = TRUE, !.respawn = FALSE]),
                         pool.members)
  /\ UNCHANGED process

\* SHUTDOWN_TIMEOUT_MS is over, or the shutdown message could not be sent.
ShutdownTimeout(w) ==
  /\ w \in pool.quitting
  /\ pool' = Kill([pool EXCEPT !.quitting = @ \ {w}], w)
  /\ UNCHANGED process

Destroyed ==
  /\ pool.destroyed /\ ~pool.over /\ pool.members \cap pool.quitting = {}
  /\ pool' = [pool EXCEPT !.members = {}, !.over = TRUE]
  /\ UNCHANGED process

-----------------------------------------------------------------------------
(* What the pool hears of its processes *)

Lives(w) == w <= pool.spawned /\ w \notin pool.unborn /\ process[w].at \in {"booting", "up"}

\* Dead is a process whose exit will be heard.  Once the pool is destroyed
\* every process that was killed or told to shut down will end.
Dead(w) ==
  \/ process[w].at = "dead"
  \/ pool.destroyed /\ Lives(w) /\ (w \in pool.killed \/ NoJob \in Range(pool.sent[w]))

\* Mutant: a worker leaves with its job.
LeftSilently(w) ==
  [pool EXCEPT !.job[w] = NoJob, !.members = @ \ {w}, !.starting = @ \ {w},
               !.quitting = @ \ {w}, !.sent[w] = <<>>]

\* Nothing is heard of a worker after its exit: it is forgotten.
Left(w) ==
  [Settled(w, Refused) EXCEPT
     !.members = @ \ {w}, !.starting = @ \ {w}, !.quitting = @ \ {w}, !.sent[w] = <<>>]

Forget(p, w) ==
  [p EXCEPT !.ready = @ \ {w}, !.killed = @ \ {w}, !.stopping = @ \ {w}, !.recorded = @ \ {w}]

\* After ScheduleRespawn a dispatch only assigns: a respawn is due.
Exit(w) ==
  /\ Dead(w)
  /\ \E p \in {Left(w)} :
       IF p.destroyed \/ w \in p.stopping THEN pool' = Forget(Refresh(p), w)
       ELSE \E q \in HandleWorkerFailure(p, w, FALSE) :
              \E r \in Dispatch(ScheduleRespawn(q)) : pool' = Forget(Refresh(r), w)
  /\ process' = [process EXCEPT ![w] = [at |-> "gone", late |-> FALSE]]

\* The callback of send: the process is gone before it took the decode.
SendFails(w) ==
  /\ ~pool.destroyed /\ process[w].at = "dead"
  /\ pool.sent[w] # <<>> /\ Head(pool.sent[w]) # NoJob
  /\ \E p \in {[pool EXCEPT !.sent[w] = Tail(@)]}, j \in {Head(pool.sent[w])}, oom \in BOOLEAN :
       \E q \in {[Answer(p, {j}, Refused) EXCEPT !.job[w] = IF @ = j THEN NoJob ELSE @]} :
         pool' \in GiveUp(q, w, oom)
  /\ UNCHANGED process

\* The fork fails after it returned: "error" is all that is heard of the child.
ForkFails(w) ==
  /\ w <= pool.spawned /\ process[w].at = "booting" /\ ~process[w].late
  /\ w \notin pool.unborn \cup pool.killed /\ pool.faults < MaxFaults /\ ~pool.destroyed
  /\ \E oom \in BOOLEAN :
       pool' \in GiveUp([pool EXCEPT !.unborn = @ \cup {w}, !.faults = @ + 1], w, oom)
  /\ UNCHANGED process

-----------------------------------------------------------------------------
(* The processes.  A message is heard when it is sent: nothing the pool does *)
(* meanwhile depends on whether the process is done.  After destroy nothing  *)
(* but the end of the processes is followed: every promise has its answer.   *)

Ready(w) ==
  /\ ~pool.destroyed /\ Lives(w) /\ process[w].at = "booting"
  /\ process' = [process EXCEPT ![w].at = "up"]
  /\ \E p \in {Refresh([pool EXCEPT !.starting = @ \ {w}, !.ready = @ \cup {w},
                                    !.streak = 0, !.failed = FALSE])} : pool' \in Dispatch(p)

\* pool.sent holds the commands the process has not finished: the first is the
\* one it works at, and a decode that meets another is refused.
AtWork(w) == ~pool.destroyed /\ Lives(w) /\ process[w].at = "up" /\ pool.sent[w] # <<>>

\* Mutant: the next job waits for the next event.
HearAndRest(p, w, j, value) ==
  {IF p.job[w] # j THEN p ELSE [Answer(p, {j}, value) EXCEPT !.job[w] = NoJob, !.streak = 0]}

\* A result or an error, which answers as a result does; one that is not of
\* the active job is ignored.
Hear(p, w, j, value) ==
  IF p.job[w] # j THEN {p}
  ELSE UNION {Dispatch(q) : q \in {[Answer(p, {j}, value) EXCEPT !.job[w] = NoJob, !.streak = 0]}}

Finish(w) ==
  /\ AtWork(w) /\ Head(pool.sent[w]) # NoJob
  /\ \E p \in {[pool EXCEPT !.sent[w] = Tail(@)]}, j \in {Head(pool.sent[w])} :
       pool' \in Hear(p, w, j, j)
  /\ UNCHANGED process

RefuseSecond(w) ==
  /\ AtWork(w) /\ Len(pool.sent[w]) > 1 /\ pool.sent[w][2] # NoJob
  /\ \E p \in {[pool EXCEPT !.sent[w] = <<Head(@)>> \o SubSeq(@, 3, Len(@))]} :
       pool' \in Hear(p, w, pool.sent[w][2], Refused)
  /\ UNCHANGED process

Ends(w) == process' = [process EXCEPT ![w].at = "dead"]

\* A shutdown is obeyed when no decode is at work.
Leave(w) == AtWork(w) /\ Head(pool.sent[w]) = NoJob /\ Ends(w) /\ UNCHANGED pool

Die(w) == ~pool.destroyed /\ Lives(w) /\ w \in pool.killed /\ Ends(w) /\ UNCHANGED pool

Crash(w) ==
  /\ ~pool.destroyed /\ Lives(w) /\ pool.faults < MaxFaults /\ Ends(w)
  /\ pool' = [pool EXCEPT !.faults = @ + 1]

\* The start or the decode takes longer than its timer, or for ever.
Lag(w) ==
  /\ Lives(w) /\ ~process[w].late /\ ~pool.destroyed /\ pool.faults < MaxFaults
  /\ w \in pool.starting \/ pool.job[w] # NoJob
  /\ process' = [process EXCEPT ![w].late = TRUE]
  /\ pool' = [pool EXCEPT !.faults = @ + 1]

-----------------------------------------------------------------------------
\* What happens by itself: a worker that is late need not start or finish.
Progress ==
  \/ Respawn \/ Destroyed
  \/ \E w \in Ids :
       \/ JobTimeout(w) \/ StartTimeout(w) \/ ShutdownTimeout(w)
       \/ Exit(w) \/ SendFails(w) \/ Die(w) \/ Leave(w)
       \/ RefuseSecond(w) \/ (~process[w].late /\ (Ready(w) \/ Finish(w)))

Next ==
  \/ Decode \/ Destroy \/ Respawn \/ Destroyed
  \/ \E w \in Ids :
       \/ JobTimeout(w) \/ StartTimeout(w) \/ ShutdownTimeout(w)
       \/ Exit(w) \/ SendFails(w) \/ ForkFails(w)
       \/ Ready(w) \/ Finish(w) \/ RefuseSecond(w) \/ Leave(w) \/ Die(w) \/ Crash(w) \/ Lag(w)

Spec == Init /\ [][Next]_vars

FairSpec == Spec /\ WF_vars(Progress)

-----------------------------------------------------------------------------
(* Properties *)

PoolType ==
  [pending : Seq(Jobs), members : SUBSET Ids, ready : SUBSET Ids, starting : SUBSET Ids,
   stopping : SUBSET Ids, recorded : SUBSET Ids, killed : SUBSET Ids, quitting : SUBSET Ids,
   unborn : SUBSET Ids, job : [Ids -> Jobs \cup {NoJob}],
   sent : [Ids -> Seq(Jobs \cup {NoJob})], spawned : 0..(Desired + MaxFaults),
   desired : 1..Desired, streak : 0..Threshold, failed : BOOLEAN, status : Statuses,
   respawn : BOOLEAN, destroyed : BOOLEAN, over : BOOLEAN, asked : 0..MaxJobs,
   answer : [Jobs -> Jobs \cup {NoJob, Refused}], faults : 0..MaxFaults]

TypeOK == pool \in PoolType /\ process \in [Ids -> Process]

Holders(j) == {w \in Ids : pool.job[w] = j}

\* A job that is accepted and not answered is in one place: once in the queue,
\* or with one worker.  A job that was answered is nowhere.
NothingLost == \A j \in 1..pool.asked :
  LET places == {i \in 1..Len(pool.pending) : pool.pending[i] = j}
  IN  Cardinality(places) + Cardinality(Holders(j)) = IF pool.answer[j] = NoJob THEN 1 ELSE 0

\* No job is answered with what another job decoded.
OwnResult == \A j \in Jobs : pool.answer[j] \in {NoJob, Refused, j}

\* No job waits beside a worker that would take it, nor with a pool that says
\* it has none.
NobodyIdles ==
  pool.pending # <<>> =>
    ~pool.destroyed /\ Free(pool) \subseteq pool.killed /\ pool.status # "unavailable"

\* The status that clients see is that of the workers, after every handler.
StatusIsTrue == ~pool.destroyed => pool.status = Resolve(pool)

\* A worker that was not given up has one command at a time: the job the pool
\* thinks it has, or the shutdown.
Serial == \A w \in pool.members \ pool.killed :
  LET jobs == Range(pool.sent[w]) \ {NoJob}
  IN  w \notin pool.stopping => Len(pool.sent[w]) <= 1 /\ jobs \subseteq {pool.job[w]}

\* A slot of the pool that has no worker will be filled: the pool is full or a
\* respawn is due; a member that is not ready has a timer or was given up.
NeverStranded == ~pool.destroyed =>
  /\ pool.respawn \/ Cardinality(pool.members) >= pool.desired
  /\ pool.members \subseteq pool.ready \cup pool.starting \cup pool.recorded
  /\ \A w \in pool.members : process[w].at # "gone"

\* What makes the above inductive, for a pool p in the middle of a handler and
\* its processes ps.
\* Jobs: where a job is, and who was told to do it; a worker may only hear of a
\* job it lost when that job has its answer.
JobsHold(p) ==
  /\ IsInjective(p.pending)
  /\ \A i \in DOMAIN p.pending :
       /\ p.pending[i] <= p.asked /\ p.answer[p.pending[i]] = NoJob
       /\ \A w \in Ids : p.job[w] # p.pending[i]
  /\ \A w \in Ids : p.job[w] # NoJob =>
       /\ p.job[w] <= p.asked /\ p.answer[p.job[w]] = NoJob
       /\ w \in p.members \cap p.ready
       /\ \A v \in Ids : p.job[v] = p.job[w] => v = w
  /\ \A j \in Jobs : p.answer[j] = NoJob =>
       j \in Range(p.pending) \cup Range(p.job) \/ j > p.asked
  /\ \A j \in Jobs : j > p.asked => p.answer[j] = NoJob
  /\ \A w \in Ids : \A j \in Range(p.sent[w]) \ {NoJob} :
       p.job[w] = j \/ p.answer[j] # NoJob

\* Workers: who can be where; a pool that is destroyed has stopped them all.
WorkersHold(p) ==
  /\ p.members \cup p.ready \cup p.stopping \cup p.recorded \cup p.killed \cup p.unborn
       \subseteq 1..p.spawned
  /\ p.starting \subseteq p.members /\ p.quitting \subseteq p.stopping
  /\ p.unborn \cap p.ready = {}
  /\ \A w \in Ids : /\ NoJob \in Range(p.sent[w]) => w \in p.stopping
                    /\ p.sent[w] # <<>> => w \in p.ready \cup p.stopping
  /\ p.destroyed => /\ p.pending = <<>> /\ ~p.respawn /\ p.starting = {}
                    /\ p.members \subseteq p.stopping
                    /\ \A w \in Ids : p.job[w] = NoJob
  /\ ~p.destroyed => p.members \cap p.stopping = {}
  /\ p.status = "unavailable" => p.pending = <<>>

\* Every fault costs the pool one worker at most, so that the spares suffice.
Faulty(p, ps) ==
  {w \in p.members :
     ps[w].late \/ ps[w].at = "dead" \/ w \in p.unborn \cup p.killed}

SparesHold(p, ps) == ~p.destroyed =>
  /\ p.spawned + Cardinality(Faulty(p, ps)) <= Desired + p.faults
  /\ p.spawned + p.desired + Cardinality(Faulty(p, ps))
       <= Desired + p.faults + Cardinality(p.members)

\* Processes: one that is not born is booting, and one that is gone is forgotten.
ProcessesHold(p, ps) == \A w \in Ids :
  /\ w > p.spawned => ps[w] = [at |-> "booting", late |-> FALSE]
  /\ w \in p.unborn => ps[w].at = "booting"
  /\ w \in p.ready => ps[w].at # "booting"
  /\ ps[w].at = "gone" => w \notin p.members

\* What the pool knows is true of its jobs, its workers and its status.  The
\* invariant is inductive.
PoolInv ==
  /\ TypeOK /\ NothingLost /\ OwnResult /\ NobodyIdles /\ StatusIsTrue /\ Serial
  /\ NeverStranded /\ JobsHold(pool) /\ WorkersHold(pool) /\ SparesHold(pool, process)
  /\ ProcessesHold(pool, process)

\* A worker that never came into being, a fork that failed without an exit,
\* keeps its place: nothing but destroy removes it.
Unborn == pool.unborn \cap pool.members # {}

\* Every call of decode is answered, whatever the workers do and whenever the
\* pool is destroyed, unless such a worker keeps a place.
EveryJobEnds == []<>(Unborn \/ \A j \in 1..pool.asked : pool.answer[j] # NoJob)

\* When faults end, a pool that is destroyed has ended, and another has all its
\* workers again, ready and alive, unless such a worker keeps a place.
Recovers == <>[](IF pool.destroyed THEN pool.over
                 ELSE Unborn \/ /\ Cardinality(pool.members) = pool.desired
                                /\ \A w \in pool.members : w \in pool.ready /\ process[w].at = "up")

=============================================================================
