---------------------------- MODULE VoiceSession ----------------------------
(***************************************************************************)
(* The voice clients' transmissions (VoiceSessionManager), the lock among  *)
(* the clients (VoicePTTLockManager) and the lease they ask the physical   *)
(* coordinator for.  A call of startTransmit is known by its number, which *)
(* also names its lease; of the coordinator (PhysicalTx) only what a       *)
(* source sees of its lease is kept.  The calls of the other methods are   *)
(* known by their client, or by Engine.  Audio and diagnostics are left    *)
(* out.                                                                    *)
(***************************************************************************)
EXTENDS Integers

CONSTANTS
  Clients,   \* the clients, voice keyers among them
  Engine,    \* who stops the session with the engine
  NoClient,
  MaxCalls,  \* bound: calls of startTransmit
  MaxStops   \* bound: starts and stops together

VARIABLES
  isStarted,
  lock,                 \* lockedBy
  transmitGeneration,
  physicalLeaseId,      \* the lease the session knows of, 0 for none
  call,                 \* call[n]: a startTransmit
  stop,                 \* stop[c]: the release that c's stopTransmit waits for, 0 for none
  lease                 \* the voice lease of the coordinator

vars == <<isStarted, lock, transmitGeneration, physicalLeaseId, call, stop, lease>>

Starts == 1..MaxCalls

NoLease == [id |-> 0, phase |-> "none"]

Init ==
  /\ isStarted = FALSE /\ lock = NoClient
  /\ transmitGeneration = 0 /\ physicalLeaseId = 0
  /\ call = [n \in Starts |-> [at |-> "idle", client |-> NoClient, gen |-> 0, on |-> 0]]
  /\ stop = [c \in Clients \cup {Engine} |-> 0]
  /\ lease = NoLease

Fresh(n) == call[n].at = "idle" /\ \A m \in 1..(n - 1) : call[m].at # "idle"

\* What is left of the lock when c gives it up.
Unlocked(c) == IF lock = c THEN NoClient ELSE lock

\* releaseLease and forceInterruptLease begin to stop the lease they name; one whose stop
\* is over, confirmed or not, is not stopped again.
Stopped(id) ==
  IF lease.id = id /\ lease.phase \in {"starting", "held"}
    THEN [lease EXCEPT !.phase = "stopping"] ELSE lease

StopOver(id) == lease.id # id \/ lease.phase # "stopping"

\* What has been answered goes on before anything else happens.
Due ==
  \/ \E n \in Starts : call[n].at \in {"cutting", "rollback"} /\ StopOver(call[n].on)
  \/ \E c \in DOMAIN stop : stop[c] # 0 /\ StopOver(stop[c])

-----------------------------------------------------------------------------
(* startTransmit.                                                          *)

\* The catch of call n, which is r by now: it interrupts the lease that the session knows
\* of, whoever started it, and gives the lock up afterwards.
RollsBack(n, r, holder) ==
  IF physicalLeaseId # 0 /\ lease.id = physicalLeaseId
    THEN /\ call' = [call EXCEPT ![n] = [r EXCEPT !.at = "rollback", !.on = physicalLeaseId]]
         /\ lease' = Stopped(physicalLeaseId)
         /\ lock' = holder
         /\ UNCHANGED physicalLeaseId
    ELSE /\ call' = [call EXCEPT ![n] = [r EXCEPT !.at = "ended"]]
         /\ physicalLeaseId' = 0
         /\ lock' = IF holder = r.client THEN NoClient ELSE holder
         /\ UNCHANGED lease

\* The lock is taken, or held already, and the transmitter is free, or busy with a lease
\* of this session or of another source.
StartTransmit(n, c, busy) ==
  /\ Fresh(n) /\ isStarted /\ lock \in {c, NoClient}
  /\ lease # NoLease => busy
  /\ transmitGeneration' = transmitGeneration + 1
  /\ LET r == [call[n] EXCEPT !.client = c, !.gen = transmitGeneration + 1]
     IN \/ /\ ~busy
           /\ lock' = c
           /\ call' = [call EXCEPT ![n] = [r EXCEPT !.at = "acquiring"]]
           /\ lease' = [id |-> n, phase |-> "starting"]
           /\ UNCHANGED physicalLeaseId
        \/ busy /\ RollsBack(n, r, c)
  /\ UNCHANGED <<isStarted, stop>>

\* acquireLease returns: the call takes the lease unless it was cancelled meanwhile.
Granted(n) ==
  /\ call[n].at = "acquiring" /\ lease = [id |-> n, phase |-> "starting"]
  /\ \/ /\ transmitGeneration = call[n].gen /\ lock = call[n].client
        /\ physicalLeaseId' = n
        /\ call' = [call EXCEPT ![n].at = "ended"]
        /\ lease' = [lease EXCEPT !.phase = "held"]
     \/ /\ transmitGeneration # call[n].gen \/ lock # call[n].client
        /\ call' = [call EXCEPT ![n].at = "cutting", ![n].on = n]
        /\ lease' = [lease EXCEPT !.phase = "stopping"]
        /\ UNCHANGED physicalLeaseId
  /\ UNCHANGED <<isStarted, lock, transmitGeneration, stop>>

\* acquireLease throws, having given up its lease, or after another has stopped it.
AcquireFails(n) ==
  /\ call[n].at = "acquiring" /\ lease # [id |-> n, phase |-> "starting"]
  /\ RollsBack(n, call[n], lock)
  /\ UNCHANGED <<isStarted, transmitGeneration, stop>>

Cut(n) ==
  /\ call[n].at = "cutting" /\ StopOver(call[n].on)
  /\ call' = [call EXCEPT ![n].at = "ended"]
  /\ UNCHANGED <<isStarted, lock, transmitGeneration, physicalLeaseId, stop, lease>>

RolledBack(n) ==
  /\ call[n].at = "rollback" /\ StopOver(call[n].on)
  /\ call' = [call EXCEPT ![n].at = "ended"]
  /\ physicalLeaseId' = 0
  /\ lock' = Unlocked(call[n].client)
  /\ UNCHANGED <<isStarted, transmitGeneration, stop, lease>>

-----------------------------------------------------------------------------
(* stopTransmitInternal and its callers.                                   *)

\* What follows the stop that c asked for: a client gives the lock up, the engine does not.
Finishes(c) ==
  /\ lock' = Unlocked(c)
  /\ isStarted' = (isStarted /\ c # Engine)

\* stopTransmit and handleClientDisconnect for the holder, and stop of the session.
StopTransmit(c) ==
  /\ lock # NoClient /\ c \in {lock, Engine} /\ (c = Engine => isStarted)
  /\ transmitGeneration < MaxStops
  /\ transmitGeneration' = transmitGeneration + 1
  /\ \/ /\ physicalLeaseId # 0 /\ lease.id = physicalLeaseId
        /\ stop' = [stop EXCEPT ![c] = physicalLeaseId]
        /\ lease' = Stopped(physicalLeaseId)
        /\ UNCHANGED <<isStarted, lock>>
     \/ /\ physicalLeaseId = 0 \/ lease.id # physicalLeaseId
        /\ Finishes(c)
        /\ UNCHANGED <<stop, lease>>
  /\ UNCHANGED <<physicalLeaseId, call>>

\* The release has answered; an unconfirmed one is remembered.
Released(c) ==
  /\ stop[c] # 0 /\ StopOver(stop[c])
  /\ stop' = [stop EXCEPT ![c] = 0]
  /\ physicalLeaseId' = IF lease.phase = "unknown" THEN physicalLeaseId ELSE 0
  /\ Finishes(c)
  /\ UNCHANGED <<transmitGeneration, call, lease>>

\* The engine starts the session, and stops one in which no client has the lock.
SwitchSession ==
  /\ ~isStarted \/ lock = NoClient
  /\ isStarted' = ~isStarted
  /\ UNCHANGED <<lock, transmitGeneration, physicalLeaseId, call, stop, lease>>

\* The timer of the lock.
LockTimesOut ==
  /\ lock # NoClient
  /\ lock' = NoClient
  /\ UNCHANGED <<isStarted, transmitGeneration, physicalLeaseId, call, stop, lease>>

-----------------------------------------------------------------------------
(* The coordinator.                                                        *)

\* The acquisition fails, the radio is lost, a forced stop.
Interrupt ==
  /\ lease.phase \in {"starting", "held"}
  /\ lease' = [lease EXCEPT !.phase = "stopping"]

\* The stop is confirmed, at once or by a retry, or not.
ReleaseEnds ==
  \/ lease.phase \in {"stopping", "unknown"} /\ lease' = NoLease
  \/ lease.phase = "stopping" /\ lease' = [lease EXCEPT !.phase = "unknown"]

Coordinator ==
  /\ Interrupt \/ ReleaseEnds
  /\ UNCHANGED <<isStarted, lock, transmitGeneration, physicalLeaseId, call, stop>>

Next ==
  \/ \E n \in Starts : Cut(n) \/ RolledBack(n)
  \/ \E c \in Clients \cup {Engine} : Released(c)
  \/ /\ ~Due
     /\ \/ \E n \in Starts, c \in Clients, busy \in BOOLEAN : StartTransmit(n, c, busy)
        \/ \E n \in Starts : Granted(n) \/ AcquireFails(n)
        \/ \E c \in Clients \cup {Engine} : StopTransmit(c)
        \/ SwitchSession \/ LockTimesOut \/ Coordinator

Spec == Init /\ [][Next]_vars

-----------------------------------------------------------------------------
(* Properties                                                              *)

\* "Only one client can hold the PTT lock at a time. Includes timeout protection and
\* auto-release on client disconnect": the transmitter is not left keyed for a client
\* that has lost the lock.  It is: the timer frees the lock, nothing stops the lease, and
\* the release that the client sends then finds the lock free and does nothing.
KeyedForTheHolder == lease.phase = "held" => lock = call[lease.id].client

=============================================================================
