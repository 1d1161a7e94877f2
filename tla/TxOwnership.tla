---------------------------- MODULE TxOwnership ----------------------------
(***************************************************************************)
(* What PhysicalTxCoordinator promises to the sources of transmissions and *)
(* to the station's licensee: the transmitter has at most one owner, it is *)
(* keyed only on behalf of its owner, every owner is told exactly once how *)
(* its lease ended, and it gives the transmitter up unkeyed.  The one      *)
(* exception the code makes is named: a PTT-off that compensates a late    *)
(* PTT-on can be lost, and then the radio may stay keyed with no owner.    *)
(***************************************************************************)
EXTENDS Naturals

CONSTANT MaxLeases   \* bound on the leases granted in one behaviour

Leases == 1..MaxLeases
NoOwner == 0

VARIABLES
  granted,  \* leases granted so far
  owner,    \* the lease that owns the transmitter, or NoOwner
  keyed,    \* the radio transmits
  report,   \* what each lease was told: "none", "success" or "failure"
  lost      \* a compensating PTT-off was lost

vars == <<granted, owner, keyed, report, lost>>

Init ==
  /\ granted = 0
  /\ owner = NoOwner
  /\ keyed = FALSE
  /\ report = [l \in Leases |-> "none"]
  /\ lost = FALSE

Grant ==
  /\ owner = NoOwner
  /\ granted < MaxLeases
  /\ keyed => lost
  /\ granted' = granted + 1
  /\ owner' = granted + 1
  /\ UNCHANGED <<keyed, report, lost>>

\* The owner keys, unkeys, or loses a PTT-off; it may learn that its stop failed.
Serve ==
  /\ owner # NoOwner
  /\ keyed' \in BOOLEAN
  /\ lost' \in {lost, TRUE}
  /\ \/ report' = report
     \/ report[owner] = "none" /\ report' = [report EXCEPT ![owner] = "failure"]
  /\ UNCHANGED <<granted, owner>>

\* The owner gives the transmitter up, with its report, now or earlier.
GiveUp ==
  /\ owner # NoOwner
  /\ owner' = NoOwner
  /\ keyed' \in {keyed, FALSE}
  /\ keyed' => lost
  /\ \/ report[owner] # "none" /\ report' = report
     \/ /\ report[owner] = "none"
        /\ \E result \in {"success", "failure"} :
             report' = [report EXCEPT ![owner] = result]
  /\ UNCHANGED <<granted, lost>>

\* A PTT-off that had timed out reaches the radio while nobody owns it.
LateOff ==
  /\ owner = NoOwner
  /\ keyed' = FALSE
  /\ UNCHANGED <<granted, owner, report, lost>>

Next == Grant \/ Serve \/ GiveUp \/ LateOff

Spec == Init /\ [][Next]_vars
=============================================================================
