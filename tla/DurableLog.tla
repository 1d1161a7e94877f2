----------------------------- MODULE DurableLog -----------------------------
(***************************************************************************)
(* What ADIFLogProvider and AdifFileStore promise to a station about its   *)
(* logbook: a QSO that was acknowledged is found again after any crash, a  *)
(* mutation that was reported as failed left no trace, and one whose fate  *)
(* is unknown stops the log until it has been read again.                  *)
(*                                                                         *)
(* Other programs may edit the file; what they write is not protected, but *)
(* nothing is acknowledged on top of an edit that was not noticed.         *)
(***************************************************************************)
EXTENDS Sequences, SequencesExt

CONSTANTS
  Qsos,   \* the records that can be logged
  NoCall  \* no mutation is in flight

Logs == Seq(Qsos)

VARIABLES
  log,      \* the records the clients were shown last
  call,     \* the log a mutation in flight is to produce, or NoCall
  onDisk,   \* the logs that a restart could find
  loose,    \* logs a restart could find although they were never promised
  warned,   \* the store says that a replaced log may come back
  halted,   \* no mutation is accepted before the log is read again
  edited    \* another program has changed the file since it was read

vars == <<log, call, onDisk, loose, warned, halted, edited>>

Init ==
  /\ log = <<>> /\ call = NoCall
  /\ onDisk = {log} /\ loose = {}
  /\ warned = FALSE /\ halted = TRUE /\ edited = FALSE

\* What an interrupted mutation can leave: records are appended in order.
Remains(new) ==
  {log, new} \cup {p \in {SubSeq(new, 1, n) : n \in 0 .. Len(new)} : IsPrefix(log, p)}

Start ==
  /\ call = NoCall
  /\ call' \in Logs
  /\ UNCHANGED <<log, onDisk, loose, warned, halted, edited>>

Progress ==
  /\ call # NoCall
  /\ edited \/ onDisk' \subseteq onDisk \cup Remains(call) \cup loose
  /\ halted => halted'
  /\ warned' \in {warned, FALSE}
  /\ UNCHANGED <<log, call, loose, edited>>

\* From here on the new log is the only one a restart can find, but for what
\* the store has warned of and what was unsettled when the log was opened.
Acknowledge ==
  /\ call # NoCall
  /\ log' = call /\ call' = NoCall
  /\ loose' \subseteq loose \cup (IF warned' THEN onDisk ELSE {})
  /\ log' \in onDisk' /\ onDisk' \subseteq {log'} \cup loose'
  /\ halted' = FALSE /\ edited' = FALSE

Refuse ==
  /\ call # NoCall /\ call' = NoCall
  /\ edited \/ (log \in onDisk' /\ onDisk' \subseteq {log} \cup loose)
  /\ halted => halted'
  /\ warned' \in {warned, FALSE}
  /\ UNCHANGED <<log, loose, edited>>

LeaveInDoubt ==
  /\ call # NoCall /\ call' = NoCall
  /\ edited \/ onDisk' \subseteq onDisk \cup Remains(call) \cup loose
  /\ halted' = TRUE /\ warned' = FALSE
  /\ UNCHANGED <<log, loose, edited>>

\* The process ends, or the machine does: what was not settled is decided.
Crash ==
  /\ call' = NoCall
  /\ onDisk' # {} /\ onDisk' \subseteq onDisk
  /\ halted' = TRUE /\ warned' = FALSE
  /\ UNCHANGED <<log, loose, edited>>

\* The file is read: nothing but trouble can show anything else than before.
Recover ==
  /\ call = NoCall
  /\ log' \in onDisk
  /\ halted \/ edited \/ log' = log
  /\ loose' \in {onDisk, onDisk \ {log'}}
  /\ halted' \in BOOLEAN /\ edited' = FALSE
  /\ warned' \in {warned, FALSE}
  /\ UNCHANGED <<call, onDisk>>

Halt ==
  /\ call = NoCall /\ halted' = TRUE /\ warned' = FALSE
  /\ UNCHANGED <<log, call, onDisk, loose, edited>>

Edit ==
  /\ edited' = TRUE
  /\ UNCHANGED <<log, call, loose, warned, halted>>

Next ==
  \/ Start \/ Progress \/ Acknowledge \/ Refuse \/ LeaveInDoubt
  \/ Crash \/ Recover \/ Halt \/ Edit

Spec == Init /\ [][Next]_vars
=============================================================================
