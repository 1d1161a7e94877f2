--------------------------- MODULE JsonFileStore ---------------------------
(***************************************************************************)
(* One stored settings file (JsonFileStore over SafeFileWriter): the value *)
(* in memory, the saves of it that wait for each other, the writer that    *)
(* replaces the file, deferred saves, the flush of the shutdown, crash and *)
(* restart.  A save and its write bear the number of the call they are     *)
(* for.  A write goes to another file and is renamed over this one: the    *)
(* rename is all that shows of it.  The saves that wait for another go on  *)
(* in the very turn in which it ends, in the order in which they came.     *)
(***************************************************************************)
EXTENDS Integers, Sequences, SequencesExt, FiniteSetsExt

CONSTANTS
  Values,     \* what the file may hold
  Initial,    \* what it holds at first
  MaxCalls,   \* bound: saves asked for
  MaxFaults   \* bound: writes that fail

VARIABLES
  value,            \* the value in memory
  lastSerialized,   \* what the last successful save has written
  saveTimer,        \* a deferred save is due
  pendingSave,      \* the save that others wait for, 0 for none
  call,             \* call[c]: the save with number c
  writes,           \* the writes of the writer's chain, by number
  renamed,          \* the first of them is in place
  file,             \* what the file holds
  faults

vars == <<value, lastSerialized, saveTimer, pendingSave, call, writes, renamed, file, faults>>

Calls == 1..MaxCalls

Call == [pc : {"idle", "waiting", "writing", "draining", "ok", "failed"},
         on : 0..MaxCalls, text : Values, flush : BOOLEAN]

Init ==
  /\ value = Initial /\ lastSerialized = Initial /\ file = Initial
  /\ saveTimer = FALSE /\ pendingSave = 0 /\ faults = 0
  /\ call = [c \in Calls |-> [pc |-> "idle", on |-> 0, text |-> Initial, flush |-> FALSE]]
  /\ writes = <<>> /\ renamed = FALSE

ShuttingDown == \E c \in Calls : call[c].flush

Fresh(c) == call[c].pc = "idle" /\ \A d \in 1..(c - 1) : call[d].pc # "idle"

\* A save has ended well with the writes q queued: a flush waits for the last of them too.
Saved(r, q) ==
  IF r.flush /\ q # <<>> THEN [r EXCEPT !.pc = "draining", !.on = Last(q)]
                         ELSE [r EXCEPT !.pc = "ok"]

\* saveNow(), as far as it goes at once, for the value v.
SaveNow(c, v, flush) ==
  LET r == [call[c] EXCEPT !.flush = flush]
  IN \/ /\ pendingSave # 0
        /\ call' = [call EXCEPT ![c] = [r EXCEPT !.pc = "waiting", !.on = pendingSave]]
        /\ UNCHANGED <<pendingSave, writes>>
     \/ /\ pendingSave = 0 /\ v = lastSerialized
        /\ call' = [call EXCEPT ![c] = Saved(r, writes)]
        /\ UNCHANGED <<pendingSave, writes>>
     \/ /\ pendingSave = 0 /\ v # lastSerialized
        /\ call' = [call EXCEPT ![c] = [r EXCEPT !.pc = "writing", !.text = v]]
        /\ pendingSave' = c
        /\ writes' = Append(writes, c)

-----------------------------------------------------------------------------
(* What others call.                                                       *)

\* set(v), and update(), which changes the value and sets it.
Set(c, v) ==
  /\ Fresh(c) /\ ~ShuttingDown
  /\ value' = v
  /\ SaveNow(c, v, FALSE)
  /\ UNCHANGED <<lastSerialized, saveTimer, renamed, file, faults>>

\* set(v, {defer: true}).
SetDeferred(v) ==
  /\ ~ShuttingDown
  /\ value' = v
  /\ saveTimer' = TRUE
  /\ UNCHANGED <<lastSerialized, pendingSave, call, writes, renamed, file, faults>>

TimerFires(c) ==
  /\ Fresh(c) /\ saveTimer
  /\ saveTimer' = FALSE
  /\ SaveNow(c, value, FALSE)
  /\ UNCHANGED <<value, lastSerialized, renamed, file, faults>>

\* The shutdown blocks the mutations and flushes.
Flush(c) ==
  /\ Fresh(c) /\ ~ShuttingDown
  /\ saveTimer' = FALSE
  /\ SaveNow(c, value, TRUE)
  /\ UNCHANGED <<value, lastSerialized, renamed, file, faults>>

-----------------------------------------------------------------------------
(* The writer.                                                             *)

Waiters(c) == {d \in Calls : call[d].pc = "waiting" /\ call[d].on = c}

Drained(d, c) == call[d].pc = "draining" /\ call[d].on = c

Rename ==
  /\ writes # <<>> /\ ~renamed
  /\ renamed' = TRUE
  /\ file' = call[Head(writes)].text
  /\ UNCHANGED <<value, lastSerialized, saveTimer, pendingSave, call, writes, faults>>

\* The first write has ended: its save forgets the pending save, whichever that is, and
\* every save that waited for it compares the value and writes it, without looking for
\* another pending save.
WriteEnds ==
  /\ renamed
  /\ LET c == Head(writes)
         again == IF value = call[c].text THEN {} ELSE Waiters(c)
         queue == Tail(writes) \o SetToSortSeq(again, <)
     IN /\ writes' = queue
        /\ lastSerialized' = call[c].text
        /\ pendingSave' = (IF again = {} THEN 0 ELSE Max(again))
        /\ call' = [d \in Calls |->
             IF d \in again THEN [call[d] EXCEPT !.pc = "writing", !.text = value]
             ELSE IF d = c \/ d \in Waiters(c) THEN Saved(call[d], queue)
             ELSE IF Drained(d, c) THEN [call[d] EXCEPT !.pc = "ok"] ELSE call[d]]
  /\ renamed' = FALSE
  /\ UNCHANGED <<value, saveTimer, file, faults>>

\* The first write fails before the rename: so do all the saves that waited for it.
WriteFails ==
  /\ writes # <<>> /\ ~renamed /\ faults < MaxFaults
  /\ LET c == Head(writes)
     IN call' = [d \in Calls |->
          IF d = c \/ d \in Waiters(c) THEN [call[d] EXCEPT !.pc = "failed"]
          ELSE IF Drained(d, c) THEN [call[d] EXCEPT !.pc = "ok"] ELSE call[d]]
  /\ writes' = Tail(writes)
  /\ pendingSave' = 0
  /\ faults' = faults + 1
  /\ UNCHANGED <<value, lastSerialized, saveTimer, renamed, file>>

\* The process ends, orderly or not, and load() reads the file.
Restart ==
  /\ value' = file /\ lastSerialized' = file
  /\ saveTimer' = FALSE /\ pendingSave' = 0 /\ writes' = <<>> /\ renamed' = FALSE
  /\ call' = [c \in Calls |->
       IF call[c].pc \in {"idle", "ok"} THEN [call[c] EXCEPT !.flush = FALSE]
       ELSE [call[c] EXCEPT !.pc = "failed", !.flush = FALSE]]
  /\ UNCHANGED <<file, faults>>

Next ==
  \/ \E c \in Calls : (\E v \in Values : Set(c, v)) \/ TimerFires(c) \/ Flush(c)
  \/ \E v \in Values : SetDeferred(v)
  \/ Rename \/ WriteEnds \/ WriteFails \/ Restart

Spec == Init /\ [][Next]_vars

-----------------------------------------------------------------------------
(* Properties                                                              *)

\* "Any API or UI action that returns success for these data classes must survive normal
\* restart": when every save has succeeded, the flush of the shutdown included, the file
\* that the next start reads holds the value.  It is not so: a save that ends clears the
\* pending save of another, and a value that comes back is taken for written.
SuccessSurvives ==
  ((\A c \in Calls : call[c].pc \in {"idle", "ok"}) /\ ShuttingDown) => file = value
=============================================================================
