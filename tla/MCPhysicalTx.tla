---------------------------- MODULE MCPhysicalTx ----------------------------
(* Small instances of PhysicalTx: the lease requests the sources make.     *)
EXTENDS PhysicalTx

\* TransmissionPipeline: audio output, virtual-frequency dial shift, active on audio.
Digital == [assertPtt |-> TRUE, shift |-> TRUE, prepares |-> TRUE, cleans |-> TRUE,
            defer |-> TRUE]
\* RadioControllerAdapter, testPhysicalPTT: a bare PTT.
Manual == [assertPtt |-> TRUE, shift |-> FALSE, prepares |-> FALSE, cleans |-> FALSE,
           defer |-> FALSE]
\* CWKeyerManager: the keyer keys the radio itself and is interrupted by the coordinator.
SelfKeyed == [assertPtt |-> FALSE, shift |-> FALSE, prepares |-> FALSE, cleans |-> TRUE,
              defer |-> TRUE]

AllRequests == {Digital, Manual, SelfKeyed}
=============================================================================
