------------------------------ MODULE MCRecorder ------------------------------
(* Small instances of RecorderPipeline for TLC.                             *)
EXTENDS RecorderPipeline, TLC

Symmetry == Permutations(Producers)

\* Every accepted event is some day in the file and counted as written.
AcceptedIsWritten ==
  \A n \in 1 .. MaxEvents :
    Len(log) >= n ~> Len(file) >= n /\ written_event_count >= n
\* The smoke test's reading of IsWriting: once the producers are done and the
\* recorder is not writing, every recorded event has been persisted.
NotWritingIsPersisted ==
  ~IsWriting /\ (\A p \in Producers : producer_pc[p] = "idle")
    => written_event_count = Len(log)

\* The comment of SignalWriterStop: an aborting writer wakes every producer
\* blocked on queue pressure, so that its traced thread goes on.
AbortWakesProducers ==
  \A p \in Producers :
    faulty /\ producer_pc[p] \in {"parking", "asleep"}
      ~> producer_pc[p] = "idle"
=============================================================================
