------------------------------ MODULE EventLog ------------------------------
(***************************************************************************)
(* What the trace recorder promises to the tracing session, without ring,  *)
(* threads or queues: a log of accepted events that is copied to a file in *)
(* the order of acceptance.  The file never holds an event out of order,   *)
(* twice, or after a missing one, and a recorder that closes without a     *)
(* fault has copied everything.                                            *)
(***************************************************************************)
EXTENDS Naturals, Sequences

CONSTANT Event

VARIABLES
  log,      \* events the recorder has accepted, oldest first
  file,     \* events that reached the output file
  faulty,   \* has a write or a formatting step failed?
  closed    \* has the recorder been destroyed?

vars == <<log, file, faulty, closed>>

Init ==
  /\ log = <<>>
  /\ file = <<>>
  /\ faulty = FALSE
  /\ closed = FALSE

Accept(e) ==
  /\ ~closed
  /\ log' = Append(log, e)
  /\ UNCHANGED <<file, faulty, closed>>

\* The file grows by the next accepted events; a fault may cut a write short.
Persist(n) ==
  /\ ~closed
  /\ file' = SubSeq(log, 1, n)
  /\ faulty' \in {faulty, TRUE}
  /\ UNCHANGED <<log, closed>>

Close ==
  /\ faulty \/ file = log
  /\ closed' = TRUE
  /\ UNCHANGED <<log, file, faulty>>

Next ==
  \/ \E e \in Event : Accept(e)
  \/ \E n \in Len(file) .. Len(log) : Persist(n)
  \/ Close

Spec == Init /\ [][Next]_vars
=============================================================================
