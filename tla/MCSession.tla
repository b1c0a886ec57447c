------------------------------ MODULE MCSession ------------------------------
(***************************************************************************)
(* Small instances of TraceSession for TLC, and what the documentation     *)
(* says of automatic capture.                                              *)
(***************************************************************************)
EXTENDS TraceSession

\* README_CN.md, line 34: all threads get the breakpoint, and the first to hit it
\* is promoted to the traced thread.  So as long as no hit was counted, no hit of
\* the trigger is left unclaimed by ArmTriggerCaptureThreads and its handler.
FirstHitIsPromoted ==
  AutoSelect /\ trigger_capture_hit_count = 0 =>
    \A t \in Threads : ~(pc[t] = "unclaimed" /\ rip[t] = "trigger")

\* A traced function is left again: its thread reaches the next breakpoint of the
\* flow engine, and a rotation that is possible again and again happens.
TraceEnds ==
  \A t \in Threads :
    WF_vars(ProcessAlive /\ HitFlow(t)) /\ SF_vars(ProcessAlive /\ Rotate(t))

QueueSpec == FairSpec /\ TraceEnds

\* README_CN.md, line 138: in queue mode later threads queue up and are handled
\* in turn when the current trace ends.  So a thread whose hit was queued by
\* HandleQueuedTriggerHitException while another one was traced is traced itself,
\* unless the session ends.
QueuedHitIsTraced ==
  \A t \in Threads :
    pc[t] = "queued" /\ active_thread_id \in Threads \ {t}
      ~> active_thread_id = t \/ ~running \/ ~ProcessAlive
=============================================================================
