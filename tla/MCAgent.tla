------------------------------ MODULE MCAgent ------------------------------
(***************************************************************************)
(* Small instances of AgentService for TLC, and what State::Start means to *)
(* guarantee.                                                              *)
(***************************************************************************)
EXTENDS AgentService

\* README.md, line 153: Start starts a trace session; State::Start refuses one
\* that is not configured.  So a handler of a session that was started finds the
\* recorder of its configuration.
StartedSessionHasRecorder == traced_pc # "out" => recorder_ = callback_context
=============================================================================
