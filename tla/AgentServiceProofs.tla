------------------------- MODULE AgentServiceProofs -------------------------
(***************************************************************************)
(* Invariants of the agent for any number of clients, server threads,      *)
(* commands, host calls and recorders.                                     *)
(***************************************************************************)
EXTENDS AgentService, TLAPS

\* A thread that serves is the one on record: the record is cleared only when
\* that thread has ended.
ServerInv ==
  /\ \A s \in Servers : server_pc[s] \in Serving => thread_ = s
  /\ host_pc # "idle" => thread_ \in Servers

\* While a server stops or configures the session, the session stays stopped,
\* and a configuration that is being replaced is not valid.
StoppedInv ==
  \A s \in Servers :
    /\ server_pc[s] \in {"configuring", "stopping"} => session_running = FALSE
    /\ server_pc[s] = "configuring" => has_valid_configuration_ = FALSE

\* A configuration that was not used up by a Stop has its recorder, and so has a
\* session that runs or a handler that is inside.
Recorded == recorder_ # 0 /\ recorder_ = callback_context

RecorderInv ==
  /\ has_valid_configuration_ /\ ~unconfigured => Recorded
  /\ ~stale /\ session_running => Recorded
  /\ ~stale /\ traced_pc # "out" => Recorded

IInv == TypeOK /\ ServerInv /\ StoppedInv /\ RecorderInv

-----------------------------------------------------------------------------
LEMMA IInvInit == Init => IInv
<1> SUFFICES ASSUME Init PROVE IInv
  OBVIOUS
<1>1. Flags
  BY Zenon DEF Init, Flags
<1>2. TypeOK
  BY <1>1, PeersAssumption, BoundsAssumption DEF Init, TypeOK, Serving, Commands
<1>3. ServerInv
  BY DEF Init, ServerInv, Serving
<1>4. StoppedInv
  BY DEF Init, StoppedInv
<1>5. RecorderInv
  BY DEF Init, RecorderInv
<1> QED BY <1>2, <1>3, <1>4, <1>5 DEF IInv

-----------------------------------------------------------------------------
(* The server's own steps, which leave session and recorder alone.          *)

LEMMA KeepIo ==
  ASSUME IInv, NEW s \in Servers,
         \/ RunBegin(s) \/ CheckStop(s) \/ CreatePipe(s) \/ CreateFails(s)
         \/ Connect(s) \/ ConnectFails(s) \/ Connected(s)
         \/ ReadFails(s) \/ WriteAnswer(s) \/ Flush(s) \/ Leave(s)
  PROVE  IInv'
<1> USE DEF GoTo, NoPipe, ioRest, stateVars, clientVars, hostVars, pipeVars
<1>1. UNCHANGED <<thread_, stateVars, traced_pc, host_pc>>
  BY DEF RunBegin, CheckStop, CreatePipe, CreateFails, Connect, ConnectFails,
         Connected, ReadFails, WriteAnswer, Flush, Leave
<1>2. Flags'
  <2> USE DEF IInv, TypeOK, Flags
  <2>1. CASE RunBegin(s)
    BY <2>1, Zenon DEF RunBegin
  <2>2. CASE Leave(s)
    BY <2>2, Zenon DEF Leave
  <2>3. CASE UNCHANGED <<running_, ioRest>>
    BY <2>3
  <2> QED BY <2>1, <2>2, <2>3
      DEF CheckStop, CreatePipe, CreateFails, Connect, ConnectFails,
          Connected, ReadFails, WriteAnswer, Flush
<1>3. TypeOK'
  <2> USE <1>2 DEF IInv, TypeOK, Serving, Commands
  <2>1. CASE RunBegin(s) \/ CheckStop(s) \/ CreateFails(s) \/ Leave(s)
    BY <2>1 DEF RunBegin, CheckStop, CreateFails, Leave
  <2>2. CASE CreatePipe(s)
    BY <2>2 DEF CreatePipe
  <2>3. CASE Connect(s) \/ ReadFails(s) \/ WriteAnswer(s)
    BY <2>3 DEF Connect, ReadFails, WriteAnswer
  <2>4. CASE ConnectFails(s) \/ Connected(s) \/ Flush(s)
    BY <2>4 DEF ConnectFails, Connected, TurnAway, Flush
  <2> QED BY <2>1, <2>2, <2>3, <2>4
<1>4. ServerInv'
  BY DEF IInv, TypeOK, ServerInv, Serving, RunBegin, CheckStop, CreatePipe,
         CreateFails, Connect, ConnectFails, Connected, TurnAway, ReadFails,
         WriteAnswer, Flush, Leave
<1>5. StoppedInv'
  BY DEF IInv, TypeOK, StoppedInv, RunBegin, CheckStop, CreatePipe,
         CreateFails, Connect, ConnectFails, Connected, TurnAway, ReadFails,
         WriteAnswer, Flush, Leave
<1>6. RecorderInv'
  BY <1>1 DEF IInv, RecorderInv, Recorded
<1> QED BY <1>3, <1>4, <1>5, <1>6 DEF IInv

-----------------------------------------------------------------------------
(* The commands.                                                           *)

LEMMA KeepCommand ==
  ASSUME IInv, NEW s \in Servers,
         \/ Inquire(s) \/ Configure(s) \/ ConfigureDone(s) \/ ConfigureFails(s)
         \/ Start(s) \/ Stop(s) \/ StopDone(s)
  PROVE  IInv'
<1> USE DEF GoTo, Handles, handleRest, stateVars, pipeVars, clientVars,
            hostVars, SessionDrained
<1>1. Flags'
  <2> USE DEF IInv, TypeOK, Flags
  <2>1. CASE Inquire(s)
    BY <2>1 DEF Inquire
  <2>2. CASE Configure(s)
    BY <2>2, Zenon DEF Configure
  <2>3. CASE ConfigureDone(s)
    BY <2>3, Zenon DEF ConfigureDone
  <2>4. CASE ConfigureFails(s)
    BY <2>4 DEF ConfigureFails
  <2>5. CASE Start(s)
    BY <2>5, Zenon DEF Start
  <2>6. CASE Stop(s)
    BY <2>6, Zenon DEF Stop
  <2>7. CASE StopDone(s)
    BY <2>7, Zenon DEF StopDone
  <2> QED BY <2>1, <2>2, <2>3, <2>4, <2>5, <2>6, <2>7
<1>2. TypeOK'
  <2> USE <1>1, BoundsAssumption DEF IInv, TypeOK, Serving, Commands
  <2>1. CASE Inquire(s) \/ Configure(s) \/ Start(s)
    BY <2>1 DEF Inquire, Configure, Start
  <2>2. CASE ConfigureDone(s)
    BY <2>2 DEF ConfigureDone
  <2>3. CASE ConfigureFails(s)
    BY <2>3 DEF ConfigureFails
  <2>4. CASE Stop(s) \/ StopDone(s)
    BY <2>4 DEF Stop, StopDone
  <2> QED BY <2>1, <2>2, <2>3, <2>4
<1>3. ServerInv'
  BY DEF IInv, TypeOK, ServerInv, Serving, Inquire, Configure, ConfigureDone,
         ConfigureFails, Start, Stop, StopDone
<1>4. StoppedInv'
  <2>1. CASE Start(s) \/ ConfigureDone(s)
    \* Another thread would have to be on record as well.
    BY <2>1 DEF IInv, TypeOK, ServerInv, Serving, StoppedInv, Start, ConfigureDone
  <2>2. CASE ~(Start(s) \/ ConfigureDone(s))
    BY <2>2 DEF IInv, TypeOK, StoppedInv, Inquire, Configure, ConfigureFails,
                Stop, StopDone
  <2> QED BY <2>1, <2>2
<1>5. RecorderInv'
  <2> USE DEF IInv, RecorderInv, Recorded
  <2>1. CASE Inquire(s)
    BY <2>1 DEF Inquire
  <2>2. CASE Configure(s)
    BY <2>2 DEF Configure
  <2>3. CASE ConfigureDone(s)
    BY <2>3, BoundsAssumption DEF ConfigureDone, TypeOK
  <2>4. CASE ConfigureFails(s)
    BY <2>4, BoundsAssumption DEF ConfigureFails, TypeOK, StoppedInv
  <2>5. CASE Start(s)
    BY <2>5 DEF Start, TypeOK, Flags
  <2>6. CASE Stop(s)
    BY <2>6 DEF Stop
  <2>7. CASE StopDone(s)
    BY <2>7 DEF StopDone, StoppedInv
  <2> QED BY <2>1, <2>2, <2>3, <2>4, <2>5, <2>6, <2>7
<1> QED BY <1>2, <1>3, <1>4, <1>5 DEF IInv

-----------------------------------------------------------------------------
\* A server that hangs.
LEMMA KeepHung ==
  ASSUME IInv, NEW s \in Servers, SessionHangs(s) \/ RecorderHangs(s)
  PROVE  IInv'
<1> USE DEF GoTo, Stopping, Handles, handleRest, stateVars, pipeVars, clientVars,
            hostVars, SessionDrained, SessionHangs, RecorderHangs
<1>1. Flags'
  BY DEF IInv, TypeOK, Flags
<1>2. TypeOK'
  BY <1>1 DEF IInv, TypeOK, Serving
<1>3. ServerInv' /\ StoppedInv'
  BY DEF IInv, TypeOK, ServerInv, Serving, StoppedInv
<1>4. RecorderInv'
  BY DEF IInv, TypeOK, StoppedInv, RecorderInv, Recorded
<1> QED BY <1>2, <1>3, <1>4 DEF IInv

LEMMA KeepTraced ==
  ASSUME IInv, EnterHandler \/ EndTrace \/ LeaveHandler \/ HandlerHangs
  PROVE  IInv'
<1> USE DEF tracedRest, serverVars, pipeVars, clientVars, hostVars
<1>1. session_running' = FALSE \/ session_running' = session_running
  BY DEF EnterHandler, EndTrace, LeaveHandler, HandlerHangs
<1>2. Flags' /\ (session_running' => session_running)
  <2>1. UNCHANGED <<running_, stop_requested_, has_valid_configuration_,
                    unconfigured, stale>>
    BY DEF EnterHandler, EndTrace, LeaveHandler, HandlerHangs
  <2>2. session_running' \in BOOLEAN /\ (session_running' => session_running)
    <3>1. session_running \in BOOLEAN
      BY DEF IInv, TypeOK, Flags
    <3>2. CASE session_running' = FALSE
      BY <3>2
    <3>3. CASE session_running' = session_running
      BY <3>1, <3>3
    <3> QED BY <1>1, <3>2, <3>3
  <2> QED BY <2>1, <2>2 DEF IInv, TypeOK, Flags
<1>3. TypeOK'
  BY <1>2 DEF IInv, TypeOK, EnterHandler, EndTrace, LeaveHandler, HandlerHangs
<1>4. ServerInv'
  BY DEF IInv, ServerInv, EnterHandler, EndTrace, LeaveHandler, HandlerHangs
<1>5. StoppedInv'
  <2>1. UNCHANGED <<server_pc, has_valid_configuration_>>
    BY DEF EnterHandler, EndTrace, LeaveHandler, HandlerHangs
  <2> QED BY <1>2, <2>1 DEF IInv, TypeOK, Flags, StoppedInv
<1>6. RecorderInv'
  <2> USE <1>2 DEF IInv, RecorderInv, Recorded
  <2>1. CASE EnterHandler
    BY <2>1 DEF EnterHandler
  <2>2. CASE LeaveHandler
    BY <2>2 DEF LeaveHandler
  <2>3. CASE HandlerHangs
    BY <2>3 DEF HandlerHangs
  <2>4. CASE EndTrace
    BY <2>4 DEF EndTrace
  <2> QED BY <2>1, <2>2, <2>3, <2>4
<1> QED BY <1>3, <1>4, <1>5, <1>6 DEF IInv

LEMMA KeepClient ==
  ASSUME IInv, NEW c \in Clients, ClientStep(c) \/ Vanish(c) \/ SendCommand(c)
  PROVE  IInv'
<1> USE DEF clientRest, serverVars, stateVars, pipeVars, hostVars, ClientStep, Holds
<1>1. UNCHANGED clientRest
  BY DEF OpenPipe, OpenFails, WriteRequest, ReadAnswer, Broken, Vanish, SendCommand
<1>2. Flags'
  BY <1>1 DEF IInv, TypeOK, Flags
<1>3. TypeOK'
  BY <1>2, PeersAssumption, BoundsAssumption
  DEF IInv, TypeOK, Return, OpenPipe, OpenFails, WriteRequest, ReadAnswer,
      Broken, Vanish, SendCommand, Commands
<1>4. ServerInv' /\ StoppedInv' /\ RecorderInv'
  BY <1>1 DEF IInv, ServerInv, StoppedInv, RecorderInv, Recorded
<1> QED BY <1>3, <1>4 DEF IInv

-----------------------------------------------------------------------------
LEMMA KeepHost ==
  ASSUME IInv, StartServer \/ RequestStop \/ HostStep
  PROVE  IInv'
<1> USE DEF hostRest, stateVars, pipeVars, clientVars, serverVars, HostStep,
            Called, GoTo, NoPipe
<1>1. UNCHANGED <<hostRest, running_>>
  BY DEF StartServer, RequestStop, Wake, WakeGivesUp, CancelIo, WaitEnds
<1>2. Flags'
  <2>1. CASE UNCHANGED stop_requested_
    BY <1>1, <2>1 DEF IInv, TypeOK, Flags
  <2>2. CASE stop_requested_' \in BOOLEAN
    BY <1>1, <2>2 DEF IInv, TypeOK, Flags
  <2> QED BY <2>1, <2>2
      DEF StartServer, RequestStop, Wake, WakeGivesUp, CancelIo, WaitEnds
<1>3. TypeOK'
  <2> USE <1>2, BoundsAssumption DEF IInv, TypeOK, Serving
  <2>1. CASE StartServer \/ RequestStop
    BY <2>1 DEF StartServer, NotStarted, RequestStop
  <2>2. CASE Wake \/ WakeGivesUp
    BY <2>2 DEF Wake, WakeGivesUp
  <2>3. CASE CancelIo
    BY <2>3 DEF CancelIo, ServerInv
  <2>4. CASE WaitEnds
    BY <2>4 DEF WaitEnds
  <2> QED BY <2>1, <2>2, <2>3, <2>4
<1>4. ServerInv'
  BY PeersAssumption
  DEF IInv, TypeOK, Serving, ServerInv, StartServer, NotStarted, RequestStop,
      Wake, WakeGivesUp, CancelIo, WaitEnds, Ended
<1>5. StoppedInv'
  BY DEF IInv, TypeOK, ServerInv, StoppedInv, StartServer, RequestStop, Wake,
         WakeGivesUp, CancelIo, WaitEnds
<1>6. RecorderInv'
  BY <1>1 DEF IInv, RecorderInv, Recorded
<1> QED BY <1>3, <1>4, <1>5, <1>6 DEF IInv

LEMMA IInvStep == IInv /\ [Next]_vars => IInv'
<1> SUFFICES ASSUME IInv, [Next]_vars PROVE IInv'
  OBVIOUS
<1>1. ASSUME NEW s \in Servers, ServerStep(s) PROVE IInv'
  BY <1>1, KeepIo, KeepCommand DEF ServerStep
<1>2. CASE EnterHandler \/ EndTrace \/ LeaveHandler \/ HandlerHangs
  BY <1>2, KeepTraced
<1>3. ASSUME NEW c \in Clients, ClientStep(c) \/ Vanish(c) \/ SendCommand(c)
      PROVE IInv'
  BY <1>3, KeepClient
<1>4. CASE StartServer \/ RequestStop \/ HostStep
  BY <1>4, KeepHost
<1>5. CASE UNCHANGED vars
  BY <1>5 DEF IInv, TypeOK, Flags, ServerInv, StoppedInv, RecorderInv, Recorded, vars,
              serverVars, pipeVars, stateVars, clientVars, hostVars
<1>6. ASSUME NEW s \in Servers, SessionHangs(s) \/ RecorderHangs(s)
      PROVE  IInv'
  BY <1>6, KeepHung
<1> QED BY <1>1, <1>2, <1>3, <1>4, <1>5, <1>6 DEF Next

-----------------------------------------------------------------------------
\* The inductive invariant of IpcServer and State.
THEOREM AgentInvariance == Spec => []IInv
BY IInvInit, IInvStep, PTL DEF Spec

\* Every variable of the agent keeps its type, and a pipe instance nobody has
\* opened carries neither request nor answer.
THEOREM AgentTypeCorrect == Spec => []TypeOK
<1>1. IInv => TypeOK
  BY DEF IInv
<1> QED BY <1>1, AgentInvariance, PTL

\* Whatever Configure, Stop and Shutdown do while the traced thread runs its
\* handlers, the recorder they write to exists until they have left.
THEOREM RecorderOutlives == Spec => []RecorderOutlivesHandler
<1>1. IInv => RecorderOutlivesHandler
  BY DEF IInv, RecorderInv, Recorded, RecorderOutlivesHandler
<1> QED BY <1>1, AgentInvariance, PTL

\* However often the host starts and stops the server, one thread at most
\* serves the pipe.
THEOREM OneServerAlways == Spec => []OneServer
<1>1. IInv => OneServer
  BY DEF IInv, ServerInv, OneServer
<1> QED BY <1>1, AgentInvariance, PTL
=============================================================================
