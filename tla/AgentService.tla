---------------------------- MODULE AgentService ----------------------------
(***************************************************************************)
(* The agent inside the traced process (src/agent): a server thread that   *)
(* answers one command per connection on a pipe with a single instance,    *)
(* the state behind it (a trace session and the recorder its callback      *)
(* writes to), the host that starts and stops the server, and the clients  *)
(* that send commands (src/control/ipc_client).                            *)
(*                                                                         *)
(* The session is a flag, a callback and one traced thread that may be in  *)
(* the callback; TraceSession has its inside.  Recorders are numbered in   *)
(* the order of their creation, and 0 is none.                             *)
(*                                                                         *)
(* A handler, Session::Start and Stop, and the recorder's destructor may   *)
(* wait for ever: those are steps of their own, to a place called hung,    *)
(* which no fairness forces and nothing leaves.                            *)
(***************************************************************************)
EXTENDS Integers, FiniteSets

CONSTANTS
  Clients,         \* processes that send commands
  Servers,         \* threads CreateThread may give to the server
  Nobody,          \* no client, no thread
  MaxCommands,     \* bound: commands the clients send
  MaxHostCalls,    \* bound: calls of Start and RequestStop
  MaxRecorders     \* bound: recorders created

ASSUME PeersAssumption ==
  /\ Nobody \notin Clients \cup Servers
  /\ IsFiniteSet(Servers)
ASSUME BoundsAssumption ==
  MaxCommands \in Nat /\ MaxHostCalls \in Nat /\ MaxRecorders \in Nat

Host == "host"   \* calls vdtrace_agent_bootstrap_ipc and _request_stop

\* inquire: Ping, Status, ListModules, DumpModule, ReadMemory, WriteMemory, and
\* an unknown command, which leave session and recorder as they are.
Commands == {"inquire", "configure", "start", "stop", "shutdown"}

VARIABLES
  thread_, running_, stop_requested_,      \* IpcServer
  server_pc,                               \* where each thread is in Run
  pipe, pipe_client, request, answer,      \* the one instance of the pipe
  recorder_, has_valid_configuration_,     \* State
  session_running, callback_context,       \* its session
  traced_pc,                               \* the traced thread
  client_pc,                               \* each client
  sent,                                    \* commands sent
  host_pc, host_calls,
  created,                                 \* recorders created
  unconfigured, stale                      \* history: see State::Start

serverVars == <<thread_, running_, stop_requested_, server_pc>>
pipeVars == <<pipe, pipe_client, request, answer>>
stateVars == <<recorder_, has_valid_configuration_, session_running,
               callback_context, created, unconfigured, stale>>
clientVars == <<client_pc, sent>>
hostVars == <<host_pc, host_calls>>
vars == <<serverVars, pipeVars, stateVars, traced_pc, clientVars, hostVars>>

Init ==
  /\ thread_ = Nobody /\ running_ = FALSE /\ stop_requested_ = FALSE
  /\ server_pc = [s \in Servers |-> "unborn"]
  /\ pipe = "none" /\ pipe_client = Nobody
  /\ request = "none" /\ answer = "none"
  /\ recorder_ = 0 /\ has_valid_configuration_ = FALSE
  /\ session_running = FALSE /\ callback_context = 0
  /\ traced_pc = "out"
  /\ client_pc = [c \in Clients |-> "idle"]
  /\ sent = 0
  /\ host_pc = "idle" /\ host_calls = 0
  /\ created = 0
  /\ unconfigured = FALSE /\ stale = FALSE

-----------------------------------------------------------------------------
(* The pipe.  free: an instance nobody has opened.  taken: its client holds  *)
(* it open.  left: the client has closed its end.                          *)

NoPipe ==
  /\ pipe' = "none" /\ pipe_client' = Nobody
  /\ request' = "none" /\ answer' = "none"

Holds(c) == pipe = "taken" /\ pipe_client = c

GoTo(s, place) == server_pc' = [server_pc EXCEPT ![s] = place]

-----------------------------------------------------------------------------
(* IpcServer::Run.                                                         *)

ioRest == <<thread_, stop_requested_, stateVars, traced_pc, clientVars, hostVars>>

RunBegin(s) ==
  /\ server_pc[s] = "born"
  /\ running_' = TRUE
  /\ GoTo(s, "check")
  /\ UNCHANGED <<ioRest, pipeVars>>

CheckStop(s) ==
  /\ server_pc[s] = "check"
  /\ GoTo(s, IF stop_requested_ THEN "leave" ELSE "create")
  /\ UNCHANGED <<ioRest, running_, pipeVars>>

\* One instance of the pipe: a second server could not have one.
CreatePipe(s) ==
  /\ server_pc[s] = "create" /\ pipe = "none"
  /\ pipe' = "free"
  /\ GoTo(s, "connect")
  /\ UNCHANGED <<ioRest, running_, pipe_client, request, answer>>

CreateFails(s) ==
  /\ server_pc[s] = "create"
  /\ GoTo(s, "leave")
  /\ UNCHANGED <<ioRest, running_, pipeVars>>

\* ConnectNamedPipe waits for a client.  One that has come and gone is an error,
\* unless the call was waiting when it came.
Connect(s) ==
  /\ server_pc[s] = "connect" /\ pipe \in {"taken", "left"}
  /\ GoTo(s, "connected")
  /\ UNCHANGED <<ioRest, running_, pipeVars>>

ConnectFails(s) ==
  /\ server_pc[s] = "connect" /\ pipe = "left"
  /\ NoPipe
  /\ GoTo(s, "check")
  /\ UNCHANGED <<ioRest, running_>>

\* The client that woke the server, or came at the wrong time, is disconnected.
Mutant_LeavesClient(s) == GoTo(s, "leave") /\ UNCHANGED pipeVars
Mutant_KeepsRequest(s) ==
  /\ GoTo(s, "leave")
  /\ pipe' = "none" /\ UNCHANGED <<pipe_client, request, answer>>
TurnAway(s) == GoTo(s, "leave") /\ NoPipe

Connected(s) ==
  /\ server_pc[s] = "connected"
  /\ IF stop_requested_ THEN TurnAway(s)
                        ELSE GoTo(s, "read") /\ UNCHANGED pipeVars
  /\ UNCHANGED <<ioRest, running_>>

\* A command that has arrived is handled: see Handles.
ReadFails(s) ==
  /\ server_pc[s] = "read" /\ request = "none" /\ pipe = "left"
  /\ GoTo(s, "write")
  /\ UNCHANGED <<ioRest, running_, pipeVars>>

WriteAnswer(s) ==
  /\ server_pc[s] = "write"
  /\ answer' = IF pipe = "taken" THEN "written" ELSE answer
  /\ GoTo(s, "flush")
  /\ UNCHANGED <<ioRest, running_, pipe, pipe_client, request>>

\* FlushFileBuffers returns when the client has read, and so left, and the
\* instance is closed.
Flush(s) ==
  /\ server_pc[s] = "flush" /\ pipe = "left"
  /\ NoPipe
  /\ GoTo(s, "check")
  /\ UNCHANGED <<ioRest, running_>>

Leave(s) ==
  /\ server_pc[s] = "leave"
  /\ running_' = FALSE
  /\ GoTo(s, "ended")
  /\ UNCHANGED <<ioRest, pipeVars>>

-----------------------------------------------------------------------------
(* HandleCommand and State.                                                *)

handleRest == <<thread_, running_, pipeVars, clientVars, hostVars>>

Handles(s, c) == server_pc[s] = "read" /\ request = c

Inquire(s) ==
  /\ Handles(s, "inquire")
  /\ GoTo(s, "write")
  /\ UNCHANGED <<handleRest, stop_requested_, stateVars, traced_pc>>

\* Session::Stop waits until no handler is inside.
Mutant_NoDrain == TRUE
SessionDrained == traced_pc = "out"

Configure(s) ==
  /\ Handles(s, "configure")
  /\ has_valid_configuration_' = FALSE
  /\ session_running' = FALSE
  /\ GoTo(s, "configuring")
  /\ UNCHANGED <<handleRest, stop_requested_, recorder_, callback_context,
                 created, unconfigured, stale, traced_pc>>

\* A new recorder for the session, and the session's options.
ConfigureDone(s) ==
  /\ server_pc[s] = "configuring" /\ SessionDrained
  /\ created < MaxRecorders
  /\ created' = created + 1
  /\ recorder_' = created + 1
  /\ callback_context' = created + 1
  /\ has_valid_configuration_' = TRUE
  /\ unconfigured' = FALSE /\ stale' = FALSE
  /\ GoTo(s, "write")
  /\ UNCHANGED <<handleRest, stop_requested_, session_running, traced_pc>>

\* A bad payload, an output that cannot be opened, or options the session
\* refuses, which it has stored by then; the recorder is gone in any case.
ConfigureFails(s) ==
  /\ server_pc[s] = "configuring" /\ SessionDrained
  /\ recorder_' = 0
  /\ \/ UNCHANGED <<callback_context, created>>
     \/ /\ created < MaxRecorders
        /\ created' = created + 1
        /\ callback_context' \in {callback_context, created + 1}
  /\ GoTo(s, "write")
  /\ UNCHANGED <<handleRest, stop_requested_, has_valid_configuration_,
                 session_running, unconfigured, stale, traced_pc>>

\* Session::Start may refuse.  stale: the session has been started after a Stop
\* without a new configuration.
Start(s) ==
  /\ Handles(s, "start")
  /\ IF has_valid_configuration_ /\ ~session_running
     THEN /\ session_running' \in BOOLEAN
          /\ stale' = (stale \/ (session_running' /\ unconfigured))
     ELSE UNCHANGED <<session_running, stale>>
  /\ GoTo(s, "write")
  /\ UNCHANGED <<handleRest, stop_requested_, recorder_, callback_context,
                 has_valid_configuration_, created, unconfigured, traced_pc>>

\* Stop and Shutdown.
Stop(s) ==
  /\ Handles(s, "stop") \/ Handles(s, "shutdown")
  /\ session_running' = FALSE
  /\ GoTo(s, "stopping")
  /\ UNCHANGED <<handleRest, stop_requested_, recorder_, callback_context,
                 has_valid_configuration_, created, unconfigured, stale,
                 traced_pc>>

StopDone(s) ==
  /\ server_pc[s] = "stopping" /\ SessionDrained
  /\ recorder_' = 0
  /\ unconfigured' = has_valid_configuration_
  /\ stop_requested_' = (stop_requested_ \/ request = "shutdown")
  /\ GoTo(s, "write")
  /\ UNCHANGED <<handleRest, callback_context, has_valid_configuration_,
                 session_running, created, stale, traced_pc>>

\* Where State::Configure and State::Stop are inside Session::Stop or destroy the
\* recorder.
Stopping(s) == server_pc[s] \in {"configuring", "stopping"}

\* Session::Start and Session::Stop join the refresh worker, for ever when a
\* handler that rotates the capture manages the same worker and lowers its stop
\* flag.
SessionHangs(s) ==
  /\ Stopping(s) \/ (Handles(s, "start") /\ has_valid_configuration_ /\ ~session_running)
  /\ traced_pc # "out"
  /\ GoTo(s, "hung")
  /\ UNCHANGED <<handleRest, stop_requested_, stateVars, traced_pc>>

\* The recorder's destructor joins its worker, which may have missed the stop
\* flag and the notification and sleeps for ever.
RecorderHangs(s) ==
  /\ Stopping(s) /\ SessionDrained /\ recorder_ # 0
  /\ recorder_' = 0
  /\ unconfigured' = has_valid_configuration_
  /\ GoTo(s, "hung")
  /\ UNCHANGED <<handleRest, stop_requested_, has_valid_configuration_,
                 session_running, callback_context, created, stale, traced_pc>>

ServerStep(s) ==
  \/ RunBegin(s) \/ CheckStop(s) \/ CreatePipe(s) \/ CreateFails(s)
  \/ Connect(s) \/ ConnectFails(s) \/ Connected(s)
  \/ ReadFails(s) \/ WriteAnswer(s) \/ Flush(s) \/ Leave(s)
  \/ Inquire(s) \/ Configure(s) \/ ConfigureDone(s) \/ ConfigureFails(s)
  \/ Start(s) \/ Stop(s) \/ StopDone(s)

-----------------------------------------------------------------------------
(* The traced thread: a handler that has found the session running may call  *)
(* the callback, and may end the trace.                                     *)

tracedRest == <<serverVars, pipeVars, recorder_, has_valid_configuration_,
                callback_context, created, unconfigured, stale, clientVars,
                hostVars>>

EnterHandler ==
  /\ traced_pc = "out" /\ session_running
  /\ traced_pc' = "in"
  /\ UNCHANGED <<tracedRest, session_running>>

\* The trace ends by itself, and the handler has still to return.
EndTrace ==
  /\ traced_pc = "in" /\ session_running
  /\ session_running' = FALSE
  /\ UNCHANGED <<tracedRest, traced_pc>>

LeaveHandler ==
  /\ traced_pc = "in"
  /\ traced_pc' = "out"
  /\ UNCHANGED <<tracedRest, session_running>>

\* The handler waits for ever: in the recorder, whose writer has aborted between
\* the test of the producer's predicate and its sleep, or for the refresh worker.
HandlerHangs ==
  /\ traced_pc = "in"
  /\ traced_pc' = "hung"
  /\ UNCHANGED <<tracedRest, session_running>>

-----------------------------------------------------------------------------
(* A client: SendCommand.                                                  *)

clientRest == <<serverVars, stateVars, traced_pc, hostVars>>

Return(c) == client_pc' = [client_pc EXCEPT ![c] = "idle"]

\* WaitNamedPipe returns at once, later, or at the timeout, and CreateFile is
\* tried in any case.
SendCommand(c) ==
  /\ client_pc[c] = "idle" /\ sent < MaxCommands
  /\ sent' = sent + 1
  /\ client_pc' = [client_pc EXCEPT ![c] = "opening"]
  /\ UNCHANGED <<clientRest, pipeVars>>

OpenPipe(c) ==
  /\ client_pc[c] = "opening" /\ pipe = "free"
  /\ pipe' = "taken" /\ pipe_client' = c
  /\ client_pc' = [client_pc EXCEPT ![c] = "sending"]
  /\ UNCHANGED <<clientRest, request, answer, sent>>

OpenFails(c) ==
  /\ client_pc[c] = "opening" /\ pipe # "free"
  /\ Return(c)
  /\ UNCHANGED <<clientRest, pipeVars, sent>>

WriteRequest(c) ==
  /\ client_pc[c] = "sending" /\ Holds(c)
  /\ request' \in Commands
  /\ client_pc' = [client_pc EXCEPT ![c] = "receiving"]
  /\ UNCHANGED <<clientRest, pipe, pipe_client, answer, sent>>

\* The answer is read and the pipe closed.
ReadAnswer(c) ==
  /\ client_pc[c] = "receiving" /\ Holds(c) /\ answer = "written"
  /\ pipe' = "left"
  /\ Return(c)
  /\ UNCHANGED <<clientRest, pipe_client, request, answer, sent>>

\* The server has disconnected this client.
Broken(c) ==
  /\ client_pc[c] \in {"sending", "receiving"} /\ ~Holds(c)
  /\ Return(c)
  /\ UNCHANGED <<clientRest, pipeVars, sent>>

\* A client's process ends, and its end of the pipe is closed.
Vanish(c) ==
  /\ client_pc[c] \in {"sending", "receiving"} /\ Holds(c)
  /\ pipe' = "left"
  /\ Return(c)
  /\ UNCHANGED <<clientRest, pipe_client, request, answer, sent>>

ClientStep(c) ==
  OpenPipe(c) \/ OpenFails(c) \/ WriteRequest(c) \/ ReadAnswer(c) \/ Broken(c)

-----------------------------------------------------------------------------
(* The host: IpcServer::Start and RequestStop.                             *)

hostRest == <<stateVars, traced_pc, clientVars>>
Called == host_calls' = host_calls + 1

\* Start answers that the server runs when it has a thread on record, and
\* otherwise CreateThread gives it one or fails.
Mutant_StartsAgain == ~running_
NotStarted == ~running_ /\ thread_ = Nobody

StartServer ==
  /\ host_pc = "idle" /\ host_calls < MaxHostCalls
  /\ Called
  /\ IF NotStarted
     THEN /\ stop_requested_' = FALSE
          /\ \/ \E s \in Servers :
                  /\ server_pc[s] = "unborn"
                  /\ thread_' = s
                  /\ GoTo(s, "born")
             \/ UNCHANGED <<thread_, server_pc>>
     ELSE UNCHANGED <<stop_requested_, thread_, server_pc>>
  /\ UNCHANGED <<hostRest, running_, pipeVars, host_pc>>

RequestStop ==
  /\ host_pc = "idle" /\ host_calls < MaxHostCalls
  /\ Called
  /\ stop_requested_' = TRUE
  /\ host_pc' = IF thread_ = Nobody THEN "idle" ELSE "waking"
  /\ UNCHANGED <<hostRest, thread_, running_, server_pc, pipeVars>>

Ended == server_pc[thread_] = "ended"

\* WakePipeServer opens and closes the pipe, so that ConnectNamedPipe returns.
Wake ==
  /\ host_pc = "waking"
  /\ \/ Ended /\ UNCHANGED pipeVars
     \/ pipe = "free" /\ pipe' = "left" /\ UNCHANGED <<pipe_client, request, answer>>
  /\ host_pc' = "cancelling"
  /\ UNCHANGED <<hostRest, serverVars, host_calls>>

\* All attempts fail, for a second, when a client or its command has the pipe
\* for so long.
Mutant_GivesUpSoon == TRUE
PipeIsBusy ==
  server_pc[thread_] \in {"read", "configuring", "stopping", "hung", "flush"}

WakeGivesUp ==
  /\ host_pc = "waking" /\ ~Ended /\ PipeIsBusy
  /\ host_pc' = "cancelling"
  /\ UNCHANGED <<hostRest, serverVars, pipeVars, host_calls>>

\* CancelSynchronousIo ends the call the server waits in, if it waits in one.
CancelIo ==
  /\ host_pc = "cancelling"
  /\ host_pc' = "waiting"
  /\ \/ server_pc[thread_] = "connect" /\ GoTo(thread_, "check") /\ NoPipe
     \/ server_pc[thread_] = "read" /\ GoTo(thread_, "write") /\ UNCHANGED pipeVars
     \/ server_pc[thread_] = "flush" /\ GoTo(thread_, "check") /\ NoPipe
     \/ UNCHANGED <<server_pc, pipeVars>>
  /\ UNCHANGED <<hostRest, thread_, running_, stop_requested_, host_calls>>

\* The thread has ended, or the wait times out and the thread stays on record.
WaitEnds ==
  /\ host_pc = "waiting"
  /\ thread_' = IF Ended THEN Nobody ELSE thread_
  /\ host_pc' = "idle"
  /\ UNCHANGED <<hostRest, running_, stop_requested_, server_pc, pipeVars, host_calls>>

HostStep == Wake \/ WakeGivesUp \/ CancelIo \/ WaitEnds

-----------------------------------------------------------------------------
Next ==
  \/ \E s \in Servers : ServerStep(s) \/ SessionHangs(s) \/ RecorderHangs(s)
  \/ EnterHandler \/ EndTrace \/ LeaveHandler \/ HandlerHangs
  \/ \E c \in Clients :
       ClientStep(c) \/ Vanish(c) \/ SendCommand(c)
  \/ StartServer \/ RequestStop \/ HostStep

Spec == Init /\ [][Next]_vars

\* Threads and processes go on with what they have begun, and may hang where the
\* code may: nothing forces them to.
Fairness ==
  /\ \A s \in Servers : WF_vars(ServerStep(s))
  /\ WF_vars(LeaveHandler)
  /\ \A c \in Clients : WF_vars(ClientStep(c))
  /\ WF_vars(HostStep)

FairSpec == Spec /\ Fairness
-----------------------------------------------------------------------------
(* Properties.                                                             *)

Serving == {"born", "check", "create", "connect", "connected", "read",
            "configuring", "stopping", "hung", "write", "flush", "leave"}

Flags ==
  /\ running_ \in BOOLEAN /\ stop_requested_ \in BOOLEAN
  /\ has_valid_configuration_ \in BOOLEAN /\ session_running \in BOOLEAN
  /\ unconfigured \in BOOLEAN /\ stale \in BOOLEAN

TypeOK ==
  /\ Flags
  /\ thread_ \in Servers \cup {Nobody}
  /\ server_pc \in [Servers -> Serving \cup {"unborn", "ended"}]
  /\ pipe \in {"none", "free", "taken", "left"}
  /\ pipe_client \in Clients \cup {Nobody}
  /\ request \in Commands \cup {"none"}
  /\ answer \in {"none", "written"}
  /\ pipe \in {"none", "free"} =>
       pipe_client = Nobody /\ request = "none" /\ answer = "none"
  /\ created \in 0 .. MaxRecorders
  /\ recorder_ \in {0, created} /\ callback_context \in 0 .. created
  /\ traced_pc \in {"out", "in", "hung"}
  /\ client_pc \in [Clients -> {"idle", "opening", "sending", "receiving"}]
  /\ sent \in 0 .. MaxCommands
  /\ host_pc \in {"idle", "waking", "cancelling", "waiting"}
  /\ host_calls \in 0 .. MaxHostCalls

\* The recorder a handler writes to exists as long as the handler is inside:
\* Configure and Stop destroy it after the session has drained, and a failed
\* Configure leaves none for Start.  It takes a Configure between Stop and Start.
RecorderOutlivesHandler ==
  ~stale => (traced_pc # "out" => recorder_ # 0 /\ recorder_ = callback_context)

\* At most one thread serves the pipe, also when Start comes while the first
\* thread has not begun to run or a stop has timed out on a busy server.
OneServer ==
  \A s, t \in Servers : server_pc[s] \in Serving /\ server_pc[t] \in Serving => s = t

\* The server is in a call of State that never returns, or in one that waits for
\* a handler that never returns.
Stuck ==
  \E s \in Servers :
    server_pc[s] = "hung" \/ (Stopping(s) /\ traced_pc = "hung")

\* A client that has begun a command returns, although it reads without a
\* timeout and the server may stop, fail or turn it away meanwhile.  Only the one
\* whose own configure, stop or shutdown is stuck waits for ever: the others have
\* their timeout, also then.
ClientsReturn ==
  \A c \in Clients :
    client_pc[c] # "idle" ~> client_pc[c] = "idle" \/ (Stuck /\ Holds(c))

\* RequestStop ends the server, wherever its thread is and whoever is connected,
\* unless the server is stuck in a command.
StopEndsServer ==
  host_pc = "waking" ~> Stuck \/ \A s \in Servers : server_pc[s] \notin Serving
=============================================================================
