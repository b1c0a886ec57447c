---------------------------- MODULE LoaderBridge ----------------------------
(***************************************************************************)
(* The interface's side of the loader pipe (src/flutter_gui, loader_bridge *)
(* and loader_pipe_transport): an accept loop, one loop for each session,  *)
(* and stop.  All of them run on the one event loop of the program; what   *)
(* lies between two awaits is one step here.  The blocking calls run in    *)
(* isolates of their own, on a handle that they were given as a number: by *)
(* the time they run, the number may name another pipe.                    *)
(***************************************************************************)
EXTENDS Integers, FiniteSets, Sequences

CONSTANTS
  LoaderPids,     \* the processes that hold a loader
  Handles,        \* the values that the system gives to pipe handles
  MaxPipes,       \* bound: pipes that are created
  MaxMessages     \* bound: messages of a client

NoHandle == 0
Pipes == 1 .. MaxPipes

\* No pipe has the null handle.
ASSUME BridgeAssumption ==
  NoHandle \notin Handles /\ MaxPipes \in Nat /\ MaxMessages \in Nat

VARIABLES
  bridge_running, was_started,
  created,          \* pipes so far; a pipe's number is that of its session
  pipe,             \* the system's pipes, by handle value
  accept, server,   \* the accept loop, and the pipe it waits on
  pending_server, closed_pending_server,
  session,          \* by number
  greeting,         \* history: who has said hello, is still there, and has not been heard;
                    \* not those whose message another session's loop has read
  foreign           \* history: a handle was closed that was not the closer's

bridgeVars == <<bridge_running, was_started, created, pipe, accept, server, pending_server,
          closed_pending_server, session, greeting, foreign>>
acceptVars == <<accept, server, pending_server, closed_pending_server>>

Free == [life |-> "free", number |-> 0, pid |-> NoHandle, inbox |-> <<>>, sent |-> 0]
Listening(number) ==
  [life |-> "listening", number |-> number, pid |-> NoHandle, inbox |-> <<>>, sent |-> 0]
NoSession == [handle |-> NoHandle, pid |-> NoHandle, hello |-> FALSE, connected |-> FALSE,
              closed |-> FALSE, sending |-> FALSE, listed |-> FALSE, loop |-> "none",
              message |-> "none", from |-> NoHandle]

BridgeInit ==
  /\ bridge_running = FALSE /\ was_started = FALSE
  /\ created = 0
  /\ pipe = [h \in Handles |-> Free]
  /\ accept = "none" /\ server = NoHandle
  /\ pending_server = NoHandle /\ closed_pending_server = NoHandle
  /\ session = [n \in Pipes |-> NoSession]
  /\ greeting = {} /\ foreign = FALSE

\* CloseHandle by the owner of the pipe with this number, on the value h.
Closes(h, number) ==
  /\ pipe' = [pipe EXCEPT ![h] = Free]
  /\ foreign' = (foreign \/ pipe[h].number # number)

\* snapshotSessions.
Visible(n) == session[n].listed /\ session[n].connected /\ session[n].hello

-----------------------------------------------------------------------------
(* The clients.                                                            *)

Connect(h, p) ==
  /\ pipe[h].life = "listening"
  /\ pipe' = [pipe EXCEPT ![h].life = "connected", ![h].pid = p]
  /\ UNCHANGED <<greeting, bridge_running, was_started, created, acceptVars, session, foreign>>

\* A hello, or something that is no message; logs and replies change nothing here.
Sends(h) ==
  /\ pipe[h].life = "connected" /\ pipe[h].pid # NoHandle /\ pipe[h].sent < MaxMessages
  /\ \E m \in {"hello", "garbage"} :
       /\ pipe' = [pipe EXCEPT ![h].inbox = Append(@, m), ![h].sent = @ + 1]
       /\ greeting' = IF m = "hello" THEN greeting \cup {pipe[h].number} ELSE greeting
  /\ UNCHANGED <<bridge_running, was_started, created, acceptVars, session, foreign>>

Disconnect(h) ==
  /\ pipe[h].life = "connected"
  /\ pipe' = [pipe EXCEPT ![h].life = "broken"]
  /\ greeting' = greeting \ {pipe[h].number}
  /\ UNCHANGED <<bridge_running, was_started, created, acceptVars, session, foreign>>

-----------------------------------------------------------------------------
(* start and stop, and the accept loop.                                    *)

Start ==
  /\ ~was_started
  /\ was_started' = TRUE /\ bridge_running' = TRUE
  /\ accept' = "create"
  /\ UNCHANGED <<greeting, created, pipe, server, pending_server, closed_pending_server, session,
                 foreign>>

\* The sessions that a stop or a second hello drops: out of the map, and their pipes
\* closed unless they are; their loops still run.
Drop(dropped, keep) ==
  LET open == {n \in dropped : ~session[n].closed}
      gone == {session[n].handle : n \in open} \cup keep
  IN /\ session' = [n \in Pipes |-> IF n \in dropped
                                    THEN [session[n] EXCEPT !.listed = FALSE, !.closed = TRUE]
                                    ELSE session[n]]
     /\ pipe' = [h \in Handles |-> IF h \in gone THEN Free ELSE pipe[h]]
     /\ foreign' = (foreign \/ \E n \in open : pipe[session[n].handle].number # n)

Listed == {n \in Pipes : session[n].listed}

\* The server that waits is poked awake, and closed here.
Stop ==
  /\ bridge_running
  /\ bridge_running' = FALSE
  /\ closed_pending_server' = IF pending_server # NoHandle THEN pending_server
                              ELSE closed_pending_server
  /\ pending_server' = NoHandle
  /\ Drop(Listed, {pending_server} \ {NoHandle})
  /\ accept' = IF accept = "connecting" THEN "connected" ELSE accept
  /\ UNCHANGED <<greeting, was_started, created, server>>

\* At the head of the loop; a pipe that cannot be created is tried again later.
CreateServer ==
  /\ accept = "create" /\ bridge_running /\ created < MaxPipes
  /\ \E h \in Handles :
       /\ pipe[h].life = "free"
       /\ pipe' = [pipe EXCEPT ![h] = Listening(created + 1)]
       /\ server' = h /\ pending_server' = h
  /\ created' = created + 1
  /\ accept' = "connecting"
  /\ UNCHANGED <<greeting, bridge_running, was_started, closed_pending_server, session, foreign>>

AcceptEnds ==
  /\ accept = "create" /\ ~bridge_running
  /\ accept' = "ended"
  /\ UNCHANGED <<greeting, bridge_running, was_started, created, pipe, server, pending_server,
                 closed_pending_server, session, foreign>>

\* connectPipeBlocking, in its isolate.
ConnectReturns ==
  /\ accept = "connecting" /\ pipe[server].life # "listening"
  /\ accept' = IF pipe[server].life = "connected" THEN "connected" ELSE "failed"
  /\ UNCHANGED <<greeting, bridge_running, was_started, created, pipe, server, pending_server,
                 closed_pending_server, session, foreign>>

ClosedByStop == closed_pending_server = server

\* The loop goes on after the await: a session, or the pipe is closed, unless the stop
\* has done so.
Resume ==
  /\ accept \in {"connected", "failed"}
  /\ closed_pending_server' = IF ClosedByStop THEN NoHandle ELSE closed_pending_server
  /\ pending_server' = IF pending_server = server THEN NoHandle ELSE pending_server
  /\ IF accept = "connected" /\ bridge_running
     THEN /\ session' = [session EXCEPT ![created] =
                 [NoSession EXCEPT !.handle = server, !.connected = TRUE, !.listed = TRUE,
                                   !.loop = "peek"]]
          /\ UNCHANGED <<pipe, foreign>>
     ELSE /\ UNCHANGED session
          /\ IF ClosedByStop THEN UNCHANGED <<pipe, foreign>> ELSE Closes(server, created)
  /\ accept' = IF accept = "connected" /\ ~bridge_running THEN "ended" ELSE "create"
  /\ server' = NoHandle
  /\ UNCHANGED <<greeting, bridge_running, was_started, created>>

AcceptLoop == CreateServer \/ AcceptEnds \/ ConnectReturns \/ Resume

-----------------------------------------------------------------------------
(* The loop of a session.                                                  *)

SessionGoesTo(n, where) == session' = [session EXCEPT ![n].loop = where]
Elsewhere == UNCHANGED <<bridge_running, was_started, created, acceptVars>>

\* peekPipeAvailable, on whatever has the handle's value now.
Peek(n) ==
  /\ session[n].loop = "peek"
  /\ LET on == pipe[session[n].handle]
     IN IF ~bridge_running \/ ~session[n].connected \/ on.life \in {"free", "listening"}
           \/ (on.life = "broken" /\ on.inbox = <<>>)
        THEN SessionGoesTo(n, "finally")
        ELSE on.inbox # <<>> /\ SessionGoesTo(n, "reading")
  /\ Elsewhere /\ UNCHANGED <<pipe, greeting, foreign>>

\* readMessageBlocking, in its isolate.
ReadReturns(n) ==
  /\ session[n].loop = "reading"
  /\ LET h == session[n].handle
     IN IF pipe[h].inbox # <<>>
        THEN /\ session' = [session EXCEPT ![n].loop = "got", ![n].message = Head(pipe[h].inbox),
                                           ![n].from = pipe[h].pid]
             /\ pipe' = [pipe EXCEPT ![h].inbox = Tail(@)]
             /\ greeting' = greeting \ ({pipe[h].number} \ {n})
        ELSE /\ pipe[h].life # "connected"
             /\ session' = [session EXCEPT ![n].loop = "got", ![n].message = "garbage"]
             /\ UNCHANGED <<pipe, greeting>>
  /\ Elsewhere /\ UNCHANGED foreign

\* _handleMessage: a hello makes the session visible, and drops the other sessions of
\* the process.  A message that is none ends the session.
Mutant_DropsUngreeted(n) == {d \in Listed \ {n} : session[d].pid \in {session[n].from, NoHandle}}
Duplicates(n) == {d \in Listed \ {n} : session[d].hello /\ session[d].pid = session[n].from}

Handle(n) ==
  /\ session[n].loop = "got"
  /\ CASE session[n].message = "hello" ->
            LET dropped == Duplicates(n)
                open == {d \in dropped : ~session[d].closed}
            IN /\ session' = [d \in Pipes |->
                    CASE d = n -> [session[n] EXCEPT !.hello = TRUE, !.connected = TRUE,
                                          !.pid = session[n].from, !.loop = "peek", !.message = "none"]
                      [] d \in dropped -> [session[d] EXCEPT !.listed = FALSE, !.closed = TRUE]
                      [] OTHER -> session[d]]
               /\ pipe' = [h \in Handles |->
                    IF \E d \in open : session[d].handle = h THEN Free ELSE pipe[h]]
               /\ foreign' = (foreign \/ \E d \in open : pipe[session[d].handle].number # d)
               /\ greeting' = greeting \ {n}
       [] OTHER ->
            /\ session' = [session EXCEPT ![n].loop = "finally", ![n].message = "none"]
            /\ UNCHANGED <<pipe, foreign, greeting>>
  /\ Elsewhere

\* Out of the map, and the pipe closed unless it is.
Mutant_AlwaysCloses(n) == TRUE
StillOpen(n) == ~session[n].closed

Finally(n) ==
  /\ session[n].loop = "finally"
  /\ session' = [session EXCEPT ![n].connected = FALSE, ![n].listed = FALSE, ![n].closed = TRUE,
                                ![n].loop = "ended"]
  /\ IF StillOpen(n) THEN Closes(session[n].handle, n) ELSE UNCHANGED <<pipe, foreign>>
  /\ Elsewhere /\ UNCHANGED greeting

SessionLoop(n) == Peek(n) \/ ReadReturns(n) \/ Handle(n) \/ Finally(n)

-----------------------------------------------------------------------------
(* loadAgent.                                                              *)

\* To a session that is shown; the controller does one action at a time.
LoadAgent(n) ==
  /\ Visible(n) /\ \A m \in Pipes : ~session[m].sending
  /\ session' = [session EXCEPT ![n].sending = TRUE]
  /\ UNCHANGED <<greeting, bridge_running, was_started, created, pipe, acceptVars, foreign>>

\* Written, or not, or the time is up: the isolate then still writes to the handle's
\* value, of which the bridge learns nothing.
SendEnds(n) ==
  /\ session[n].sending
  /\ session' = [session EXCEPT ![n].sending = FALSE]
  /\ UNCHANGED <<greeting, bridge_running, was_started, created, pipe, acceptVars, foreign>>

-----------------------------------------------------------------------------
BridgeNext ==
  \/ Start \/ Stop \/ AcceptLoop
  \/ \E h \in Handles : Sends(h) \/ Disconnect(h) \/ \E p \in LoaderPids : Connect(h, p)
  \/ \E n \in Pipes : SessionLoop(n) \/ LoadAgent(n) \/ SendEnds(n)

BridgeSpec == BridgeInit /\ [][BridgeNext]_bridgeVars

-----------------------------------------------------------------------------
(* Properties.                                                             *)

Inbox == Seq({"hello", "garbage"})
PipeRecords == [life : {"free", "listening", "connected", "broken"},
                number : 0 .. MaxPipes, pid : LoaderPids \cup {NoHandle},
                inbox : Inbox, sent : 0 .. MaxMessages]
SessionRecords == [handle : Handles \cup {NoHandle}, pid : LoaderPids \cup {NoHandle},
                   hello : BOOLEAN, connected : BOOLEAN, closed : BOOLEAN,
                   sending : BOOLEAN, listed : BOOLEAN,
                   loop : {"none", "peek", "reading", "got", "finally", "ended"},
                   message : {"none", "hello", "garbage"},
                   from : LoaderPids \cup {NoHandle}]

BridgeTypeOK ==
  /\ bridge_running \in BOOLEAN /\ was_started \in BOOLEAN /\ foreign \in BOOLEAN
  /\ created \in 0 .. MaxPipes
  /\ pipe \in [Handles -> PipeRecords]
  /\ accept \in {"none", "create", "connecting", "connected", "failed", "ended"}
  /\ {server, pending_server, closed_pending_server} \subseteq Handles \cup {NoHandle}
  /\ session \in [Pipes -> SessionRecords]
  /\ greeting \subseteq Pipes

\* Every pipe is closed once, by whoever owns it -- a session's pipe by a second hello,
\* by the stop or by its own loop, the waiting server by the stop or by the accept loop,
\* though the handle's value may name another pipe by then -- and when the bridge has
\* stopped and its loops have ended none is left.
LoopsEnded == /\ accept = "ended"
              /\ \A n \in Pipes : session[n].loop \in {"none", "ended"}
PipesClosedOnce ==
  /\ ~foreign
  /\ ~bridge_running /\ LoopsEnded => \A h \in Handles : pipe[h].life = "free"

\* A loader that has said hello and stays becomes visible, unless the bridge stops or
\* the loop of a dropped session, whose handle has the same value, reads the message.
Greets == bridge_running /\ greeting # {}
HelloBecomesVisible == Greets ~> ~Greets
=============================================================================
