-------------------------- MODULE LoaderBridgeProofs --------------------------
(***************************************************************************)
(* Theorems about LoaderBridge, for every number of pipes, every set of    *)
(* handle values and every set of loader processes.                        *)
(***************************************************************************)
EXTENDS LoaderBridge, TLAPS

USE DEF NoHandle, Pipes, acceptVars, bridgeVars, Elsewhere

-----------------------------------------------------------------------------
(* Who owns a pipe.                                                        *)

\* The accept loop has a pipe, and a session's loop has one.
Waiting == accept \in {"connecting", "connected", "failed"}
Live(n) == session[n].loop \in {"peek", "reading", "got", "finally"}
Holds(n, h) == Live(n) /\ session[n].closed = FALSE /\ session[n].handle = h
Awaits(n, h) ==
  Waiting /\ created = n /\ server = h /\ closed_pending_server # h

\* What the accept loop and the stop know of the server.
AcceptInv ==
  /\ was_started = FALSE =>
       bridge_running = FALSE /\ accept = "none" /\ closed_pending_server = NoHandle
  /\ bridge_running = TRUE => closed_pending_server = NoHandle
  /\ bridge_running = FALSE => pending_server = NoHandle
  /\ ~Waiting => pending_server = NoHandle
  /\ Waiting =>
       /\ server # NoHandle /\ created # 0 /\ session[created].loop = "none"
       /\ bridge_running = TRUE => pending_server = server

\* What a session has.
SessionInv ==
  \A n \in Pipes :
    /\ session[n].listed = TRUE => Live(n) /\ session[n].closed = FALSE
    /\ session[n].loop # "none" => session[n].handle # NoHandle /\ n <= created

\* Whoever has not closed its pipe owns it, and a pipe has such an owner.
OwnerInv ==
  /\ foreign = FALSE
  /\ \A n \in Pipes, h \in Handles : Holds(n, h) \/ Awaits(n, h) => pipe[h].number = n
  /\ \A h \in Handles :
       /\ pipe[h].life = "free" <=> pipe[h].number = 0
       /\ pipe[h].number # 0 => Holds(pipe[h].number, h) \/ Awaits(pipe[h].number, h)

PipeInv == BridgeTypeOK /\ AcceptInv /\ SessionInv /\ OwnerInv

-----------------------------------------------------------------------------
(* Types.                                                                  *)

LEMMA TypeInit == BridgeInit => BridgeTypeOK
<1> SUFFICES ASSUME BridgeInit PROVE BridgeTypeOK
  OBVIOUS
<1>1. Free \in PipeRecords
  BY BridgeAssumption DEF Free, PipeRecords, Inbox
<1>2. NoSession \in SessionRecords
  BY DEF NoSession, SessionRecords
<1>3. bridge_running \in BOOLEAN /\ was_started \in BOOLEAN /\ foreign \in BOOLEAN
  BY Zenon DEF BridgeInit
<1> QED BY <1>1, <1>2, <1>3, BridgeAssumption DEF BridgeInit, BridgeTypeOK, Free

LEMMA FreeType == Free \in PipeRecords
BY BridgeAssumption DEF Free, PipeRecords, Inbox

LEMMA TypeClients ==
  ASSUME PipeInv, NEW h \in Handles,
         Sends(h) \/ Disconnect(h) \/ (\E p \in LoaderPids : Connect(h, p))
  PROVE  BridgeTypeOK'
<1> USE DEF PipeInv, BridgeTypeOK
<1>1. CASE Sends(h)
  <2> PICK m \in {"hello", "garbage"} :
        /\ pipe' = [pipe EXCEPT ![h].inbox = Append(@, m), ![h].sent = @ + 1]
        /\ greeting' = IF m = "hello" THEN greeting \cup {pipe[h].number} ELSE greeting
    BY <1>1 DEF Sends
  <2> DEFINE r == [pipe[h] EXCEPT !.inbox = Append(@, m), !.sent = @ + 1]
  <2>1. pipe[h] \in PipeRecords /\ pipe[h].sent + 1 \in 0 .. MaxMessages
    BY <1>1, BridgeAssumption DEF Sends, PipeRecords
  <2>2. r \in PipeRecords
    <3>1. Append(pipe[h].inbox, m) \in Inbox
      BY <2>1 DEF PipeRecords, Inbox
    <3> QED BY <2>1, <3>1 DEF PipeRecords
  <2>3. pipe' \in [Handles -> PipeRecords]
    BY <2>2
  <2>4. pipe[h].number \in Pipes
    BY <1>1, <2>1, BridgeAssumption DEF Sends, OwnerInv, PipeRecords
  <2> QED BY <1>1, <2>3, <2>4 DEF Sends
<1>2. CASE Disconnect(h)
  BY <1>2 DEF Disconnect, PipeRecords
<1>3. CASE \E p \in LoaderPids : Connect(h, p)
  <2> PICK p \in LoaderPids : Connect(h, p)
    BY <1>3
  <2> DEFINE r == [pipe[h] EXCEPT !.life = "connected", !.pid = p]
  <2>1. r \in PipeRecords
    BY DEF PipeRecords
  <2> QED BY <2>1 DEF Connect
<1> QED BY <1>1, <1>2, <1>3

LEMMA TypeAccept ==
  ASSUME PipeInv, Start \/ AcceptLoop
  PROVE  BridgeTypeOK'
<1> USE DEF PipeInv, BridgeTypeOK
<1>1. CASE Start
  BY <1>1 DEF Start
<1>2. CASE CreateServer
  <2>1. created + 1 \in 1 .. MaxPipes
    BY <1>2, BridgeAssumption DEF CreateServer
  <2>2. Listening(created + 1) \in PipeRecords
    BY <2>1, BridgeAssumption DEF Listening, PipeRecords, Inbox
  <2> QED BY <1>2, <2>1, <2>2 DEF CreateServer
<1>3. CASE AcceptEnds
  BY <1>3 DEF AcceptEnds
<1>4. CASE ConnectReturns
  BY <1>4 DEF ConnectReturns
<1>5. CASE Resume
  <2>1. foreign' \in BOOLEAN
    BY <1>5, Zenon DEF Resume, Closes
  <2>2. pipe' \in [Handles -> PipeRecords]
    BY <1>5, FreeType DEF Resume, Closes
  <2>3. session' \in [Pipes -> SessionRecords]
    <3> DEFINE r == [NoSession EXCEPT !.handle = server, !.connected = TRUE, !.listed = TRUE,
                                      !.loop = "peek"]
    <3>1. r \in SessionRecords
      BY DEF NoSession, SessionRecords
    <3> QED BY <1>5, <3>1 DEF Resume
  <2> QED BY <1>5, <2>1, <2>2, <2>3 DEF Resume
<1> QED BY <1>1, <1>2, <1>3, <1>4, <1>5 DEF AcceptLoop

LEMMA TypeStop ==
  ASSUME PipeInv, Stop
  PROVE  BridgeTypeOK'
BY FreeType DEF PipeInv, BridgeTypeOK, Stop, Drop, SessionRecords

LEMMA TypeSession ==
  ASSUME PipeInv, NEW n \in Pipes, SessionLoop(n) \/ LoadAgent(n) \/ SendEnds(n)
  PROVE  BridgeTypeOK'
<1> USE DEF PipeInv, BridgeTypeOK
<1>0. session[n] \in SessionRecords
  OBVIOUS
<1>1. CASE Peek(n)
  BY <1>1 DEF Peek, SessionGoesTo, SessionRecords
<1>2. CASE ReadReturns(n)
  <2> DEFINE h == session[n].handle
  <2>0. h \in Handles
    BY <1>2, <1>0 DEF ReadReturns, SessionInv, Live, SessionRecords
  <2>1. CASE pipe[h].inbox # <<>>
    <3> DEFINE r == [session[n] EXCEPT !.loop = "got", !.message = Head(pipe[h].inbox),
                                       !.from = pipe[h].pid]
               q == [pipe[h] EXCEPT !.inbox = Tail(@)]
    <3>1. /\ session' = [session EXCEPT ![n] = r]
          /\ pipe' = [pipe EXCEPT ![h] = q]
          /\ greeting' = greeting \ ({pipe[h].number} \ {n})
      BY <1>2, <2>1 DEF ReadReturns
    <3>2. pipe[h] \in PipeRecords
      BY <2>0
    <3>3. Head(pipe[h].inbox) \in {"hello", "garbage"} /\ Tail(pipe[h].inbox) \in Inbox
      BY <2>1, <3>2 DEF PipeRecords, Inbox
    <3>4. pipe[h].pid \in LoaderPids \cup {NoHandle}
      BY <3>2 DEF PipeRecords
    <3>5. r \in SessionRecords
      BY <1>0, <3>3, <3>4 DEF SessionRecords
    <3>6. q \in PipeRecords
      BY <3>2, <3>3 DEF PipeRecords
    <3> HIDE DEF r, q
    <3> QED BY <1>2, <3>1, <3>5, <3>6 DEF ReadReturns
  <2>2. CASE pipe[h].inbox = <<>>
    <3>1. session' = [session EXCEPT ![n].loop = "got", ![n].message = "garbage"]
      BY <1>2, <2>2 DEF ReadReturns
    <3>2. [session[n] EXCEPT !.loop = "got", !.message = "garbage"] \in SessionRecords
      BY <1>0 DEF SessionRecords
    <3>3. session' \in [Pipes -> SessionRecords]
      BY <3>1, <3>2
    <3> QED BY <1>2, <2>2, <3>3 DEF ReadReturns
  <2> QED BY <2>1, <2>2
<1>3. CASE Handle(n)
  <2>1. CASE session[n].message = "hello"
    <3> DEFINE r == [session[n] EXCEPT !.hello = TRUE, !.connected = TRUE,
                          !.pid = session[n].from, !.loop = "peek", !.message = "none"]
               q(d) == [session[d] EXCEPT !.listed = FALSE, !.closed = TRUE]
    <3>1. r \in SessionRecords
      BY <1>0 DEF SessionRecords
    <3>2. \A d \in Pipes : q(d) \in SessionRecords
      BY DEF SessionRecords
    <3>3. session' = [d \in Pipes |-> CASE d = n -> r
                                        [] d \in Duplicates(n) -> q(d)
                                        [] OTHER -> session[d]]
      BY <1>3, <2>1 DEF Handle
    <3>4. session' \in [Pipes -> SessionRecords]
      <4> HIDE DEF r, q
      <4> QED BY <3>1, <3>2, <3>3
    <3>5. pipe' \in [Handles -> PipeRecords]
      BY <1>3, <2>1, FreeType DEF Handle
    <3>6. foreign' \in BOOLEAN
      BY <1>3, <2>1, Zenon DEF Handle
    <3> QED BY <1>3, <2>1, <3>4, <3>5, <3>6 DEF Handle
  <2>2. CASE session[n].message # "hello"
    <3>1. [session[n] EXCEPT !.loop = "finally", !.message = "none"] \in SessionRecords
      BY <1>0 DEF SessionRecords
    <3> QED BY <1>3, <2>2, <3>1 DEF Handle
  <2> QED BY <2>1, <2>2
<1>4. CASE Finally(n)
  <2>1. [session[n] EXCEPT !.connected = FALSE, !.listed = FALSE, !.closed = TRUE,
                           !.loop = "ended"] \in SessionRecords
    BY <1>0 DEF SessionRecords
  <2>2. foreign' \in BOOLEAN
    BY <1>4, Zenon DEF Finally, Closes
  <2> QED BY <1>4, <2>1, <2>2, FreeType DEF Finally, Closes
<1>5. CASE LoadAgent(n)
  <2>1. [session[n] EXCEPT !.sending = TRUE] \in SessionRecords
    BY DEF SessionRecords
  <2> QED BY <1>5, <2>1 DEF LoadAgent
<1>6. CASE SendEnds(n)
  <2>1. [session[n] EXCEPT !.sending = FALSE] \in SessionRecords
    BY DEF SessionRecords
  <2> QED BY <1>6, <2>1 DEF SendEnds
<1> QED BY <1>1, <1>2, <1>3, <1>4, <1>5, <1>6 DEF SessionLoop

-----------------------------------------------------------------------------
(* Steps that leave pipes and sessions with their owners.                  *)

SamePipes ==
  \A h \in Handles :
    /\ pipe'[h].number = pipe[h].number
    /\ pipe'[h].life = "free" <=> pipe[h].life = "free"

SameSession(n) ==
  /\ session'[n].handle = session[n].handle
  /\ session'[n].closed = session[n].closed
  /\ session'[n].listed = session[n].listed
  /\ session'[n].loop = "none" <=> session[n].loop = "none"
  /\ Live(n)' <=> Live(n)

LEMMA KeepOwners ==
  ASSUME PipeInv, SamePipes, \A n \in Pipes : SameSession(n),
         UNCHANGED <<bridge_running, was_started, created, acceptVars, foreign>>
  PROVE  AcceptInv' /\ SessionInv' /\ OwnerInv'
<1> USE DEF PipeInv, BridgeTypeOK, SamePipes, SameSession
<1>1. AcceptInv'
  BY DEF AcceptInv, Waiting
<1>2. SessionInv'
  BY DEF SessionInv
<1>3. \A n \in Pipes, h \in Handles :
        Holds(n, h)' <=> Holds(n, h)
  BY DEF Holds
<1>4. \A n \in Nat, h \in Handles :
        Awaits(n, h)' <=> Awaits(n, h)
  BY DEF Awaits, Waiting
<1>5. \A h \in Handles : pipe[h].number \in 0 .. MaxPipes
  BY DEF PipeRecords
<1>6. OwnerInv'
  BY <1>3, <1>4, <1>5, BridgeAssumption DEF OwnerInv
<1> QED BY <1>1, <1>2, <1>6

LEMMA KeepClients ==
  ASSUME PipeInv, NEW h \in Handles,
         Sends(h) \/ Disconnect(h) \/ (\E p \in LoaderPids : Connect(h, p))
  PROVE  AcceptInv' /\ SessionInv' /\ OwnerInv'
<1>1. pipe \in [Handles -> PipeRecords]
  BY DEF PipeInv, BridgeTypeOK
<1>2. SamePipes
  <2>1. CASE Sends(h)
    BY <1>1, <2>1 DEF Sends, SamePipes, PipeRecords
  <2>2. CASE Disconnect(h)
    BY <1>1, <2>2 DEF Disconnect, SamePipes, PipeRecords
  <2>3. CASE \E p \in LoaderPids : Connect(h, p)
    <3> PICK p \in LoaderPids : Connect(h, p)
      BY <2>3
    <3>1. \A g \in Handles : g # h => pipe'[g] = pipe[g]
      BY <1>1 DEF Connect
    <3>2. pipe'[h].number = pipe[h].number /\ pipe'[h].life = "connected"
      BY <1>1 DEF Connect, PipeRecords
    <3> QED BY <3>1, <3>2 DEF SamePipes, Connect
  <2> QED BY <2>1, <2>2, <2>3
<1>3. UNCHANGED <<bridge_running, was_started, created, acceptVars, session, foreign>>
  BY DEF Sends, Disconnect, Connect
<1> QED BY <1>2, <1>3, KeepOwners DEF SameSession, Live

LEMMA KeepLoop ==
  ASSUME PipeInv, NEW n \in Pipes,
         \/ Peek(n) \/ ReadReturns(n) \/ LoadAgent(n) \/ SendEnds(n)
         \/ Handle(n) /\ session[n].message # "hello"
  PROVE  AcceptInv' /\ SessionInv' /\ OwnerInv'
<1> USE DEF PipeInv, BridgeTypeOK, SameSession, Live
<1>1. CASE Peek(n)
  <2> PICK where \in {"finally", "reading"} : session' = [session EXCEPT ![n].loop = where]
    BY <1>1 DEF Peek, SessionGoesTo
  <2>1. \A m \in Pipes : SameSession(m)
    BY <1>1 DEF Peek, SessionRecords
  <2> QED BY <1>1, <2>1, KeepOwners DEF Peek, SamePipes
<1>2. CASE ReadReturns(n)
  <2>1. \A m \in Pipes : SameSession(m)
    <3>1. \A m \in Pipes : m # n => session'[m] = session[m]
      BY <1>2 DEF ReadReturns
    <3>2. /\ session'[n].loop = "got"
          /\ session'[n].handle = session[n].handle
          /\ session'[n].closed = session[n].closed
          /\ session'[n].listed = session[n].listed
      <4>1. \E m, f \in {session[n].from, Head(pipe[session[n].handle].inbox), "garbage",
                            pipe[session[n].handle].pid} :
              session' = [session EXCEPT ![n].loop = "got", ![n].message = m, ![n].from = f]
        <5>1. CASE pipe[session[n].handle].inbox # <<>>
          BY <1>2, <5>1 DEF ReadReturns
        <5>2. CASE pipe[session[n].handle].inbox = <<>>
          <6>1. session' = [session EXCEPT ![n].loop = "got", ![n].message = "garbage"]
            BY <1>2, <5>2 DEF ReadReturns
          <6>2. session' = [session EXCEPT ![n].loop = "got", ![n].message = "garbage",
                                           ![n].from = session[n].from]
            BY <6>1 DEF SessionRecords
          <6> QED BY <6>2
        <5> QED BY <5>1, <5>2
      <4> QED BY <4>1 DEF SessionRecords
    <3> QED BY <1>2, <3>1, <3>2 DEF ReadReturns
  <2>2. SamePipes
    <3> DEFINE h == session[n].handle
    <3>1. pipe' = pipe \/ (h \in Handles /\ pipe' = [pipe EXCEPT ![h].inbox = Tail(@)])
      BY <1>2 DEF ReadReturns, SessionInv, SessionRecords
    <3>2. CASE pipe' = pipe
      BY <3>2 DEF SamePipes
    <3>3. CASE h \in Handles /\ pipe' = [pipe EXCEPT ![h].inbox = Tail(@)]
      <4> HIDE DEF h
      <4> QED BY <3>3 DEF SamePipes, PipeRecords
    <3> QED BY <3>1, <3>2, <3>3
  <2> QED BY <1>2, <2>1, <2>2, KeepOwners DEF ReadReturns
<1>3. CASE LoadAgent(n)
  <2>1. \A m \in Pipes : SameSession(m)
    BY <1>3 DEF LoadAgent, SessionRecords
  <2> QED BY <1>3, <2>1, KeepOwners DEF LoadAgent, SamePipes
<1>4. CASE SendEnds(n)
  <2>1. \A m \in Pipes : SameSession(m)
    BY <1>4 DEF SendEnds, SessionRecords
  <2> QED BY <1>4, <2>1, KeepOwners DEF SendEnds, SamePipes
<1>5. CASE Handle(n) /\ session[n].message # "hello"
  <2>1. \A m \in Pipes : SameSession(m)
    <3>1. session' = [session EXCEPT ![n].loop = "finally", ![n].message = "none"]
      BY <1>5 DEF Handle
    <3> QED BY <1>5, <3>1 DEF Handle, SessionRecords
  <2> QED BY <1>5, <2>1, KeepOwners DEF Handle, SamePipes
<1> QED BY <1>1, <1>2, <1>3, <1>4, <1>5

-----------------------------------------------------------------------------
(* Steps that hand a pipe on, or close it.                                 *)

LEMMA KeepAccept ==
  ASSUME PipeInv, Start \/ AcceptEnds \/ ConnectReturns
  PROVE  AcceptInv' /\ SessionInv' /\ OwnerInv'
<1> USE DEF PipeInv, BridgeTypeOK
<1>0. \A h \in Handles : pipe[h].number \in 0 .. MaxPipes
  BY DEF PipeRecords
<1>1. CASE Start
  BY <1>1, <1>0
  DEF Start, AcceptInv, Waiting, Awaits, SessionInv, Live, OwnerInv, Holds
<1>2. CASE AcceptEnds
  BY <1>2, <1>0
  DEF AcceptEnds, AcceptInv, Waiting, Awaits, SessionInv, Live, OwnerInv, Holds
<1>3. CASE ConnectReturns
  BY <1>3, <1>0
  DEF ConnectReturns, AcceptInv, Waiting, Awaits, SessionInv, Live, OwnerInv,
      Holds
<1> QED BY <1>1, <1>2, <1>3

LEMMA KeepCreate ==
  ASSUME PipeInv, CreateServer
  PROVE  AcceptInv' /\ SessionInv' /\ OwnerInv'
<1> USE DEF PipeInv, BridgeTypeOK
<1> PICK h \in Handles :
      /\ pipe[h].life = "free"
      /\ pipe' = [pipe EXCEPT ![h] = Listening(created + 1)]
      /\ server' = h /\ pending_server' = h
  BY DEF CreateServer
<1>1. created + 1 \in Pipes /\ created' = created + 1
  BY BridgeAssumption DEF CreateServer
<1>2. /\ pipe'[h].number = created + 1 /\ pipe'[h].life = "listening"
      /\ \A g \in Handles : g # h => pipe'[g] = pipe[g]
  BY DEF Listening
<1>3. accept' = "connecting" /\ accept = "create" /\ bridge_running = TRUE
  BY DEF CreateServer
<1>4. UNCHANGED <<session, bridge_running, was_started, closed_pending_server, foreign>>
  BY DEF CreateServer
<1>5. h # NoHandle
  BY BridgeAssumption
<1>6. AcceptInv'
  BY <1>1, <1>3, <1>4, <1>5 DEF AcceptInv, Waiting, SessionInv
<1>7. SessionInv'
  BY <1>1, <1>4 DEF SessionInv, Live
<1>8. \A n \in Pipes, g \in Handles : Holds(n, g)' <=> Holds(n, g)
  BY <1>4 DEF Holds, Live
<1>9. \A n \in Nat, g \in Handles : Awaits(n, g)' <=> n = created + 1 /\ g = h
  BY <1>1, <1>3, <1>4, <1>5 DEF Awaits, Waiting, AcceptInv
<1>10. \A n \in Nat, g \in Handles : ~Awaits(n, g)
  BY <1>3 DEF Awaits, Waiting
<1>11. \A g \in Handles : pipe[g].number \in 0 .. MaxPipes
  BY DEF PipeRecords
<1>12. \A n \in Pipes, g \in Handles : Holds(n, g) => n <= created /\ g # h
  BY DEF Holds, Live, SessionInv, OwnerInv
<1>13. OwnerInv'
  BY <1>1, <1>2, <1>4, <1>8, <1>9, <1>10, <1>11, <1>12, BridgeAssumption
  DEF OwnerInv
<1> QED BY <1>6, <1>7, <1>13
\* The pipe of an accept loop that goes on is a session's, or closed.
LEMMA KeepResume ==
  ASSUME PipeInv, Resume
  PROVE  AcceptInv' /\ SessionInv' /\ OwnerInv'
<1> USE DEF PipeInv, BridgeTypeOK
<1> DEFINE new == [NoSession EXCEPT !.handle = server, !.connected = TRUE, !.listed = TRUE,
                                    !.loop = "peek"]
<1>1. Waiting /\ server \in Handles /\ created \in Pipes
  BY BridgeAssumption DEF Resume, Waiting, AcceptInv
<1>2. /\ server' = NoHandle /\ ~Waiting' /\ accept' # "none" /\ was_started = TRUE
      /\ pending_server' = NoHandle
      /\ UNCHANGED <<bridge_running, was_started, created>>
  BY <1>1 DEF Resume, AcceptInv, Waiting
<1>3. bridge_running = TRUE => closed_pending_server' = NoHandle
  BY DEF Resume, AcceptInv
<1>4. AcceptInv'
  BY <1>2, <1>3 DEF AcceptInv
<1>5. \A n \in Nat, h \in Handles : ~Awaits(n, h)'
  BY <1>2 DEF Awaits
<1>6. \A h \in Handles : pipe[h].number \in 0 .. MaxPipes
  BY DEF PipeRecords
<1>7. \A h \in Handles : ~Holds(created, h)
  BY <1>1 DEF AcceptInv, Holds, Live
<1>8. CASE accept = "connected" /\ bridge_running = TRUE
  <2>1. session' = [session EXCEPT ![created] = new] /\ UNCHANGED <<pipe, foreign>>
    BY <1>8 DEF Resume
  <2>2. /\ new.handle = server /\ new.closed = FALSE /\ new.loop = "peek"
    BY DEF NoSession
  <2>3. Awaits(created, server)
    BY <1>1, <1>8, BridgeAssumption DEF Awaits, AcceptInv
  <2>4. SessionInv'
    BY <1>1, <1>2, <2>1, <2>2, BridgeAssumption DEF SessionInv, Live
  <2>5. \A n \in Pipes, h \in Handles :
          Holds(n, h)' <=> Holds(n, h) \/ (n = created /\ h = server)
    BY <1>1, <1>7, <2>1, <2>2 DEF Holds, Live
  <2>6. \A n \in Nat, h \in Handles : Awaits(n, h) => n = created /\ h = server
    BY DEF Awaits
  <2>7. ASSUME NEW n \in Pipes, NEW h \in Handles, Holds(n, h)' \/ Awaits(n, h)'
        PROVE  pipe'[h].number = n
    BY <1>1, <1>5, <2>1, <2>3, <2>5, <2>7, BridgeAssumption DEF OwnerInv
  <2>8. ASSUME NEW h \in Handles, pipe'[h].number # 0
        PROVE  Holds(pipe[h].number, h)'
    <3>1. pipe[h].number \in Pipes /\ pipe'[h].number = pipe[h].number
      BY <1>6, <2>1, <2>8, BridgeAssumption
    <3> QED BY <1>1, <2>1, <2>5, <2>6, <2>8, <3>1 DEF OwnerInv
  <2>9. OwnerInv'
    BY <2>1, <2>7, <2>8 DEF OwnerInv
  <2> QED BY <1>4, <2>4, <2>9
<1>9. CASE ~(accept = "connected" /\ bridge_running = TRUE)
  <2>1. UNCHANGED session
    BY <1>9 DEF Resume
  <2>2. SessionInv'
    BY <1>2, <2>1 DEF SessionInv, Live
  <2>3. \A n \in Pipes, h \in Handles : Holds(n, h)' <=> Holds(n, h)
    BY <2>1 DEF Holds, Live
  <2>4. CASE ClosedByStop
    <3>1. UNCHANGED <<pipe, foreign>>
      BY <1>9, <2>4 DEF Resume
    <3>2. \A n \in Nat, h \in Handles : ~Awaits(n, h)
      BY <2>4 DEF ClosedByStop, Awaits
    <3> QED BY <1>4, <1>5, <1>6, <2>2, <2>3, <3>1, <3>2,
            BridgeAssumption DEF OwnerInv
  <2>5. CASE ~ClosedByStop
    <3>1. Closes(server, created)
      BY <1>9, <2>5 DEF Resume
    <3>2. Awaits(created, server)
      BY <1>1, <2>5 DEF Awaits, ClosedByStop
    <3>3. pipe[server].number = created
      BY <1>1, <3>2 DEF OwnerInv
    <3>4. foreign' = FALSE
      BY <3>1, <3>3 DEF Closes, OwnerInv
    <3>5. /\ pipe'[server].number = 0 /\ pipe'[server].life = "free"
          /\ \A h \in Handles : h # server => pipe'[h] = pipe[h]
      BY <1>1, <3>1 DEF Closes, Free
    <3>6. \A n \in Nat, h \in Handles : Awaits(n, h) => h = server
      BY DEF Awaits
    <3>7. \A n \in Pipes : ~Holds(n, server)
      BY <1>1, <1>7, <3>3 DEF OwnerInv
    <3>8. ASSUME NEW n \in Pipes, NEW h \in Handles, Holds(n, h)' \/ Awaits(n, h)'
          PROVE  pipe'[h].number = n
      BY <1>5, <2>3, <3>5, <3>7, <3>8, BridgeAssumption DEF OwnerInv
    <3>9. ASSUME NEW h \in Handles
          PROVE  pipe'[h].life = "free" <=> pipe'[h].number = 0
      BY <3>5 DEF OwnerInv
    <3>10. ASSUME NEW h \in Handles, pipe'[h].number # 0
           PROVE  Holds(pipe[h].number, h)'
      <4>1. h # server /\ pipe'[h].number = pipe[h].number /\ pipe[h].number \in Pipes
        BY <1>6, <3>5, <3>10, BridgeAssumption
      <4> QED BY <2>3, <3>6, <3>10, <4>1 DEF OwnerInv
    <3>11. OwnerInv'
      BY <3>4, <3>8, <3>9, <3>10 DEF OwnerInv
    <3> QED BY <1>4, <2>2, <3>11
  <2> QED BY <2>4, <2>5
<1> QED BY <1>8, <1>9
\* The sessions D are closed, with the pipes that they own, and so is the pipe K of
\* the accept loop.
ClosesSessions(D) ==
  /\ \A m \in Pipes : session'[m].handle = session[m].handle
  /\ \A m \in Pipes \ D : SameSession(m)
  /\ \A d \in D : /\ session'[d].closed = TRUE /\ session'[d].listed = FALSE
                  /\ session'[d].loop = "none" <=> session[d].loop = "none"

ClosesPipes(D, K) ==
  /\ \A h \in Handles :
       pipe'[h] = IF h \in K \/ \E d \in D : Holds(d, h) THEN Free ELSE pipe[h]
  /\ UNCHANGED <<created, foreign>>

ClosesServer(K) ==
  /\ \A h \in K : Awaits(created, h)
  /\ \A n \in Nat, h \in Handles : Awaits(n, h)' <=> Awaits(n, h) /\ h \notin K

LEMMA KeepClosed ==
  ASSUME PipeInv, NEW D \in SUBSET Pipes, NEW K \in SUBSET Handles,
         ClosesSessions(D), ClosesPipes(D, K), ClosesServer(K)
  PROVE  SessionInv' /\ OwnerInv'
<1> USE DEF PipeInv, BridgeTypeOK, ClosesSessions, ClosesPipes, ClosesServer
<1>1. SessionInv'
  BY BridgeAssumption DEF SessionInv, SameSession, Live
<1>2. \A n \in Pipes, h \in Handles : Holds(n, h)' <=> Holds(n, h) /\ n \notin D
  BY DEF Holds, SameSession
<1>3. \A h \in Handles : pipe[h].number \in 0 .. MaxPipes
  BY DEF PipeRecords
<1>4. \A n \in Pipes, h \in Handles : Holds(n, h) => ~Awaits(created, h)
  BY BridgeAssumption DEF OwnerInv, AcceptInv, Awaits, Holds, Live, SessionInv
<1>5. \A h \in Handles : pipe'[h] = Free \/ pipe'[h] = pipe[h]
  OBVIOUS
<1>6. Free.number = 0 /\ Free.life = "free"
  BY DEF Free
<1>7. ASSUME NEW n \in Pipes, NEW h \in Handles, Holds(n, h)' \/ Awaits(n, h)'
      PROVE  pipe'[h].number = n
  <2>1. pipe[h].number = n /\ h \notin K
    BY <1>2, <1>4, <1>7, BridgeAssumption DEF OwnerInv
  <2>2. ~\E d \in D : Holds(d, h)
    <3> SUFFICES ASSUME NEW d \in D, Holds(d, h) PROVE FALSE
      OBVIOUS
    <3>1. d = n
      BY <2>1 DEF OwnerInv
    <3>2. ~Awaits(n, h)
      BY <1>4 DEF Awaits
    <3> QED BY <1>2, <1>7, <3>1, <3>2, BridgeAssumption
  <2> QED BY <2>1, <2>2
<1>8. ASSUME NEW h \in Handles
      PROVE  pipe'[h].life = "free" <=> pipe'[h].number = 0
  BY <1>5, <1>6 DEF OwnerInv
<1>9. ASSUME NEW h \in Handles, pipe'[h].number # 0
      PROVE  (Holds(pipe[h].number, h) \/ Awaits(pipe[h].number, h))'
  <2>1. pipe'[h] = pipe[h] /\ h \notin K /\ ~\E d \in D : Holds(d, h)
    BY <1>6, <1>9
  <2>2. pipe[h].number \in Pipes
    BY <1>3, <1>9, <2>1, BridgeAssumption
  <2>3. Holds(pipe[h].number, h) \/ Awaits(pipe[h].number, h)
    BY <1>9, <2>1 DEF OwnerInv
  <2> QED BY <1>2, <2>1, <2>2, <2>3, BridgeAssumption
<1>10. OwnerInv'
  BY <1>7, <1>8, <1>9 DEF OwnerInv
<1> QED BY <1>1, <1>10

LEMMA KeepFinally ==
  ASSUME PipeInv, NEW n \in Pipes, Finally(n)
  PROVE  AcceptInv' /\ SessionInv' /\ OwnerInv'
<1> USE DEF PipeInv, BridgeTypeOK
<1> DEFINE h == session[n].handle
<1>1. session' = [session EXCEPT ![n].connected = FALSE, ![n].listed = FALSE,
                                 ![n].closed = TRUE, ![n].loop = "ended"]
  BY DEF Finally
<1>2. UNCHANGED <<bridge_running, was_started, created, acceptVars>>
  BY DEF Finally
<1>3. Live(n) /\ h \in Handles
  BY DEF Finally, Live, SessionInv, SessionRecords
<1>4. AcceptInv'
  BY <1>1, <1>2, <1>3 DEF AcceptInv, Waiting, Live
<1>5. session[n].closed = FALSE => Holds(n, h) /\ pipe[h].number = n
  BY <1>3 DEF Holds, OwnerInv
<1>6. /\ session[n].closed = FALSE => Closes(h, n)
      /\ session[n].closed = TRUE => UNCHANGED <<pipe, foreign>>
  BY DEF Finally, StillOpen
<1>7. session[n].closed \in BOOLEAN
  BY DEF SessionRecords
<1>8. UNCHANGED foreign
  BY <1>5, <1>6, <1>7 DEF Closes, OwnerInv
<1>9. \A g \in Handles :
        pipe'[g] = IF g \in {} \/ \E d \in {n} : Holds(d, g) THEN Free ELSE pipe[g]
  BY <1>3, <1>5, <1>6, <1>7 DEF Closes, Holds
<1>10. /\ \A m \in Pipes : session'[m].handle = session[m].handle
       /\ \A m \in Pipes \ {n} : SameSession(m)
       /\ session'[n].closed = TRUE /\ session'[n].listed = FALSE /\ session'[n].loop = "ended"
  BY <1>1 DEF SameSession, SessionRecords, Live
<1>11. \A m \in Nat, g \in Handles : Awaits(m, g)' <=> Awaits(m, g)
  BY <1>2 DEF Awaits, Waiting
<1>12. SessionInv' /\ OwnerInv'
  <2>1. {n} \in SUBSET Pipes /\ {} \in SUBSET Handles
    OBVIOUS
  <2>2. \A d \in {n} : /\ session'[d].closed = TRUE /\ session'[d].listed = FALSE
                       /\ session'[d].loop = "none" <=> session[d].loop = "none"
    BY <1>3, <1>10 DEF Live
  <2>3. \A m \in Nat, g \in Handles : Awaits(m, g)' <=> Awaits(m, g) /\ g \notin {}
    BY <1>11
  <2>4. UNCHANGED <<created, foreign>>
    BY <1>2, <1>8
  <2>5. ClosesSessions({n})
    BY <1>10, <2>2 DEF ClosesSessions
  <2>6. ClosesPipes({n}, {})
    BY <1>9, <2>4 DEF ClosesPipes
  <2>7. ClosesServer({})
    BY <2>3 DEF ClosesServer
  <2> QED BY <2>1, <2>5, <2>6, <2>7, KeepClosed
<1> QED BY <1>4, <1>12
\* A second hello closes the earlier sessions of its process.
LEMMA KeepHello ==
  ASSUME PipeInv, NEW n \in Pipes, Handle(n), session[n].message = "hello"
  PROVE  AcceptInv' /\ SessionInv' /\ OwnerInv'
<1> USE DEF PipeInv, BridgeTypeOK
<1> PICK D \in SUBSET Pipes : D = Duplicates(n)
  BY DEF Duplicates, Listed
<1> DEFINE r == [session[n] EXCEPT !.hello = TRUE, !.connected = TRUE,
                      !.pid = session[n].from, !.loop = "peek", !.message = "none"]
           q(d) == [session[d] EXCEPT !.listed = FALSE, !.closed = TRUE]
           open == {d \in D : ~session[d].closed}
<1>1. /\ session' = [d \in Pipes |-> CASE d = n -> r [] d \in D -> q(d)
                                       [] OTHER -> session[d]]
      /\ pipe' = [h \in Handles |->
                    IF \E d \in open : session[d].handle = h THEN Free ELSE pipe[h]]
      /\ UNCHANGED <<bridge_running, was_started, created, acceptVars>>
  BY DEF Handle
<1>2. foreign' = (foreign \/ \E d \in open : pipe[session[d].handle].number # d)
  BY DEF Handle
<1>3. \A d \in D : d \in Pipes /\ d # n /\ Live(d) /\ session[d].closed = FALSE
                  /\ session[d].handle \in Handles
  BY DEF Duplicates, Listed, SessionInv, SessionRecords, Live
<1>4. open = D
  BY <1>3
<1>5. \A d \in D, h \in Handles : Holds(d, h) <=> session[d].handle = h
  BY <1>3 DEF Holds
<1>6. \A d \in D : pipe[session[d].handle].number = d
  BY <1>3, <1>5 DEF OwnerInv
<1>7. UNCHANGED foreign
  BY <1>2, <1>4, <1>6 DEF OwnerInv
<1>8. session[n].loop = "got"
  BY DEF Handle
<1>9. /\ session'[n] = r
      /\ \A d \in D : session'[d] = q(d)
      /\ \A m \in Pipes \ D : m # n => session'[m] = session[m]
  BY <1>1, <1>3
<1>10. /\ r.handle = session[n].handle /\ r.closed = session[n].closed
       /\ r.listed = session[n].listed /\ r.loop = "peek"
  BY DEF SessionRecords
<1>11. \A d \in D : /\ q(d).handle = session[d].handle /\ q(d).closed = TRUE
                    /\ q(d).listed = FALSE /\ q(d).loop = session[d].loop
  BY <1>3 DEF SessionRecords
<1> HIDE DEF r, q, open
<1>12. \A m \in Pipes : session'[m].handle = session[m].handle
  BY <1>9, <1>10, <1>11
<1>13. \A m \in Pipes \ D : SameSession(m)
  BY <1>8, <1>9, <1>10 DEF SameSession, Live
<1>14. \A d \in D : /\ session'[d].closed = TRUE /\ session'[d].listed = FALSE
                    /\ session'[d].loop = "none" <=> session[d].loop = "none"
  BY <1>9, <1>11
<1>15. \A h \in Handles :
         pipe'[h] = IF h \in {} \/ \E d \in D : Holds(d, h) THEN Free ELSE pipe[h]
  BY <1>1, <1>4, <1>5
<1>16. \A m \in Nat, h \in Handles : Awaits(m, h)' <=> Awaits(m, h) /\ h \notin {}
  BY <1>1 DEF Awaits, Waiting
<1>17. D \in SUBSET Pipes /\ {} \in SUBSET Handles /\ UNCHANGED <<created, foreign>>
  BY <1>1, <1>3, <1>7
<1>18. SessionInv' /\ OwnerInv'
  <2>1. ClosesSessions(D)
    BY <1>12, <1>13, <1>14 DEF ClosesSessions
  <2>2. ClosesPipes(D, {})
    BY <1>15, <1>17 DEF ClosesPipes
  <2>3. ClosesServer({})
    BY <1>16 DEF ClosesServer
  <2> QED BY <1>17, <2>1, <2>2, <2>3, KeepClosed
<1>19. AcceptInv'
  BY <1>1, <1>8, <1>9, <1>11, BridgeAssumption DEF AcceptInv, Waiting
<1> QED BY <1>18, <1>19

\* The stop closes the sessions in the map and the server that waits.
LEMMA KeepStop ==
  ASSUME PipeInv, Stop
  PROVE  AcceptInv' /\ SessionInv' /\ OwnerInv'
<1> USE DEF PipeInv, BridgeTypeOK
<1> PICK D \in SUBSET Pipes, K \in SUBSET Handles :
       D = Listed /\ K = {pending_server} \ {NoHandle}
  BY DEF Listed
<1> DEFINE q(d) == [session[d] EXCEPT !.listed = FALSE, !.closed = TRUE]
           open == {d \in D : ~session[d].closed}
<1>1. /\ session' = [d \in Pipes |-> IF d \in D THEN q(d) ELSE session[d]]
      /\ pipe' = [h \in Handles |->
                    IF h \in {session[d].handle : d \in open} \cup K THEN Free ELSE pipe[h]]
      /\ UNCHANGED <<was_started, created, server>>
  BY DEF Stop, Drop
<1>2. foreign' = (foreign \/ \E d \in open : pipe[session[d].handle].number # d)
  BY DEF Stop, Drop
<1>3. \A d \in D : d \in Pipes /\ Live(d) /\ session[d].closed = FALSE
                       /\ session[d].handle \in Handles
  BY DEF Listed, SessionInv, SessionRecords, Live
<1>4. open = D
  BY <1>3
<1>5. \A d \in D, h \in Handles : Holds(d, h) <=> session[d].handle = h
  BY <1>3 DEF Holds
<1>6. \A d \in D : pipe[session[d].handle].number = d
  BY <1>3, <1>5 DEF OwnerInv
<1>7. UNCHANGED foreign
  BY <1>2, <1>4, <1>6 DEF OwnerInv
<1>8. \A d \in Pipes : /\ q(d).handle = session[d].handle /\ q(d).closed = TRUE
                       /\ q(d).listed = FALSE /\ q(d).loop = session[d].loop
  BY DEF SessionRecords
<1>9. \A m \in Pipes : session'[m] = IF m \in D THEN q(m) ELSE session[m]
  BY <1>1
<1> HIDE DEF q, open
<1>10. \A m \in Pipes : session'[m].handle = session[m].handle
                        /\ session'[m].loop = session[m].loop
  BY <1>8, <1>9
<1>11. \A m \in Pipes \ D : SameSession(m)
  BY <1>9 DEF SameSession, Live
<1>12. \A d \in D : /\ session'[d].closed = TRUE /\ session'[d].listed = FALSE
                    /\ session'[d].loop = "none" <=> session[d].loop = "none"
  BY <1>3, <1>8, <1>9
<1>13. \A h \in Handles :
         pipe'[h] = IF h \in K \/ \E d \in D : Holds(d, h) THEN Free ELSE pipe[h]
  BY <1>1, <1>4, <1>5
<1>14. /\ bridge_running = TRUE /\ bridge_running' = FALSE /\ pending_server' = NoHandle
       /\ closed_pending_server = NoHandle
       /\ closed_pending_server' = pending_server
       /\ Waiting => pending_server = server /\ server # NoHandle
       /\ ~Waiting => pending_server = NoHandle
       /\ Waiting' <=> Waiting
  BY DEF Stop, AcceptInv, Waiting
<1>15. K \in SUBSET Handles /\ \A h \in K : Awaits(created, h)
  BY <1>14, BridgeAssumption DEF Awaits
<1>16. \A m \in Nat, h \in Handles : Awaits(m, h)' <=> Awaits(m, h) /\ h \notin K
  BY <1>1, <1>14, BridgeAssumption DEF Awaits
<1>17. D \in SUBSET Pipes /\ UNCHANGED <<created, foreign>>
  BY <1>1, <1>3, <1>7
<1>18. SessionInv' /\ OwnerInv'
  <2>1. ClosesSessions(D)
    BY <1>10, <1>11, <1>12 DEF ClosesSessions
  <2>2. ClosesPipes(D, K)
    BY <1>13, <1>17 DEF ClosesPipes
  <2>3. ClosesServer(K)
    BY <1>15, <1>16 DEF ClosesServer
  <2> QED BY <1>15, <1>17, <2>1, <2>2, <2>3, KeepClosed
<1>19. was_started = TRUE
  BY <1>14 DEF AcceptInv
<1>20. AcceptInv'
  BY <1>1, <1>10, <1>14, <1>19, BridgeAssumption DEF AcceptInv
<1> QED BY <1>18, <1>20

-----------------------------------------------------------------------------
(* The invariant, and what follows.                                        *)

LEMMA PipeInit == BridgeInit => PipeInv
<1> SUFFICES ASSUME BridgeInit PROVE PipeInv
  OBVIOUS
<1>1. BridgeTypeOK
  BY TypeInit
<1>2. AcceptInv
  BY DEF BridgeInit, AcceptInv, Waiting
<1>3. \A n \in Pipes : session[n].loop = "none" /\ session[n].listed = FALSE
  BY DEF BridgeInit, NoSession
<1>4. SessionInv
  BY <1>3 DEF SessionInv
<1>5. \A h \in Handles : pipe[h].number = 0 /\ pipe[h].life = "free"
  BY DEF BridgeInit, Free
<1>6. foreign = FALSE /\ ~Waiting
  BY DEF BridgeInit, Waiting
<1>7. OwnerInv
  BY <1>3, <1>5, <1>6 DEF OwnerInv, Holds, Awaits, Live
<1> QED BY <1>1, <1>2, <1>4, <1>7 DEF PipeInv

LEMMA PipeStep == PipeInv /\ [BridgeNext]_bridgeVars => PipeInv'
<1> SUFFICES ASSUME PipeInv, [BridgeNext]_bridgeVars PROVE PipeInv'
  OBVIOUS
<1>1. CASE Start \/ AcceptLoop
  BY <1>1, TypeAccept, KeepAccept, KeepCreate, KeepResume
  DEF AcceptLoop, PipeInv
<1>2. CASE Stop
  BY <1>2, TypeStop, KeepStop DEF PipeInv
<1>3. CASE \E h \in Handles : Sends(h) \/ Disconnect(h) \/ \E p \in LoaderPids : Connect(h, p)
  BY <1>3, TypeClients, KeepClients DEF PipeInv
<1>4. CASE \E n \in Pipes : SessionLoop(n) \/ LoadAgent(n) \/ SendEnds(n)
  BY <1>4, TypeSession, KeepLoop, KeepHello, KeepFinally
  DEF SessionLoop, PipeInv
<1>5. CASE UNCHANGED bridgeVars
  BY <1>5
  DEF PipeInv, BridgeTypeOK, AcceptInv, SessionInv, OwnerInv, Waiting, Live,
              Holds, Awaits
<1> QED BY <1>1, <1>2, <1>3, <1>4, <1>5 DEF BridgeNext

\* Every variable of the bridge keeps its type.
THEOREM BridgeTypeCorrect == BridgeSpec => []BridgeTypeOK
<1>1. PipeInv => BridgeTypeOK
  BY DEF PipeInv
<1> QED BY <1>1, PipeInit, PipeStep, PTL DEF BridgeSpec

\* The accept loop, the session loops, a second hello and the stop close every pipe
\* once, and only their own, though the system gives a closed handle's value to the
\* next pipe: whoever has not closed its pipe finds its number at the handle, and a
\* pipe that exists has an owner whose loop has not ended.
THEOREM PipesAreClosedOnce == BridgeSpec => []PipesClosedOnce
<1>1. PipeInv => PipesClosedOnce
  <2> SUFFICES ASSUME PipeInv PROVE PipesClosedOnce
    OBVIOUS
  <2>1. ~foreign
    BY DEF PipeInv, OwnerInv
  <2>2. ASSUME LoopsEnded, NEW h \in Handles
        PROVE  pipe[h].life = "free"
    <3> USE DEF PipeInv, BridgeTypeOK
    <3>1. pipe[h].number \in 0 .. MaxPipes
      BY DEF PipeRecords
    <3>2. pipe[h].number = 0
      BY <2>2, <3>1, BridgeAssumption
      DEF LoopsEnded, OwnerInv, Holds, Awaits, Waiting, Live
    <3> QED BY <3>2 DEF OwnerInv
  <2> QED BY <2>1, <2>2 DEF PipesClosedOnce
<1> QED BY <1>1, PipeInit, PipeStep, PTL DEF BridgeSpec
=============================================================================
