--------------------------- MODULE TraceController ---------------------------
(***************************************************************************)
(* The controller of the interface (src/flutter_gui): it selects one of    *)
(* the processes that the loader bridge shows, asks its agent for the      *)
(* state of the trace every 750 ms, and carries out the user's actions,    *)
(* one at a time.  Every command to an agent is awaited: what it answers   *)
(* is applied to whatever is selected by then, and the polls do not wait   *)
(* for each other.                                                         *)
(***************************************************************************)
EXTENDS Integers, FiniteSets, FiniteSetsExt

CONSTANTS
  Pids,            \* the processes, as numbers: the first is the smallest
  MaxPolls,        \* bound: polls that wait for an answer
  MaxChanges       \* bound: what the user, the processes and their agents do

NoPid == 0

VARIABLES
  visible,         \* loaderBridge.snapshotSessions
  agent,           \* what the agent of each process does
  selectedPid, traceRunning, traceWriting,
  moduleNames,     \* the process whose modules are listed
  requests,        \* status commands whose answer is awaited
  busy, action,    \* _runAction
  moduleRefresh,   \* refreshModulesIfAgentOnline, and _moduleRefreshPending
  changes

view == <<selectedPid, traceRunning, traceWriting, moduleNames>>
vars == <<visible, agent, view, requests, busy, action, moduleRefresh, changes>>

Idle == [kind |-> "none", pid |-> NoPid, at |-> "none"]

Init ==
  /\ visible = {} /\ agent = [p \in Pids |-> "absent"]
  /\ selectedPid = NoPid /\ traceRunning = FALSE /\ traceWriting = FALSE
  /\ moduleNames = NoPid
  /\ requests = {}
  /\ busy = FALSE /\ action = Idle /\ moduleRefresh = Idle
  /\ changes = 0

Changes == changes < MaxChanges /\ changes' = changes + 1

-----------------------------------------------------------------------------
(* The processes and their agents.                                         *)

Appear(p) ==
  /\ Changes /\ p \notin visible
  /\ visible' = visible \cup {p}
  /\ \E s \in {"absent", "idle"} : agent' = [agent EXCEPT ![p] = s]
  /\ UNCHANGED <<view, requests, busy, action, moduleRefresh>>

Vanish(p) ==
  /\ Changes /\ p \in visible
  /\ visible' = visible \ {p}
  /\ agent' = [agent EXCEPT ![p] = "absent"]
  /\ UNCHANGED <<view, requests, busy, action, moduleRefresh>>

\* A trace ends by itself, and its file is written to the end.
AgentMoves(p) ==
  /\ Changes
  /\ \/ agent[p] = "running" /\ agent' = [agent EXCEPT ![p] = "writing"]
     \/ agent[p] = "writing" /\ agent' = [agent EXCEPT ![p] = "idle"]
  /\ UNCHANGED <<visible, view, requests, busy, action, moduleRefresh>>

-----------------------------------------------------------------------------
(* The selection.                                                          *)

\* selectedSession: the selected process, or else the first that is shown.
Current(shown, pid) == IF pid \in shown THEN pid
                       ELSE IF shown = {} THEN NoPid ELSE Min(shown)

\* selectSession; the modules of another process are not shown any longer.
Selects(p) ==
  /\ selectedPid' = p
  /\ moduleNames' = IF p = selectedPid THEN moduleNames ELSE NoPid

\* syncSessions.
Sync ==
  IF visible = {} THEN
    /\ selectedPid' = NoPid
    /\ IF selectedPid = NoPid THEN UNCHANGED <<traceRunning, traceWriting, moduleNames>>
       ELSE traceRunning' = FALSE /\ traceWriting' = FALSE /\ moduleNames' = NoPid
  ELSE IF selectedPid \in visible THEN UNCHANGED view
  ELSE Selects(Min(visible)) /\ traceRunning' = FALSE /\ traceWriting' = FALSE

\* The user selects a process; the state of the trace stays what it was.
Select(p) ==
  /\ Changes /\ p \in visible
  /\ Selects(p)
  /\ UNCHANGED <<visible, agent, traceRunning, traceWriting, requests, busy, action,
                 moduleRefresh>>

-----------------------------------------------------------------------------
(* refreshRuntime and refreshStatus.                                       *)

Asked(p, by) == [pid |-> p, by |-> by, answer |-> "none"]

Poll ==
  /\ Cardinality({r \in requests : r.by = "poll"}) < MaxPolls
  /\ Sync
  /\ requests' = IF visible = {} THEN requests
                 ELSE requests \cup {Asked(Current(visible, selectedPid'), "poll")}
  /\ UNCHANGED <<visible, agent, busy, action, moduleRefresh, changes>>

\* The command runs, and sees the agent as it is then.
Serve(r) ==
  /\ r \in requests /\ r.answer = "none"
  /\ requests' = (requests \ {r}) \cup {[r EXCEPT !.answer = agent[r.pid]]}
  /\ UNCHANGED <<visible, agent, view, busy, action, moduleRefresh, changes>>

\* A command that fails though the agent is there: the pipe is busy, or breaks.
\* Bound: it counts as a change.
ServeFails ==
  /\ Changes
  /\ \E r \in requests :
        /\ r.answer = "none" /\ agent[r.pid] # "absent"
        /\ requests' = (requests \ {r}) \cup {[r EXCEPT !.answer = "absent"]}
  /\ UNCHANGED <<visible, agent, view, busy, action, moduleRefresh>>

\* The answer is applied, whatever is selected; a command that failed is taken for an
\* agent that is not there.
Mutant_KeepsOnFailure(r) == IF r.answer = "absent" THEN traceRunning ELSE r.answer = "running"
ShowsRunning(r) == r.answer = "running"

Reply(r) ==
  /\ r \in requests /\ r.answer # "none"
  /\ requests' = requests \ {r}
  /\ traceRunning' = ShowsRunning(r)
  /\ traceWriting' = (r.answer = "writing")
  /\ IF r.by = "action"
     THEN action' = Idle /\ busy' = FALSE /\ UNCHANGED moduleRefresh
     ELSE /\ UNCHANGED <<action, busy>>
          /\ moduleRefresh' =
               IF busy \/ moduleRefresh # Idle \/ visible = {} THEN moduleRefresh
               ELSE [kind |-> "refresh", pid |-> Current(visible, selectedPid), at |-> "ping"]
  /\ UNCHANGED <<visible, agent, selectedPid, moduleNames, changes>>

\* refreshModulesIfAgentOnline: what comes back is shown, whatever is selected.
RefreshModules ==
  /\ moduleRefresh # Idle
  /\ IF moduleRefresh.at = "ping" /\ agent[moduleRefresh.pid] # "absent"
     THEN moduleRefresh' = [moduleRefresh EXCEPT !.at = "modules"] /\ UNCHANGED moduleNames
     ELSE /\ moduleRefresh' = Idle
          /\ moduleNames' = IF moduleRefresh.at = "modules" /\ agent[moduleRefresh.pid] # "absent"
                            THEN moduleRefresh.pid ELSE moduleNames
  /\ UNCHANGED <<visible, agent, selectedPid, traceRunning, traceWriting, requests, busy, action,
                 changes>>

-----------------------------------------------------------------------------
(* The user's actions.                                                     *)

Kinds == {"load", "modules", "dump", "start", "stop", "memory"}

\* What the buttons ask for.
Offered(kind) ==
  CASE kind = "load" -> ~traceRunning
    [] kind = "start" -> ~traceRunning /\ ~traceWriting
    [] kind = "stop" -> traceRunning /\ ~traceWriting
    [] OTHER -> TRUE

\* _requireSession, and _runAction, which does one action at a time.
Begin(kind) ==
  /\ Changes /\ visible # {} /\ ~busy /\ Offered(kind)
  /\ LET p == Current(visible, selectedPid)
     IN /\ IF selectedPid \in visible THEN UNCHANGED view
           ELSE Selects(p) /\ traceRunning' = FALSE /\ traceWriting' = FALSE
        /\ action' = [kind |-> kind, pid |-> p,
                      at |-> IF kind = "stop" THEN "stop" ELSE "ping"]
  /\ busy' = TRUE
  /\ UNCHANGED <<visible, agent, requests, moduleRefresh>>

ActionGoesTo(where) == action' = [action EXCEPT !.at = where] /\ UNCHANGED busy
ActionEnds == action' = Idle /\ busy' = FALSE

AfterPing == [load |-> "modules", modules |-> "modules", dump |-> "modules",
              start |-> "configure", memory |-> "memory"]

\* _ensureAgentOnline: the agent answers; or it is loaded, and answers in time, or not.
Ensure ==
  /\ action.at = "ping"
  /\ \/ agent[action.pid] # "absent" /\ ActionGoesTo(AfterPing[action.kind]) /\ UNCHANGED agent
     \/ /\ agent[action.pid] = "absent" /\ action.pid \in visible
        /\ agent' = [agent EXCEPT ![action.pid] = "idle"]
        /\ ActionGoesTo(AfterPing[action.kind])
     \/ agent[action.pid] = "absent" /\ ActionEnds /\ UNCHANGED agent
  /\ UNCHANGED <<visible, view, requests, moduleRefresh, changes>>

\* refreshModulesForSession; a dump goes on also when the modules did not come.
ListModules ==
  /\ action.at = "modules"
  /\ moduleNames' = IF agent[action.pid] = "absent" THEN moduleNames ELSE action.pid
  /\ IF action.kind = "dump" /\ moduleNames' # NoPid THEN ActionGoesTo("dump") ELSE ActionEnds
  /\ UNCHANGED <<visible, agent, selectedPid, traceRunning, traceWriting, requests,
                 moduleRefresh, changes>>

\* The last command of a dump, a read or a write; or its arguments are refused.
LastCommand ==
  /\ action.at \in {"dump", "memory"}
  /\ ActionEnds
  /\ UNCHANGED <<visible, agent, view, requests, moduleRefresh, changes>>

\* A configuration that fails ends the start.
ConfigureAgent ==
  /\ action.at = "configure"
  /\ \/ agent[action.pid] # "absent" /\ ActionGoesTo("start")
     \/ ActionEnds
  /\ UNCHANGED <<visible, agent, view, requests, moduleRefresh, changes>>

\* start or stop, which the agent may refuse; and then the status of whatever is
\* selected by then.
Command ==
  /\ action.at \in {"start", "stop"}
  /\ agent' = CASE action.at = "start" /\ agent[action.pid] = "idle" ->
                     [agent EXCEPT ![action.pid] = "running"]
                [] action.at = "stop" /\ agent[action.pid] = "running" ->
                     [agent EXCEPT ![action.pid] = "writing"]
                [] OTHER -> agent
  /\ IF visible = {} THEN ActionEnds /\ UNCHANGED requests
     ELSE /\ requests' = requests \cup {Asked(Current(visible, selectedPid), "action")}
          /\ ActionGoesTo("status")
  /\ UNCHANGED <<visible, view, moduleRefresh, changes>>

ActionStep == Ensure \/ ListModules \/ LastCommand \/ ConfigureAgent \/ Command

-----------------------------------------------------------------------------
Serves == \E r \in requests : Serve(r)
Replies == \E r \in requests : Reply(r)

Next ==
  \/ \E p \in Pids : Appear(p) \/ Vanish(p) \/ AgentMoves(p) \/ Select(p)
  \/ Poll \/ Serves \/ ServeFails \/ Replies \/ RefreshModules
  \/ \E kind \in Kinds : Begin(kind)
  \/ ActionStep

Spec == Init /\ [][Next]_vars

-----------------------------------------------------------------------------
(* Properties.                                                             *)

TypeOK ==
  /\ visible \subseteq Pids
  /\ agent \in [Pids -> {"absent", "idle", "running", "writing"}]
  /\ selectedPid \in Pids \cup {NoPid} /\ moduleNames \in Pids \cup {NoPid}
  /\ traceRunning \in BOOLEAN /\ traceWriting \in BOOLEAN /\ busy \in BOOLEAN
  /\ \A r \in requests : r.pid \in Pids /\ r.by \in {"poll", "action"}
  /\ action.kind \in Kinds \cup {"none"} /\ moduleRefresh.at \in {"none", "ping", "modules"}
  /\ (action = Idle) = ~busy
  /\ changes \in 0 .. MaxChanges

\* Once nothing changes any more, the interface comes to show a process that is there,
\* and the state of that process's trace -- though a poll's answer may be old when it
\* comes, answers overtake each other, commands fail, and the selection may have changed
\* meanwhile.
Shown == /\ selectedPid \in visible
         /\ traceRunning = (agent[selectedPid] = "running")
         /\ traceWriting = (agent[selectedPid] = "writing")
ViewSettles == <>[](visible # {} => Shown)
=============================================================================
