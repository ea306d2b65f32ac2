----------------------------- MODULE AcpService -----------------------------
(***************************************************************************)
(* AcpService (src/src/services/acp-service.ts): the service keeps session *)
(* records in a store and drives each session by launching one `acpx`      *)
(* child per API call.  It is single-threaded, so what interleaves is what *)
(* the code awaits: store operations, mkdir, child closes and timers.      *)
(* Every action below is the code between two awaits.                      *)
(*                                                                         *)
(* Events and stdout parsing are left to other modules: here an agent's    *)
(* output matters only because it writes the session's status.  Store      *)
(* writes take effect in the order they are issued (a Map, or a FIFO       *)
(* WriteQueue), so each is part of the action that issues it.              *)
(***************************************************************************)
EXTENDS Naturals, FiniteSets

CONSTANTS
    Calls,        \* API calls; a call also names the child it launches and,
                  \* for a spawn, the session it creates (randomUUID)
    None,         \* no call
    Methods,      \* the API methods the clients of this instance use
    MaxSessions,  \* this.maxSessions
    StoreYields,  \* does store I/O separate store.list() from store.create()?
    AgentWrites   \* the statuses an agent's output writes in this instance

AllMethods == {"spawn", "send", "cancel", "close", "delete", "reattach", "stop"}

ASSUME ServiceAssumption ==
    /\ None \notin Calls
    /\ Methods \subseteq AllMethods
    /\ MaxSessions \in Nat \ {0}
    /\ StoreYields \in BOOLEAN
    /\ AgentWrites \subseteq {"blocked", "tool_running"}

VARIABLES
    started,    \* this.started
    kind,       \* kind[c]: the method called
    target,     \* target[c]: the session the call was given
    pc,         \* pc[c]: the await the call is suspended at
    waiting,    \* waiting[c]: the children stopTrackedProcess awaits
    status,     \* status[s]: the stored status; "absent" is no record
    active,     \* active[s]: activeProcesses.get(s)
    proc,       \* proc[c]: the child; "closed" is record.exited
    signal,     \* signal[c]: the strongest signal sent to the child
    killTimer,  \* killTimer[c]: a KILL_GRACE_MS timer is pending
    deadline    \* deadline[c]: the prompt's own timeout is pending

callVars  == <<kind, target, pc, waiting>>
childVars == <<proc, signal, killTimer, deadline>>
vars == <<started, callVars, status, active, childVars>>

Spawners == {"spawn", "reattach"}
Locations == {"idle", "lookup", "mkdir", "create", "launch", "wait", "run",
              "replace", "remove", "done", "thrown"}
Statuses == {"absent", "running", "ready", "busy", "blocked", "tool_running",
             "stopped", "error"}

(* The session whose record and event id a call's child carries.           *)
SessionOf(c) == IF kind[c] \in Spawners THEN c ELSE target[c]

(* enforceSessionLimit counts the sessions in none of the ended statuses.  *)
Live == {s \in Calls : status[s] \notin {"absent", "stopped", "error"}}

Tracked(s) == {active[s]} \ {None}

Goto(c, loc) == pc' = [pc EXCEPT ![c] = loc]

LimitReached == Cardinality(Live) >= MaxSessions

Write_Upsert(s, st) == status' = [status EXCEPT ![s] = st]  \* mutant

(* store.update and store.updateStatus: a missing record stays missing.    *)
Write(s, st) ==
    status' = IF status[s] = "absent" THEN status
              ELSE [status EXCEPT ![s] = st]

SigTerm(T) ==
    signal' = [p \in Calls |->
                 IF p \in T /\ proc[p] = "running" /\ signal[p] = "none"
                 THEN "term" ELSE signal[p]]

Terminate_NoTimer(T) == SigTerm(T) /\ UNCHANGED killTimer  \* mutant

(* terminateProcess on the records of the children in T.                   *)
Terminate(T) ==
    /\ SigTerm(T)
    /\ killTimer' = [p \in Calls |-> p \in T \/ killTimer[p]]

Untrack_Never(c) == UNCHANGED active                       \* mutant
Untrack_Any(c) == active' = [active EXCEPT ![SessionOf(c)] = None]  \* mutant

(* The end of runAcpx: only the record still in activeProcesses leaves it. *)
Untrack(c) ==
    active' = [active EXCEPT ![SessionOf(c)] = IF @ = c THEN None ELSE @]

(* The start of runAcpx: child_process.spawn returns a child, or throws    *)
(* (arguments too long, not a directory) and the call rejects with no      *)
(* child; deleteSession swallows that and goes on to remove the record.    *)
Launched(c) == proc' = [proc EXCEPT ![c] = "running"] /\ Goto(c, "run")
SpawnThrows(c) ==
    /\ UNCHANGED proc
    /\ Goto(c, IF kind[c] = "delete" THEN "remove" ELSE "thrown")

Init ==
    /\ started = FALSE
    /\ kind = [c \in Calls |-> "none"]
    /\ target = [c \in Calls |-> c]
    /\ pc = [c \in Calls |-> "idle"]
    /\ waiting = [c \in Calls |-> {}]
    /\ status = [s \in Calls |-> "absent"]
    /\ active = [s \in Calls |-> None]
    /\ proc = [c \in Calls |-> "none"]
    /\ signal = [c \in Calls |-> "none"]
    /\ killTimer = [c \in Calls |-> FALSE]
    /\ deadline = [c \in Calls |-> FALSE]
-----------------------------------------------------------------------------
(* Calls from clients.  A client knows a session's id once its record has  *)
(* been created: from the spawn's result, an event or listSessions().  A   *)
(* call to a service that is not started throws and changes nothing.       *)

Known(s) == kind[s] \in Spawners /\ pc[s] \notin {"lookup", "mkdir", "create"}

Invoke(c, k, s, loc) ==
    /\ pc[c] = "idle"
    /\ kind' = [kind EXCEPT ![c] = k]
    /\ target' = [target EXCEPT ![c] = s]
    /\ Goto(c, loc)

Start ==
    /\ ~started
    /\ started' = TRUE
    /\ UNCHANGED <<callVars, status, active, childVars>>

SpawnSession(c) ==
    /\ "spawn" \in Methods
    /\ started
    /\ Invoke(c, "spawn", c, "mkdir")
    /\ UNCHANGED <<started, waiting, status, active, childVars>>

SendPrompt(c, s) ==
    /\ "send" \in Methods
    /\ started
    /\ Known(s)
    /\ Invoke(c, "send", s, "lookup")
    /\ UNCHANGED <<started, waiting, status, active, childVars>>

(* cancelSession, closeSession, deleteSession and reattachSession look the *)
(* session up before anything else; none of them asks for ensureStarted.   *)
CallSession(c, k, s) ==
    /\ k \in Methods \cap {"cancel", "close", "delete", "reattach"}
    /\ Known(s)
    /\ Invoke(c, k, s, "lookup")
    /\ UNCHANGED <<started, waiting, status, active, childVars>>

(* stop() takes its snapshot of activeProcesses when it is called.         *)
Stop(c) ==
    /\ "stop" \in Methods
    /\ Invoke(c, "stop", c, "wait")
    /\ LET T == UNION {Tracked(s) : s \in Calls}
       IN  /\ Terminate(T)
           /\ waiting' = [waiting EXCEPT ![c] = T]
    /\ UNCHANGED <<started, status, active, proc, deadline>>
-----------------------------------------------------------------------------
(* spawnSession and reattachSession                                        *)

(* The old session must exist, and the inner spawnSession checks started.  *)
ReattachLookup(c) ==
    /\ kind[c] = "reattach" /\ pc[c] = "lookup"
    /\ Goto(c, IF status[target[c]] = "absent" \/ ~started
               THEN "done" ELSE "mkdir")
    /\ UNCHANGED <<started, kind, target, waiting, status, active, childVars>>

(* mkdir fails, or enforceSessionLimit throws.                             *)
SpawnRejected(c) ==
    /\ pc[c] = "mkdir"
    /\ Goto(c, "done")
    /\ UNCHANGED <<started, kind, target, waiting, status, active, childVars>>

Create(c) ==
    /\ status' = [status EXCEPT ![c] = "running"]
    /\ Goto(c, "launch")

(* enforceSessionLimit passes.  With the private in-memory store list() and *)
(* create() run in one drain of the microtask queue.                       *)
EnforceSessionLimit(c) ==
    /\ pc[c] = "mkdir"
    /\ ~LimitReached
    /\ IF StoreYields THEN Goto(c, "create") /\ UNCHANGED status
                      ELSE Create(c)
    /\ UNCHANGED <<started, kind, target, waiting, active, childVars>>

StoreCreate(c) ==
    /\ pc[c] = "create"
    /\ Create(c)
    /\ UNCHANGED <<started, kind, target, waiting, active, childVars>>

SpawnLaunch(c) ==
    /\ kind[c] \in Spawners /\ pc[c] = "launch"
    /\ Launched(c) \/ SpawnThrows(c)
    /\ UNCHANGED <<started, kind, target, waiting, status, active,
                   signal, killTimer, deadline>>

SpawnFailed_Errored(c) ==                                  \* mutant
    /\ kind[c] \in Spawners /\ pc[c] = "run" /\ proc[c] = "closed"
    /\ Write(c, "errored")
    /\ Goto(c, "done")
    /\ UNCHANGED <<started, kind, target, waiting, active, childVars>>

(* `acpx sessions new` failed: the record is marked and the call rejects.  *)
SpawnFailed(c) ==
    /\ kind[c] \in Spawners /\ pc[c] = "run" /\ proc[c] = "closed"
    /\ Write(c, "error")
    /\ Goto(c, "done")
    /\ UNCHANGED <<started, kind, target, waiting, active, childVars>>

SpawnLoc(c) == IF kind[c] = "reattach" THEN "replace" ELSE "done"

SpawnReady(c) ==
    /\ kind[c] \in Spawners /\ pc[c] = "run" /\ proc[c] = "closed"
    /\ Write(c, "ready")
    /\ Goto(c, SpawnLoc(c))
    /\ UNCHANGED <<started, kind, target, waiting, active, childVars>>

(* With opts.initialTask spawnSession also starts sendPrompt (call d),     *)
(* whose promise it does not await.                                        *)
SpawnReadyWithTask(c, d) ==
    /\ kind[c] = "spawn" /\ pc[c] = "run" /\ proc[c] = "closed"
    /\ started
    /\ pc[d] = "idle"
    /\ Write(c, "ready")
    /\ kind' = [kind EXCEPT ![d] = "send"]
    /\ target' = [target EXCEPT ![d] = c]
    /\ pc' = [pc EXCEPT ![c] = "done", ![d] = "lookup"]
    /\ UNCHANGED <<started, waiting, active, childVars>>

(* reattachSession marks the session it replaced.                          *)
ReattachReplace(c) ==
    /\ pc[c] = "replace"
    /\ Write(target[c], "stopped")
    /\ Goto(c, "done")
    /\ UNCHANGED <<started, kind, target, waiting, active, childVars>>
-----------------------------------------------------------------------------
(* sendPrompt                                                              *)

SendLookup(c) ==
    /\ kind[c] = "send" /\ pc[c] = "lookup"
    /\ Write(target[c], "busy")
    /\ Goto(c, IF status[target[c]] = "absent" THEN "done" ELSE "launch")
    /\ UNCHANGED <<started, kind, target, waiting, active, childVars>>

(* runAcpx with activeForSession: activeProcesses.set replaces whatever    *)
(* record the session had.  Only opts.timeoutMs arms the prompt timeout.   *)
SendLaunch(c) ==
    /\ kind[c] = "send" /\ pc[c] = "launch"
    /\ \/ /\ Launched(c)
          /\ active' = [active EXCEPT ![target[c]] = c]
          /\ \E timed \in BOOLEAN : deadline' = [deadline EXCEPT ![c] = timed]
       \/ SpawnThrows(c) /\ UNCHANGED <<active, deadline>>
    /\ UNCHANGED <<started, kind, target, waiting, status, signal, killTimer>>

PromptSettled_IgnoresFailure(c) ==                         \* mutant
    /\ kind[c] = "send" /\ pc[c] = "run" /\ proc[c] = "closed"
    /\ Write(target[c], "ready") \/ UNCHANGED status
    /\ Goto(c, "done")
    /\ UNCHANGED <<started, kind, target, waiting, active, childVars>>

PromptSettled(c) ==
    /\ kind[c] = "send" /\ pc[c] = "run" /\ proc[c] = "closed"
    /\ \E st \in {"ready", "error"} : Write(target[c], st)
    /\ Goto(c, "done")
    /\ UNCHANGED <<started, kind, target, waiting, active, childVars>>
-----------------------------------------------------------------------------
(* cancelSession, closeSession, deleteSession and stop                     *)

LookupFails(c) ==
    /\ kind[c] \in {"cancel", "close", "delete"} /\ pc[c] = "lookup"
    /\ status[target[c]] = "absent"
    /\ Goto(c, IF kind[c] = "delete" THEN "remove" ELSE "done")
    /\ UNCHANGED <<started, kind, target, waiting, status, active, childVars>>

(* A tracked prompt is signalled, not awaited, and the status is written.  *)
CancelTracked(c) ==
    /\ kind[c] = "cancel" /\ pc[c] = "lookup"
    /\ status[target[c]] # "absent"
    /\ active[target[c]] # None
    /\ Terminate(Tracked(target[c]))
    /\ Write(target[c], "stopped")
    /\ Goto(c, "done")
    /\ UNCHANGED <<started, kind, target, waiting, active, proc, deadline>>

(* Otherwise `acpx cancel` is run first.                                   *)
CancelLaunch(c) ==
    /\ kind[c] = "cancel" /\ pc[c] = "lookup"
    /\ status[target[c]] # "absent"
    /\ active[target[c]] = None
    /\ Launched(c) \/ SpawnThrows(c)
    /\ UNCHANGED <<started, kind, target, waiting, status, active,
                   signal, killTimer, deadline>>

CloseLookup_NoSignal(c) ==                                 \* mutant
    /\ kind[c] \in {"close", "delete"} /\ pc[c] = "lookup"
    /\ status[target[c]] # "absent"
    /\ waiting' = [waiting EXCEPT ![c] = Tracked(target[c])]
    /\ Goto(c, "wait")
    /\ UNCHANGED <<started, kind, target, status, active, childVars>>

(* stopTrackedProcess: the tracked prompt is signalled and awaited.        *)
CloseLookup(c) ==
    /\ kind[c] \in {"close", "delete"} /\ pc[c] = "lookup"
    /\ status[target[c]] # "absent"
    /\ Terminate(Tracked(target[c]))
    /\ waiting' = [waiting EXCEPT ![c] = Tracked(target[c])]
    /\ Goto(c, "wait")
    /\ UNCHANGED <<started, kind, target, status, active, proc, deadline>>

WaitOver(c) == pc[c] = "wait" /\ \A p \in waiting[c] : proc[p] = "closed"

(* stopTrackedProcess has returned: `acpx sessions close` is run.          *)
CloseLaunch(c) ==
    /\ kind[c] \in {"close", "delete"}
    /\ WaitOver(c)
    /\ Launched(c) \/ SpawnThrows(c)
    /\ UNCHANGED <<started, kind, target, waiting, status, active,
                   signal, killTimer, deadline>>

(* The exit code of `acpx cancel` and `acpx sessions close` is not looked  *)
(* at.                                                                     *)
CancelCloseSettled(c) ==
    /\ kind[c] \in {"cancel", "close", "delete"}
    /\ pc[c] = "run" /\ proc[c] = "closed"
    /\ Write(target[c], "stopped")
    /\ Goto(c, IF kind[c] = "delete" THEN "remove" ELSE "done")
    /\ UNCHANGED <<started, kind, target, waiting, active, childVars>>

DeleteRemove(c) ==
    /\ pc[c] = "remove"
    /\ status' = [status EXCEPT ![target[c]] = "absent"]
    /\ Goto(c, "done")
    /\ UNCHANGED <<started, kind, target, waiting, active, childVars>>

StopReturn(c) ==
    /\ kind[c] = "stop"
    /\ WaitOver(c)
    /\ started' = FALSE
    /\ Goto(c, "done")
    /\ UNCHANGED <<kind, target, waiting, status, active, childVars>>
-----------------------------------------------------------------------------
(* Children and timers                                                     *)

(* handleAcpEvent on a line of a child's output: permission/request and    *)
(* tool_call write the status without being awaited.                       *)
AgentStatus(c) ==
    /\ proc[c] = "running"
    /\ \E st \in AgentWrites : Write(SessionOf(c), st)
    /\ UNCHANGED <<started, callVars, active, childVars>>

(* The "close" handler.                                                    *)
ProcClose(c) ==
    /\ proc[c] = "running"
    /\ proc' = [proc EXCEPT ![c] = "closed"]
    /\ Untrack(c)
    /\ killTimer' = [killTimer EXCEPT ![c] = FALSE]
    /\ UNCHANGED <<started, callVars, status, signal, deadline>>

KillTimerFires_Unchecked(c) ==                             \* mutant
    /\ killTimer[c]
    /\ killTimer' = [killTimer EXCEPT ![c] = FALSE]
    /\ signal' = [signal EXCEPT ![c] = "kill"]
    /\ UNCHANGED <<started, callVars, status, active, proc, deadline>>

KillTimerFires(c) ==
    /\ killTimer[c]
    /\ killTimer' = [killTimer EXCEPT ![c] = FALSE]
    /\ signal' = IF proc[c] = "running" THEN [signal EXCEPT ![c] = "kill"]
                 ELSE signal
    /\ UNCHANGED <<started, callVars, status, active, proc, deadline>>

TimeoutFires_Inverted(c) ==                                \* mutant
    /\ deadline[c]
    /\ deadline' = [deadline EXCEPT ![c] = FALSE]
    /\ IF signal[c] # "none" THEN Terminate({c})
                             ELSE UNCHANGED <<signal, killTimer>>
    /\ UNCHANGED <<started, callVars, status, active, proc>>

(* The prompt timeout is never cleared; proc.killed tells whether a signal *)
(* was already sent.                                                       *)
TimeoutFires(c) ==
    /\ deadline[c]
    /\ deadline' = [deadline EXCEPT ![c] = FALSE]
    /\ IF signal[c] = "none" THEN Terminate({c})
                             ELSE UNCHANGED <<signal, killTimer>>
    /\ UNCHANGED <<started, callVars, status, active, proc>>
-----------------------------------------------------------------------------
Continue(c) ==
    \/ ReattachLookup(c) \/ SpawnRejected(c) \/ EnforceSessionLimit(c)
    \/ StoreCreate(c) \/ SpawnLaunch(c) \/ SpawnFailed(c) \/ SpawnReady(c)
    \/ \E d \in Calls : SpawnReadyWithTask(c, d)
    \/ ReattachReplace(c)
    \/ SendLookup(c) \/ SendLaunch(c) \/ PromptSettled(c)
    \/ LookupFails(c) \/ CancelTracked(c) \/ CancelLaunch(c)
    \/ CloseLookup(c) \/ CloseLaunch(c) \/ CancelCloseSettled(c)
    \/ DeleteRemove(c) \/ StopReturn(c)

Next ==
    \/ Start
    \/ \E c \in Calls :
          \/ SpawnSession(c) \/ Stop(c)
          \/ \E s \in Calls : SendPrompt(c, s)
          \/ \E s \in Calls, k \in AllMethods : CallSession(c, k, s)
          \/ Continue(c)
          \/ AgentStatus(c) \/ ProcClose(c) \/ KillTimerFires(c) \/ TimeoutFires(c)

Spec == Init /\ [][Next]_vars

(* A pending promise is resumed and a pending timer fires: that is Node's  *)
(* event loop.  Of the children only this is assumed: one that SIGKILL was *)
(* sent to is closed in the end.                                           *)
Fairness ==
    \A c \in Calls :
        /\ WF_vars(Continue(c))
        /\ WF_vars(KillTimerFires(c))
        /\ WF_vars(TimeoutFires(c))
        /\ WF_vars(signal[c] = "kill" /\ ProcClose(c))

FairSpec == Spec /\ Fairness
-----------------------------------------------------------------------------
(* Safety                                                                  *)

TypeOK ==
    /\ started \in BOOLEAN
    /\ kind \in [Calls -> AllMethods \cup {"none"}]
    /\ target \in [Calls -> Calls]
    /\ pc \in [Calls -> Locations]
    /\ waiting \in [Calls -> SUBSET Calls]
    /\ status \in [Calls -> Statuses]
    /\ active \in [Calls -> Calls \cup {None}]
    /\ proc \in [Calls -> {"none", "running", "closed"}]
    /\ signal \in [Calls -> {"none", "term", "kill"}]
    /\ killTimer \in [Calls -> BOOLEAN]
    /\ deadline \in [Calls -> BOOLEAN]

(* What activeProcesses holds for a session is a prompt of that session    *)
(* whose "close" has not been seen, so stopTrackedProcess never waits for  *)
(* an event that has already been emitted (acp-service.ts:597-602).        *)
TrackedAlive ==
    \A s \in Calls : active[s] # None =>
        LET p == active[s]
        IN  /\ kind[p] = "send" /\ target[p] = s
            /\ pc[p] = "run" /\ proc[p] = "running"

(* A child that was sent SIGTERM and is still running will be sent SIGKILL *)
(* (or was), and whoever awaits a child's "close" awaits a child that was  *)
(* signalled: no stop waits on the agent's good will                       *)
(* (acp-service.ts:597-610).                                               *)
EscalationArmed ==
    /\ \A p \in Calls : proc[p] = "running" /\ signal[p] = "term" => killTimer[p]
    /\ \A c \in Calls : pc[c] = "wait" =>
          \A p \in waiting[c] :
             proc[p] = "closed" \/ (proc[p] = "running" /\ signal[p] # "none")

Working == {"running", "busy", "blocked", "tool_running"}

(* A session whose record says it is at work is being worked on: a call of *)
(* that session is between its status write and its last write, or the     *)
(* spawn or prompt threw in child_process.spawn and left the record behind *)
(* (acp-service.ts:182-202, 231-270).                                      *)
Settled ==
    \A s \in Calls : status[s] \in Working =>
        \E c \in Calls :
            /\ SessionOf(c) = s
            /\ \/ pc[c] \in {"launch", "run"}
               \/ pc[c] = "thrown" /\ kind[c] \in Spawners \cup {"send"}

(* A record that is missing appears only when its own spawn creates it:    *)
(* the late status writes of an agent's output, of a prompt that settles   *)
(* or of a reattach never bring a deleted session back                     *)
(* (acp-service.ts:717-727).                                               *)
NoResurrection ==
    [][\A s \in Calls : status[s] = "absent" /\ status'[s] # "absent" =>
          kind[s] \in Spawners /\ pc[s] \in {"mkdir", "create"}]_vars

(* activeProcesses forgets a prompt only at that prompt's own "close", or  *)
(* because a newer prompt's child was just launched in its place; the      *)
(* close of an older prompt does not untrack the newer one                 *)
(* (acp-service.ts:416, 459-461).                                          *)
TrackingHandover ==
    [][\A s \in Calls : active[s] # None /\ active'[s] # active[s] =>
          \/ proc'[active[s]] = "closed"
          \/ /\ active'[s] # None
             /\ proc[active'[s]] = "none" /\ proc'[active'[s]] = "running"]_vars

(* No signal is sent to a child whose "close" was seen (its pid may be     *)
(* another process's by then), whichever of the kill timer, the prompt     *)
(* timeout, a cancel, a close and a stop comes late                        *)
(* (acp-service.ts:475-479, 604-610).                                      *)
NoSignalAfterClose ==
    [][\A p \in Calls : proc[p] = "closed" => signal'[p] = signal[p]]_vars
-----------------------------------------------------------------------------
(* Liveness, under FairSpec                                                *)

(* closeSession, deleteSession and stop() do not hang on the children they *)
(* wait for (acp-service.ts:145-151, 597-602).                             *)
StopEnds == \A c \in Calls : pc[c] = "wait" ~> pc[c] # "wait"

(* A prompt with opts.timeoutMs ends, whatever the agent does              *)
(* (acp-service.ts:475-479).                                               *)
TimeoutEnds ==
    \A c \in Calls : deadline[c] /\ pc[c] = "run" ~> pc[c] = "done"
=============================================================================
