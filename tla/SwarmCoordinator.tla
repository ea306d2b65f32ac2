-------------------------- MODULE SwarmCoordinator --------------------------
(***************************************************************************)
(* The coordinator of the orchestrator: swarm-coordinator.ts with its      *)
(* decision loop (swarm-decision-loop.ts) and its idle watchdog            *)
(* (swarm-idle-watchdog.ts).  It supervises one task per PTY session.      *)
(*                                                                         *)
(* A job is one activation of an asynchronous handler; job[j].pc is the    *)
(* await at which it is suspended.  An action is the code from one such    *)
(* await to the next.  Awaits of registry writes with no state read or     *)
(* written between them and the next await are one suspension.             *)
(***************************************************************************)
EXTENDS Naturals, Sequences, FiniteSets, Bags

CONSTANTS
  Sessions,       \* PTY session ids
  Prompts,        \* prompts an agent can block on
  KindOf,         \* what handleBlocked makes of the text of a prompt
  Levels,         \* supervision levels that may be set
  Acceptances,    \* how the verifiers of a finished swarm may turn out
  Verdicts,       \* verdicts of the validation of a completed task
  Validated,      \* sessions registered with a custom validator
  KeepAlive,      \* sessions registered with keepAliveAfterComplete
  Emitted,        \* names of the events that agents emit
  Clients,        \* sessions that clients, not recoveries, launch
  MaxAutoResponses, MaxIdleChecks, MaxRetries, MaxRecoveries,
  Jobs,           \* ids of activations, as many as may run at a time
  MaxEvents,      \* bound on what agents emit and on how often they get idle
  MaxUserActs,    \* bound on what the user does
  None

EventNames == {"blocked", "task_complete", "error", "stopped", "ready",
               "login_required", "tool_running"}
Kinds == {"plain", "routine", "auto", "unsafe", "login", "depleted"}

ASSUME SwarmAssumption ==
  /\ KindOf \in [Prompts -> Kinds]
  /\ Levels \subseteq {"autonomous", "confirm", "notify"} /\ Levels # {}
  /\ Acceptances \subseteq {"accepted", "failed", "pending"}
  /\ Verdicts \subseteq {"pass", "revise", "escalate"}
  /\ Validated \subseteq Sessions /\ KeepAlive \subseteq Sessions
  /\ Clients \subseteq Sessions /\ Emitted \subseteq EventNames \ {"stopped"}
  /\ {MaxAutoResponses, MaxIdleChecks, MaxRetries, MaxRecoveries} \subseteq Nat
  /\ MaxEvents \in Nat /\ MaxUserActs \in Nat
  /\ None \notin Sessions /\ None \notin Prompts

VARIABLES
  tasks,              \* keys of the map of task contexts
  task,               \* the task contexts; the objects outlive their key
  inFlight,           \* inFlightDecisions
  fingerprint,        \* lastBlockedPromptFingerprint
  pendingBlocked, pendingTurn,
  coalesce, deferred, \* sessions with such a turn-complete timer
  supervision, pendingDecisions,
  paused, pauseBuffer,
  unregistered,       \* events of sessions nobody registered yet
  inbox,              \* events delivered in this turn of the event loop
  notified,           \* swarmCompleteNotified
  checks,             \* running checkAllTasksComplete, by their snapshot
  told,               \* sessions some swarm_complete was about
  job, pty, events, acts

taskVars == <<tasks, task>>
buffers  == <<fingerprint, pendingBlocked, pendingTurn>>
timers   == <<coalesce, deferred>>
human    == <<supervision, pendingDecisions>>
pauseVars == <<paused, pauseBuffer>>
swarm    == <<notified, checks, told>>
vars == <<taskVars, inFlight, buffers, timers, human, pauseVars, unregistered,
          inbox, swarm, job, pty, events, acts>>

Terminal == {"completed", "stopped", "error"}
Working  == {"active", "tool_running"}
Statuses == Terminal \cup Working \cup {"blocked"}
Decisions == {"respond", "complete", "escalate", "ignore"}
Events == [name : EventNames, s : Sessions, prompt : Prompts \cup {None}]

TaskContext ==
  [status : Statuses, recent : BOOLEAN, cooldown : BOOLEAN,
   auto : Nat, idle : Nat, retries : Nat, ordinal : Nat]
NewTask ==
  [status |-> "active", recent |-> FALSE, cooldown |-> FALSE,
   auto |-> 0, idle |-> 0, retries |-> 0, ordinal |-> 0]

\* An activation that holds no lock and has no buffer to drain.
Activation(pc, s, kind, act) ==
  [pc |-> pc, s |-> s, kind |-> kind, lock |-> FALSE, after |-> <<>>,
   prompt |-> None, act |-> act, ref |-> {}, n |-> 0]
Free == Activation("free", None, "none", "ignore")
\* A job that only has the buffers of rest left to drain.
After(s, rest) ==
  IF rest = <<>> THEN Free
  ELSE [Free EXCEPT !.pc = "drain", !.s = s, !.after = rest]
Locked_TurnKept(s, kind, prompt, rest) ==                      \* mutant
  [Free EXCEPT !.pc = "assess", !.s = s, !.kind = kind, !.lock = TRUE,
               !.after = IF kind = "turn" THEN rest ELSE <<"blocked">>,
               !.prompt = prompt]
\* A handler of this kind inside its try block: it holds the lock, and its
\* finally block drains the buffers of rest.
Locked(s, kind, prompt, rest) ==
  [pc |-> "assess", s |-> s, kind |-> kind, lock |-> TRUE, after |-> rest,
   prompt |-> prompt, act |-> "ignore", ref |-> {}, n |-> 0]

FreeJobs == {j \in Jobs : job[j].pc = "free"}
NewJob == CHOOSE j \in FreeJobs : TRUE
\* The bound on activations: nothing happens that would need more of them.
Room(n) == Cardinality(FreeJobs) >= n
\* Between two turns of the event loop.
Quiet == inbox = <<>> /\ \A j \in Jobs : job[j].pc # "drain"
At(j, pc) == Quiet /\ job[j].pc = pc

Ended(t, s) == t[s].status \in Terminal
SetStatus(t, s, st) == [t EXCEPT ![s].status = st]
Stopped(t, s) == [t EXCEPT ![s].status = "stopped", ![s].recent = TRUE]
Stopping(s) == [pty EXCEPT ![s] = IF @ = "running" THEN "stopping" ELSE @]
CheckAll_Completed(t) ==                                       \* mutant
  IF tasks # {} /\ \A s \in tasks : t[s].status = "completed"
  THEN checks (+) SetToBag({tasks}) ELSE checks
\* The synchronous part of checkAllTasksComplete, when the contexts are t.
CheckAll(t) ==
  IF tasks # {} /\ \A s \in tasks : Ended(t, s)
  THEN checks (+) SetToBag({tasks}) ELSE checks

Init ==
  /\ tasks = {} /\ task = [s \in Sessions |-> NewTask]
  /\ inFlight = {}
  /\ fingerprint = [s \in Sessions |-> None]
  /\ pendingBlocked = [s \in Sessions |-> None] /\ pendingTurn = {}
  /\ coalesce = {} /\ deferred = {}
  /\ supervision \in Levels
  /\ pendingDecisions = [s \in Sessions |-> None]
  /\ paused = FALSE /\ pauseBuffer = <<>> /\ acts = 0
  /\ unregistered = [s \in Sessions |-> <<>>]
  /\ inbox = <<>>
  /\ notified = FALSE /\ checks = EmptyBag /\ told = {}
  /\ job = [j \in Jobs |-> Free]
  /\ pty = [s \in Sessions |-> "unspawned"]
  /\ events = 0
-----------------------------------------------------------------------------
(* Sessions and their agents, as the coordinator sees them. *)

SpawnSession(s) ==
  /\ Quiet /\ s \in Clients /\ pty[s] = "unspawned"
  /\ pty' = [pty EXCEPT ![s] = "running"]
  /\ UNCHANGED <<taskVars, inFlight, buffers, timers, human, pauseVars,
                 unregistered, inbox, swarm, job, events, acts>>

AgentEmits(s, name, prompt) ==
  /\ Quiet /\ events < MaxEvents /\ Room(1)
  /\ IF name = "task_complete" THEN pty[s] # "unspawned"
     ELSE pty[s] \in {"running", "stopping"}
  /\ name \in Emitted /\ (name = "blocked") = (prompt # None)
  /\ events' = events + 1
  /\ inbox' = <<[name |-> name, s |-> s, prompt |-> prompt]>>
  /\ UNCHANGED <<taskVars, inFlight, buffers, timers, human, pauseVars,
                 unregistered, swarm, job, pty, acts>>

\* The process ends: asked to, or on its own, and then it may be without an
\* event (a worker that was restarted).
SessionEnds(s, silent) ==
  /\ Quiet /\ pty[s] \in {"running", "stopping"}
  /\ silent => pty[s] = "running"
  /\ pty' = [pty EXCEPT ![s] = "gone"]
  /\ inbox' = IF silent THEN <<>>
              ELSE <<[name |-> "stopped", s |-> s, prompt |-> None]>>
  /\ UNCHANGED <<taskVars, inFlight, buffers, timers, human, pauseVars,
                 unregistered, swarm, job, events, acts>>
-----------------------------------------------------------------------------
(* Registration. *)

\* The synchronous part of registerTask; inbox receives what was buffered.
Register(s, ordinal) ==
  LET fresh == \A t \in tasks : Ended(task, t)
  IN /\ tasks' = (IF fresh THEN {} ELSE tasks) \cup {s}
     /\ notified' = (IF fresh THEN FALSE ELSE notified)
     /\ task' = [task EXCEPT ![s] = [NewTask EXCEPT !.ordinal = ordinal]]
     /\ unregistered' = [unregistered EXCEPT ![s] = <<>>]
     /\ inbox' = unregistered[s]

RegisterTask(s) ==
  /\ Quiet /\ s \in Clients \ (tasks \cup told) /\ pty[s] # "unspawned"
  /\ task[s] = NewTask /\ Room(Len(unregistered[s]))
  /\ Register(s, 0)
  /\ UNCHANGED <<inFlight, buffers, timers, human, pauseVars, checks, told,
                 job, pty, events, acts>>

\* scheduleUnregisteredRetry gave up after UNREGISTERED_MAX_TOTAL_MS.
DiscardUnregistered(s) ==
  /\ Quiet /\ unregistered[s] # <<>>
  /\ unregistered' = [unregistered EXCEPT ![s] = <<>>]
  /\ UNCHANGED <<taskVars, inFlight, buffers, timers, human, pauseVars, inbox,
                 swarm, job, pty, events, acts>>
-----------------------------------------------------------------------------
(* The handlers of the decision loop up to their first await.  Job j runs   *)
(* them; t are the task contexts, rest the drains its caller has left,      *)
(* buffered the pending prompts.  Writing t and the rest is one step.       *)

End(j, s, rest) == job' = [job EXCEPT ![j] = After(s, rest)]

Fast(p) == KindOf[p] = "routine" /\ supervision = "autonomous"

\* Login, out-of-scope access and prompts the rules answered already.
HandleKnown(j, s, p, rest, t) ==
  /\ End(j, s, rest) /\ UNCHANGED <<inFlight, fingerprint>>
  /\ \/ KindOf[p] = "login" /\ task' = SetStatus(t, s, "blocked") /\ UNCHANGED pty
     \/ KindOf[p] = "unsafe" /\ task' = SetStatus(t, s, "error") /\ pty' = Stopping(s)
     \/ KindOf[p] = "auto" /\ task' = [t EXCEPT ![s].auto = @ + 1] /\ UNCHANGED pty

HandleRoutine(j, s, p, rest, t) ==
  /\ Fast(p) /\ task' = [t EXCEPT ![s].auto = @ + 1]
  /\ job' = [job EXCEPT ![j] = [Free EXCEPT !.pc = "answer", !.s = s,
               !.kind = "fast", !.act = "respond", !.after = rest]]
  /\ UNCHANGED <<inFlight, fingerprint, pty>>

HandleUndecided(j, s, p, rest, t, buffered) ==
  /\ KindOf[p] \in {"plain", "routine", "depleted"} /\ ~Fast(p)
  /\ fingerprint' = [fingerprint EXCEPT ![s] = p]
  /\ UNCHANGED <<inFlight, pty>>
  /\ \/ /\ s \in inFlight /\ task' = t /\ End(j, s, rest)
        /\ pendingBlocked' = IF fingerprint[s] = p THEN buffered
                             ELSE [buffered EXCEPT ![s] = p]
     \/ /\ s \notin inFlight /\ task' = SetStatus(t, s, "blocked")
        /\ pendingBlocked' = buffered
        /\ job' = [job EXCEPT ![j] = [Free EXCEPT !.pc = "route", !.s = s,
                                      !.prompt = p, !.after = rest]]

HandleBlocked(j, s, p, rest, t, buffered) ==
  \/ HandleKnown(j, s, p, rest, t) /\ pendingBlocked' = buffered
  \/ HandleRoutine(j, s, p, rest, t) /\ pendingBlocked' = buffered
  \/ HandleUndecided(j, s, p, rest, t, buffered)

HandleTurnComplete(j, s, rest) ==
  \/ /\ s \in inFlight
     /\ pendingTurn' = pendingTurn \cup {s}
     /\ End(j, s, rest)
     /\ UNCHANGED <<inFlight, deferred>>
  \/ /\ s \notin inFlight /\ task[s].cooldown
     /\ pendingTurn' = pendingTurn \cup {s}
     /\ deferred' = deferred \cup {s}
     /\ End(j, s, rest)
     /\ UNCHANGED inFlight
  \/ /\ s \notin inFlight /\ ~task[s].cooldown
     /\ pendingTurn' = pendingTurn \ {s}
     /\ deferred' = deferred \ {s}
     /\ inFlight' = inFlight \cup {s}
     /\ job' = [job EXCEPT ![j] =
                  Locked(s, "turn", None, <<"blocked", "turn">>)]
-----------------------------------------------------------------------------
(* handleNormalizedSessionEvent, for the first event of the inbox. *)

Event == Head(inbox)
\* A late task_complete of a task that stopped a moment ago revives it.
Revives == /\ task[Event.s].status = "stopped" /\ task[Event.s].recent
           /\ Event.name = "task_complete"
Ignored == /\ Ended(task, Event.s) /\ ~Revives
           /\ Event.name \notin {"stopped", "error"}
\* The contexts after the part common to all events.
Touched ==
  [task EXCEPT ![Event.s].idle = 0,
               ![Event.s].status = IF Revives THEN "active" ELSE @,
               ![Event.s].recent = IF Revives THEN FALSE ELSE @]
Postponed ==
  /\ paused /\ Event.name \in {"blocked", "task_complete"}
  /\ Event.name = "blocked" => KindOf[Event.prompt] \notin {"auto", "unsafe"}
Taken(names) == /\ inbox # <<>> /\ inbox' = Tail(inbox)
                /\ Event.s \in tasks /\ ~Ignored /\ ~Postponed
                /\ Event.name \in names
Start(kind, pc) ==
  job' = [job EXCEPT ![NewJob] = Activation(pc, Event.s, kind, "ignore")]

HandleUnregistered ==
  /\ inbox # <<>> /\ inbox' = Tail(inbox) /\ Event.s \notin tasks
  /\ unregistered' =
       IF Event.name \in {"blocked", "task_complete", "error"}
       THEN [unregistered EXCEPT ![Event.s] = Append(@, Event)]
       ELSE unregistered
  /\ UNCHANGED <<taskVars, inFlight, buffers, timers, human, pauseVars, swarm,
                 job, pty, events, acts>>

HandlePutOff ==
  /\ inbox # <<>> /\ inbox' = Tail(inbox) /\ Event.s \in tasks
  /\ \/ Ignored /\ UNCHANGED <<task, pauseBuffer>>
     \/ /\ ~Ignored /\ Postponed
        /\ task' = Touched /\ pauseBuffer' = Append(pauseBuffer, Event)
  /\ UNCHANGED <<tasks, inFlight, buffers, timers, human, paused,
                 unregistered, swarm, job, pty, events, acts>>

HandleBlockedEvent ==
  /\ Taken({"blocked"}) /\ Room(1)
  /\ \/ /\ KindOf[Event.prompt] = "depleted"
        /\ Start("depleted", "recover")
        /\ task' = Touched
        /\ UNCHANGED <<inFlight, buffers, pty>>
     \/ /\ KindOf[Event.prompt] # "depleted"
        /\ HandleBlocked(NewJob, Event.s, Event.prompt, <<>>, Touched,
                         pendingBlocked)
        /\ UNCHANGED pendingTurn
  /\ UNCHANGED <<tasks, timers, human, pauseVars, unregistered, swarm, events, acts>>

\* The assessment waits until 500 ms pass without another turn-complete.
HandleTaskComplete ==
  /\ Taken({"task_complete"})
  /\ task' = Touched /\ coalesce' = coalesce \cup {Event.s}
  /\ UNCHANGED <<tasks, inFlight, buffers, deferred, human, pauseVars,
                 unregistered, swarm, job, pty, events, acts>>

HandleStopped ==
  /\ Taken({"stopped"})
  /\ LET s == Event.s
         t == IF task[s].status \in {"completed", "error"} THEN Touched
              ELSE Stopped(Touched, s)
     IN task' = t /\ checks' = CheckAll(t) /\ inFlight' = inFlight \ {s}
  /\ UNCHANGED <<tasks, buffers, timers, human, pauseVars, unregistered,
                 notified, told, job, pty, events, acts>>

HandleProgress ==
  /\ Taken({"ready", "tool_running"})
  /\ task' = SetStatus(Touched, Event.s, IF Event.name = "ready" THEN "active"
                                         ELSE "tool_running")
  /\ UNCHANGED <<tasks, inFlight, buffers, timers, human, pauseVars,
                 unregistered, swarm, job, pty, events, acts>>

HandleError ==
  /\ Taken({"error"}) /\ Room(1) /\ task' = Touched /\ Start("error", "recover")
  /\ UNCHANGED <<tasks, inFlight, buffers, timers, human, pauseVars,
                 unregistered, swarm, pty, events, acts>>

HandleLoginRequired ==
  /\ Taken({"login_required"}) /\ Room(1)
  /\ task' = Touched /\ Start("login", "login")
  /\ UNCHANGED <<tasks, inFlight, buffers, timers, human, pauseVars,
                 unregistered, swarm, pty, events, acts>>
-----------------------------------------------------------------------------
(* Timers and the pause. *)

\* turnCompleteCoalesceTimers and deferredTurnCompleteTimers.
TurnTimerFires(s) ==
  /\ Quiet /\ Room(1)
  /\ LET j == NewJob
         live == s \in tasks /\ task[s].status \in Working
     IN \/ /\ s \in coalesce /\ coalesce' = coalesce \ {s}
           /\ IF live THEN HandleTurnComplete(j, s, <<>>)
              ELSE UNCHANGED <<pendingTurn, deferred, inFlight, job>>
        \/ /\ s \in deferred /\ UNCHANGED coalesce
           /\ IF live /\ s \in pendingTurn
              THEN IF s \in inFlight
                   THEN /\ deferred' = deferred \ {s}
                        /\ UNCHANGED <<pendingTurn, inFlight, job>>
                   ELSE HandleTurnComplete(j, s, <<>>)
              ELSE /\ deferred' = deferred \ {s}
                   /\ pendingTurn' = pendingTurn \ {s}
                   /\ UNCHANGED <<inFlight, job>>
  /\ UNCHANGED <<taskVars, fingerprint, pendingBlocked, human, pauseVars,
                 unregistered, inbox, swarm, pty, events, acts>>

\* POST_SEND_COOLDOWN_MS and STOPPED_RECOVERY_WINDOW_MS run out.
CooldownEnds(s) ==
  /\ Quiet /\ task[s].cooldown
  /\ task' = [task EXCEPT ![s].cooldown = FALSE]
  /\ UNCHANGED <<tasks, inFlight, buffers, timers, human, pauseVars,
                 unregistered, inbox, swarm, job, pty, events, acts>>

RecoveryWindowEnds(s) ==
  /\ Quiet /\ task[s].recent
  /\ task' = [task EXCEPT ![s].recent = FALSE]
  /\ UNCHANGED <<tasks, inFlight, buffers, timers, human, pauseVars,
                 unregistered, inbox, swarm, job, pty, events, acts>>

Pause ==
  /\ Quiet /\ ~paused /\ acts < MaxUserActs
  /\ paused' = TRUE /\ acts' = acts + 1
  /\ UNCHANGED <<taskVars, inFlight, buffers, timers, human, pauseBuffer,
                 unregistered, inbox, swarm, job, pty, events>>

\* Called, or by the timeout of pause.
Resume ==
  /\ Quiet /\ paused /\ Room(Len(pauseBuffer))
  /\ paused' = FALSE /\ inbox' = pauseBuffer /\ pauseBuffer' = <<>>
  /\ UNCHANGED <<taskVars, inFlight, buffers, timers, human,
                 unregistered, swarm, job, pty, events, acts>>

SetSupervisionLevel(level) ==
  /\ Quiet /\ level \in Levels \ {supervision}
  /\ acts < MaxUserActs /\ acts' = acts + 1
  /\ supervision' = level
  /\ UNCHANGED <<taskVars, inFlight, buffers, timers, pendingDecisions,
                 pauseVars, unregistered, inbox, swarm, job, pty, events>>
-----------------------------------------------------------------------------
(* The rest of the handlers: one action per await. *)

Goto(j, pc) == job' = [job EXCEPT ![j].pc = pc]
Finally_NotIdle(j) ==                                          \* mutant
  /\ inFlight' = IF job[j].lock /\ job[j].kind # "idle"
                 THEN inFlight \ {job[j].s} ELSE inFlight
  /\ job' = [job EXCEPT ![j] = After(job[j].s, job[j].after)]
Finally(j) ==
  /\ inFlight' = IF job[j].lock THEN inFlight \ {job[j].s} ELSE inFlight
  /\ job' = [job EXCEPT ![j] = After(job[j].s, job[j].after)]
\* executeDecision threw.
Fail(j) == Finally(j) /\ UNCHANGED pendingDecisions
\* executeDecision returned, after action d; p are the sessions.
Done(j, d, p) ==
  LET s == job[j].s
  IN /\ Finally(j)
     /\ pty' = IF job[j].kind = "turn" /\ d \in {"escalate", "ignore"}
               THEN Stopping(s) ELSE p
     /\ pendingDecisions' = IF job[j].kind = "human"
                            THEN [pendingDecisions EXCEPT ![s] = None]
                            ELSE pendingDecisions

\* executeDecision up to its first await, with the contexts t.
Execute(j, d, t) ==
  LET known == tasks \cap {job[j].s}
      Await(pc) == job' = [job EXCEPT ![j].pc = pc, ![j].act = d,
                                      ![j].ref = known]
  IN \/ /\ d = "respond" /\ Await("sending")
        /\ task' = IF known = {} THEN t ELSE SetStatus(t, job[j].s, "active")
        /\ UNCHANGED <<inFlight, pendingDecisions, pty>>
     \/ /\ d = "complete" /\ Await("summarize") /\ task' = t
        /\ UNCHANGED <<inFlight, pendingDecisions, pty>>
     \/ d \in {"escalate", "ignore"} /\ task' = t /\ Done(j, d, pty)

Route(j) ==
  /\ At(j, "route")
  /\ LET s == job[j].s
         Lock(kind, rest) ==
           /\ inFlight' = inFlight \cup {s}
           /\ job' = [job EXCEPT ![j] = Locked(s, kind, job[j].prompt, rest)]
     IN IF \/ task[s].auto >= MaxAutoResponses \/ supervision = "notify"
           \/ s \in inFlight
        THEN End(j, s, job[j].after) /\ UNCHANGED inFlight
        ELSE \/ supervision = "autonomous" /\ Lock("auto", <<"blocked", "turn">>)
             \/ supervision = "confirm" /\ Lock("confirm", <<"turn", "blocked">>)
  /\ UNCHANGED <<taskVars, buffers, timers, human, pauseVars, unregistered,
                 inbox, swarm, pty, events, acts>>

Assessing(j, kind) ==
  /\ At(j, "assess") /\ job[j].kind = kind
  /\ UNCHANGED <<tasks, fingerprint, pendingBlocked, timers, supervision,
                 pauseVars, unregistered, inbox, swarm, events, acts>>
\* What parseCoordinationResponse makes of the model's answer.
Parsed == Decisions \cup {None}

\* The turn is over; what does not parse completes the task or escalates it.
AssessTurn(j) ==
  /\ Assessing(j, "turn")
  /\ \/ /\ pendingBlocked[job[j].s] # None
        /\ pendingTurn' = pendingTurn \cup {job[j].s} /\ Fail(j)
        /\ UNCHANGED <<task, pty>>
     \/ /\ pendingBlocked[job[j].s] = None
        /\ \E d \in Decisions : Execute(j, d, task)
        /\ UNCHANGED pendingTurn

AssessBlocked(j) ==
  /\ Assessing(j, "auto") /\ UNCHANGED pendingTurn
  /\ \E d \in Parsed :
       IF d = None THEN Fail(j) /\ UNCHANGED <<task, pty>>
       ELSE Execute(j, d, [task EXCEPT ![job[j].s].auto = 0])

AssessIdle(j) ==
  /\ Assessing(j, "idle") /\ UNCHANGED pendingTurn
  /\ \E d \in Parsed :
       IF d = None THEN Fail(j) /\ UNCHANGED <<task, pty>>
       ELSE Execute(j, d, task)

\* The suggestion is queued for the human.
AssessConfirm(j) ==
  /\ Assessing(j, "confirm") /\ Finally(j)
  /\ task' = SetStatus(task, job[j].s, "blocked")
  /\ \E d \in Parsed :
       pendingDecisions' = [pendingDecisions EXCEPT
                              ![job[j].s] = IF d = None THEN "escalate" ELSE d]
  /\ UNCHANGED <<pendingTurn, pty>>

\* A decision that was made already: by the fast path or by the human.
Answer(j) ==
  /\ At(j, "answer") /\ Execute(j, job[j].act, task)
  /\ UNCHANGED <<tasks, buffers, timers, supervision, pauseVars, unregistered,
                 inbox, swarm, events, acts>>

\* sendToSession returns, or throws as it does once the process is gone.
Sent(j) ==
  /\ At(j, "sending")
  /\ \/ /\ pty[job[j].s] # "gone"
        /\ task' = [task EXCEPT ![job[j].s].cooldown = @ \/ job[j].ref # {}]
        /\ Done(j, "respond", pty)
     \/ Fail(j) /\ UNCHANGED <<task, pty>>
  /\ UNCHANGED <<tasks, buffers, timers, supervision, pauseVars, unregistered,
                 inbox, swarm, events, acts>>

Summarized(j) ==
  /\ At(j, "summarize")
  /\ \/ /\ job[j].ref = {} /\ Done(j, "complete", Stopping(job[j].s))
        /\ UNCHANGED task
     \/ /\ job[j].ref # {} /\ Goto(j, "validate")
        /\ task' = SetStatus(task, job[j].s, "tool_running")
        /\ UNCHANGED <<inFlight, pendingDecisions, pty>>
  /\ UNCHANGED <<tasks, buffers, timers, supervision, pauseVars, unregistered,
                 inbox, swarm, events, acts>>

Validating(j) ==
  /\ At(j, "validate")
  /\ UNCHANGED <<tasks, inFlight, buffers, timers, human, pauseVars,
                 unregistered, inbox, swarm, pty, events, acts>>
\* The verdict is written with the status and the handler goes on at pc.
Judged(j, status, pc) ==
  task' = SetStatus(task, job[j].s, status) /\ Goto(j, pc)

\* A validator that is missing, throws or answers nonsense fails the task.
RunCustomValidator == {IF v = "pass" THEN "pass" ELSE "fail" : v \in Verdicts}
\* The model's verdict; what it cannot judge, or nobody can read, is escalated.
ValidateTaskCompletion == Verdicts

ValidateCustom(j) ==
  LET retries == task[job[j].s].retries + 1
  IN /\ Validating(j) /\ job[j].s \in Validated
     /\ \E v \in RunCustomValidator :
          \/ v = "pass" /\ Judged(j, "completed", "closing")
          \/ /\ v = "fail" /\ retries <= MaxRetries
             /\ task' = SetStatus(task, job[j].s, "active")
             /\ job' = [job EXCEPT ![j].pc = "retrySend", ![j].n = retries]
          \/ v = "fail" /\ retries > MaxRetries /\ Judged(j, "error", "closing")

ValidateCompletion(j) ==
  /\ Validating(j) /\ job[j].s \notin Validated
  /\ \E v \in ValidateTaskCompletion :
       \/ v = "pass" /\ Judged(j, "completed", "closing")
       \/ v = "revise" /\ Judged(j, "active", "followUp")
       \/ v = "escalate" /\ Judged(j, "blocked", "unproven")

\* The validator's retry prompt, or the follow-up of a revision, goes out.
RetrySent(j) ==
  /\ At(j, "retrySend")
  /\ \/ Fail(j) /\ UNCHANGED <<task, pty>>
     \/ /\ pty[job[j].s] # "gone" /\ Done(j, "complete", pty)
        /\ task' = [task EXCEPT ![job[j].s].cooldown = TRUE,
                                ![job[j].s].retries = job[j].n]
  /\ UNCHANGED <<tasks, buffers, timers, supervision, pauseVars, unregistered,
                 inbox, swarm, events, acts>>

FollowUp(j) ==
  /\ \/ At(j, "followUp") /\ Fail(j) /\ UNCHANGED <<task, pty>>
     \/ /\ At(j, "followUp") /\ pty[job[j].s] # "gone"
        /\ task' = [task EXCEPT ![job[j].s].cooldown = TRUE,
                                ![job[j].s].status = "completed"]
        /\ Goto(j, "closing") /\ UNCHANGED <<inFlight, pendingDecisions, pty>>
     \/ /\ At(j, "unproven") /\ Judged(j, "completed", "closing")
        /\ UNCHANGED <<inFlight, pendingDecisions, pty>>
  /\ UNCHANGED <<tasks, buffers, timers, supervision, pauseVars, unregistered,
                 inbox, swarm, events, acts>>

Closing_Running(j) ==                                          \* mutant
  /\ At(j, "closing") /\ checks' = CheckAll(task)
  /\ Done(j, "complete", pty)
  /\ UNCHANGED <<taskVars, buffers, timers, supervision, pauseVars,
                 unregistered, inbox, notified, told, events, acts>>
\* The result is persisted: stop the session, see whether all are done.
Closing(j) ==
  LET s == job[j].s
  IN /\ At(j, "closing")
     /\ checks' = CheckAll(task)
     /\ Done(j, "complete",
             IF s \in KeepAlive \ Validated /\ job[j].kind # "stale"
             THEN pty ELSE Stopping(s))
     /\ UNCHANGED <<taskVars, buffers, timers, supervision, pauseVars,
                    unregistered, inbox, notified, told, events, acts>>

\* drainPendingBlocked or drainPendingTurnComplete of a finally block.
Drain(j) ==
  LET s == job[j].s
      rest == Tail(job[j].after)
      live == s \in tasks /\ task[s].status \in Working
  IN /\ job[j].pc = "drain"
     /\ \/ /\ Head(job[j].after) = "blocked"
           /\ LET buffered == [pendingBlocked EXCEPT ![s] = None]
              IN IF pendingBlocked[s] # None /\ live
                 THEN HandleBlocked(j, s, pendingBlocked[s], rest, task, buffered)
                 ELSE /\ pendingBlocked' = buffered /\ End(j, s, rest)
                      /\ UNCHANGED <<task, inFlight, fingerprint, pty>>
           /\ UNCHANGED <<pendingTurn, deferred>>
        \/ /\ Head(job[j].after) = "turn"
           /\ IF s \in pendingTurn /\ live THEN HandleTurnComplete(j, s, rest)
              ELSE /\ pendingTurn' = pendingTurn \ {s} /\ End(j, s, rest)
                   /\ UNCHANGED <<inFlight, deferred>>
           /\ UNCHANGED <<task, fingerprint, pendingBlocked, pty>>
     /\ UNCHANGED <<tasks, coalesce, human, pauseVars, unregistered, inbox,
                    swarm, events, acts>>
-----------------------------------------------------------------------------
(* Failed sessions and their replacements. *)

\* The session r is spawned to go on with the task.
Spawned(j, r, ordinal) ==
  /\ At(j, "recover")
  /\ r \in Sessions \ Clients /\ pty[r] = "unspawned"
  /\ task' = [task EXCEPT ![r].ordinal = ordinal]
  /\ pty' = [pty EXCEPT ![r] = "running"]
  /\ job' = [job EXCEPT ![j].pc = "register", ![j].ref = {r}]
  /\ UNCHANGED <<tasks, inFlight, buffers, timers, human, pauseVars,
                 unregistered, inbox, swarm, events, acts>>
\* What getSession knows; a session that is gone starts the count anew.
RecoveryOrdinal(s) == IF pty[s] = "gone" THEN 0 ELSE task[s].ordinal

Failover(j, r) ==
  /\ job[j].kind \in {"error", "depleted"}
  /\ Spawned(j, r, RecoveryOrdinal(job[j].s))

Recover(j, r) ==
  /\ job[j].kind \in {"error", "auth"}
  /\ job[j].kind = "auth" => ~Ended(task, job[j].s)
  /\ RecoveryOrdinal(job[j].s) < MaxRecoveries
  /\ Spawned(j, r, RecoveryOrdinal(job[j].s) + 1)

RegisterReplacement(j) ==
  /\ At(j, "register")
  /\ \E r \in job[j].ref :
       Room(Len(unregistered[r])) /\ Register(r, task[r].ordinal)
  /\ Goto(j, "replaced")
  /\ UNCHANGED <<inFlight, buffers, timers, human, pauseVars, checks, told,
                 pty, events, acts>>

\* The old task ends, with a replacement or without one.  A registry that
\* fails after the replacement was registered hides it from the handler.
Superseded(j, kind) ==
  /\ Quiet /\ job[j].pc \in {"recover", "replaced"} /\ job[j].kind = kind
  /\ job' = [job EXCEPT ![j] = Free]
  /\ UNCHANGED <<tasks, inFlight, buffers, timers, human, pauseVars,
                 unregistered, inbox, notified, told, events, acts>>
CheckUnlessReplaced(j, t) ==
  checks' = CheckAll(t) \/ (job[j].pc = "replaced" /\ UNCHANGED checks)

ErrorHandled(j) ==
  /\ Superseded(j, "error") /\ task' = SetStatus(task, job[j].s, "error")
  /\ CheckUnlessReplaced(j, SetStatus(task, job[j].s, "error"))
  /\ UNCHANGED pty

DepletionHandled(j) ==
  LET t == [task EXCEPT ![job[j].s].status = "error", ![job[j].s].recent = TRUE]
  IN /\ Superseded(j, "depleted") /\ task' = t /\ CheckUnlessReplaced(j, t)
     /\ pty' = Stopping(job[j].s)

AuthReplaced(j) ==
  /\ Superseded(j, "auth") /\ UNCHANGED checks
  /\ IF job[j].pc = "replaced"
     THEN task' = SetStatus(task, job[j].s, "stopped") /\ pty' = Stopping(job[j].s)
     ELSE task' = SetStatus(task, job[j].s, "blocked") /\ UNCHANGED pty

\* startSessionAuthRecovery resumed the session, wants a replacement for it,
\* or leaves the login to the user.
LoginAnswered(j) ==
  /\ At(j, "login")
  /\ UNCHANGED <<tasks, inFlight, buffers, timers, human, pauseVars,
                 unregistered, inbox, swarm, pty, events, acts>>
Open(s) == s \in tasks /\ ~Ended(task, s)

LoginResumed(j) ==
  LET s == job[j].s
  IN /\ LoginAnswered(j) /\ job' = [job EXCEPT ![j] = Free]
     /\ task' = IF Open(s) THEN [task EXCEPT ![s].status = "active",
                              ![s].recent = FALSE, ![s].idle = 0] ELSE task

LoginReplaces(j) ==
  /\ LoginAnswered(j) /\ Open(job[j].s) /\ UNCHANGED task
  /\ job' = [job EXCEPT ![j].pc = "recover", ![j].kind = "auth"]

LoginLeft(j) ==
  /\ LoginAnswered(j) /\ task' = SetStatus(task, job[j].s, "blocked")
  /\ job' = [job EXCEPT ![j] = Free]
-----------------------------------------------------------------------------
(* The idle watchdog. *)

ScanFindsGone_Working(s) ==                                    \* mutant
  /\ Quiet /\ s \in tasks /\ pty[s] = "gone" /\ task[s].status \in Working
  /\ task' = Stopped(task, s) /\ checks' = CheckAll(Stopped(task, s))
  /\ UNCHANGED <<tasks, inFlight, buffers, timers, human, pauseVars,
                 unregistered, inbox, notified, told, job, pty, events, acts>>
ScanFindsGone(s) ==
  /\ Quiet /\ s \in tasks /\ pty[s] = "gone" /\ ~Ended(task, s)
  /\ task' = Stopped(task, s) /\ checks' = CheckAll(Stopped(task, s))
  /\ UNCHANGED <<tasks, inFlight, buffers, timers, human, pauseVars,
                 unregistered, inbox, notified, told, job, pty, events, acts>>

ScanFindsIdle(s) ==
  /\ Quiet /\ Room(1) /\ events < MaxEvents /\ events' = events + 1
  /\ s \in tasks \ inFlight /\ pty[s] # "gone" /\ task[s].status \in Working
  /\ \A j \in Jobs : job[j].pc # "idleProbe"
  /\ job' = [job EXCEPT ![NewJob] = Activation("idleProbe", s, "idle", "ignore")]
  /\ UNCHANGED <<taskVars, inFlight, buffers, timers, human, pauseVars,
                 unregistered, inbox, swarm, pty, acts>>

\* What the scan does once it has read the session's output.
IdleProbe(j) ==
  LET s == job[j].s
      idle == task[s].idle + 1
  IN /\ At(j, "idleProbe")
     /\ \/ /\ task' = [task EXCEPT ![s].idle = 0]
           /\ job' = [job EXCEPT ![j] = Free] /\ UNCHANGED inFlight
        \/ /\ idle >= MaxIdleChecks /\ UNCHANGED inFlight
           /\ task' = [Stopped(task, s) EXCEPT ![s].idle = idle]
           /\ job' = [job EXCEPT ![j].pc = "closing", ![j].kind = "stale"]
        \/ /\ idle < MaxIdleChecks /\ inFlight' = inFlight \cup {s}
           /\ task' = [task EXCEPT ![s].idle = idle]
           /\ job' = [job EXCEPT ![j] = Locked(s, "idle", None, <<>>)]
     /\ UNCHANGED <<tasks, buffers, timers, human, pauseVars, unregistered,
                    inbox, swarm, pty, events, acts>>
-----------------------------------------------------------------------------
(* The human, the end of a swarm, and the specification. *)

Confirm(s, d) ==
  /\ Quiet /\ Room(1) /\ pendingDecisions[s] # None
  /\ acts < MaxUserActs /\ acts' = acts + 1
  /\ d \in {pendingDecisions[s], "respond"}
  /\ task' = IF s \in tasks THEN [task EXCEPT ![s].status = "active", ![s].auto = 0]
             ELSE task
  /\ job' = [job EXCEPT ![NewJob] = Activation("answer", s, "human", d)]
  /\ UNCHANGED <<tasks, inFlight, buffers, timers, human, pauseVars,
                 unregistered, inbox, swarm, pty, events>>

Reject(s) ==
  /\ Quiet /\ pendingDecisions[s] # None
  /\ acts < MaxUserActs /\ acts' = acts + 1
  /\ task' = IF s \in tasks THEN SetStatus(task, s, "blocked") ELSE task
  /\ pendingDecisions' = [pendingDecisions EXCEPT ![s] = None]
  /\ UNCHANGED <<tasks, inFlight, buffers, timers, supervision, pauseVars,
                 unregistered, inbox, swarm, job, pty, events>>

\* checkAllTasksComplete has seen the verifiers: they still run, they accept,
\* or they do not, and then only results that mean something are announced.
FinishCheck(snapshot, outcome, meaningful) ==
  /\ Quiet /\ BagIn(snapshot, checks) /\ outcome \in Acceptances
  /\ (\E s \in snapshot : task[s].status = "completed") => meaningful
  /\ checks' = checks (-) SetToBag({snapshot})
  /\ notified' = (notified \/ outcome # "pending")
  /\ told' = IF /\ ~notified /\ outcome # "pending"
                /\ outcome = "accepted" \/ meaningful
             THEN told \cup snapshot ELSE told
  /\ UNCHANGED <<taskVars, inFlight, buffers, timers, human, pauseVars,
                 unregistered, inbox, job, pty, events, acts>>

HandleEvent ==
  \/ HandleUnregistered \/ HandlePutOff \/ HandleBlockedEvent
  \/ HandleTaskComplete \/ HandleStopped \/ HandleProgress \/ HandleError
  \/ HandleLoginRequired
Step(j) ==
  \/ Route(j) \/ AssessTurn(j) \/ AssessBlocked(j) \/ AssessIdle(j)
  \/ AssessConfirm(j) \/ Answer(j) \/ Sent(j) \/ Summarized(j)
  \/ ValidateCustom(j) \/ ValidateCompletion(j) \/ RetrySent(j) \/ FollowUp(j)
  \/ Closing(j) \/ Drain(j) \/ RegisterReplacement(j) \/ ErrorHandled(j)
  \/ DepletionHandled(j) \/ AuthReplaced(j) \/ LoginResumed(j)
  \/ LoginReplaces(j) \/ LoginLeft(j) \/ IdleProbe(j)
  \/ \E r \in Sessions : Failover(j, r) \/ Recover(j, r)
Environment(s) ==
  \/ SpawnSession(s) \/ RegisterTask(s) \/ DiscardUnregistered(s)
  \/ \E name \in EventNames, p \in Prompts \cup {None} : AgentEmits(s, name, p)
  \/ \E silent \in BOOLEAN : SessionEnds(s, silent)
  \/ \E d \in Decisions : Confirm(s, d)
  \/ Reject(s)
Timers(s) == TurnTimerFires(s) \/ CooldownEnds(s) \/ RecoveryWindowEnds(s)
Watchdog(s) == ScanFindsGone(s) \/ ScanFindsIdle(s)
Checks ==
  \E snapshot \in BagToSet(checks), outcome \in Acceptances,
     meaningful \in BOOLEAN : FinishCheck(snapshot, outcome, meaningful)

Next ==
  \/ HandleEvent \/ Checks \/ Pause \/ Resume
  \/ \E j \in Jobs : Step(j)
  \/ \E s \in Sessions : Environment(s) \/ Timers(s) \/ Watchdog(s)
  \/ \E level \in Levels : SetSupervisionLevel(level)

Spec == Init /\ [][Next]_vars

\* The event loop runs what is due: handlers, promises that settle, timers.
Fairness ==
  /\ WF_vars(HandleEvent) /\ WF_vars(Checks) /\ WF_vars(Resume)
  /\ \A j \in Jobs : WF_vars(Step(j))
  /\ \A s \in Sessions :
       /\ WF_vars(TurnTimerFires(s)) /\ WF_vars(CooldownEnds(s))
       /\ WF_vars(ScanFindsGone(s))
FairSpec == Spec /\ Fairness
-----------------------------------------------------------------------------
(* Properties. *)

\* Whoever drains a buffer of the session, or checks it for being idle: that
\* handler takes the lock of the session and drains nothing.
Attends(r, what) ==
  \/ r.kind = "idle" /\ r.lock
  \/ \E i \in DOMAIN r.after : r.after[i] = what
Attended(s, what) == \E j \in Jobs : job[j].s = s /\ Attends(job[j], what)

PutOffIsAttended(s) ==
  /\ s \in pendingTurn => s \in deferred \/ Attended(s, "turn")
  /\ pendingBlocked[s] # None => Attended(s, "blocked")

\* The finally block of an idle check lets go of the session.
IdleCheckEnds(s) ==
  \E j \in Jobs : /\ job[j].kind = "idle" /\ job[j].s = s
                  /\ job[j].lock /\ ~job'[j].lock

\* A turn-complete or a prompt that was put off because of a running decision
\* or of the cooldown is looked at again: a finally block or a timer has yet
\* to come, and nothing but the end of an idle check (which drains nothing)
\* leaves it to nobody.  Looked at is all: unless the task works then, it is
\* discarded.
BufferedIsAttended ==
  [][\A s \in Sessions :
       PutOffIsAttended(s) => PutOffIsAttended(s)' \/ IdleCheckEnds(s)]_vars

\* A task reported as completed does not keep its process: it is being
\* stopped, or the handler that completed it is about to.
CompletedReleasesSession ==
  \A s \in tasks \ (KeepAlive \ Validated) :
    task[s].status = "completed" =>
      pty[s] # "running" \/ \E j \in Jobs : job[j].pc = "closing" /\ job[j].s = s

\* One decision at a time is made about a session.
OneDecision ==
  \A i, j \in Jobs :
    job[i].lock /\ job[j].lock /\ job[i].s = job[j].s => i = j

\* When all tasks have ended, the swarm is marked as told of, or a handler or
\* a check is about to see to it.
AllEnded == tasks # {} /\ \A s \in tasks : Ended(task, s)
FollowedUp ==
  AllEnded => \/ notified \/ BagToSet(checks) # {}
              \/ \E j \in Jobs : job[j].pc = "closing"

\* The steps after which the coordinator relies on what others do next: the
\* verifiers have not decided yet, a session is stopped for a prompt that is
\* out of scope, or a failed one was replaced.
Leaves ==
  \/ \E S \in BagToSet(checks), m \in BOOLEAN : FinishCheck(S, "pending", m)
  \/ inbox # <<>> /\ HandleBlockedEvent /\ KindOf[Event.prompt] = "unsafe"
  \/ \E j \in Jobs : job[j].pc = "replaced" /\ job'[j].pc = "free"

\* Whichever task of a swarm ends last, and however late it is heard of, the
\* end of the swarm is followed up, until the swarm is marked as told of (as a
\* late check of an earlier swarm may do, too): no other step forgets about it.
EndIsFollowedUp == [][FollowedUp => FollowedUp' \/ Leaves]_vars

\* A task whose process is gone comes to an end, whatever it waits for.
TaskEnds ==
  \A s \in Sessions :
    (s \in tasks /\ pty[s] = "gone") ~> (s \notin tasks \/ Ended(task, s))

\* Every decision that was started lets go of its session.
LockReleased == \A s \in Sessions : (s \in inFlight) ~> (s \notin inFlight)
=============================================================================
