------------------------------ MODULE PtyService ------------------------------
(***************************************************************************)
(* The sessions of the reference orchestrator's PTY service (pty-service,  *)
(* pty-init, pty-session-io, pty-spawn, hook-routes), under Bun: a worker  *)
(* process owns the terminals, and a call to it is a message and an answer *)
(* that events may overtake.  Every agent is a Claude session managed by   *)
(* the coordinator, of which only what touches the service is here: it     *)
(* hears a completion, assesses it, and then answers, stops or leaves the  *)
(* session.  A timer is a field that says it is armed and an action that   *)
(* may fire at any time while it is.                                       *)
(* MaxEvents bounds what users, agents and the coordinator start.          *)
(***************************************************************************)
EXTENDS Naturals, Sequences, FiniteSets, SequencesExt

CONSTANTS
  Sessions,        \* ids that spawnSession generates
  Tasked,          \* those with an initial task; nobody uses the others
  Dirs,            \* workdirs
  MaxSessions,     \* serviceConfig.maxConcurrentSessions
  MaxRetries,      \* of the delivery of the initial task
  MaxAge,          \* ticks of a recovery watcher in its five minutes
  MaxTicks,        \* of a watcher that run at a time
  MaxEvents,
  None

ASSUME PtyAssumption ==
  /\ None \notin Sessions \cup Dirs /\ Tasked \subseteq Sessions
  /\ {MaxSessions, MaxRetries, MaxTicks, MaxEvents} \subseteq Nat
  /\ MaxAge \in Nat \ {0}

VARIABLES
  proc,          \* the terminal, as the manager's handle shows it
  worker,        \* whether the worker process lives
  spawn, cwd,    \* how far spawnSession has come, and for which workdir
  svc,           \* the service's maps, by session
  calls,         \* awaited sends, kills and cleanups of a session
  task,          \* the deferred delivery of the initial task
  login,         \* startSessionAuthRecovery and the ticks of its watcher
  valid,         \* whether the provider's credentials are valid
  seeds,         \* claudeConfigWriteQueue, its reads and ~/.claude.json
  gitignore,     \* gitignoreLocks and the .gitignore of each workdir
  hooks,         \* the session that a workdir's settings.json names
  assessing,     \* completions the coordinator is still assessing
  told, fed, stopped,   \* sessions whose end was emitted, that have input
                        \* since they completed, that were stopped
  late,          \* those for which a timer was armed after a stop had begun
  events

files == <<seeds, gitignore, hooks>>
heard == <<assessing, told, fed>>
auth == <<login, valid>>
vars == <<proc, worker, spawn, cwd, svc, calls, task, auth, files, heard,
          stopped, late, events>>

Live(s) == proc[s] \notin {"none", "gone"}
Tell == events < MaxEvents /\ events' = events + 1

Fresh ==
  [workdir |-> FALSE, meta |-> FALSE, buffer |-> FALSE, output |-> FALSE,
   transcript |-> FALSE, reconcile |-> FALSE, since |-> FALSE,
   terminal |-> "none", autoStop |-> FALSE,
   recovery |-> FALSE]

Init ==
  /\ proc = [s \in Sessions |-> "none"] /\ worker = "up"
  /\ spawn = [s \in Sessions |-> "none"] /\ cwd = [s \in Sessions |-> None]
  /\ svc = [s \in Sessions |-> Fresh]
  /\ calls = [s \in Sessions |-> [send |-> 0, kill |-> 0, clean |-> 0]]
  /\ task = [s \in Sessions |-> [phase |-> "none", attempt |-> 0]]
  /\ login = [s \in Sessions |->
                [start |-> "none", ticks |-> 0, nudges |-> 0, age |-> 0]]
  /\ valid = FALSE
  /\ seeds = [queue |-> <<>>, read |-> [s \in Sessions |-> None],
              trusted |-> {}]
  /\ gitignore = [d \in Dirs |-> [lock |-> None, sections |-> 0,
                                  await |-> [s \in Sessions |-> None]]]
  /\ hooks = [d \in Dirs |-> None]
  /\ assessing = {} /\ told = {} /\ fed = {} /\ stopped = {} /\ late = {}
  /\ events = 0

(***************************************************************************)
(* The maps of the service, for one session.                               *)
(***************************************************************************)
ClearCompletionReconcile(r) == [r EXCEPT !.reconcile = FALSE, !.since = FALSE]
CancelTaskCompleteAutoStop(r) == [r EXCEPT !.autoStop = FALSE]

Ends == {"stopped", "error"}
Quiets == Ends \cup {"ready", "task_complete"}

\* emitEvent, with what the coordinator does in it at once: it calls
\* cancelTaskCompleteAutoStop when it hears of a completion.
EmitEvent(s, r, event) ==
  LET quiet == IF event \in Quiets THEN ClearCompletionReconcile(r) ELSE r
      ended == IF event \in Ends
                 THEN [quiet EXCEPT !.recovery = FALSE, !.terminal = event]
                 ELSE quiet
  IN IF event = "task_complete" /\ spawn[s] = "done"
       THEN CancelTaskCompleteAutoStop(ended) ELSE ended

\* What the subscribers and the properties remember of events of one kind.
Heard(S, event) ==
  /\ assessing' = CASE event \in Ends -> assessing \ S
                    [] event = "task_complete"
                         -> assessing \cup {s \in S : spawn[s] = "done"}
                    [] OTHER -> assessing
  /\ told' = IF event \in Ends THEN told \cup S ELSE told
  /\ fed' = IF event = "task_complete" THEN fed \ S ELSE fed

\* What listSessions answers: the live sessions, and all that ever ended.
ListSessions == {s \in Sessions : Live(s) \/ svc[s].terminal # "none"}

(***************************************************************************)
(* spawnSession prepares files for the agent, asks the worker for a        *)
(* terminal and wires the new session.                                     *)
(***************************************************************************)
SpawnUnchanged == UNCHANGED <<worker, calls, auth, heard, stopped, late>>
Goto(s, pc) == spawn' = [spawn EXCEPT ![s] = pc]

\* The count is taken when listSessions answers, and the call goes on at once.
SpawnSession(s, d) ==
  /\ spawn[s] = "none" /\ Cardinality(ListSessions) < MaxSessions
  /\ Goto(s, "seeding") /\ cwd' = [cwd EXCEPT ![s] = d]
  /\ svc' = [svc EXCEPT ![s].workdir = TRUE]
  /\ seeds' = [seeds EXCEPT !.queue = Append(@, s)]
  /\ Tell /\ UNCHANGED <<proc, task, gitignore, hooks>> /\ SpawnUnchanged

\* seedClaudeTrustForWorkdir: one read and write after the other.
SeedTurn_Unchained(s) == s \in ToSet(seeds.queue)
SeedTurn(s) == seeds.queue # <<>> /\ Head(seeds.queue) = s

SeedReads(s) ==
  /\ SeedTurn(s) /\ seeds.read[s] = None
  /\ seeds' = [seeds EXCEPT !.read[s] = seeds.trusted]
  /\ UNCHANGED <<proc, spawn, cwd, svc, task, gitignore, hooks, events>>
  /\ SpawnUnchanged

SeedWrites(s) ==
  /\ SeedTurn(s) /\ seeds.read[s] # None
  /\ seeds' = [queue |-> Tail(seeds.queue),
               read |-> [seeds.read EXCEPT ![s] = None],
               trusted |-> seeds.read[s] \cup {cwd[s]}]
  /\ Goto(s, "settings")
  /\ UNCHANGED <<proc, cwd, svc, task, gitignore, hooks, events>> /\ SpawnUnchanged

\* Memory, approvals and settings.json, whose hooks are replaced.
WritesSettings(s) ==
  /\ spawn[s] = "settings" /\ Goto(s, "ignoring")
  /\ hooks' = [hooks EXCEPT ![cwd[s]] = s]
  /\ UNCHANGED <<proc, cwd, svc, task, seeds, gitignore, events>>
  /\ SpawnUnchanged

\* ensureOrchestratorGitignore waits for the update that runs when it is
\* called, and for no other.  The workdir has a .gitignore already.
Updated_Spawned(holder) == spawn[holder] = "done"
Updated(holder) == spawn[holder] \notin {"reading", "appending"}

EnsureGitignore(s) ==
  LET g == gitignore[cwd[s]]
      await == g.await[s]
      begins == IF await = None THEN g.lock = None
                ELSE Updated(await)
  IN /\ spawn[s] = "ignoring"
     /\ \/ /\ begins /\ Goto(s, "reading")
           /\ gitignore' = [gitignore EXCEPT ![cwd[s]].lock = s,
                                            ![cwd[s]].await[s] = None]
        \/ /\ ~begins /\ await = None /\ UNCHANGED spawn
           /\ gitignore' = [gitignore EXCEPT ![cwd[s]].await[s] = g.lock]
     /\ UNCHANGED <<proc, cwd, svc, task, seeds, hooks, events>>
     /\ SpawnUnchanged

Unlocked(g, s) == [g EXCEPT !.lock = IF @ = s THEN None ELSE @]

ReadsGitignore(s) ==
  LET g == gitignore[cwd[s]]
  IN /\ spawn[s] = "reading"
     /\ \/ /\ g.sections > 0 /\ Goto(s, "spawning")
           /\ gitignore' = [gitignore EXCEPT ![cwd[s]] = Unlocked(g, s)]
        \/ /\ g.sections = 0 /\ Goto(s, "appending") /\ UNCHANGED gitignore
     /\ UNCHANGED <<proc, cwd, svc, task, seeds, hooks, events>>
     /\ SpawnUnchanged

AppendsGitignore(s) ==
  LET g == gitignore[cwd[s]]
  IN /\ spawn[s] = "appending" /\ Goto(s, "spawning")
     /\ gitignore' = [gitignore EXCEPT ![cwd[s]] =
          [Unlocked(g, s) EXCEPT !.sections = @ + 1]]
     /\ UNCHANGED <<proc, cwd, svc, task, seeds, hooks, events>> /\ SpawnUnchanged

WorkerSpawns(s) ==
  /\ spawn[s] = "spawning" /\ worker = "up" /\ proc[s] = "none"
  /\ proc' = [proc EXCEPT ![s] = "starting"]
  /\ UNCHANGED <<spawn, cwd, svc, task, files, events>> /\ SpawnUnchanged

\* setupDeferredTaskDelivery sends at once to a session that is ready.
SetupDeferredTaskDelivery(s) ==
  task' = [task EXCEPT ![s] =
            [attempt |-> 0,
             phase |-> CASE s \notin Tasked -> "none"
                         [] s \in Tasked /\ proc[s] = "ready" -> "settling"
                         [] OTHER -> "waiting"]]

SpawnAnswered(s) ==
  /\ spawn[s] = "spawning" /\ worker = "up" /\ proc[s] # "none"
  /\ Goto(s, "rules")
  /\ svc' = [svc EXCEPT ![s] =
       [@ EXCEPT !.terminal = "none", !.meta = TRUE, !.buffer = TRUE,
                 !.output = TRUE, !.transcript = TRUE]]
  /\ SetupDeferredTaskDelivery(s)
  /\ UNCHANGED <<proc, cwd, files, events>> /\ SpawnUnchanged

\* The map of workdirs keeps its entry.
SpawnFails(s) ==
  /\ spawn[s] = "spawning" /\ (proc[s] = "none" \/ worker = "down")
  /\ Goto(s, "failed")
  /\ UNCHANGED <<proc, cwd, svc, task, files, events>> /\ SpawnUnchanged

RulesPushed(s) ==
  /\ spawn[s] = "rules" /\ Goto(s, "done")
  /\ UNCHANGED <<proc, cwd, svc, task, files, events>> /\ SpawnUnchanged

(***************************************************************************)
(* sendToSession and the reconciliation of a busy session with its screen, *)
(* of which "shown" says that it shows a completed, meaningful turn.       *)
(***************************************************************************)
Unspawned == UNCHANGED <<spawn, cwd, files>>

SendToSession_Armed(s) ==
  /\ calls' = IF Live(s) THEN [calls EXCEPT ![s].send = @ + 1] ELSE calls
  /\ fed' = fed \cup {s} /\ UNCHANGED svc

\* An input cancels the auto-stop; it throws when the session is gone.
SendToSession(s) ==
  /\ svc' = [svc EXCEPT ![s] = CancelTaskCompleteAutoStop(@)]
  /\ calls' = IF Live(s) THEN [calls EXCEPT ![s].send = @ + 1] ELSE calls
  /\ fed' = fed \cup {s}

NothingToReconcile_Gone(status, r) == status \notin {"busy", "gone"}
NothingToReconcile(status, r) == status # "busy" \/ ~r.meta
Reconciled(status, r, shown) ==
  IF NothingToReconcile(status, r) THEN ClearCompletionReconcile(r)
  ELSE [r EXCEPT !.since = shown]

\* The answer of the worker; a timer is set for whatever is there now, and
\* its first tick is run.
SendAnswered(s, ok, shown) ==
  LET status == IF Live(s) THEN "busy" ELSE proc[s]
      r == [ClearCompletionReconcile(svc[s]) EXCEPT !.reconcile = TRUE]
  IN /\ calls[s].send > 0 /\ calls' = [calls EXCEPT ![s].send = @ - 1]
     /\ \/ /\ ok /\ worker = "up"
           /\ proc' = [proc EXCEPT ![s] = status]
           /\ svc' = [svc EXCEPT ![s] = Reconciled(status, r, shown)]
        \/ ~ok /\ ~shown /\ UNCHANGED <<proc, svc>>
     /\ Unspawned
     /\ UNCHANGED <<worker, task, auth, heard, stopped, late, events>>

ReconcileTick(s, shown) ==
  /\ svc[s].reconcile
  /\ svc' = [svc EXCEPT ![s] = Reconciled(proc[s], @, shown)]
  /\ Unspawned
  /\ UNCHANGED <<proc, worker, calls, task, auth, heard, stopped, late,
                 events>>

\* The screen has shown the completed turn for 2.5 seconds.
ReconcileCompletes(s) ==
  /\ svc[s].reconcile /\ svc[s].since /\ ~NothingToReconcile(proc[s], svc[s])
  /\ proc' = [proc EXCEPT ![s] = "ready"]
  /\ svc' = [svc EXCEPT ![s] =
       EmitEvent(s, @, "task_complete")]
  /\ Heard({s}, "task_complete") /\ Unspawned
  /\ UNCHANGED <<worker, calls, task, auth, stopped, late, events>>

(***************************************************************************)
(* The deferred delivery of the initial task.                              *)
(***************************************************************************)
\* The session was ready for some time, looks ready, or 30 seconds passed.
ReadyTimeout(s) ==
  /\ task[s].phase = "waiting"
  /\ task' = [task EXCEPT ![s].phase = "settling"]
  /\ Unspawned
  /\ UNCHANGED <<proc, worker, svc, calls, auth, heard, stopped, late, events>>

\* sendTaskWithRetry, by the timer that settles or by the one that verifies.
Retries(attempt) == attempt < MaxRetries
SendTaskWithRetry(s) ==
  /\ \/ task[s].phase = "settling" /\ task' = [task EXCEPT ![s].phase =
                    IF Retries(0) THEN "verifying" ELSE "done"]
     \/ /\ task[s].phase = "verifying"
        /\ task' = [task EXCEPT ![s] =
             [attempt |-> @.attempt + 1,
              phase |-> IF Retries(@.attempt + 1) THEN "verifying"
                        ELSE "done"]]
  /\ SendToSession(s) /\ Unspawned
  /\ UNCHANGED <<proc, worker, auth, assessing, told, stopped, late, events>>

TaskAccepted(s) ==
  /\ task[s].phase = "verifying" /\ task' = [task EXCEPT ![s].phase = "done"]
  /\ Unspawned
  /\ UNCHANGED <<proc, worker, svc, calls, auth, heard, stopped, late, events>>

(***************************************************************************)
(* stopSession asks the worker to kill, and then, whatever came of it,     *)
(* removes the hooks of the workdir and forgets the session.               *)
(***************************************************************************)
Forgotten(r) ==
  [ClearCompletionReconcile(r) EXCEPT !.meta = FALSE, !.workdir = FALSE,
     !.buffer = FALSE, !.recovery = FALSE, !.transcript = FALSE]

\* The finally block, up to its await of cleanupAgentHooks.
Finally(s, r) ==
  LET quiet == [r EXCEPT !.output = FALSE]
  IN IF r.workdir
       THEN /\ svc' = [svc EXCEPT ![s] = quiet] /\ UNCHANGED stopped
       ELSE /\ svc' = [svc EXCEPT ![s] = Forgotten(quiet)]
            /\ stopped' = stopped \cup {s}
Cleaning(s) == IF svc[s].workdir THEN 1 ELSE 0

StopSession(s) ==
  LET r == CancelTaskCompleteAutoStop(svc[s])
  IN \/ /\ Live(s) /\ svc' = [svc EXCEPT ![s] = r]
        /\ calls' = [calls EXCEPT ![s].kill = @ + 1] /\ UNCHANGED stopped
     \/ /\ ~Live(s) /\ Finally(s, r)
        /\ calls' = [calls EXCEPT ![s].clean = @ + Cleaning(s)]

\* The kill may be refused or go unanswered; what follows is the same.
KillAnswered(s) ==
  /\ calls[s].kill > 0 /\ Finally(s, svc[s])
  /\ calls' = [calls EXCEPT ![s].kill = @ - 1, ![s].clean = @ + Cleaning(s)]
  /\ Unspawned
  /\ UNCHANGED <<proc, worker, task, auth, heard, late, events>>

\* cleanupAgentHooks, whoever's hooks they are.
HooksCleaned(s) ==
  /\ calls[s].clean > 0 /\ calls' = [calls EXCEPT ![s].clean = @ - 1]
  /\ hooks' = [hooks EXCEPT ![cwd[s]] = None]
  /\ svc' = [svc EXCEPT ![s] = Forgotten(@)] /\ stopped' = stopped \cup {s}
  /\ UNCHANGED <<proc, worker, spawn, cwd, task, auth, seeds, gitignore,
                 heard, late, events>>

AutoStop(s) ==
  /\ svc[s].autoStop /\ StopSession(s) /\ Unspawned
  /\ UNCHANGED <<proc, worker, task, auth, heard, late, events>>

\* A stop of the session has begun, or is over.
Stopped(s) == s \in stopped \/ calls[s].kill > 0 \/ calls[s].clean > 0
Arms(s) == late' = IF Stopped(s) THEN late \cup {s} ELSE late

(***************************************************************************)
(* What the agents' hooks, the worker's events, users and the coordinator  *)
(* do.                                                                     *)
(***************************************************************************)
\* A hook is posted by an agent that runs, and may arrive after its end.
Hooked(s) == s \in Tasked /\ spawn[s] \in {"rules", "done"} /\ Tell

\* handleHookEvent arms the auto-stop after the event was emitted.
HookTaskComplete(s) ==
  /\ Hooked(s)
  /\ svc' = [svc EXCEPT ![s] =
       [CancelTaskCompleteAutoStop(EmitEvent(s, @, "task_complete"))
          EXCEPT !.autoStop = TRUE]]
  /\ Arms(s) /\ Heard({s}, "task_complete") /\ Unspawned
  /\ UNCHANGED <<proc, worker, calls, task, auth, stopped>>

HookSessionEnd(s) ==
  /\ Hooked(s)
  /\ svc' = [svc EXCEPT ![s] = EmitEvent(s, @, "stopped")]
  /\ Heard({s}, "stopped") /\ Unspawned
  /\ UNCHANGED <<proc, worker, calls, task, auth, stopped, late>>

Forwards(s, event) ==
  /\ svc' = [svc EXCEPT ![s] = EmitEvent(s, @, event)] /\ Heard({s}, event)
  /\ Unspawned /\ UNCHANGED <<worker, calls, auth, stopped, late>>

SessionReady(s) ==
  /\ s \in Tasked /\ proc[s] \in {"starting", "auth", "busy"}
  /\ proc' = [proc EXCEPT ![s] = "ready"] /\ Forwards(s, "ready")
  /\ task' = [task EXCEPT ![s].phase = IF @ = "waiting" THEN "settling" ELSE @]
  /\ UNCHANGED events

\* The adapter saw the turn end, and its response is captured.
TaskComplete(s) ==
  /\ proc[s] = "busy" /\ proc' = [proc EXCEPT ![s] = "ready"]
  /\ svc' = [svc EXCEPT ![s] =
       EmitEvent(s, @, "task_complete")]
  /\ Heard({s}, "task_complete") /\ Unspawned
  /\ UNCHANGED <<worker, calls, task, auth, stopped, late, events>>

SessionEnds(s, event) ==
  /\ Live(s) /\ proc' = [proc EXCEPT ![s] = "gone"] /\ Forwards(s, event)
  /\ UNCHANGED <<task, events>>

AuthRequired(s) ==
  /\ proc[s] \in {"starting", "busy"} /\ spawn[s] = "done"
  /\ s \in Tasked /\ login[s].start = "none" /\ Tell
  /\ proc' = [proc EXCEPT ![s] = "auth"]
  /\ login' = [login EXCEPT ![s].start = "probing"] /\ Unspawned
  /\ UNCHANGED <<worker, svc, calls, task, valid, heard, stopped, late>>

\* handleWorkerExit reports every session of which a map knows.
Tracked_Meta == {s \in Sessions : svc[s].meta}
Tracked == {s \in Sessions : svc[s].meta \/ svc[s].workdir}

HandleWorkerExit ==
  LET reported == {s \in Tracked : svc[s].terminal = "none"}
  IN /\ worker = "up" /\ worker' = "down"
     /\ proc' = [s \in Sessions |-> IF Live(s) THEN "gone" ELSE proc[s]]
     /\ svc' = [s \in Sessions |-> IF s \in reported
                                      THEN EmitEvent(s, svc[s], "error")
                                      ELSE svc[s]]
     /\ Heard(reported, "error") /\ Unspawned
     /\ UNCHANGED <<calls, task, auth, stopped, late, events>>

UserSends(s) ==
  /\ s \in Tasked /\ spawn[s] = "done" /\ Tell /\ SendToSession(s) /\ Unspawned
  /\ UNCHANGED <<proc, worker, task, auth, assessing, told, stopped, late>>

UserStops(s) ==
  /\ s \in Tasked /\ spawn[s] = "done" /\ Tell /\ StopSession(s) /\ Unspawned
  /\ UNCHANGED <<proc, worker, task, auth, heard, late>>

\* The coordinator's verdict on a completion: it responds, or it completes
\* the task and stops the session, or it leaves it.
Assessed(s) ==
  /\ s \in assessing /\ assessing' = assessing \ {s}
  /\ \/ SendToSession(s) /\ UNCHANGED <<told, stopped>>
     \/ StopSession(s) /\ UNCHANGED <<told, fed>>
     \/ UNCHANGED <<svc, calls, told, fed, stopped>>
  /\ Unspawned /\ UNCHANGED <<proc, worker, task, auth, late, events>>

(***************************************************************************)
(* The recovery of a session that asks for a login.                        *)
(***************************************************************************)
Unwatched ==
  /\ Unspawned
  /\ UNCHANGED <<proc, worker, calls, task, heard, stopped>>
AuthUnchanged == Unwatched /\ UNCHANGED late

LoginGiven ==
  /\ ~valid /\ valid' = TRUE
  /\ UNCHANGED <<login, svc, events>> /\ AuthUnchanged

\* startSessionAuthRecovery: the session is resumed or the login launched.
StartProbed(s) ==
  /\ login[s].start = "probing"
  /\ login' = [login EXCEPT ![s].start = IF valid THEN "nudging"
                                         ELSE "launching"]
  /\ UNCHANGED <<valid, svc, events>> /\ AuthUnchanged

\* monitorSessionAuthRecovery, unless the session has a watcher.
LoginLaunched(s) ==
  /\ login[s].start = "launching"
  /\ svc' = [svc EXCEPT ![s].recovery = TRUE]
  /\ login' = [login EXCEPT ![s] =
       [@ EXCEPT !.start = "none",
                 !.age = IF svc[s].recovery THEN @ ELSE 0]]
  /\ Arms(s) /\ UNCHANGED <<valid, events>> /\ Unwatched

\* Ticks may overlap: a probe runs longer than the interval.
RecoveryTick(s) ==
  /\ svc[s].recovery
  /\ \/ /\ ~Live(s) /\ svc' = [svc EXCEPT ![s].recovery = FALSE]
        /\ UNCHANGED login
     \/ /\ Live(s) /\ login[s].ticks < MaxTicks /\ UNCHANGED svc
        /\ login' = [login EXCEPT ![s].ticks = @ + 1]
  /\ UNCHANGED <<valid, events>> /\ AuthUnchanged

WatchOver_Valid(s) == valid
WatchOver(s) == valid \/ login[s].age >= MaxAge

\* The watcher ends when the login is valid, and then the session is nudged,
\* or when five minutes have passed.
TickProbed(s) ==
  /\ login[s].ticks > 0
  /\ svc' = [svc EXCEPT ![s].recovery = @ /\ ~WatchOver(s)]
  /\ login' = [login EXCEPT ![s] =
       [@ EXCEPT !.ticks = @ - 1, !.age = IF @ < MaxAge THEN @ + 1 ELSE @,
                 !.nudges = IF valid THEN @ + 1 ELSE @]]
  /\ UNCHANGED <<valid, events>> /\ AuthUnchanged

\* resumeSessionAfterRecoveredAuth: the session woke up, or the task is
\* resumed on another one.
Nudged(s) ==
  /\ \/ login[s].start = "nudging" /\ login' = [login EXCEPT ![s].start = "none"]
     \/ login[s].nudges > 0 /\ login' = [login EXCEPT ![s].nudges = @ - 1]
  /\ UNCHANGED <<valid, svc, events>> /\ AuthUnchanged

-----------------------------------------------------------------------------
SpawnContinues(s) ==
  \/ SeedReads(s) \/ SeedWrites(s) \/ WritesSettings(s) \/ EnsureGitignore(s)
  \/ ReadsGitignore(s) \/ AppendsGitignore(s) \/ WorkerSpawns(s)
  \/ SpawnAnswered(s) \/ SpawnFails(s) \/ RulesPushed(s)

Continues(s) ==
  \/ \E ok, shown \in BOOLEAN : SendAnswered(s, ok, shown)
  \/ KillAnswered(s) \/ HooksCleaned(s) \/ StartProbed(s)
  \/ LoginLaunched(s) \/ TickProbed(s) \/ Nudged(s) \/ Assessed(s)

Timer(s) ==
  \/ ReadyTimeout(s) \/ SendTaskWithRetry(s) \/ TaskAccepted(s)
  \/ \E shown \in BOOLEAN : ReconcileTick(s, shown)
  \/ ReconcileCompletes(s) \/ AutoStop(s) \/ RecoveryTick(s)

Event(s) ==
  \/ HookTaskComplete(s) \/ HookSessionEnd(s) \/ SessionReady(s)
  \/ TaskComplete(s) \/ \E e \in Ends : SessionEnds(s, e)
  \/ AuthRequired(s) \/ UserSends(s) \/ UserStops(s)
  \/ \E d \in Dirs : SpawnSession(s, d)

Next ==
  \/ \E s \in Sessions :
       SpawnContinues(s) \/ Continues(s) \/ Timer(s) \/ Event(s)
  \/ HandleWorkerExit \/ LoginGiven

Spec == Init /\ [][Next]_vars
\* Files are written, the worker answers or the call times out, timers fire
\* and probes of the login end.
Fairness ==
  \A s \in Sessions :
    /\ WF_vars(SpawnContinues(s))
    /\ WF_vars(RecoveryTick(s)) /\ WF_vars(TickProbed(s))

FairSpec == Spec /\ Fairness

-----------------------------------------------------------------------------
Flags == {"workdir", "meta", "buffer", "output", "transcript", "reconcile",
          "since", "autoStop", "recovery"}

\* No agent runs in a workdir that is not trusted in ~/.claude.json, or whose
\* .gitignore does not name the injected files: spawns that prepare their
\* workdirs at the same time lose nothing of each other's.
Prepared ==
  \A s \in Sessions : Live(s) =>
    cwd[s] \in seeds.trusted /\ gitignore[cwd[s]].sections > 0

\* A session that was stopped has left nothing in the maps of svc, whatever
\* other calls on it are under way: neither the timer that an input sets when
\* its answer comes after the stop, nor one that was armed before it.  Only a
\* Stop hook handled, or a login launched, after the stop has begun may arm
\* one again.  Its name and how it ended are kept for good, on purpose.
NothingLeft ==
  \A s \in stopped :
    \A f \in Flags : svc[s][f] => f \in {"autoStop", "recovery"} /\ s \in late

\* The end of every session is told to the subscribers, also when the worker
\* dies while its spawn is not yet answered, or somebody has stopped it.
EndIsTold == \A s \in Sessions : proc[s] = "gone" => s \in told \cup stopped

\* A session that was given input since it completed is not stopped by the
\* timer of that completion.
FedIsKept == \A s \in fed : ~svc[s].autoStop

\* Two spawns never wait for each other's files.
SpawnSettles ==
  \A s \in Sessions : spawn[s] = "seeding" ~> spawn[s] \in {"done", "failed"}

\* A recovery watcher ends: the session ended, the login is valid, or five
\* minutes have passed.
RecoveryEnds == \A s \in Sessions : svc[s].recovery ~> ~svc[s].recovery

\* While the coordinator assesses a completion the session is not about to
\* be stopped.
AssessedIsKept == \A s \in assessing : ~svc[s].autoStop
=============================================================================
