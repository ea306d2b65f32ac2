----------------------------- MODULE TaskRegistry -----------------------------
(***************************************************************************)
(* The durable record of one task thread (task-registry.ts), what the      *)
(* coordinator writes to it (swarm-coordinator.ts, swarm-decision-loop.ts) *)
(* and the runner of acceptance verifiers (task-verifier-runner.ts).       *)
(*                                                                         *)
(* A call is one activation of an asynchronous method.  A program is the   *)
(* SQL statements it has still to issue, each awaited before the next; a   *)
(* call runs several programs at once where the code says Promise.all.     *)
(* Statements are served in the order in which they are issued (one        *)
(* connection).  Selects that are issued together are one statement.       *)
(* MaxEvents bounds what befalls sessions, MaxActs what the user does and  *)
(* MaxCrashes the crashes; Calls are the activations under way at a time.  *)
(***************************************************************************)
EXTENDS Naturals, Sequences, FiniteSets, SequencesExt

CONSTANTS
  Sessions,        \* PTY session ids
  Workers,         \* the sessions the plan has a node for, named like them
  Goal,            \* the root node of the plan
  Repo,            \* whether the thread has a repository, and so verifiers
  Emitted,         \* what befalls sessions
  Verdicts,        \* of the validation of a completed task
  UserActs,        \* what the user does with the thread
  Calls,           \* ids of activations, as many as may run at a time
  MaxEvents, MaxActs, MaxCrashes,    \* bounds
  None

Happenings == {"touch", "complete", "stopped", "error", "replaced"}
Acts == {"pause", "stop", "resume", "archive", "reopen", "shutdown"}

ASSUME RegistryAssumption ==
  /\ Sessions \subseteq Nat /\ IsFiniteSet(Sessions) /\ Workers \subseteq Sessions
  /\ Goal \in Nat \ Sessions /\ None \notin Nat
  /\ Repo \in BOOLEAN /\ Emitted \subseteq Happenings
  /\ Verdicts \subseteq {"pass", "revise", "escalate"}
  /\ UserActs \subseteq Acts /\ Calls \subseteq Nat
  /\ {MaxEvents, MaxActs, MaxCrashes} \subseteq Nat

VARIABLES
  phase,         \* "up", "starting", "stopping", "stopped" or "down"
  tasks, mem,    \* the coordinator's contexts: their keys, their statuses
  nodeOf,        \* taskNodeId of a session
  notified,      \* swarmCompleteNotified
  told,          \* the tasks some swarm_complete was about
  verifying,     \* activeVerifierRuns holds the acceptance job
  db,            \* the tables
  call, queue,   \* running calls; the requests the database has, in batches
  overlapped,    \* history: sessions updated while their registration was stored
  events, acts, crashes

memory == <<tasks, mem, nodeOf, notified, told, verifying>>
bounds == <<events, acts, crashes>>
vars == <<phase, memory, db, call, queue, overlapped, bounds>>

Nodes == Workers \cup {Goal}
Live == {"active", "blocked"}
Terminal == {"completed", "stopped", "error"}
Broken == {"failed", "interrupted"}
TerminalNode == Broken \cup {"completed"}
NodeStatus(st) ==
  CASE st = "blocked" -> "blocked" [] st = "completed" -> "completed"
    [] st = "error" -> "failed"    [] st = "stopped" -> "interrupted"
    [] OTHER -> "running"
-----------------------------------------------------------------------------
(* Programs.  A statement is an operation, the row it is about and a value. *)

One(op, x, v) == << <<op, x, v>> >>
\* Statements on what is not modelled: events, artifacts, time stamps.  Those
\* of one method that follow each other are one.
Other == One("other", None, None)
AppendEvent == Other
RecordArtifact == Other
GetThreadRecord == Other
GetThread == Other
GetThreadSummary == Other
GetSession == Other
GetVerifierJob == Other
RecomputeThread == One("threadControl", None, None)
RecomputeGraph == One("readGraph", None, None)

CreateThread == One("addThread", None, None) \o AppendEvent
\* st and control are "keep" when the patch has none; "planned" is the plan.
UpdateThread(st, control) == One("readThread", st, control)
UpdateSummary == GetThreadRecord \o Other
RegisterSession(s) ==
  GetThreadRecord \o One("addRow", s, "active") \o AppendEvent \o RecomputeThread
UpdateSession(s, st) == One("findRow", s, st)
CreateNode(n, st) ==
  One("setNode", n, st) \o AppendEvent \o RecomputeGraph
UpdateNode(n, st) == One("findNode", n, st)
CreateDependency(n) ==
  One("addDep", n, None) \o AppendEvent \o RecomputeGraph
CreateClaim(s) == One("addClaim", s, None) \o AppendEvent
\* The jobs are the completion of a session and the acceptance of the goal,
\* of which each step has a statement of its own.
CreateJob(x, st) == One("setJob", x, st) \o AppendEvent
UpdateJob(x, st) == GetVerifierJob \o One("setJob", x, st)
ExpectAcceptance == One("expect", None, None) \o AppendEvent
RecordEvidence(n) == One("addEvidence", n, None) \o AppendEvent

\* syncTaskContext; what its three parts write is read when they begin.
Sync(s, st) ==
  UpdateSession(s, st) \o One("syncNode", s, None) \o One("findClaim", s, None)
CheckAll(T) == GetThreadRecord \o One("readyVerifiers", T, None)
Verdict(T) == GetThread \o One("verdict", T, None)

PlanGraph ==
  GetThreadRecord \o CreateNode(Goal, "planned")
  \o (IF Repo THEN ExpectAcceptance ELSE <<>>)
  \o One("planNodes", Workers, None) \o UpdateThread("keep", "planned")
Registration(s, n) ==
  << RegisterSession(s), UpdateNode(n, "running"), CreateClaim(s), AppendEvent >>

AllEnded == tasks # {} /\ \A s \in tasks : mem[s] \in Terminal
\* The first of these nodes, the goal before all others.
First(N) == IF Goal \in N THEN Goal ELSE Min(N)
Later(op, N, x) == IF N = {} THEN <<>> ELSE One(op, N, x)
\* What is decided when a statement is issued, not when it is served; and
\* the loops over nodes.
Issued(op, x, v) ==
  CASE op = "sync" -> Sync(x, mem'[x])
    [] op = "syncNode" -> UpdateNode(nodeOf[x], NodeStatus(mem'[x]))
    [] op = "check" -> IF AllEnded' THEN CheckAll(tasks') ELSE <<>>
    [] op = "planNodes" ->
         IF x = {} THEN <<>>
         ELSE CreateNode(First(x), "ready") \o CreateDependency(First(x))
              \o One("planNodes", x \ {First(x)}, None)
    [] op = "setNodes" ->
         One("setNode", First(x), v[First(x)])
         \o Later("setNodes", x \ {First(x)}, v)
Pending == {"sync", "syncNode", "check", "planNodes", "setNodes"}
Issue(p) ==
  IF p = <<>> \/ Head(p)[1] \notin Pending THEN p
  ELSE Issued(Head(p)[1], Head(p)[2], Head(p)[3]) \o Tail(p)
SyncLater(s) == One("sync", s, None)
CheckLater == One("check", None, None)

\* Awaits of something other than the database.
Outside == {"validate", "followUp", "report", "halting", "prompted", "respawn",
            "clear"}
Asks(p) == p # <<>> /\ Head(p)[1] \notin Outside

Free == [par |-> <<>>, next |-> <<>>]
FreeCalls == {c \in Calls : call[c] = Free}
Least(c, S) == c \in S /\ \A d \in S : c <= d

\* What a call becomes when it begins these blocks: the programs of the first
\* one issue their statements.  A block in which nothing is to do is over.
Begun(blocks) ==
  LET Start(k) == [i \in DOMAIN blocks[k] |-> Issue(blocks[k][i])]
      busy == {k \in DOMAIN blocks : \E i \in DOMAIN blocks[k] : Start(k)[i] # <<>>}
  IN IF busy = {} THEN Free
     ELSE [par |-> Start(Min(busy)), next |-> SubSeq(blocks, Min(busy) + 1, Len(blocks))]
Asking(par) == {i \in DOMAIN par : Asks(par[i])}
\* These programs of call c ask the database, in the order of their numbers.
Enqueue(q, c, S) == IF S = {} THEN q ELSE Append(q, <<c, S>>)
\* Call c of the state st of the calls begins these blocks.
Begin(st, c, blocks) ==
  LET v == Begun(blocks)
  IN [call |-> [st.call EXCEPT ![c] = v], queue |-> Enqueue(st.queue, c, Asking(v.par))]
\* Program i of call c goes on with p, its request being answered.
Advance(st, c, i, p) ==
  LET par == [st.call[c].par EXCEPT ![i] = Issue(p)]
  IN IF \E k \in DOMAIN par : par[k] # <<>>
     THEN [call |-> [st.call EXCEPT ![c].par = par],
           queue |-> Enqueue(st.queue, c, {i} \cap Asking(par))]
     ELSE Begin(st, c, st.call[c].next)

\* One of these calls has still to store the registration of s while another
\* one writes what befell s.
Overlap(calls, s) ==
  LET Left(block, ops) ==
        \E i \in DOMAIN block : \E k \in DOMAIN block[i] :
          block[i][k][1] \in ops /\ block[i][k][2] = s
  IN /\ \E c \in Calls : \/ Left(calls[c].par, {"addRow"})
                       \/ \E b \in DOMAIN calls[c].next :
                            Left(calls[c].next[b], {"addRow"})
     /\ \E c \in Calls : Left(calls[c].par, {"findRow", "syncNode", "findClaim"})
Now == [call |-> call, queue |-> queue]
Become(st) ==
  /\ call' = st.call /\ queue' = st.queue
  /\ overlapped' = overlapped \cup {s \in Sessions : Overlap(st.call, s)}
Launch(blocks) ==
  \E c \in Calls : Least(c, FreeCalls) /\ Become(Begin(Now, c, blocks))

\* One thread, its sessions, the nodes of its graph, claims and verifier jobs.
EmptyTables ==
  [row |-> [s \in Sessions |-> "none"],
   node |-> [n \in Nodes |-> "none"],
   deps |-> {}, claims |-> [s \in Sessions |-> {}], claimed |-> 0,
   acceptance |-> "none", completion |-> [s \in Sessions |-> "none"],
   proven |-> {},
   thread |-> [status |-> "none", control |-> "none",
               archived |-> FALSE, planned |-> FALSE]]

Init ==
  /\ phase = "up"
  /\ tasks = {} /\ mem = [s \in Sessions |-> "active"]
  /\ nodeOf = [s \in Sessions |-> None]
  /\ notified = FALSE /\ told = {} /\ verifying = FALSE
  /\ db = EmptyTables
  /\ call = [c \in Calls |-> Free] /\ queue = <<>> /\ overlapped = {}
  /\ events = 0 /\ acts = 0 /\ crashes = 0
-----------------------------------------------------------------------------
(* The database serves the first statement of the queue. *)

Turn == <<Head(queue)[1], Min(Head(queue)[2])>>
Served ==
  LET S == Head(queue)[2] \ {Turn[2]}
  IN IF S = {} THEN Tail(queue) ELSE [queue EXCEPT ![1] = <<Turn[1], S>>]
Statement == Head(call[Turn[1]].par[Turn[2]])
Row == Statement[2]
Value == Statement[3]
Rest == Tail(call[Turn[1]].par[Turn[2]])
Serving(ops) == queue # <<>> /\ Statement[1] \in ops
\* The call goes on with push before what it had left.
Answer(push) ==
  Become(Advance([Now EXCEPT !.queue = Served], Turn[1], Turn[2], push \o Rest))
Reads(push) == /\ UNCHANGED <<phase, memory, db, bounds>> /\ Answer(push)
Writes(rows) ==
  /\ db' = rows /\ UNCHANGED <<phase, memory, bounds>> /\ Answer(<<>>)

ServeOther == Serving({"other"}) /\ Reads(<<>>)

\* Sessions.
FindRow_Raw ==
  /\ Serving({"findRow"})
  /\ Reads(IF db.row[Row] = "none" THEN <<>>
           ELSE GetSession \o One("setRow", Row, Value) \o AppendEvent)
FindRow ==
  /\ Serving({"findRow"})
  /\ Reads(IF db.row[Row] = "none" THEN <<>>
           ELSE GetSession \o One("setRow", Row, Value) \o AppendEvent
                \o RecomputeThread)
SetRow ==
  Serving({"addRow", "setRow"}) /\ Writes([db EXCEPT !.row[Row] = Value])

\* The thread.
AddThread == Serving({"addThread"}) /\ Writes([db EXCEPT !.thread.status = "open"])
ReadThread ==
  /\ Serving({"readThread"})
  /\ Reads(LET t == db.thread
               Or(v, old) == IF v \in {"keep", "planned"} THEN old ELSE v
           IN One("setThread", None,
                  [t EXCEPT !.status = Or(Row, @), !.control = Or(Value, @),
                            !.planned = @ \/ Value = "planned"]))
SetThread == Serving({"setThread"}) /\ Writes([db EXCEPT !.thread = Value])
ArchiveThread ==
  /\ Serving({"archive"})
  /\ Writes([db EXCEPT !.thread.status = "archived", !.thread.archived = TRUE])
ReopenThread ==
  /\ Serving({"reopen"})
  /\ Writes([db EXCEPT !.thread.status = "open", !.thread.archived = FALSE])
ThreadControl ==
  /\ Serving({"threadControl"})
  /\ Reads(IF db.thread.archived THEN <<>>
           ELSE One("readRows", None, db.thread.control))
\* What recomputeThreadStatus makes of the rows of the sessions.
ThreadStatus(row, control) ==
  LET Some(sts) == \E s \in Sessions : row[s] \in sts
      known == {s \in Sessions : row[s] # "none"}
  IN CASE control = "paused" /\ ~Some(Live) -> "waiting_on_user"
       [] control = "stopped" /\ ~Some(Live) -> "interrupted"
       [] known = {} -> "open"
       [] Some({"active"}) -> "active"
       [] Some({"blocked"}) -> "blocked"
       [] Some({"interrupted", "stopped"}) -> "interrupted"
       [] \A s \in known : row[s] = "completed" -> "done"
       [] OTHER -> "failed"
ReadRows ==
  Serving({"readRows"}) /\ Reads(One("setStatus", None, ThreadStatus(db.row, Value)))
SetThreadStatus ==
  Serving({"setStatus"}) /\ Writes([db EXCEPT !.thread.status = Value])

\* The graph of nodes.
FindNode ==
  /\ Serving({"findNode"})
  /\ Reads(IF db.node[Row] = "none" THEN <<>>
           ELSE One("setNode", Row, IF Value = "keep" THEN db.node[Row] ELSE Value)
                \o AppendEvent \o RecomputeGraph)
SetNode == Serving({"setNode"}) /\ Writes([db EXCEPT !.node[Row] = Value])
AddDependency ==
  Serving({"addDep"}) /\ Writes([db EXCEPT !.deps = @ \cup {Row}])
\* A node that is under way or at its end is left alone.
Derived(node, deps, n) ==
  LET on == {node[w] : w \in IF n = Goal THEN deps ELSE {}}
  IN CASE node[n] \in TerminalNode \cup {"none", "running", "blocked"} -> node[n]
       [] n = Goal /\ on # {} /\ on = {"completed"} -> "completed"
       [] n = Goal /\ on # {} -> IF on \cap Broken # {} THEN "failed" ELSE "planned"
       [] OTHER -> "ready"
ReadGraph ==
  /\ Serving({"readGraph"})
  /\ LET Next(n) == Derived(db.node, db.deps, n)
         changed == {n \in Nodes : Next(n) # db.node[n]}
     IN Reads(Later("setNodes", changed, [n \in changed |-> Next(n)]))

\* Claims.
AddClaim ==
  /\ Serving({"addClaim"})
  /\ Writes([db EXCEPT !.claims[Row] = @ \cup {db.claimed + 1}, !.claimed = @ + 1])
FindClaim_Kept ==
  /\ Serving({"findClaim"})
  /\ Reads(IF mem[Row] \notin Terminal /\ db.claims[Row] = {} THEN CreateClaim(Row)
           ELSE <<>>)
FindClaim ==
  /\ Serving({"findClaim"})
  /\ Reads(CASE mem[Row] \in Terminal /\ db.claims[Row] # {} ->
                  Other \o One("endClaim", Row, Max(db.claims[Row]))
             [] mem[Row] \notin Terminal /\ db.claims[Row] = {} -> CreateClaim(Row)
             [] OTHER -> <<>>)
EndClaim ==
  Serving({"endClaim"}) /\ Writes([db EXCEPT !.claims[Row] = @ \ {Value}])

\* Verifier jobs and evidence.
SetJob ==
  Serving({"setJob"}) /\ Writes([db EXCEPT !.completion[Row] = Value])
ServeExpect == Serving({"expect"}) /\ Writes([db EXCEPT !.acceptance = "pending"])
AddEvidence ==
  Serving({"addEvidence"}) /\ Writes([db EXCEPT !.proven = @ \cup {Row}])
-----------------------------------------------------------------------------
(* runReadyTaskVerifiers and the verdict on the swarm. *)

AcceptanceReady ==
  /\ db.acceptance = "pending"
  /\ \A n \in Nodes : db.node[n] \in TerminalNode \cup {"none"}
ReadyVerifiers_Twice ==
  /\ Serving({"readyVerifiers"})
  /\ verifying' = (verifying \/ AcceptanceReady)
  /\ UNCHANGED <<phase, tasks, mem, nodeOf, notified, told, db, bounds>>
  /\ Answer(IF AcceptanceReady THEN GetVerifierJob \o One("begin", Row, None)
            ELSE Verdict(Row))
ReadyVerifiers ==
  /\ Serving({"readyVerifiers"})
  /\ LET run == AcceptanceReady /\ ~verifying
     IN /\ verifying' = (verifying \/ run)
        /\ UNCHANGED <<phase, tasks, mem, nodeOf, notified, told, db, bounds>>
        /\ Answer(IF run THEN GetVerifierJob \o One("begin", Row, None)
                  ELSE Verdict(Row))
\* A statement on the acceptance; the call goes on with push.
Accepts(st, push) ==
  /\ db' = [db EXCEPT !.acceptance = st] /\ UNCHANGED <<phase, memory, bounds>>
  /\ Answer(push)
BeginRun ==
  Serving({"begin"}) /\ Accepts("running", AppendEvent \o One("evaluate", Row, None))
\* collectAcceptancePrerequisiteFailures
Proven(n) ==
  \/ n \in db.proven
  \/ \E s \in Sessions : nodeOf[s] = n /\ db.completion[s] = "passed"
PrerequisitesFail_Ended ==
  \E n \in Workers : db.node[n] = "completed" /\ ~Proven(n)
PrerequisitesFail ==
  \E n \in Workers : \/ db.node[n] \in Broken
                     \/ db.node[n] = "completed" /\ ~Proven(n)
Evaluate ==
  Serving({"evaluate"}) /\ Reads(One("report", Row, PrerequisitesFail))
\* finalizeAcceptanceJob, or the catch block of runReadyTaskVerifiers, from
\* the job on.
Finalized(outcome) ==
  CASE outcome = "pass" ->
         RecordArtifact \o RecordEvidence(Goal) \o AppendEvent
         \o UpdateNode(Goal, "keep") \o GetThread
    [] outcome = "fail" ->
         RecordArtifact \o RecordEvidence(Goal) \o AppendEvent
         \o UpdateNode(Goal, "failed") \o GetThread
    [] OTHER -> AppendEvent \o UpdateNode(Goal, "failed")
Decide_Unwritten ==
  /\ Serving({"decide"})
  /\ Accepts(CASE Value = "pass" -> "passed" [] Value = "throw" -> "running"
               [] OTHER -> "failed",
             Finalized(Value) \o One("release", Row, None))
Decide ==
  /\ Serving({"decide"})
  /\ Accepts(IF Value = "pass" THEN "passed" ELSE "failed",
             Finalized(Value) \o One("release", Row, None))
\* The finally block ends the run; the thread is read again for the verdict.
Release ==
  /\ Serving({"release"}) /\ verifying' = FALSE
  /\ UNCHANGED <<phase, tasks, mem, nodeOf, notified, told, db, bounds>>
  /\ Answer(Verdict(Row))

Unfinished(job) == job \in {"pending", "running"}
JobsIn(Is(_)) == Is(db.acceptance) \/ \E s \in Sessions : Is(db.completion[s])
FinishCheck_Unverified ==
  /\ Serving({"verdict"}) /\ UNCHANGED <<phase, tasks, mem, nodeOf, verifying, db, bounds>>
  /\ Answer(<<>>)
  /\ LET failing == db.node[Goal] \in Broken \/ JobsIn(LAMBDA j : j = "failed")
         said == \E s \in Row : mem[s] = "completed"
     IN IF db.node[Goal] \notin TerminalNode \/ notified
        THEN UNCHANGED <<notified, told>>
        ELSE /\ notified' = TRUE
             /\ told' = IF failing /\ ~said THEN told ELSE told \cup Row
FinishCheck ==
  /\ Serving({"verdict"}) /\ UNCHANGED <<phase, tasks, mem, nodeOf, verifying, db, bounds>>
  /\ Answer(<<>>)
  /\ LET failing == db.node[Goal] \in Broken \/ JobsIn(LAMBDA j : j = "failed")
         said == \E s \in Row : mem[s] = "completed"
     IN IF db.node[Goal] \notin TerminalNode \/ JobsIn(Unfinished) \/ notified
        THEN UNCHANGED <<notified, told>>
        ELSE /\ notified' = TRUE
             /\ told' = IF failing /\ ~said THEN told ELSE told \cup Row
-----------------------------------------------------------------------------
(* Answers of the model, the validator and the PTY service. *)

\* Program i of call c waits for what, which is not the database.
Waits(c, i, what) ==
  /\ i \in DOMAIN call[c].par /\ call[c].par[i] # <<>>
  /\ Head(call[c].par[i])[1] = what
Subject(c, i) == Head(call[c].par[i])[2]
Detail(c, i) == Head(call[c].par[i])[3]
Resolve(c, i, push) == Become(Advance(Now, c, i, push \o Tail(call[c].par[i])))
InMemory == UNCHANGED <<phase, tasks, nodeOf, notified, told, verifying, db, bounds>>

Reported(c, i) ==
  /\ Waits(c, i, "report") /\ UNCHANGED <<phase, memory, db, bounds>>
  /\ \E outcome \in {"pass", "fail", "throw"} :
       /\ Detail(c, i) => outcome # "pass"
       /\ Resolve(c, i, GetVerifierJob \o One("decide", Subject(c, i), outcome))

\* The end of executeDecision(complete).
Completed(s) ==
  << << SyncLater(s), UpdateSummary, AppendEvent, AppendEvent >>
     \o (IF Repo THEN << UpdateJob(s, "passed"), RecordEvidence(nodeOf[s]) >>
         ELSE <<>>),
     << CheckLater >> >>
Unproved(s, verdict) ==
  << << SyncLater(s), AppendEvent >>
     \o (IF Repo THEN << UpdateJob(s, "failed"), RecordEvidence(nodeOf[s]) >>
         ELSE <<>>),
     << One("followUp", s, verdict) >> >>
Becomes(s, st) == mem' = [mem EXCEPT ![s] = st]
\* Program i of call c, the last of its block, is followed by these blocks.
Goes(c, i, blocks) ==
  Become(Advance([Now EXCEPT !.call[c].next = blocks], c, i, Tail(call[c].par[i])))
Validated(c, i) ==
  /\ Waits(c, i, "validate") /\ InMemory
  /\ LET s == Subject(c, i)
     IN \E verdict \in Verdicts :
          /\ Becomes(s, CASE verdict = "pass" -> "completed"
                          [] verdict = "revise" -> "active"
                          [] verdict = "escalate" -> "blocked")
          /\ Goes(c, i, IF verdict = "pass" THEN Completed(s) ELSE Unproved(s, verdict))
\* A revised task gets its prompt and is then completed like any other.
FollowedUp(c, i) ==
  /\ Waits(c, i, "followUp") /\ InMemory
  /\ LET s == Subject(c, i)
     IN IF Detail(c, i) = "revise"
        THEN UNCHANGED mem /\ Goes(c, i, << <<SyncLater(s)>>, <<One("followUp", s, "sent")>> >>)
        ELSE Becomes(s, "completed") /\ Goes(c, i, Completed(s))

\* stopLiveThreadSessions, from one session to the next.
Paused(control) ==
  UpdateThread(IF control = "paused" THEN "waiting_on_user" ELSE "interrupted", control)
  \o AppendEvent
StopLive(ids, control, Go(_)) ==
  IF ids = {} THEN UNCHANGED mem /\ Go(Paused(control))
  ELSE \E s \in ids :
         /\ IF s \in tasks THEN Becomes(s, "stopped") ELSE UNCHANGED mem
         /\ Go((IF s \in tasks THEN SyncLater(s) ELSE <<>>)
               \o One("halting", ids \ {s}, control))
FindLive ==
  /\ Serving({"findLive"}) /\ InMemory
  /\ StopLive({s \in tasks : mem[s] \in Live}, Value, Answer)
Halted(c, i) ==
  /\ Waits(c, i, "halting") /\ InMemory
  /\ StopLive(Subject(c, i), Detail(c, i), LAMBDA p : Resolve(c, i, p))

Resumed == UpdateThread("active", "none") \o AppendEvent
\* Pause or stop has ended every session, or one still lives.
FindResumable ==
  /\ Serving({"findResumable"}) /\ UNCHANGED <<phase, memory, db, bounds>>
  /\ \/ \E s \in tasks : mem[s] \in Live /\ Answer(One("prompted", s, None))
     \/ /\ \A s \in tasks : mem[s] \notin Live
        /\ Answer(IF \A s \in Sessions : db.row[s] = "none" THEN <<>>
                  ELSE One("respawn", None, None))
Prompted(c, i) ==
  /\ Waits(c, i, "prompted") /\ InMemory
  /\ Becomes(Subject(c, i), "active")
  /\ Resolve(c, i, SyncLater(Subject(c, i)) \o Resumed)

\* The part of registerTask that does not wait.
Register(s, n) ==
  LET fresh == \A t \in tasks : mem[t] \in Terminal
  IN /\ tasks' = (IF fresh THEN {} ELSE tasks) \cup {s}
     /\ notified' = (IF fresh THEN FALSE ELSE notified)
     /\ Becomes(s, "active") /\ nodeOf' = [nodeOf EXCEPT ![s] = n]
     /\ UNCHANGED <<phase, told, verifying, db>>
Persist(s, n) == << <<GetThreadRecord>>, Registration(s, n) >>
Unused == {s \in Sessions \ Workers : nodeOf[s] = None}
Respawned(c, i) ==
  /\ Waits(c, i, "respawn") /\ UNCHANGED bounds
  /\ \E r \in Unused, n \in {nodeOf[s] : s \in Sessions} \ {None}, d \in Calls :
       /\ Register(r, n) /\ Least(d, FreeCalls)
       /\ Become(Advance(Begin(Now, d, Persist(r, n)), c, i, Resumed \o Tail(call[c].par[i])))
-----------------------------------------------------------------------------
(* What befalls sessions. *)

PlanThread ==
  /\ phase = "up" /\ db = EmptyTables /\ FreeCalls = Calls
  /\ UNCHANGED <<phase, memory, db, bounds>>
  /\ Launch(<< <<CreateThread \o GetThreadSummary \o PlanGraph>> >>)

RegisterTask(s) ==
  /\ phase = "up" /\ db.thread.planned /\ s \in Workers /\ nodeOf[s] = None
  /\ \A w \in Workers : w < s => nodeOf[w] # None
  /\ Register(s, s) /\ Launch(Persist(s, s)) /\ UNCHANGED bounds

Listening == phase \in {"up", "stopping"}
Befalls(s, what) ==
  /\ Listening /\ s \in tasks /\ what \in Emitted /\ events < MaxEvents
  /\ events' = events + 1 /\ UNCHANGED <<acts, crashes>>

Touched(s, st) ==
  /\ Befalls(s, "touch") /\ mem[s] \in Live /\ Becomes(s, st)
  /\ UNCHANGED <<phase, tasks, nodeOf, notified, told, verifying, db>>
  /\ Launch(<< <<IF st = "blocked" THEN SyncLater(s) \o SyncLater(s)
                 ELSE SyncLater(s)>> >>)

\* The coordinator decides that the task of s is complete; the session's
\* record is read for a validator.
Complete(s) ==
  /\ Befalls(s, "complete") /\ mem[s] \in Live /\ db.completion[s] # "running"
  /\ Becomes(s, "active")
  /\ UNCHANGED <<phase, tasks, nodeOf, notified, told, verifying, db>>
  /\ Launch(<< <<SyncLater(s), AppendEvent>>,
               <<GetSession \o (IF Repo THEN CreateJob(s, "running") ELSE <<>>)
                 \o One("validate", s, None)>> >>)

\* The check starts before the end of the task is written.
SessionStopped(s) ==
  /\ Befalls(s, "stopped")
  /\ Becomes(s, IF mem[s] \in {"completed", "error"} THEN mem[s] ELSE "stopped")
  /\ UNCHANGED <<phase, tasks, nodeOf, notified, told, verifying, db>>
  /\ Launch(<< <<AppendEvent>>, <<CheckLater, SyncLater(s)>> >>)

SessionErred(s) ==
  /\ Befalls(s, "error") /\ Becomes(s, "error")
  /\ UNCHANGED <<phase, tasks, nodeOf, notified, told, verifying, db>>
  /\ Launch(<< <<AppendEvent>>, <<CheckLater, SyncLater(s)>> >>)

\* The same when attemptTaskRecovery found a replacement: it works on the
\* node of s, and nothing is checked.
SessionReplaced(s) ==
  /\ Befalls(s, "replaced")
  /\ UNCHANGED <<phase, told, verifying, db>>
  /\ \E r \in Unused, c, d \in Calls :
       LET fresh == \A t \in tasks : mem[t] \in Terminal
       IN /\ tasks' = (IF fresh THEN {} ELSE tasks) \cup {r}
          /\ notified' = (IF fresh THEN FALSE ELSE notified)
          /\ mem' = [mem EXCEPT ![s] = "error", ![r] = "active"]
          /\ nodeOf' = [nodeOf EXCEPT ![r] = nodeOf[s]]
          /\ Least(c, FreeCalls) /\ Least(d, FreeCalls \ {c})
          /\ Become(Begin(Begin(Now, c, Persist(r, nodeOf[s])), d,
                          << <<AppendEvent \o AppendEvent \o SyncLater(s)>> >>))
-----------------------------------------------------------------------------
(* The user and the process. *)

Act(what) ==
  /\ phase = "up" /\ what \in UserActs /\ acts < MaxActs /\ db.thread.planned
  /\ acts' = acts + 1 /\ UNCHANGED <<events, crashes>>
PauseThread(what) ==
  /\ Act(what) /\ UNCHANGED <<phase, memory, db>>
  /\ Launch(<< <<GetThread \o One("findLive", None,
                    IF what = "pause" THEN "paused" ELSE "stopped")>> >>)
ResumeThread ==
  /\ Act("resume") /\ UNCHANGED <<phase, memory, db>>
  /\ Launch(<< <<GetThread \o One("findResumable", None, None)>> >>)
Archive ==
  /\ Act("archive") /\ UNCHANGED <<phase, memory, db>>
  /\ Launch(<< <<One("archive", None, None) \o AppendEvent>> >>)
Reopen ==
  /\ Act("reopen") /\ UNCHANGED <<phase, memory, db>>
  /\ Launch(<< <<One("reopen", None, None) \o AppendEvent \o RecomputeThread>> >>)

\* stop(): the sessions that live are interrupted, then all is forgotten.
Shutdown ==
  LET L == {s \in tasks : mem[s] \in Live}
  IN /\ Act("shutdown") /\ phase' = "stopping"
     /\ mem' = [s \in Sessions |-> IF s \in L THEN "stopped" ELSE mem[s]]
     /\ UNCHANGED <<tasks, nodeOf, notified, told, verifying, db>>
     /\ Launch(<< [k \in 1 .. Cardinality(L) |->
                     UpdateSession(SetToSortSeq(L, <)[k], "interrupted") \o AppendEvent],
                  << One("clear", None, None) >> >>)
     /\ UNCHANGED <<events, crashes>>
Forget == tasks' = {} /\ notified' = FALSE
Cleared(c, i) ==
  /\ Waits(c, i, "clear") /\ Forget /\ phase' = "stopped" /\ Resolve(c, i, <<>>)
  /\ UNCHANGED <<mem, nodeOf, told, verifying, db, bounds>>

\* The process ends, with calls under way: after stop(), or when it crashes.
ProcessEnds ==
  /\ phase # "down" /\ phase' = "down"
  /\ IF phase = "stopped" THEN UNCHANGED bounds
     ELSE crashes < MaxCrashes /\ crashes' = crashes + 1 /\ UNCHANGED <<events, acts>>
  /\ Forget /\ verifying' = FALSE /\ mem' = [s \in Sessions |-> "active"]
  /\ call' = [c \in Calls |-> Free] /\ queue' = <<>> /\ overlapped' = {}
  /\ UNCHANGED <<nodeOf, told, db>>

\* start(): recoverInterruptedTasks, then rehydratePendingDecisions, which
\* finds none.
StartUp ==
  /\ phase = "down" /\ phase' = "starting" /\ UNCHANGED <<memory, db, bounds>>
  /\ Launch(<< <<One("findInterrupted", None, None)>> >>)
FindInterrupted ==
  /\ Serving({"findInterrupted"})
  /\ LET n == Cardinality({s \in Sessions : db.row[s] \in Live})
     IN Reads((IF n = 0 THEN <<>>
               ELSE One("interruptRows", None, None) \o Other \o RecomputeThread)
              \o One("started", None, None))
InterruptRows_Active ==
  /\ Serving({"interruptRows"})
  /\ Writes([db EXCEPT !.row = [s \in Sessions |->
                                  IF @[s] = "active" THEN "interrupted" ELSE @[s]]])
InterruptRows ==
  /\ Serving({"interruptRows"})
  /\ Writes([db EXCEPT !.row = [s \in Sessions |->
                                  IF @[s] \in Live THEN "interrupted" ELSE @[s]]])
Started ==
  /\ Serving({"started"}) /\ phase' = "up" /\ UNCHANGED <<memory, db, bounds>>
  /\ Answer(<<>>)
-----------------------------------------------------------------------------
Serve ==
  \/ ServeOther \/ FindRow \/ SetRow \/ AddThread \/ ReadThread \/ SetThread
  \/ ArchiveThread \/ ReopenThread \/ ThreadControl \/ ReadRows \/ SetThreadStatus
  \/ FindNode \/ SetNode \/ AddDependency \/ ReadGraph \/ AddClaim \/ FindClaim
  \/ EndClaim \/ SetJob \/ ServeExpect \/ AddEvidence \/ ReadyVerifiers \/ BeginRun
  \/ Evaluate \/ Decide \/ Release \/ FinishCheck
  \/ FindLive \/ FindResumable \/ FindInterrupted \/ InterruptRows
  \/ Started
Answered(c) ==
  \E i \in DOMAIN call[c].par :
    \/ Reported(c, i) \/ Validated(c, i) \/ FollowedUp(c, i) \/ Halted(c, i)
    \/ Prompted(c, i) \/ Respawned(c, i) \/ Cleared(c, i)
Befall(s) ==
  \/ \E st \in Live : Touched(s, st)
  \/ Complete(s) \/ SessionStopped(s) \/ SessionErred(s) \/ SessionReplaced(s)
User ==
  \/ \E what \in {"pause", "stop"} : PauseThread(what)
  \/ ResumeThread \/ Archive \/ Reopen \/ Shutdown
Next ==
  \/ Serve \/ \E c \in Calls : Answered(c)
  \/ PlanThread \/ User \/ ProcessEnds \/ StartUp
  \/ \E s \in Sessions : RegisterTask(s) \/ Befall(s)

Spec == Init /\ [][Next]_vars
-----------------------------------------------------------------------------
(* Properties. *)

AtRest == phase = "up" /\ FreeCalls = Calls

\* When the writes have been served, the record of a task says what the
\* coordinator knows of it: its row, its node, and one claim while it lives.
\* (Not when something befell it while its registration was being stored: the
\* "active" and "running" of the registration may then be written last, and a
\* second claim.)
RecordFollowsMemory ==
  AtRest => \A s \in tasks \ overlapped :
    /\ db.row[s] = mem[s] /\ db.node[nodeOf[s]] = NodeStatus(mem[s])
    /\ Cardinality(db.claims[s]) = IF mem[s] \in Live THEN 1 ELSE 0

\* And the thread has the status that its sessions give it.
ThreadFollowsSessions ==
  AtRest /\ ~db.thread.archived /\ db.thread.planned =>
    db.thread.status = ThreadStatus(db.row, db.thread.control)


\* The acceptance of a thread is decided once.
AcceptanceOnce ==
  [][db'.acceptance # db.acceptance =>
       <<db.acceptance, db'.acceptance>> \in
         {<<"none", "pending">>, <<"pending", "running">>,
          <<"running", "passed">>, <<"running", "failed">>}]_db

\* Only what was proven is accepted.
AcceptedIsProven ==
  db.acceptance = "passed" => \A w \in Workers : db.node[w] = "completed" /\ Proven(w)

\* What is announced is on record: when a swarm is said to have ended, the
\* rows and the nodes of all its tasks are at their end, and so is the
\* verification, although the announcement rests on what is in memory.  (The
\* row may lag behind for good if its registration was overtaken.)
AnnouncedIsRecorded ==
  [][told' # told =>
       /\ db.acceptance \notin {"pending", "running"}
       /\ \A s \in tasks : /\ db.node[nodeOf[s]] \in TerminalNode
                           /\ db.row[s] \in Terminal \/ s \in overlapped]_told

\* After a restart no session is believed to live that nobody supervises,
\* unless an event was handled while its registration was being stored.  (Of
\* one event: when the session that a resumption prompts has ended and was
\* forgotten meanwhile, its row becomes active.)
NoGhosts ==
  AtRest =>
    \A s \in Sessions : db.row[s] \in Live => s \in tasks \cup overlapped

\* A job that is being verified is held by the run that verifies it, until the
\* run has decided it: only the end of the process leaves it running.  (It is
\* left so for good then, as only a pending job is taken up.)
RunningIsHeld ==
  [][(db.acceptance = "running" => verifying) =>
       \/ db'.acceptance = "running" => verifying'
       \/ phase' = "down"]_vars
=============================================================================
