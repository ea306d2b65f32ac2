--------------------------- MODULE DbSessionStore ---------------------------
(***************************************************************************)
(* RuntimeDbSessionStore and its WriteQueue: writes are jobs run one after *)
(* another, each a few SQL statements sent to the runtime's adapter; reads *)
(* go to the adapter directly.  A statement and its reply are one step; a  *)
(* statement may be rejected, executed or not.                             *)
(***************************************************************************)
EXTENDS Sequences, SessionRecords

VARIABLES
    table,    \* acp_sessions
    request,  \* request[o]
    step,     \* step[o]: where the operation is suspended
    queue,    \* the jobs chained on WriteQueue.tail, the running one first
    init,     \* initPromise
    fetched,  \* fetched[o]: the row an update read
    stale,    \* stale[o]: the rows a sweep has yet to delete
    answer    \* answer[o]: what a get returned

vars == <<table, request, step, queue, init, fetched, stale, answer>>

Init ==
    /\ table \in EarlierTable
    /\ request = [o \in Ops |-> NoRequest]
    /\ step = [o \in Ops |-> "new"]
    /\ queue = <<>>
    /\ init = "none"
    /\ fetched = [o \in Ops |-> Absent]
    /\ stale = [o \in Ops |-> {}]
    /\ answer = [o \in Ops |-> Absent]

Goto(o, s) == step' = [step EXCEPT ![o] = s]

(* A call: a write is enqueued, a read begins at once.                     *)
Issue(o, r) ==
    /\ step[o] = "new"
    /\ request' = [request EXCEPT ![o] = r]
    /\ IF r.type = "get" THEN Goto(o, "init") /\ UNCHANGED queue
                         ELSE Goto(o, "queued") /\ queue' = Append(queue, o)
    /\ UNCHANGED <<table, init, fetched, stale, answer>>

BeginJob_Eager(o) ==                                       \* mutant
    /\ step[o] = "queued"
    /\ Goto(o, "init")
    /\ UNCHANGED <<table, request, queue, init, fetched, stale, answer>>

(* tail.then(operation, operation): a job starts when the one before it    *)
(* has settled, either way.                                                *)
BeginJob(o) ==
    /\ step[o] = "queued" /\ Head(queue) = o
    /\ Goto(o, "init")
    /\ UNCHANGED <<table, request, queue, init, fetched, stale, answer>>

(* ensureInitialized: the first caller starts the CREATE statements,       *)
(* everyone awaits the same promise, and its outcome is kept for good.     *)
StartInit(o) ==
    /\ step[o] = "init" /\ init = "none"
    /\ init' = "pending"
    /\ UNCHANGED <<table, request, step, queue, fetched, stale, answer>>

FinishInit ==
    /\ init = "pending"
    /\ init' \in {"ok", "rejected"}
    /\ UNCHANGED <<table, request, step, queue, fetched, stale, answer>>

Initialized(o) ==
    /\ step[o] = "init" /\ init = "ok"
    /\ Goto(o, IF request[o].type \in {"create", "delete"} THEN "write" ELSE "select")
    /\ UNCHANGED <<table, request, queue, init, fetched, stale, answer>>

SelectRow(o) ==
    /\ step[o] = "select" /\ request[o].type \in {"patch", "status"}
    /\ fetched' = [fetched EXCEPT ![o] = table[request[o].id]]
    /\ Goto(o, IF table[request[o].id] = Absent THEN "written" ELSE "write")
    /\ UNCHANGED <<table, request, queue, init, stale, answer>>

(* Which of the ended sessions are older than maxAgeMs is left open.       *)
SelectStale(o) ==
    /\ step[o] = "select" /\ request[o].type = "sweep"
    /\ \E S \in SUBSET Sweepable(table) :
          /\ stale' = [stale EXCEPT ![o] = S]
          /\ Goto(o, IF S = {} THEN "written" ELSE "write")
    /\ UNCHANGED <<table, request, queue, init, fetched, answer>>

ReadRow(o) ==
    /\ step[o] = "select" /\ request[o].type = "get"
    /\ answer' = [answer EXCEPT ![o] = table[request[o].id]]
    /\ Goto(o, "done")
    /\ UNCHANGED <<table, request, queue, init, fetched, stale>>

(* INSERT OR REPLACE of the merged row, or DELETE; without a WHERE on what *)
(* was read.                                                               *)
WriteRow(o) ==
    /\ step[o] = "write" /\ request[o].type # "sweep"
    /\ table' = [table EXCEPT ![request[o].id] = Written(o, request[o], fetched[o])]
    /\ Goto(o, "written")
    /\ UNCHANGED <<request, queue, init, fetched, stale, answer>>

DeleteStale(o) ==
    /\ step[o] = "write" /\ request[o].type = "sweep"
    /\ \E i \in stale[o] :
          /\ table' = [table EXCEPT ![i] = Absent]
          /\ stale' = [stale EXCEPT ![o] = @ \ {i}]
          /\ Goto(o, IF stale[o] = {i} THEN "written" ELSE "write")
    /\ UNCHANGED <<request, queue, init, fetched, answer>>

(* The job's promise settles and the next one in the queue may begin.      *)
Dequeue(o) == queue' = IF request[o].type = "get" THEN queue ELSE Tail(queue)

Resolve(o) ==
    /\ step[o] = "written"
    /\ Goto(o, "done")
    /\ Dequeue(o)
    /\ UNCHANGED <<table, request, init, fetched, stale, answer>>

(* A statement is rejected (after it was executed, if the step is          *)
(* "written"), or the initialisation was.                                  *)
Reject(o) ==
    /\ \/ step[o] \in {"select", "write", "written"}
       \/ step[o] = "init" /\ init = "rejected"
    /\ Goto(o, "failed")
    /\ Dequeue(o)
    /\ UNCHANGED <<table, request, init, fetched, stale, answer>>

Proceed(o) ==
    \/ BeginJob(o) \/ StartInit(o) \/ Initialized(o)
    \/ SelectRow(o) \/ SelectStale(o) \/ ReadRow(o)
    \/ WriteRow(o) \/ DeleteStale(o) \/ Resolve(o) \/ Reject(o)

Next ==
    \/ \E o \in Ops : Proceed(o) \/ \E r \in Request : Issue(o, r)
    \/ FinishInit

Spec == Init /\ [][Next]_vars
-----------------------------------------------------------------------------
(* A read has no effect until it has read, a write counts as applied once  *)
(* its statements are executed.                                            *)
Phase(o) ==
    CASE step[o] \in {"new", "done", "failed"} -> step[o]
      [] step[o] = "written" -> "applied"
      [] OTHER -> IF request[o].type = "get" THEN "new" ELSE "pending"
=============================================================================
