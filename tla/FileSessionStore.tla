--------------------------- MODULE FileSessionStore ---------------------------
(***************************************************************************)
(* FileSessionStore: each process keeps all sessions in memory, loads the  *)
(* JSON file once, and rewrites the whole file after every write under a   *)
(* lock file (O_EXCL), through a temporary file and rename.  Processes     *)
(* that share the file share nothing else; a process may crash at any      *)
(* point and start again.                                                  *)
(***************************************************************************)
EXTENDS Sequences, Naturals, SessionRecords

CONSTANTS
    Processes,   \* processes with a store on the file
    MaxCrashes,  \* bound on crashes
    Faulty       \* may the file system reject an operation?

ASSUME FileAssumption ==
    /\ MaxCrashes \in Nat
    /\ Faulty \in BOOLEAN

VARIABLES
    file,      \* the sessions in the file; an unreadable file has none
    lockFile,  \* does the lock file exist?
    sessions,  \* sessions[p]: the map in p's memory
    loaded,    \* loaded[p]
    queue,     \* queue[p]: the jobs on p's WriteQueue, the running one first
    temp,      \* temp[p]: the content of p's temporary file
    request,   \* request[o]
    owner,     \* owner[o]: the process o was called in
    step,      \* step[o]: where the operation is suspended
    answer,    \* answer[o]: what a get returned
    crashes,   \* crashes so far
    forgotten  \* history: acknowledged before a load failed to read them

vars == <<file, lockFile, sessions, loaded, queue, temp, request, owner, step,
          answer, crashes, forgotten>>

Empty == [i \in Ids |-> Absent]

Init ==
    /\ file \in EarlierTable
    /\ lockFile = FALSE
    /\ sessions = [p \in Processes |-> Empty]
    /\ loaded = [p \in Processes |-> FALSE]
    /\ queue = [p \in Processes |-> <<>>]
    /\ temp = [p \in Processes |-> Empty]
    /\ request = [o \in Ops |-> NoRequest]
    /\ owner \in [Ops -> Processes]
    /\ step = [o \in Ops |-> "new"]
    /\ answer = [o \in Ops |-> Absent]
    /\ crashes = 0
    /\ forgotten = {}

Goto(o, s) == step' = [step EXCEPT ![o] = s]
Running_Eager(o) == queue[owner[o]] # <<>>                 \* mutant
Running(o) == queue[owner[o]] # <<>> /\ Head(queue[owner[o]]) = o
Enqueued(o) == [queue EXCEPT ![owner[o]] = Append(@, o)]
Dequeued(o) == [queue EXCEPT ![owner[o]] = Tail(@)]

(* Every method awaits load() first; until the file is loaded that is a    *)
(* job of its own on the queue.                                            *)
Issue(o, r) ==
    /\ step[o] = "new"
    /\ request' = [request EXCEPT ![o] = r]
    /\ IF loaded[owner[o]] THEN Goto(o, "ready") /\ UNCHANGED queue
                           ELSE Goto(o, "load") /\ queue' = Enqueued(o)
    /\ UNCHANGED <<file, lockFile, sessions, loaded, temp, owner, answer,
                   crashes, forgotten>>

Load_Skipped(o) ==                                         \* mutant
    /\ step[o] = "load" /\ Running(o)
    /\ loaded' = [loaded EXCEPT ![owner[o]] = TRUE]
    /\ queue' = Dequeued(o)
    /\ Goto(o, "ready")
    /\ UNCHANGED <<file, lockFile, sessions, temp, request, owner, answer,
                   crashes, forgotten>>

(* A file that is missing, or is no JSON array, holds no sessions.         *)
Load(o) ==
    /\ step[o] = "load" /\ Running(o)
    /\ sessions' = IF loaded[owner[o]] THEN sessions
                   ELSE [sessions EXCEPT ![owner[o]] = file]
    /\ loaded' = [loaded EXCEPT ![owner[o]] = TRUE]
    /\ queue' = Dequeued(o)
    /\ Goto(o, "ready")
    /\ UNCHANGED <<file, lockFile, temp, request, owner, answer, crashes,
                   forgotten>>

(* Any other failure to read the file (too many open files, no permission, *)
(* an I/O error) makes the store begin empty too, over a file that may     *)
(* hold sessions.                                                          *)
LoadFails(o) ==
    /\ Faulty
    /\ step[o] = "load" /\ Running(o)
    /\ ~loaded[owner[o]]
    /\ sessions' = [sessions EXCEPT ![owner[o]] = Empty]
    /\ loaded' = [loaded EXCEPT ![owner[o]] = TRUE]
    /\ queue' = Dequeued(o)
    /\ Goto(o, "ready")
    /\ forgotten' = forgotten \cup {q \in Ops : step[q] = "done"}
    /\ UNCHANGED <<file, lockFile, temp, request, owner, answer, crashes>>

(* A read answers from memory, a write joins the queue.                    *)
Read(o) ==
    /\ step[o] = "ready" /\ request[o].type = "get"
    /\ answer' = [answer EXCEPT ![o] = sessions[owner[o]][request[o].id]]
    /\ Goto(o, "done")
    /\ UNCHANGED <<file, lockFile, sessions, loaded, queue, temp, request, owner,
                   crashes, forgotten>>

Enqueue(o) ==
    /\ step[o] = "ready" /\ request[o].type # "get"
    /\ Goto(o, "queued")
    /\ queue' = Enqueued(o)
    /\ UNCHANGED <<file, lockFile, sessions, loaded, temp, request, owner, answer,
                   crashes, forgotten>>

(* The job changes the map; an update that finds no record, and a sweep    *)
(* that finds nothing stale, return without afterWrite.                    *)
Change(o) ==
    /\ step[o] = "queued" /\ Running(o) /\ request[o].type # "sweep"
    /\ LET p == owner[o]
           missing == /\ request[o].type \in {"patch", "status"}
                      /\ sessions[p][request[o].id] = Absent
       IN  /\ sessions' = [sessions EXCEPT ![p] = Effect(o, request[o], @)]
           /\ Goto(o, IF missing THEN "return" ELSE "lock")
    /\ UNCHANGED <<file, lockFile, loaded, queue, temp, request, owner, answer,
                   crashes, forgotten>>

Sweep(o) ==
    /\ step[o] = "queued" /\ Running(o) /\ request[o].type = "sweep"
    /\ \E S \in SUBSET Sweepable(sessions[owner[o]]) :
          /\ sessions' = [sessions EXCEPT ![owner[o]] =
                            [i \in Ids |-> IF i \in S THEN Absent ELSE @[i]]]
          /\ Goto(o, IF S = {} THEN "return" ELSE "lock")
    /\ UNCHANGED <<file, lockFile, loaded, queue, temp, request, owner, answer,
                   crashes, forgotten>>

Return(o) ==
    /\ step[o] = "return"
    /\ Goto(o, "done")
    /\ queue' = Dequeued(o)
    /\ UNCHANGED <<file, lockFile, sessions, loaded, temp, request, owner, answer,
                   crashes, forgotten>>

Lock_Ignored(o) ==                                         \* mutant
    /\ step[o] = "lock"
    /\ lockFile' = TRUE
    /\ Goto(o, "write")
    /\ UNCHANGED <<file, sessions, loaded, queue, temp, request, owner, answer,
                   crashes, forgotten>>

Lock(o) ==
    /\ step[o] = "lock"
    /\ ~lockFile
    /\ lockFile' = TRUE
    /\ Goto(o, "write")
    /\ UNCHANGED <<file, sessions, loaded, queue, temp, request, owner, answer,
                   crashes, forgotten>>

LockTimesOut_Never(o) ==                                   \* mutant
    /\ step[o] = "lock"
    /\ FALSE
    /\ UNCHANGED vars

(* The lock file existed at every try of five seconds.                     *)
LockTimesOut(o) ==
    /\ step[o] = "lock"
    /\ lockFile
    /\ Goto(o, "failed")
    /\ queue' = Dequeued(o)
    /\ UNCHANGED <<file, lockFile, sessions, loaded, temp, request, owner,
                   answer, crashes, forgotten>>

(* The directory or the lock file cannot be made.                          *)
LockFails(o) ==
    /\ Faulty
    /\ step[o] = "lock"
    /\ Goto(o, "failed")
    /\ queue' = Dequeued(o)
    /\ UNCHANGED <<file, lockFile, sessions, loaded, temp, request, owner,
                   answer, crashes, forgotten>>

WriteTemp(o) ==
    /\ step[o] = "write"
    /\ temp' = [temp EXCEPT ![owner[o]] = sessions[owner[o]]]
    /\ Goto(o, "rename")
    /\ UNCHANGED <<file, lockFile, sessions, loaded, queue, request, owner,
                   answer, crashes, forgotten>>

Rename(o) ==
    /\ step[o] = "rename"
    /\ file' = temp[owner[o]]
    /\ Goto(o, "unlock")
    /\ UNCHANGED <<lockFile, sessions, loaded, queue, temp, request, owner,
                   answer, crashes, forgotten>>

WriteFails_Swallowed(o) ==                                 \* mutant
    /\ Faulty
    /\ step[o] \in {"write", "rename"}
    /\ Goto(o, "unlock")
    /\ UNCHANGED <<file, lockFile, sessions, loaded, queue, temp, request, owner,
                   answer, crashes, forgotten>>

WriteFails(o) ==
    /\ Faulty
    /\ step[o] \in {"write", "rename"}
    /\ Goto(o, "undo")
    /\ UNCHANGED <<file, lockFile, sessions, loaded, queue, temp, request, owner,
                   answer, crashes, forgotten>>

(* The finally clause: the lock file is closed and removed, and the job    *)
(* settles; closing or removing it may be rejected too.                    *)
Unlock(o) ==
    /\ step[o] \in {"unlock", "undo"}
    /\ lockFile' = FALSE
    /\ Goto(o, IF step[o] = "unlock" THEN "done" ELSE "failed")
    /\ queue' = Dequeued(o)
    /\ UNCHANGED <<file, sessions, loaded, temp, request, owner, answer,
                   crashes, forgotten>>

UnlockFails(o) ==
    /\ Faulty
    /\ step[o] \in {"unlock", "undo"}
    /\ Goto(o, "failed")
    /\ queue' = Dequeued(o)
    /\ UNCHANGED <<file, lockFile, sessions, loaded, temp, request, owner, answer,
                   crashes, forgotten>>

(* The process dies: its memory and its calls are gone, the lock file      *)
(* stays.                                                                  *)
Crash(p) ==
    /\ crashes < MaxCrashes
    /\ crashes' = crashes + 1
    /\ sessions' = [sessions EXCEPT ![p] = Empty]
    /\ loaded' = [loaded EXCEPT ![p] = FALSE]
    /\ queue' = [queue EXCEPT ![p] = <<>>]
    /\ step' = [o \in Ops |-> IF owner[o] = p /\ step[o] \notin {"new", "done", "failed"}
                              THEN "lost" ELSE step[o]]
    /\ UNCHANGED <<file, lockFile, temp, request, owner, answer, forgotten>>

Proceed(o) ==
    \/ Load(o) \/ Read(o) \/ Enqueue(o) \/ Change(o) \/ Sweep(o) \/ Return(o)
    \/ Lock(o) \/ LockTimesOut(o) \/ WriteTemp(o) \/ Rename(o) \/ Unlock(o)

Fault(o) == LoadFails(o) \/ LockFails(o) \/ WriteFails(o) \/ UnlockFails(o)

Next ==
    \/ \E o \in Ops : Proceed(o) \/ Fault(o) \/ \E r \in Request : Issue(o, r)
    \/ \E p \in Processes : Crash(p)

Spec == Init /\ [][Next]_vars

(* The file system answers, though it need not fail, and the retries of    *)
(* the lock go on until the lock was had or five seconds are over.         *)
FairSpec == Spec /\ \A o \in Ops : WF_vars(Proceed(o))
-----------------------------------------------------------------------------
Holding(o) == step[o] \in {"write", "rename", "unlock", "undo"}

(* At most one process at a time is between taking the lock and removing   *)
(* it, and while it is the lock file exists; removing it (rm with force)   *)
(* never removes another's lock (session-store.ts:349-368).                *)
LockExclusive ==
    /\ \A o \in Ops : Holding(o) => lockFile
    /\ \A o, q \in Ops : Holding(o) /\ Holding(q) => o = q

(* When a write is acknowledged the file is what the process has in        *)
(* memory, although other processes may be writing too                     *)
(* (session-store.ts:315-323, 349-368).                                    *)
AckMeansPersisted ==
    [][\A o \in Ops : step[o] = "unlock" /\ step'[o] = "done" =>
          file' = sessions'[owner[o]]]_vars

(* Before the load a call has not begun, from its change of the map on it  *)
(* counts as applied.                                                      *)
Phase(o) ==
    CASE step[o] \in {"new", "load", "ready"} -> "new"
      [] step[o] = "queued" -> "pending"
      [] step[o] \in {"done", "failed"} -> step[o]
      [] OTHER -> "applied"

(* The jobs of the queue q that load the file are its first n.             *)
LoadsAre(q, at, n) == \A i \in DOMAIN q : at[q[i]] = "load" <=> i <= n

(* The jobs behind them: a process that loaded the file asks for it no     *)
(* more, so that no load joins a queue after a write.                      *)
BehindLoads(q, at) ==
    LET loads == CHOOSE n \in 0..Len(q) : LoadsAre(q, at, n)
    IN  SubSeq(q, loads + 1, Len(q))

(* Every write settles within the time the lock allows                     *)
(* (session-store.ts:349-368).                                             *)
WritesSettle ==
    \A o \in Ops : step[o] \notin {"new", "lost"} ~> step[o] \in {"done", "failed", "lost"}
=============================================================================
