----------------------- MODULE FileSessionStoreProofs -----------------------
(***************************************************************************)
(* Proofs about FileSessionStore, for any number of processes on the file, *)
(* operations, sessions and crashes.  The inductive invariant ties every   *)
(* process that is at the file to the lock, its job to the head of its     *)
(* queue, and what it has written so far to its memory.  For one process,  *)
(* two more: where a session that was created is kept, and that the jobs   *)
(* that load the file come before those that write it.                     *)
(***************************************************************************)
EXTENDS FileSessionStore, SequenceTheorems, TLAPS

(* As much of the types as the proofs need.                                *)
Shape ==
    /\ DOMAIN sessions = Processes /\ DOMAIN temp = Processes
    /\ queue \in [Processes -> Seq(Ops)]
    /\ owner \in [Ops -> Processes]
    /\ DOMAIN step = Ops

(* A job that has begun is the one its process runs.                       *)
InJob(o) == Holding(o) \/ step[o] \in {"lock", "return"}
OneJob == \A o \in Ops : InJob(o) => Running(o)

(* The temporary file, and once it is renamed the file, are what the       *)
(* process has in memory.                                                  *)
Saved ==
    \A o \in Ops :
        /\ step[o] = "rename" => temp[owner[o]] = sessions[owner[o]]
        /\ step[o] = "unlock" => file = sessions[owner[o]]

IInv == Shape /\ LockExclusive /\ OneJob /\ Saved

(* Of the operations of one process at most one is in its job.             *)
LEMMA JobIsUnique ==
    ASSUME OneJob, NEW o \in Ops, NEW q \in Ops, InJob(o), Running(q),
           owner[o] = owner[q]
    PROVE  o = q
  BY DEF OneJob, Running

(* A store just made satisfies the inductive invariant.                    *)
LEMMA InitInv == Init => IInv
  BY DEF Init, IInv, Shape, LockExclusive, OneJob, Saved, InJob, Holding

(* An operation moves on, and only that.                                   *)
LEMMA Moves ==
    ASSUME Shape, NEW o \in Ops, NEW s, Goto(o, s)
    PROVE  /\ DOMAIN step' = Ops
           /\ step'[o] = s /\ \A q \in Ops \ {o} : step'[q] = step[q]
  BY DEF Shape, Goto

(* A queue is one whoever joins it, and the running job leaves it.         *)
LEMMA Queues ==
    ASSUME Shape, NEW o \in Ops
    PROVE  /\ Enqueued(o) \in [Processes -> Seq(Ops)]
           /\ Running(o) => Dequeued(o) \in [Processes -> Seq(Ops)]
<1>1. Append(queue[owner[o]], o) \in Seq(Ops)
  BY DEF Shape
<1>2. Running(o) => Tail(queue[owner[o]]) \in Seq(Ops)
  BY DEF Shape, Running
<1> QED
  BY <1>1, <1>2 DEF Shape, Enqueued, Dequeued

(* Every step keeps the variables in their shape.                          *)
LEMMA ShapeStep == Shape /\ OneJob /\ [Next]_vars => Shape'
<1> SUFFICES ASSUME Shape, OneJob, [Next]_vars PROVE Shape'
  OBVIOUS
<1>1. CASE UNCHANGED vars
  BY <1>1 DEF Shape, vars
<1>2. ASSUME NEW o \in Ops, NEW r \in Request, Issue(o, r) PROVE Shape'
  <2>1. UNCHANGED queue \/ queue' = Enqueued(o)
    BY <1>2 DEF Issue
  <2> QED
    BY <1>2, <2>1, Queues DEF Shape, Issue, Goto
<1>3. ASSUME NEW o \in Ops,
             \/ Load(o) \/ LoadFails(o) \/ Read(o) \/ Enqueue(o) \/ Change(o)
             \/ Sweep(o) \/ Return(o)
      PROVE  Shape'
  <2>1. \/ UNCHANGED queue
        \/ queue' = Enqueued(o)
        \/ Running(o) /\ queue' = Dequeued(o)
    BY <1>3 DEF Load, LoadFails, Read, Enqueue, Change, Sweep, Return, OneJob, InJob
  <2>2. DOMAIN sessions' = Processes
    BY <1>3 DEF Shape, Load, LoadFails, Read, Enqueue, Change, Sweep, Return
  <2> QED
    <3>1. UNCHANGED <<temp, owner>> /\ DOMAIN step' = Ops
      BY <1>3 DEF Shape, Load, LoadFails, Read, Enqueue, Change, Sweep, Return,
                  Goto
    <3>2. queue' \in [Processes -> Seq(Ops)]
      BY <2>1, Queues DEF Shape
    <3> QED
      BY <2>2, <3>1, <3>2 DEF Shape
<1>4. ASSUME NEW o \in Ops,
             \/ Lock(o) \/ LockTimesOut(o) \/ WriteTemp(o) \/ Rename(o) \/ Unlock(o)
             \/ LockFails(o) \/ WriteFails(o) \/ UnlockFails(o)
      PROVE  Shape'
  <2>1. Running(o)
    BY <1>4 DEF Lock, LockTimesOut, WriteTemp, Rename, Unlock, LockFails,
                WriteFails, UnlockFails, OneJob, InJob, Holding
  <2>2. UNCHANGED queue \/ queue' = Dequeued(o)
    BY <1>4 DEF Lock, LockTimesOut, WriteTemp, Rename, Unlock, LockFails,
                WriteFails, UnlockFails
  <2>3. queue' \in [Processes -> Seq(Ops)]
    BY <2>1, <2>2, Queues DEF Shape
  <2>4. UNCHANGED <<sessions, owner>> /\ DOMAIN temp' = Processes /\ DOMAIN step' = Ops
    BY <1>4 DEF Shape, Lock, LockTimesOut, WriteTemp, Rename, Unlock,
                LockFails, WriteFails, UnlockFails, Goto
  <2> QED
    BY <2>3, <2>4 DEF Shape
<1>5. ASSUME NEW p \in Processes, Crash(p) PROVE Shape'
  BY <1>5 DEF Shape, Crash
<1> QED
  BY <1>1, <1>2, <1>3, <1>4, <1>5 DEF Next, Proceed, Fault

(* Nobody takes the lock while it is held, and who removes it holds it.    *)
LEMMA LockStep == Shape /\ LockExclusive /\ [Next]_vars => LockExclusive'
<1> SUFFICES ASSUME Shape, LockExclusive, [Next]_vars PROVE LockExclusive'
  OBVIOUS
<1>1. CASE UNCHANGED vars
  BY <1>1 DEF LockExclusive, Holding, vars
<1>2. ASSUME NEW o \in Ops, NEW r \in Request, Issue(o, r) PROVE LockExclusive'
  BY <1>2 DEF Shape, LockExclusive, Holding, Issue, Goto
<1>3. ASSUME NEW o \in Ops,
             \/ Load(o) \/ LoadFails(o) \/ Read(o) \/ Enqueue(o) \/ Change(o)
             \/ Sweep(o) \/ Return(o)
      PROVE  LockExclusive'
  BY <1>3 DEF Shape, LockExclusive, Holding, Load, LoadFails, Read, Enqueue, Change,
              Sweep, Return, Goto
<1>4. ASSUME NEW o \in Ops, Lock(o) PROVE LockExclusive'
  <2>1. \A q \in Ops : ~Holding(q)
    BY <1>4 DEF LockExclusive, Lock
  <2>2. \A q \in Ops : Holding(q)' => q = o
    BY <1>4, <2>1, Moves DEF Lock, Holding
  <2>3. lockFile'
    BY <1>4 DEF Lock
  <2> QED
    BY <2>2, <2>3 DEF LockExclusive
<1>5. ASSUME NEW o \in Ops,
             \/ LockTimesOut(o) \/ LockFails(o) \/ WriteTemp(o) \/ Rename(o)
             \/ WriteFails(o)
      PROVE  LockExclusive'
  <2>1. \A q \in Ops : Holding(q)' => Holding(q)
    BY <1>5, Moves DEF LockTimesOut, LockFails, WriteTemp, Rename, WriteFails, Holding
  <2>2. lockFile' = lockFile
    BY <1>5 DEF LockTimesOut, LockFails, WriteTemp, Rename, WriteFails
  <2> QED
    BY <2>1, <2>2 DEF LockExclusive
<1>6. ASSUME NEW o \in Ops, Unlock(o) \/ UnlockFails(o) PROVE LockExclusive'
  BY <1>6 DEF Shape, LockExclusive, Holding, Unlock, UnlockFails, Goto
<1>7. ASSUME NEW p \in Processes, Crash(p) PROVE LockExclusive'
  BY <1>7 DEF LockExclusive, Holding, Crash
<1> QED
  BY <1>1, <1>2, <1>3, <1>4, <1>5, <1>6, <1>7 DEF Next, Proceed, Fault

(* The running job of a queue stays so when another joins it, and is never *)
(* the one of the queue that another running job leaves.                   *)
LEMMA RunningKept ==
    ASSUME Shape, UNCHANGED owner, NEW o \in Ops, NEW q \in Ops, Running(q),
           \/ UNCHANGED queue
           \/ queue' = Enqueued(o)
           \/ Running(o) /\ o # q /\ queue' = Dequeued(o)
    PROVE  Running(q)'
<1>1. CASE UNCHANGED queue
  BY <1>1 DEF Running
<1>2. CASE queue' = Enqueued(o)
  <2>1. queue[owner[q]] \in Seq(Ops) /\ queue[owner[q]] # <<>>
    BY DEF Shape, Running
  <2>2. Head(Append(queue[owner[q]], o)) = Head(queue[owner[q]])
        /\ Append(queue[owner[q]], o) # <<>>
    BY <2>1
  <2>3. queue'[owner[q]] \in {queue[owner[q]], Append(queue[owner[q]], o)}
    BY <1>2 DEF Shape, Enqueued
  <2> QED
    BY <2>2, <2>3 DEF Running
<1>3. CASE Running(o) /\ o # q /\ queue' = Dequeued(o)
  <2>1. owner[o] # owner[q]
    BY <1>3 DEF Running
  <2> QED
    BY <1>3, <2>1 DEF Shape, Running, Dequeued
<1> QED
  BY <1>1, <1>2, <1>3

(* A job that has begun is at the head of its queue until it settles.      *)
LEMMA JobStep == Shape /\ OneJob /\ [Next]_vars => OneJob'
<1> SUFFICES ASSUME Shape, OneJob, [Next]_vars PROVE OneJob'
  OBVIOUS
<1>1. CASE UNCHANGED vars
  BY <1>1 DEF OneJob, InJob, Holding, Running, vars
<1>2. ASSUME NEW o \in Ops, UNCHANGED owner,
             \A q \in Ops : q # o /\ InJob(q)' => InJob(q),
             \/ UNCHANGED queue
             \/ queue' = Enqueued(o)
             \/ Running(o) /\ ~InJob(o)' /\ queue' = Dequeued(o),
             InJob(o)' => Running(o)
      PROVE  OneJob'
  BY <1>2, RunningKept DEF OneJob
<1>3. ASSUME NEW o \in Ops, NEW r \in Request, Issue(o, r) PROVE OneJob'
  <2>1. UNCHANGED owner /\ (UNCHANGED queue \/ queue' = Enqueued(o))
    BY <1>3 DEF Issue
  <2>2. Goto(o, "ready") \/ Goto(o, "load")
    BY <1>3 DEF Issue
  <2>3. \A q \in Ops : InJob(q)' => q # o /\ InJob(q)
    BY <2>2, Moves DEF InJob, Holding
  <2> QED
    BY <1>2, <2>1, <2>3
<1>4. ASSUME NEW o \in Ops, Load(o) \/ LoadFails(o) \/ Read(o) \/ Enqueue(o)
      PROVE  OneJob'
  <2>1. /\ UNCHANGED owner
        /\ \/ UNCHANGED queue
           \/ queue' = Enqueued(o)
           \/ Running(o) /\ queue' = Dequeued(o)
    BY <1>4 DEF Load, LoadFails, Read, Enqueue
  <2>2. Goto(o, "ready") \/ Goto(o, "done") \/ Goto(o, "queued")
    BY <1>4 DEF Load, LoadFails, Read, Enqueue
  <2>3. \A q \in Ops : InJob(q)' => q # o /\ InJob(q)
    BY <2>2, Moves DEF InJob, Holding
  <2> QED
    BY <1>2, <2>1, <2>3
<1>5. ASSUME NEW o \in Ops,
             \/ Change(o) \/ Sweep(o) \/ Lock(o) \/ WriteTemp(o) \/ Rename(o)
             \/ WriteFails(o)
      PROVE  OneJob'
  <2>1. UNCHANGED <<owner, queue>>
    BY <1>5 DEF Change, Sweep, Lock, WriteTemp, Rename, WriteFails
  <2>2. Running(o)
    BY <1>5 DEF Change, Sweep, Lock, WriteTemp, Rename, WriteFails, OneJob, InJob,
                Holding
  <2>3. \E s : Goto(o, s)
    BY <1>5 DEF Change, Sweep, Lock, WriteTemp, Rename, WriteFails
  <2>4. \A q \in Ops : q # o /\ InJob(q)' => InJob(q)
    BY <2>3, Moves DEF InJob, Holding
  <2> QED
    BY <1>2, <2>1, <2>2, <2>4
<1>6. ASSUME NEW o \in Ops,
             \/ Return(o) \/ LockTimesOut(o) \/ LockFails(o) \/ Unlock(o)
             \/ UnlockFails(o)
      PROVE  OneJob'
  <2>1. UNCHANGED owner /\ queue' = Dequeued(o)
    BY <1>6 DEF Return, LockTimesOut, LockFails, Unlock, UnlockFails
  <2>2. Running(o)
    BY <1>6 DEF Return, LockTimesOut, LockFails, Unlock, UnlockFails, OneJob, InJob,
                Holding
  <2>3. Goto(o, "done") \/ Goto(o, "failed")
    BY <1>6 DEF Return, LockTimesOut, LockFails, Unlock, UnlockFails
  <2>4. \A q \in Ops : InJob(q)' => q # o /\ InJob(q)
    BY <2>3, Moves DEF InJob, Holding
  <2> QED
    BY <1>2, <2>1, <2>2, <2>4
<1>7. ASSUME NEW p \in Processes, Crash(p) PROVE OneJob'
  <2>1. \A q \in Ops : InJob(q)' => InJob(q) /\ owner[q] # p
    BY <1>7 DEF Crash, InJob, Holding
  <2>2. \A q \in Ops : owner[q] # p /\ Running(q) => Running(q)'
    BY <1>7 DEF Shape, Crash, Running
  <2> QED
    BY <2>1, <2>2 DEF OneJob
<1> QED
  BY <1>1, <1>3, <1>4, <1>5, <1>6, <1>7 DEF Next, Proceed, Fault

(* Between its temporary file and its settling nobody changes the memory   *)
(* of a process, its temporary file or, under the lock, the file.          *)
LEMMA SavedStep ==
    Shape /\ LockExclusive /\ OneJob /\ Saved /\ [Next]_vars => Saved'
<1> SUFFICES ASSUME Shape, LockExclusive, OneJob, Saved, [Next]_vars PROVE Saved'
  OBVIOUS
<1>1. CASE UNCHANGED vars
  BY <1>1 DEF Saved, vars
<1>2. ASSUME NEW o \in Ops, NEW r \in Request, Issue(o, r) PROVE Saved'
  <2>1. UNCHANGED <<file, sessions, temp, owner>>
    BY <1>2 DEF Issue
  <2>2. Goto(o, "ready") \/ Goto(o, "load")
    BY <1>2 DEF Issue
  <2> QED
    BY <2>1, <2>2, Moves DEF Saved
<1>3. ASSUME NEW o \in Ops, Load(o) \/ LoadFails(o) \/ Change(o) \/ Sweep(o)
      PROVE  Saved'
  <2>1. UNCHANGED <<file, temp, owner>>
    BY <1>3 DEF Load, LoadFails, Change, Sweep
  <2>2. Running(o)
    BY <1>3 DEF Load, LoadFails, Change, Sweep
  <2>3. \A p \in Processes : p # owner[o] => sessions'[p] = sessions[p]
    BY <1>3 DEF Shape, Load, LoadFails, Change, Sweep
  <2>4. Goto(o, "ready") \/ Goto(o, "return") \/ Goto(o, "lock")
    BY <1>3 DEF Load, LoadFails, Change, Sweep
  <2>5. ASSUME NEW q \in Ops, step'[q] \in {"rename", "unlock"}
        PROVE  step'[q] = step[q] /\ sessions'[owner[q]] = sessions[owner[q]]
    <3>1. q # o /\ step'[q] = step[q]
      BY <2>4, <2>5, Moves
    <3>2. owner[q] # owner[o]
      BY <2>2, <2>5, <3>1, JobIsUnique DEF InJob, Holding
    <3> QED
      BY <2>3, <3>1, <3>2 DEF Shape
  <2> QED
    BY <2>1, <2>5 DEF Saved
<1>4. ASSUME NEW o \in Ops,
             \/ Read(o) \/ Enqueue(o) \/ Return(o) \/ Lock(o) \/ LockTimesOut(o)
             \/ LockFails(o) \/ WriteFails(o) \/ Unlock(o) \/ UnlockFails(o)
      PROVE  Saved'
  <2>1. UNCHANGED <<file, sessions, temp, owner>>
    BY <1>4 DEF Read, Enqueue, Return, Lock, LockTimesOut, LockFails, WriteFails,
                Unlock, UnlockFails
  <2>2. \E s \in {"done", "queued", "write", "failed", "undo"} : Goto(o, s)
    BY <1>4 DEF Read, Enqueue, Return, Lock, LockTimesOut, LockFails, WriteFails,
                Unlock, UnlockFails
  <2> QED
    BY <2>1, <2>2, Moves DEF Saved
<1>5. ASSUME NEW o \in Ops, WriteTemp(o) PROVE Saved'
  <2>1. Goto(o, "rename") /\ InJob(o) /\ Holding(o)
    BY <1>5 DEF WriteTemp, InJob, Holding
  <2>2. \A q \in Ops : q # o => ~Holding(q)
    BY <2>1 DEF LockExclusive
  <2>3. \A q \in Ops : q # o => step'[q] \notin {"rename", "unlock"}
    BY <2>1, <2>2, Moves DEF Holding
  <2>4. temp'[owner[o]] = sessions'[owner'[o]]
    BY <1>5 DEF WriteTemp, Shape
  <2>5. step'[o] = "rename" /\ UNCHANGED owner
    BY <1>5, <2>1, Moves DEF WriteTemp
  <2> QED
    BY <2>3, <2>4, <2>5 DEF Saved
<1>6. ASSUME NEW o \in Ops, Rename(o) PROVE Saved'
  <2>1. Goto(o, "unlock") /\ Holding(o) /\ UNCHANGED <<sessions, owner>>
    BY <1>6 DEF Rename, Holding
  <2>2. \A q \in Ops : q # o => ~Holding(q)
    BY <2>1 DEF LockExclusive
  <2>3. \A q \in Ops : q # o => step'[q] \notin {"rename", "unlock"}
    BY <2>1, <2>2, Moves DEF Holding
  <2>4. file' = sessions[owner[o]] /\ step'[o] = "unlock"
    BY <1>6, <2>1, Moves DEF Rename, Saved
  <2> QED
    BY <2>1, <2>3, <2>4 DEF Saved
<1>7. ASSUME NEW p \in Processes, Crash(p) PROVE Saved'
  <2>1. UNCHANGED <<file, temp, owner>>
    BY <1>7 DEF Crash
  <2>2. \A q \in Ops : step'[q] \in {"rename", "unlock"} =>
                         owner[q] # p /\ step'[q] = step[q]
    BY <1>7 DEF Crash
  <2>3. \A q \in Ops : owner[q] # p => sessions'[owner[q]] = sessions[owner[q]]
    BY <1>7 DEF Crash, Shape
  <2> QED
    BY <2>1, <2>2, <2>3 DEF Saved
<1> QED
  BY <1>1, <1>2, <1>3, <1>4, <1>5, <1>6, <1>7 DEF Next, Proceed, Fault

(* The inductive invariant holds of every behaviour.                       *)
THEOREM FileInvariant == Spec => []IInv
<1>1. IInv /\ [Next]_vars => IInv'
  BY ShapeStep, LockStep, JobStep, SavedStep DEF IInv
<1> QED
  BY InitInv, <1>1, PTL DEF Spec

(* At most one process is between taking the lock file and removing it,    *)
(* and it removes no other's (session-store.ts:349-368).                   *)
THEOREM LockExclusiveHolds == Spec => []LockExclusive
<1>1. IInv => LockExclusive
  BY DEF IInv
<1> QED
  BY FileInvariant, <1>1, PTL

(* A write that is acknowledged leaves the file with what the process has  *)
(* in memory, whoever else writes (session-store.ts:315-323, 349-368).     *)
THEOREM AckMeansPersistedHolds == Spec => AckMeansPersisted
<1>1. ASSUME IInv, [Next]_vars, NEW o \in Ops, step[o] = "unlock", step'[o] = "done"
      PROVE  file' = sessions'[owner[o]]
  <2>1. Unlock(o)
    <3>1. Shape
      BY <1>1 DEF IInv
    <3>2. ~UNCHANGED vars /\ \A p \in Processes : ~Crash(p)
      BY <1>1 DEF vars, Crash
    <3>3. ASSUME NEW q \in Ops, q # o, NEW s PROVE ~Goto(q, s)
      BY <1>1, <3>1, <3>3, Moves
    <3>4. ASSUME NEW q \in Ops, NEW r \in Request, Issue(q, r) PROVE q = o
      BY <3>3, <3>4 DEF Issue
    <3>5. ASSUME NEW q \in Ops, Proceed(q) \/ Fault(q) PROVE q = o
      BY <3>3, <3>5 DEF Proceed, Load, Read, Enqueue, Change, Sweep, Return, Lock,
                        LockTimesOut, WriteTemp, Rename, Unlock, Fault, LoadFails,
                        LockFails, WriteFails, UnlockFails
    <3>6. ~Fault(o) /\ \A r \in Request : ~Issue(o, r)
      BY <1>1, <3>1, Moves DEF Fault, LoadFails, LockFails, WriteFails, UnlockFails,
                              Issue
    <3>7. Proceed(o)
      BY <1>1, <3>2, <3>4, <3>5, <3>6 DEF Next
    <3> QED
      BY <1>1, <3>7 DEF Proceed, Load, Read, Enqueue, Change, Sweep, Return, Lock,
                        LockTimesOut, WriteTemp, Rename
  <2> QED
    BY <1>1, <2>1 DEF Unlock, IInv, Saved
<1>2. IInv /\ [Next]_vars =>
        [\A o \in Ops : step[o] = "unlock" /\ step'[o] = "done" =>
            file' = sessions'[owner[o]]]_vars
  BY <1>1
<1> QED
  BY FileInvariant, <1>2, PTL DEF Spec, AckMeansPersisted
-----------------------------------------------------------------------------
(* One process has the file to itself; two do not keep what follows.       *)
OneProcess == \A p, q \in Processes : p = q

(* Nobody else was asked to change the session that o names; a sweep may   *)
(* have been asked for.                                                    *)
Alone(o) ==
    \A q \in Ops \ {o} : request[q].type \notin {"none", "get", "sweep"} =>
        request[q].id # request[o].id
Created(o) == [status |-> "live", data |-> o]

(* Where a session that was created is: from the change of the map on in   *)
(* the memory of the process, until that is lost; from the rename on in    *)
(* the file, and so in the memory of a process that loaded it; a process   *)
(* whose load failed has forgotten it.                                     *)
InMemory(o) == sessions[owner[o]][request[o].id] = Created(o)
Kept(o) ==
    request[o].type = "create" /\ Alone(o) /\ o \notin forgotten =>
        /\ step[o] \in {"lock", "write", "rename", "unlock"} => InMemory(o)
        /\ step[o] \in {"unlock", "done"} => file[request[o].id] = Created(o)
        /\ step[o] = "done" /\ loaded[owner[o]] => InMemory(o)

(* What was asked for before a session is looked at: a request, a loaded   *)
(* map, a write.                                                           *)
Asked(o) ==
    /\ step[o] = "new" => request[o] = NoRequest
    /\ step[o] # "new" => request[o] \in Request
    /\ step[o] \in {"ready", "queued"} \/ InJob(o) => loaded[owner[o]]
    /\ step[o] = "queued" \/ InJob(o) => request[o].type # "get"
    /\ step[o] = "return" => request[o].type # "create"

Maps == DOMAIN file = Ids /\ \A p \in Processes :
            /\ DOMAIN sessions[p] = Ids /\ DOMAIN temp[p] = Ids
            /\ DOMAIN loaded = Processes
Durable == Maps /\ DOMAIN request = Ops /\ \A o \in Ops : Asked(o) /\ Kept(o)

(* The requests of a store: only a sweep names no session.                 *)
LEMMA Requests ==
    /\ NoRequest.type = "none"
    /\ \A r \in Request :
          /\ r.type \in {"create", "patch", "delete", "get", "status", "sweep"}
          /\ r.type # "sweep" => r.id \in Ids
<1>1. ASSUME NEW r \in [type : {"create", "patch", "delete", "get"}, id : Ids]
      PROVE  r.type \in {"create", "patch", "delete", "get"} /\ r.id \in Ids
  OBVIOUS
<1>2. ASSUME NEW r \in [type : {"status"}, id : Ids, status : Status]
      PROVE  r.type = "status" /\ r.id \in Ids
  OBVIOUS
<1>3. [type |-> "sweep"].type = "sweep" /\ NoRequest.type = "none"
  BY DEF NoRequest
<1>4. ASSUME NEW r \in Request
      PROVE  /\ r.type \in {"create", "patch", "delete", "get", "status", "sweep"}
             /\ r.type # "sweep" => r.id \in Ids
  <2>1. CASE r \in [type : {"create", "patch", "delete", "get"}, id : Ids]
    BY <1>1, <2>1
  <2>2. CASE r \in [type : {"status"}, id : Ids, status : Status]
    BY <1>2, <2>2
  <2>3. CASE r = [type |-> "sweep"]
    BY <1>3, <2>3
  <2> QED
    BY <2>1, <2>2, <2>3 DEF Request
<1> QED
  BY <1>3, <1>4

(* In a store just made nothing was created.                               *)
LEMMA InitDurable == Init => Durable
<1> SUFFICES ASSUME Init PROVE Durable
  OBVIOUS
<1>1. Maps
  BY DEF Init, Maps, EarlierTable, Empty
<1>2. ASSUME NEW o \in Ops PROVE Asked(o) /\ Kept(o)
  BY DEF Init, Asked, Kept, InJob, Holding
<1> QED
  BY <1>1, <1>2 DEF Durable, Init

(* A step that asks for nothing and leaves memory, file and the loaded     *)
(* flags alone keeps what was created, wherever the operation it moves on  *)
(* goes, as long as it is not further than before.                         *)
LEMMA DurableFrame ==
    ASSUME Shape, Durable, NEW o \in Ops,
           UNCHANGED <<request, owner, file, sessions, loaded, forgotten>>, Maps',
           \A q \in Ops \ {o} : step'[q] = step[q],
           step[o] # "new", step'[o] # "new", Asked(o)', Kept(o)'
    PROVE  Durable'
<1>1. ASSUME NEW q \in Ops \ {o} PROVE Asked(q)' /\ Kept(q)'
  <2>1. Asked(q)'
    BY DEF Durable, Asked, InJob, Holding
  <2>2. Alone(q)' => Alone(q)
    BY DEF Alone
  <2> QED
    BY <2>1, <2>2 DEF Durable, Kept, InMemory, Created
<1> QED
  BY <1>1 DEF Durable

(* Every step of the only process keeps what was created: a new request is *)
(* about another session or leaves it no longer alone; no change of the    *)
(* map touches another session, a sweep none that is live; what is loaded  *)
(* or renamed over the file has the session, for both hold it.             *)
LEMMA DurableStep ==
    ASSUME OneProcess
    PROVE  IInv /\ Durable /\ [Next]_vars => Durable'
<1> SUFFICES ASSUME Shape, LockExclusive, OneJob, Saved, Durable, [Next]_vars
             PROVE  Durable'
  BY DEF IInv
<1>0. \A o, q \in Ops : owner[o] = owner[q]
  BY DEF Shape, OneProcess
<1>1. CASE UNCHANGED vars
  <2>1. UNCHANGED <<file, sessions, temp, loaded, request, owner, step, forgotten>>
    BY <1>1 DEF vars
  <2>2. ASSUME NEW o \in Ops PROVE Alone(o)' => Alone(o)
    BY <2>1 DEF Alone
  <2>3. ASSUME NEW o \in Ops PROVE Asked(o)' /\ Kept(o)'
    BY <2>1, <2>2 DEF Durable, Asked, Kept, InMemory, Created, InJob, Holding
  <2> QED
    BY <2>1, <2>3 DEF Durable, Maps
<1>2. ASSUME NEW o \in Ops, NEW r \in Request, Issue(o, r) PROVE Durable'
  <2>1. /\ step[o] = "new"
        /\ step'[o] \in {"ready", "load"} /\ (step'[o] = "ready" => loaded[owner[o]])
        /\ \A q \in Ops \ {o} : step'[q] = step[q] /\ request'[q] = request[q]
        /\ request'[o] = r /\ DOMAIN request' = Ops
        /\ UNCHANGED <<file, sessions, temp, loaded, owner, forgotten>>
    BY <1>2, Moves DEF Issue, Durable
  <2>2. ASSUME NEW q \in Ops PROVE Asked(q)'
    BY <2>1 DEF Durable, Asked, InJob, Holding
  <2>3. ASSUME NEW q \in Ops, Alone(q)', q # o PROVE Alone(q)
    <3>1. request[o].type = "none"
      BY <2>1, Requests DEF Durable, Asked
    <3> QED
      BY <2>1, <2>3, <3>1 DEF Alone
  <2>4. ASSUME NEW q \in Ops PROVE Kept(q)'
    <3>1. CASE q = o
      BY <2>1, <3>1 DEF Kept
    <3>2. CASE q # o
      BY <2>1, <2>3, <3>2 DEF Durable, Kept, InMemory, Created
    <3> QED
      BY <3>1, <3>2
  <2> QED
    BY <2>1, <2>2, <2>4 DEF Durable, Maps
<1>3. ASSUME NEW o \in Ops, Load(o) PROVE Durable'
  <2>1. /\ step[o] = "load" /\ step'[o] = "ready"
        /\ \A q \in Ops \ {o} : step'[q] = step[q]
        /\ UNCHANGED <<file, temp, request, owner, forgotten>>
        /\ loaded' = [loaded EXCEPT ![owner[o]] = TRUE]
        /\ owner[o] \in Processes
    BY <1>3, Moves DEF Load, Shape
  <2>2. loaded'[owner[o]] /\ DOMAIN loaded' = Processes
    BY <2>1 DEF Durable, Maps
  <2>3. IF loaded[owner[o]] THEN UNCHANGED sessions
                            ELSE sessions'[owner[o]] = file
    BY <1>3, <2>1 DEF Load, Shape
  <2>4. Maps'
    BY <1>3, <2>1, <2>2 DEF Load, Durable, Maps, Shape
  <2>5. ASSUME NEW q \in Ops PROVE Asked(q)'
    BY <1>0, <2>1, <2>2 DEF Durable, Asked, InJob, Holding
  <2>6. ASSUME NEW q \in Ops PROVE Kept(q)'
    <3>1. CASE q = o
      BY <2>1, <3>1 DEF Kept
    <3>2. CASE q # o
      <4>1. Alone(q)' => Alone(q)
        BY <2>1 DEF Alone
      <4>2. step'[q] = step[q] /\ owner'[q] = owner[o] /\ request'[q] = request[q]
        BY <1>0, <2>1, <3>2
      <4>3. CASE loaded[owner[o]]
        BY <1>0, <2>1, <2>3, <4>1, <4>2, <4>3 DEF Durable, Kept, InMemory, Created
      <4>4. CASE ~loaded[owner[o]]
        <5>1. step[q] \notin {"lock", "write", "rename", "unlock"}
          BY <1>0, <4>4 DEF Durable, Asked, InJob, Holding
        <5> QED
          BY <2>1, <2>3, <4>1, <4>2, <4>4, <5>1
             DEF Durable, Kept, InMemory, Created
      <4> QED
        BY <4>3, <4>4
    <3> QED
      BY <3>1, <3>2
  <2> QED
    BY <2>1, <2>4, <2>5, <2>6 DEF Durable
<1>4. ASSUME NEW o \in Ops,
             \/ Read(o) \/ Enqueue(o) \/ Return(o) \/ Lock(o) \/ LockTimesOut(o)
             \/ LockFails(o) \/ WriteTemp(o) \/ WriteFails(o) \/ Unlock(o)
             \/ UnlockFails(o)
      PROVE  Durable'
  <2>1. UNCHANGED <<request, owner, file, sessions, loaded, forgotten>>
    BY <1>4 DEF Read, Enqueue, Return, Lock, LockTimesOut, LockFails, WriteTemp,
                WriteFails, Unlock, UnlockFails
  <2>2. Maps'
    <3>1. CASE WriteTemp(o)
      BY <2>1, <3>1 DEF WriteTemp, Durable, Maps, Shape
    <3>2. CASE ~WriteTemp(o)
      <4>1. UNCHANGED temp
        BY <1>4, <3>2 DEF Read, Enqueue, Return, Lock, LockTimesOut, LockFails,
                          WriteFails, Unlock, UnlockFails
      <4> QED
        BY <2>1, <4>1 DEF Durable, Maps
    <3> QED
      BY <3>1, <3>2
  <2>3. step[o] # "new" /\ \A q \in Ops \ {o} : step'[q] = step[q]
    BY <1>4, Moves DEF Read, Enqueue, Return, Lock, LockTimesOut, LockFails,
                       WriteTemp, WriteFails, Unlock, UnlockFails
  <2>4. \/ step[o] = "ready" /\ step'[o] = "done" /\ request[o].type = "get"
        \/ step[o] = "ready" /\ step'[o] = "queued" /\ request[o].type # "get"
        \/ step[o] = "return" /\ step'[o] = "done"
        \/ step[o] = "lock" /\ step'[o] = "write"
        \/ step[o] = "write" /\ step'[o] = "rename"
        \/ step[o] = "unlock" /\ step'[o] = "done"
        \/ InJob(o) /\ step'[o] \in {"undo", "failed"}
    BY <1>4, Moves DEF Read, Enqueue, Return, Lock, LockTimesOut, LockFails,
                       WriteTemp, WriteFails, Unlock, UnlockFails, InJob, Holding
  <2>5. Asked(o)'
    BY <2>1, <2>4 DEF Durable, Asked, InJob, Holding
  <2>6. Kept(o)'
    <3>1. Alone(o)' => Alone(o)
      BY <2>1 DEF Alone
    <3> QED
      BY <2>1, <2>4, <3>1 DEF Durable, Asked, Kept, InMemory, Created, InJob, Holding
  <2> QED
    BY <2>1, <2>2, <2>3, <2>4, <2>5, <2>6, DurableFrame
(* The map of the process changes, and somebody's session with it.         *)
<1>5. ASSUME NEW o \in Ops, step[o] = "queued", step'[o] \in {"return", "lock"},
             step'[o] = "return" => request[o].type # "create",
             \A q \in Ops \ {o} : step'[q] = step[q],
             UNCHANGED <<file, loaded, temp, request, owner, forgotten>>,
             DOMAIN sessions'[owner[o]] = Ids,
             \A p \in Processes \ {owner[o]} : sessions'[p] = sessions[p],
             \A q \in Ops : Alone(q) /\ request[q].type = "create" /\ q # o
               /\ InMemory(q) => InMemory(q)',
             request[o].type = "create" => InMemory(o)'
      PROVE  Durable'
  <2>1. Maps'
    BY <1>5 DEF Durable, Maps
  <2>2. ASSUME NEW q \in Ops PROVE Asked(q)'
    BY <1>5 DEF Durable, Asked, InJob, Holding
  <2>3. ASSUME NEW q \in Ops PROVE Kept(q)'
    <3>1. Alone(q)' => Alone(q)
      BY <1>5 DEF Alone
    <3>2. CASE q = o
      BY <1>5, <3>2 DEF Kept
    <3>3. CASE q # o
      BY <1>5, <3>1, <3>3 DEF Durable, Kept, Created
    <3> QED
      BY <3>2, <3>3
  <2> QED
    BY <1>5, <2>1, <2>2, <2>3 DEF Durable
<1>6. ASSUME NEW o \in Ops, Change(o) PROVE Durable'
  <2>1. /\ step[o] = "queued" /\ request[o].type \notin {"none", "get", "sweep"}
        /\ request[o].id \in Ids /\ owner[o] \in Processes
        /\ UNCHANGED <<file, loaded, temp, request, owner, forgotten>>
    BY <1>6, Requests DEF Change, Durable, Asked, Shape
  <2>2. sessions' = [sessions EXCEPT ![owner[o]] = Effect(o, request[o], @)]
    BY <1>6 DEF Change
  <2>3. /\ sessions'[owner[o]] =
             [sessions[owner[o]] EXCEPT ![request[o].id] =
                Written(o, request[o], sessions[owner[o]][request[o].id])]
        /\ \A p \in Processes \ {owner[o]} : sessions'[p] = sessions[p]
    BY <2>1, <2>2 DEF Effect, Shape
  <2>4. DOMAIN sessions'[owner[o]] = Ids
    BY <2>1, <2>3 DEF Durable, Maps
  <2>5. /\ step'[o] \in {"return", "lock"} /\ \A q \in Ops \ {o} : step'[q] = step[q]
        /\ step'[o] = "return" => request[o].type # "create"
    BY <1>6, Moves DEF Change
  <2>6. ASSUME NEW q \in Ops, Alone(q), request[q].type = "create", q # o, InMemory(q)
        PROVE  InMemory(q)'
    <3>1. request[o].id # request[q].id
      BY <2>1, <2>6 DEF Alone
    <3>2. owner[q] = owner[o] /\ request[q].id \in Ids
      BY <1>0, <2>6, Requests DEF Durable, Asked
    <3> QED
      BY <2>1, <2>3, <2>6, <3>1, <3>2 DEF InMemory, Created, Durable, Maps
  <2>7. request[o].type = "create" => InMemory(o)'
    BY <2>1, <2>3 DEF InMemory, Created, Written, Durable, Maps
  <2> QED
    BY <1>5, <2>1, <2>3, <2>4, <2>5, <2>6, <2>7
<1>7. ASSUME NEW o \in Ops, Sweep(o) PROVE Durable'
  <2>1. /\ step[o] = "queued" /\ request[o].type = "sweep" /\ owner[o] \in Processes
        /\ UNCHANGED <<file, loaded, temp, request, owner, forgotten>>
        /\ step'[o] \in {"return", "lock"} /\ \A q \in Ops \ {o} : step'[q] = step[q]
    BY <1>7, Moves DEF Sweep, Shape
  <2>2. PICK S \in SUBSET Sweepable(sessions[owner[o]]) :
           sessions' = [sessions EXCEPT ![owner[o]] =
                          [i \in Ids |-> IF i \in S THEN Absent ELSE @[i]]]
    BY <1>7 DEF Sweep
  <2>3. /\ sessions'[owner[o]] =
             [i \in Ids |-> IF i \in S THEN Absent ELSE sessions[owner[o]][i]]
        /\ \A p \in Processes \ {owner[o]} : sessions'[p] = sessions[p]
    BY <2>1, <2>2 DEF Shape
  <2>4. ASSUME NEW q \in Ops, request[q].type = "create", q # o, InMemory(q)
        PROVE  InMemory(q)'
    <3>1. request[q].id \in Ids
      BY <2>4, Requests DEF Durable, Asked
    <3>2. owner[q] = owner[o] /\ Created(q).status = "live"
      BY <1>0 DEF Created
    <3>3. request[q].id \notin S
      BY <2>4, <3>2 DEF InMemory, Sweepable
    <3> QED
      BY <2>1, <2>3, <2>4, <3>1, <3>2, <3>3 DEF InMemory, Created
  <2> QED
    BY <1>5, <2>1, <2>3, <2>4
<1>8. ASSUME NEW o \in Ops, Rename(o) PROVE Durable'
  <2>1. /\ step[o] = "rename" /\ step'[o] = "unlock"
        /\ \A q \in Ops \ {o} : step'[q] = step[q]
        /\ UNCHANGED <<sessions, loaded, temp, request, owner, forgotten>>
        /\ file' = sessions[owner[o]] /\ owner[o] \in Processes
    BY <1>8, Moves DEF Rename, Saved, Shape
  <2>2. loaded[owner[o]]
    BY <2>1 DEF Durable, Asked, InJob, Holding
  <2>3. ASSUME NEW q \in Ops \ {o} PROVE step[q] # "unlock"
    BY <2>1 DEF LockExclusive, Holding
  <2>4. ASSUME NEW q \in Ops PROVE Asked(q)'
    BY <2>1 DEF Durable, Asked, InJob, Holding
  <2>5. ASSUME NEW q \in Ops PROVE Kept(q)'
    <3>1. Alone(q)' => Alone(q)
      BY <2>1 DEF Alone
    <3>2. owner[q] = owner[o]
      BY <1>0
    <3>3. CASE q = o
      BY <2>1, <3>1, <3>3 DEF Durable, Kept, InMemory, Created
    <3>4. CASE q # o
      BY <2>1, <2>2, <2>3, <3>1, <3>2, <3>4 DEF Durable, Kept, InMemory, Created
    <3> QED
      BY <3>3, <3>4
  <2> QED
    BY <2>1, <2>4, <2>5 DEF Durable, Maps
<1>9. ASSUME NEW p \in Processes, Crash(p) PROVE Durable'
  <2>1. /\ UNCHANGED <<file, temp, request, owner, forgotten>>
        /\ sessions' = [sessions EXCEPT ![p] = Empty]
        /\ loaded' = [loaded EXCEPT ![p] = FALSE]
        /\ \A q \in Ops : owner[q] = p
    BY <1>9 DEF Crash, Shape, OneProcess
  <2>2. \A q \in Ops : step'[q] = IF step[q] \in {"new", "done", "failed"}
                                  THEN step[q] ELSE "lost"
    BY <1>9, <2>1 DEF Crash
  <2>3. Maps' /\ ~loaded'[p]
    BY <2>1 DEF Durable, Maps, Shape, Empty
  <2>4. ASSUME NEW q \in Ops PROVE Asked(q)'
    BY <2>1, <2>2 DEF Durable, Asked, InJob, Holding
  <2>5. ASSUME NEW q \in Ops PROVE Kept(q)'
    <3>1. Alone(q)' => Alone(q)
      BY <2>1 DEF Alone
    <3>2. owner'[q] = p
      BY <2>1
    <3> QED
      BY <2>1, <2>2, <2>3, <3>1, <3>2 DEF Durable, Kept, Created
  <2> QED
    BY <2>1, <2>3, <2>4, <2>5 DEF Durable
<1>10. ASSUME NEW o \in Ops, LoadFails(o) PROVE Durable'
  <2>1. /\ step[o] = "load" /\ step'[o] = "ready" /\ ~loaded[owner[o]]
        /\ \A q \in Ops \ {o} : step'[q] = step[q]
        /\ UNCHANGED <<file, temp, request, owner>>
        /\ loaded' = [loaded EXCEPT ![owner[o]] = TRUE]
        /\ sessions' = [sessions EXCEPT ![owner[o]] = Empty]
        /\ forgotten' = forgotten \cup {q \in Ops : step[q] = "done"}
        /\ owner[o] \in Processes
    BY <1>10, Moves DEF LoadFails, Shape
  <2>2. loaded'[owner[o]] /\ DOMAIN loaded' = Processes
    BY <2>1 DEF Durable, Maps
  <2>3. Maps'
    BY <2>1, <2>2 DEF Durable, Maps, Shape, Empty
  <2>4. ASSUME NEW q \in Ops PROVE Asked(q)'
    BY <1>0, <2>1, <2>2 DEF Durable, Asked, InJob, Holding
  <2>5. ASSUME NEW q \in Ops, q \notin forgotten' PROVE Kept(q)'
    <3>1. step[q] \notin {"lock", "write", "rename", "unlock", "done"}
      BY <1>0, <2>1, <2>5 DEF Durable, Asked, InJob, Holding
    <3>2. step'[q] \notin {"lock", "write", "rename", "unlock", "done"}
      BY <2>1, <3>1
    <3> QED
      BY <3>2 DEF Kept
  <2>6. ASSUME NEW q \in Ops PROVE Kept(q)'
    BY <2>5 DEF Kept
  <2> QED
    BY <2>1, <2>3, <2>4, <2>6 DEF Durable
<1> QED
  BY <1>1, <1>2, <1>3, <1>4, <1>6, <1>7, <1>8, <1>9, <1>10 DEF Next, Proceed, Fault
-----------------------------------------------------------------------------
(* The mapping to SerialStore.  A call has not begun before the file is    *)
(* loaded, the table is the file until then and the memory of the process  *)
(* from then on, and the queue is what is behind the jobs that load.       *)
One == CHOOSE p \in Processes : TRUE
phases == [o \in Ops |-> Phase(o)]
requests == [o \in Ops |-> IF phases[o] = "new" THEN NoRequest ELSE request[o]]
contents == IF loaded[One] THEN sessions[One] ELSE file
writes == BehindLoads(queue[One], step)
Serial == INSTANCE SerialStore WITH
    records <- contents, request <- requests, phase <- phases, queue <- writes

(* A queue holds a job once and until it settles, the jobs that load first *)
(* and, until one of them has, nothing else.                               *)
InQueue(o) == step[o] \in {"load", "queued"} \/ InJob(o)
LoadsFirst ==
    /\ crashes \in Nat
    /\ \A i, j \in DOMAIN queue[One] : queue[One][i] = queue[One][j] => i = j
    /\ \A i \in DOMAIN queue[One] : InQueue(queue[One][i])
    /\ \E n \in 0..Len(queue[One]) :
          LoadsAre(queue[One], step, n) /\ (~loaded[One] => n = Len(queue[One]))

(* Until the file is loaded, and while nothing crashed, nobody has taken   *)
(* or answered anything.                                                   *)
Untouched == crashes = 0 /\ ~loaded[One] => \A o \in Ops : step[o] \in {"new", "load"}

(* The jobs behind the loads are known by the number of the loads.         *)
LEMMA BehindIs ==
    ASSUME NEW q \in Seq(Ops), NEW at, NEW n \in 0..Len(q), LoadsAre(q, at, n)
    PROVE  BehindLoads(q, at) = SubSeq(q, n + 1, Len(q))
<1>1. ASSUME NEW m \in 0..Len(q), LoadsAre(q, at, m) PROVE m = n
  <2>1. ASSUME m < n PROVE FALSE
    <3>1. n \in DOMAIN q
      BY <2>1
    <3> QED
      BY <1>1, <2>1, <3>1 DEF LoadsAre
  <2>2. ASSUME n < m PROVE FALSE
    <3>1. m \in DOMAIN q
      BY <2>2
    <3> QED
      BY <1>1, <2>2, <3>1 DEF LoadsAre
  <2> QED
    BY <2>1, <2>2
<1>2. (CHOOSE m \in 0..Len(q) : LoadsAre(q, at, m)) = n
  BY <1>1
<1> QED
  BY <1>2 DEF BehindLoads

(* Steps of operations that leave the loads of a queue as they are leave   *)
(* what is behind them.                                                    *)
LEMMA LoadsStay ==
    ASSUME NEW q \in Seq(Ops), NEW at, NEW to, NEW n \in 0..Len(q),
           LoadsAre(q, at, n), \A i \in DOMAIN q : to[q[i]] = "load" <=> at[q[i]] = "load"
    PROVE  LoadsAre(q, to, n) /\ BehindLoads(q, to) = BehindLoads(q, at)
<1>1. LoadsAre(q, to, n)
  BY DEF LoadsAre
<1> QED
  BY <1>1, BehindIs

(* A job joins the queue: a load is not behind the loads, a write is the   *)
(* last that is.                                                           *)
LEMMA JobJoins ==
    ASSUME NEW q \in Seq(Ops), NEW at, NEW to, NEW n \in 0..Len(q),
           LoadsAre(q, at, n), \A i \in DOMAIN q : to[q[i]] = "load" <=> at[q[i]] = "load",
           NEW o \in Ops, to[o] = "load" => n = Len(q)
    PROVE  /\ \E m \in 0..Len(Append(q, o)) :
                 /\ LoadsAre(Append(q, o), to, m)
                 /\ m = IF to[o] = "load" THEN Len(Append(q, o)) ELSE n
           /\ BehindLoads(Append(q, o), to) =
                 IF to[o] = "load" THEN BehindLoads(q, at)
                                   ELSE Append(BehindLoads(q, at), o)
<1> DEFINE r == Append(q, o)
<1> DEFINE m == IF to[o] = "load" THEN Len(r) ELSE n
<1>1. /\ r \in Seq(Ops) /\ Len(r) = Len(q) + 1 /\ r[Len(r)] = o
      /\ \A i \in DOMAIN q : r[i] = q[i] /\ i \in 1..Len(q)
  OBVIOUS
<1>2. m \in 0..Len(r) /\ LoadsAre(r, to, m)
  <2>1. m \in 0..Len(r)
    BY <1>1
  <2>2. ASSUME NEW i \in DOMAIN r PROVE to[r[i]] = "load" <=> i <= m
    <3>1. CASE i \in DOMAIN q
      <4>1. to[r[i]] = "load" <=> i <= n
        BY <1>1, <3>1 DEF LoadsAre
      <4>2. i <= Len(q) /\ i \in Nat
        BY <3>1
      <4> QED
        BY <1>1, <4>1, <4>2
    <3>2. CASE i = Len(r)
      BY <1>1, <3>2
    <3> QED
      BY <1>1, <3>1, <3>2
  <2> HIDE DEF r, m
  <2> QED
    BY <2>1, <2>2 DEF LoadsAre
<1>3. BehindLoads(r, to) = SubSeq(r, m + 1, Len(r))
  BY <1>1, <1>2, BehindIs
<1>4. BehindLoads(q, at) = SubSeq(q, n + 1, Len(q))
  BY BehindIs
<1>5. CASE to[o] = "load"
  <2>1. SubSeq(r, Len(r) + 1, Len(r)) = <<>> /\ SubSeq(q, Len(q) + 1, Len(q)) = <<>>
    BY <1>1
  <2> QED
    BY <1>2, <1>3, <1>4, <1>5, <2>1
<1>6. CASE to[o] # "load"
  <2>1. SubSeq(r, n + 1, Len(r)) = Append(SubSeq(q, n + 1, Len(q)), o)
    <3> DEFINE b == SubSeq(q, n + 1, Len(q))
    <3> DEFINE c == SubSeq(r, n + 1, Len(r))
    <3>1. /\ b \in Seq(Ops) /\ Len(b) = Len(q) - n
          /\ \A i \in 1..Len(q) - n : b[i] = q[n + i]
      BY SubSeqProperties
    <3>2. /\ c \in Seq(Ops) /\ Len(c) = Len(q) + 1 - n
          /\ \A i \in 1..Len(q) + 1 - n : c[i] = r[n + i]
      BY <1>1, SubSeqProperties
    <3> DEFINE d == Append(b, o)
    <3> HIDE DEF b, c, r
    <3>3. /\ d \in Seq(Ops) /\ Len(d) = Len(q) - n + 1 /\ d[Len(q) - n + 1] = o
          /\ \A i \in 1..Len(q) - n : d[i] = b[i]
      BY <3>1
    <3> HIDE DEF d
    <3>4. ASSUME NEW i \in 1..Len(c) PROVE c[i] = d[i]
      <4>1. c[i] = r[n + i]
        BY <3>2
      <4>2. CASE i \in 1..Len(q) - n
        <5>1. n + i \in DOMAIN q /\ r[n + i] = q[n + i]
          BY <1>1, <4>2
        <5> QED
          BY <3>1, <3>3, <4>1, <4>2, <5>1
      <4>3. CASE i = Len(q) - n + 1
        <5>1. n + i = Len(r)
          BY <1>1, <4>3
        <5> QED
          BY <1>1, <3>3, <4>1, <4>3, <5>1
      <4>4. i \in 1..Len(q) - n \/ i = Len(q) - n + 1
        <5>1. i \in 1..Len(q) + 1 - n /\ Len(q) \in Nat
          BY <3>2
        <5> QED
          BY <5>1
      <4> QED
        BY <4>2, <4>3, <4>4
    <3>5. c = d
      <4>1. Len(c) = Len(d)
        BY <3>2, <3>3
      <4> QED
        BY <3>2, <3>3, <3>4, <4>1, SeqEqual
    <3> QED
      BY <3>5 DEF b, c, d
  <2> QED
    BY <1>1, <1>2, <1>3, <1>4, <1>6, <2>1
<1> QED
  BY <1>5, <1>6

(* The job at the head leaves: a load leaves what is behind the loads, a   *)
(* write, before which there is none, was its head.                        *)
LEMMA JobLeaves ==
    ASSUME NEW q \in Seq(Ops), q # <<>>, NEW at, NEW to, NEW n \in 0..Len(q),
           LoadsAre(q, at, n),
           \A i \in DOMAIN q : i # 1 => (to[q[i]] = "load" <=> at[q[i]] = "load")
    PROVE  /\ at[Head(q)] # "load" => n = 0 /\ BehindLoads(q, at) = q
           /\ \E m \in 0..Len(Tail(q)) :
                 /\ LoadsAre(Tail(q), to, m)
                 /\ m = IF at[Head(q)] = "load" THEN n - 1 ELSE 0
           /\ BehindLoads(Tail(q), to) =
                 IF at[Head(q)] = "load" THEN BehindLoads(q, at)
                                         ELSE Tail(BehindLoads(q, at))
<1> DEFINE r == Tail(q)
<1> DEFINE m == IF at[Head(q)] = "load" THEN n - 1 ELSE 0
<1>1. /\ r \in Seq(Ops) /\ Len(r) = Len(q) - 1 /\ Len(q) > 0 /\ Len(q) \in Nat
      /\ \A i \in DOMAIN r : i \in 1..Len(r) /\ r[i] = q[i + 1] /\ i + 1 \in DOMAIN q
  OBVIOUS
<1>2. at[Head(q)] = "load" <=> n > 0
  <2>1. 1 \in DOMAIN q /\ Head(q) = q[1]
    BY <1>1
  <2> QED
    BY <2>1 DEF LoadsAre
<1>3. m \in 0..Len(r) /\ LoadsAre(r, to, m)
  <2>1. m \in 0..Len(r)
    BY <1>1, <1>2
  <2>2. ASSUME NEW i \in DOMAIN r PROVE to[r[i]] = "load" <=> i <= m
    <3>1. to[r[i]] = "load" <=> i + 1 <= n
      <4>1. i + 1 # 1
        BY <1>1
      <4> QED
        BY <1>1, <4>1 DEF LoadsAre
    <3> QED
      BY <1>1, <1>2, <3>1
  <2> HIDE DEF r, m
  <2> QED
    BY <2>1, <2>2 DEF LoadsAre
<1>4. BehindLoads(r, to) = SubSeq(r, m + 1, Len(r))
  BY <1>1, <1>3, BehindIs
<1>5. BehindLoads(q, at) = SubSeq(q, n + 1, Len(q))
  BY BehindIs
<1>6. CASE at[Head(q)] = "load"
  <2>1. SubSeq(r, n, Len(q) - 1) = SubSeq(q, n + 1, Len(q))
    <3> DEFINE b == SubSeq(q, n + 1, Len(q))
    <3> DEFINE c == SubSeq(r, n, Len(q) - 1)
    <3>1. /\ b \in Seq(Ops) /\ Len(b) = Len(q) - n
          /\ \A i \in 1..Len(q) - n : b[i] = q[n + i]
      BY SubSeqProperties
    <3>2. /\ c \in Seq(Ops) /\ Len(c) = Len(q) - n
          /\ \A i \in 1..Len(q) - n : c[i] = r[n + i - 1]
      <4>1. n \in 1..Len(q) /\ \A i \in n..Len(q) - 1 : r[i] \in Ops
        BY <1>1, <1>2, <1>6
      <4> HIDE DEF r
      <4>2. /\ c \in Seq(Ops)
            /\ Len(c) = IF n <= Len(q) - 1 THEN Len(q) - 1 - n + 1 ELSE 0
            /\ \A i \in 1..Len(q) - 1 - n + 1 : c[i] = r[n + i - 1]
        BY <1>1, <4>1, SubSeqProperties
      <4> HIDE DEF c
      <4> QED
        BY <1>1, <4>1, <4>2
    <3> HIDE DEF b, c, r
    <3>3. ASSUME NEW i \in 1..Len(q) - n PROVE c[i] = b[i]
      <4>1. n + i - 1 \in DOMAIN r /\ (n + i - 1) + 1 = n + i
        BY <1>1, <1>2, <1>6
      <4>2. r[n + i - 1] = q[(n + i - 1) + 1]
        BY <1>1, <4>1
      <4> QED
        BY <3>1, <3>2, <4>1, <4>2
    <3>4. c = b
      BY <3>1, <3>2, <3>3, SeqEqual
    <3> QED
      BY <3>4 DEF b, c
  <2>2. m = n - 1 /\ m + 1 = n
    BY <1>6
  <2> HIDE DEF r, m
  <2>3. BehindLoads(r, to) = BehindLoads(q, at)
    BY <1>1, <1>4, <1>5, <2>1, <2>2
  <2> QED
    BY <1>3, <1>6, <2>2, <2>3 DEF r
<1>7. CASE at[Head(q)] # "load"
  <2>1. n = 0 /\ SubSeq(q, 1, Len(q)) = q /\ SubSeq(r, 1, Len(r)) = r
    BY <1>1, <1>2, <1>7
  <2> QED
    BY <1>3, <1>4, <1>5, <1>7, <2>1
<1> QED
  BY <1>6, <1>7

(* The only process is the one that every operation is called in.          *)
LEMMA AllInOne ==
    ASSUME OneProcess, Processes # {}, Shape
    PROVE  One \in Processes /\ \A o \in Ops : owner[o] = One
  BY DEF OneProcess, One, Shape

(* Whoever runs a write is first behind the loads.                         *)
LEMMA WriterIsFirst ==
    ASSUME Shape, One \in Processes, LoadsFirst, NEW o \in Ops, owner[o] = One,
           Running(o), step[o] # "load"
    PROVE  Serial!AtHead(o)
<1> DEFINE q == queue[One]
<1>1. q \in Seq(Ops) /\ q # <<>> /\ Head(q) = o
  BY DEF Shape, Running
<1>2. PICK n \in 0..Len(q) : LoadsAre(q, step, n)
  BY DEF LoadsFirst
<1> HIDE DEF q
<1>3. BehindLoads(q, step) = q
  BY <1>1, <1>2, JobLeaves
<1> QED
  BY <1>1, <1>3 DEF q, Serial!AtHead, writes

(* An operation that neither joins nor leaves the queue leaves what is     *)
(* behind the loads, unless it becomes or ends a load.                     *)
LEMMA QueueStays ==
    ASSUME Shape, One \in Processes, LoadsFirst, NEW o \in Ops,
           \A q \in Ops \ {o} : step'[q] = step[q],
           InQueue(o) => InQueue(o)' /\ (step'[o] = "load" <=> step[o] = "load"),
           UNCHANGED <<queue, loaded, crashes>>
    PROVE  LoadsFirst' /\ writes' = writes
<1> DEFINE q == queue[One]
<1>1. q \in Seq(Ops) /\ q' = q /\ \A i \in DOMAIN q : q[i] \in Ops /\ InQueue(q[i])
  BY DEF Shape, LoadsFirst
<1>2. PICK n \in 0..Len(q) : LoadsAre(q, step, n) /\ (~loaded[One] => n = Len(q))
  BY DEF LoadsFirst
<1>3. \A i \in DOMAIN q : step'[q[i]] = "load" <=> step[q[i]] = "load"
  BY <1>1
<1>4. LoadsAre(q, step', n) /\ BehindLoads(q, step') = BehindLoads(q, step)
  <2> HIDE DEF q
  <2> QED
    BY <1>1, <1>2, <1>3, LoadsStay
<1>5. \A i \in DOMAIN q : InQueue(q[i])'
  BY <1>1 DEF InQueue, InJob, Holding
<1>6. LoadsAre(q, step, n)' /\ writes' = BehindLoads(q, step')
  BY <1>1, <1>4 DEF LoadsAre, writes, BehindLoads
<1> QED
  BY <1>1, <1>2, <1>4, <1>5, <1>6 DEF LoadsFirst, writes

(* An operation joins the queue, to load while the file is not loaded, to  *)
(* write afterwards.                                                       *)
LEMMA QueueGrows ==
    ASSUME Shape, One \in Processes, LoadsFirst, NEW o \in Ops, owner[o] = One,
           \A q \in Ops \ {o} : step'[q] = step[q], ~InQueue(o),
           \/ step'[o] = "load" /\ ~loaded[One]
           \/ step'[o] = "queued" /\ loaded[One],
           queue' = Enqueued(o), UNCHANGED <<loaded, crashes>>
    PROVE  /\ LoadsFirst'
           /\ writes' = IF step'[o] = "load" THEN writes ELSE Append(writes, o)
<1> DEFINE q == queue[One]
<1> DEFINE r == Append(q, o)
<1>1. /\ q \in Seq(Ops) /\ queue'[One] = r
      /\ \A i \in DOMAIN q : q[i] \in Ops /\ InQueue(q[i]) /\ q[i] # o
  BY DEF Shape, LoadsFirst, Enqueued
<1>2. PICK n \in 0..Len(q) : LoadsAre(q, step, n) /\ (~loaded[One] => n = Len(q))
  BY DEF LoadsFirst
<1>3. \A i \in DOMAIN q : step'[q[i]] = step[q[i]]
  BY <1>1
<1>4. /\ r \in Seq(Ops) /\ DOMAIN r = 1..Len(q) + 1 /\ r[Len(q) + 1] = o
      /\ \A i \in DOMAIN q : r[i] = q[i]
      /\ DOMAIN q = 1..Len(q) /\ Len(q) \in Nat
  BY <1>1
<1>5. /\ \E m \in 0..Len(r) :
            /\ LoadsAre(r, step', m)
            /\ m = IF step'[o] = "load" THEN Len(r) ELSE n
      /\ BehindLoads(r, step') = IF step'[o] = "load" THEN BehindLoads(q, step)
                                 ELSE Append(BehindLoads(q, step), o)
  <2>1. step'[o] = "load" => n = Len(q)
    BY <1>2
  <2>2. \A i \in DOMAIN q : step'[q[i]] = "load" <=> step[q[i]] = "load"
    BY <1>3
  <2> HIDE DEF q
  <2> QED
    BY <1>1, <1>2, <2>1, <2>2, JobJoins
<1>6. PICK m \in 0..Len(r) : LoadsAre(r, step', m) /\ (~loaded'[One] => m = Len(r))
  BY <1>5
<1>7. \A i, j \in DOMAIN r : r[i] = r[j] => i = j
  <2> SUFFICES ASSUME NEW i \in DOMAIN r, NEW j \in DOMAIN r, r[i] = r[j] PROVE i = j
    OBVIOUS
  <2>1. (i \in DOMAIN q \/ i = Len(q) + 1) /\ (j \in DOMAIN q \/ j = Len(q) + 1)
    BY <1>4
  <2>2. CASE i \in DOMAIN q /\ j \in DOMAIN q
    BY <1>4, <2>2 DEF LoadsFirst
  <2>3. CASE i = Len(q) + 1 /\ j \in DOMAIN q
    BY <1>1, <1>4, <2>3
  <2>4. CASE i \in DOMAIN q /\ j = Len(q) + 1
    BY <1>1, <1>4, <2>4
  <2> QED
    BY <2>1, <2>2, <2>3, <2>4
<1>8. \A i \in DOMAIN r : \A x \in Ops : x = r[i] => InQueue(x)'
  <2> SUFFICES ASSUME NEW i \in DOMAIN r, NEW x \in Ops, x = r[i] PROVE InQueue(x)'
    OBVIOUS
  <2>1. CASE i \in DOMAIN q
    BY <1>1, <1>3, <1>4, <2>1 DEF InQueue, InJob, Holding
  <2>2. CASE i = Len(q) + 1
    BY <1>4, <2>2 DEF InQueue
  <2> QED
    BY <1>4, <2>1, <2>2
<1>9. crashes' \in Nat
  BY DEF LoadsFirst
<1> HIDE DEF r
<1>10. LoadsFirst'
  <2>1. \A i \in DOMAIN r : r[i] \in Ops
    BY <1>4 DEF r
  <2>2. \A i \in DOMAIN r : step'[r[i]] \in
          {"load", "queued", "write", "rename", "unlock", "undo", "lock", "return"}
    BY <1>8, <2>1 DEF InQueue, InJob, Holding
  <2> QED
    BY <1>1, <1>6, <1>7, <1>9, <2>2 DEF LoadsFirst, LoadsAre, InQueue, InJob, Holding
<1>11. writes' = BehindLoads(r, step')
  BY <1>1 DEF writes, BehindLoads, LoadsAre
<1> QED
  BY <1>5, <1>10, <1>11 DEF writes, r

(* The running job leaves the queue, a load or, once the file is loaded, a *)
(* write.                                                                  *)
LEMMA QueueShrinks ==
    ASSUME Shape, One \in Processes, LoadsFirst, NEW o \in Ops, owner[o] = One,
           Running(o), \A q \in Ops \ {o} : step'[q] = step[q], loaded'[One],
           queue' = Dequeued(o), UNCHANGED crashes
    PROVE  /\ LoadsFirst'
           /\ writes' = IF step[o] = "load" THEN writes ELSE Tail(writes)
<1> DEFINE q == queue[One]
<1> DEFINE r == Tail(q)
<1>1. /\ q \in Seq(Ops) /\ q # <<>> /\ Head(q) = o /\ queue'[One] = r
      /\ \A i \in DOMAIN q : q[i] \in Ops /\ InQueue(q[i])
  BY DEF Shape, LoadsFirst, Running, Dequeued
<1>2. PICK n \in 0..Len(q) : LoadsAre(q, step, n)
  BY DEF LoadsFirst
<1>3. /\ r \in Seq(Ops) /\ DOMAIN r = 1..Len(q) - 1 /\ Len(q) \in Nat \ {0}
      /\ \A i \in DOMAIN r : r[i] = q[i + 1] /\ i + 1 \in DOMAIN q /\ i \in Nat \ {0}
      /\ q[1] = o /\ 1 \in DOMAIN q
  BY <1>1
<1>4. ASSUME NEW i \in DOMAIN q, i # 1 PROVE q[i] # o /\ step'[q[i]] = step[q[i]]
  BY <1>1, <1>3, <1>4 DEF LoadsFirst
<1>5. /\ \E m \in 0..Len(r) : LoadsAre(r, step', m)
      /\ BehindLoads(r, step') = IF step[o] = "load" THEN BehindLoads(q, step)
                                 ELSE Tail(BehindLoads(q, step))
  <2>1. \A i \in DOMAIN q : i # 1 => (step'[q[i]] = "load" <=> step[q[i]] = "load")
    BY <1>4
  <2> HIDE DEF q
  <2> QED
    BY <1>1, <1>2, <2>1, JobLeaves
<1>6. PICK m \in 0..Len(r) : LoadsAre(r, step', m)
  BY <1>5
<1>7. \A i, j \in DOMAIN r : r[i] = r[j] => i = j
  <2> SUFFICES ASSUME NEW i \in DOMAIN r, NEW j \in DOMAIN r, r[i] = r[j] PROVE i = j
    OBVIOUS
  <2>1. i + 1 = j + 1
    BY <1>3 DEF LoadsFirst
  <2> QED
    BY <1>3, <2>1
<1>8. \A i \in DOMAIN r : \A x \in Ops : x = r[i] => InQueue(x)'
  <2> SUFFICES ASSUME NEW i \in DOMAIN r, NEW x \in Ops, x = r[i] PROVE InQueue(x)'
    OBVIOUS
  <2>1. r[i] = q[i + 1] /\ i + 1 \in DOMAIN q /\ i + 1 # 1
    BY <1>3
  <2> QED
    BY <1>1, <1>4, <2>1 DEF InQueue, InJob, Holding
<1>9. crashes' \in Nat
  BY DEF LoadsFirst
<1> HIDE DEF r
<1>10. LoadsFirst'
  <2>1. \A i \in DOMAIN r : r[i] \in Ops
    BY <1>3 DEF r
  <2>2. \A i \in DOMAIN r : step'[r[i]] \in
          {"load", "queued", "write", "rename", "unlock", "undo", "lock", "return"}
    BY <1>8, <2>1 DEF InQueue, InJob, Holding
  <2> QED
    BY <1>1, <1>6, <1>7, <1>9, <2>2 DEF LoadsFirst, LoadsAre, InQueue, InJob, Holding
<1>11. writes' = BehindLoads(r, step')
  BY <1>1 DEF writes, BehindLoads, LoadsAre
<1> QED
  BY <1>5, <1>10, <1>11 DEF writes, r

(* What SerialStore sees of a step is what it does to its operation.       *)
LEMMA View ==
    ASSUME NEW o \in Ops,
           \A q \in Ops \ {o} : step'[q] = step[q] /\ request'[q] = request[q]
    PROVE  /\ phases' = [phases EXCEPT ![o] = Phase(o)']
           /\ requests' = [requests EXCEPT ![o] =
                  IF Phase(o)' = "new" THEN NoRequest ELSE request'[o]]
<1>1. \A q \in Ops \ {o} : Phase(q)' = Phase(q)
  BY DEF Phase
<1>2. phases' = [q \in Ops |-> Phase(q)']
  BY DEF phases
<1>3. requests' = [q \in Ops |-> IF Phase(q)' = "new" THEN NoRequest ELSE request'[q]]
  BY DEF requests, phases
<1>4. requests = [q \in Ops |-> IF Phase(q) = "new" THEN NoRequest ELSE request[q]]
  BY DEF requests, phases
<1> QED
  BY <1>1, <1>2, <1>3, <1>4 DEF phases

(* A step that leaves the phase of its operation and what it was asked     *)
(* for as they are shows nothing of itself there.                          *)
LEMMA Unseen ==
    ASSUME NEW o \in Ops,
           \A q \in Ops \ {o} : step'[q] = step[q] /\ request'[q] = request[q],
           Phase(o)' = Phase(o), Phase(o) = "new" \/ request'[o] = request[o]
    PROVE  UNCHANGED <<phases, requests>>
<1>1. \A q \in Ops : Phase(q)' = Phase(q)
  BY DEF Phase
<1>2. phases' = [q \in Ops |-> Phase(q)']
  BY DEF phases
<1>3. requests' = [q \in Ops |-> IF Phase(q)' = "new" THEN NoRequest ELSE request'[q]]
  BY DEF requests, phases
<1>4. requests = [q \in Ops |-> IF Phase(q) = "new" THEN NoRequest ELSE request[q]]
  BY DEF requests, phases
<1> QED
  BY <1>1, <1>2, <1>3, <1>4 DEF phases

(* The data of both are the same.                                          *)
LEMMA SameData ==
    /\ Serial!Request = Request
    /\ \A t : Serial!Sweepable(t) = Sweepable(t)
    /\ \A o, r, t : Serial!Effect(o, r, t) = Effect(o, r, t)
  BY DEF Serial!Request, Request, Serial!Status, Status, Serial!Sweepable, Sweepable,
         Serial!Effect, Effect, Serial!Written, Written, Serial!Patched, Patched

(* A get names a session and nothing else.                                 *)
LEMMA GetNames ==
    ASSUME NEW r \in Request, r.type = "get"
    PROVE  \E i \in Ids : r = [type |-> "get", id |-> i]
<1>1. r \in [type : {"create", "patch", "delete", "get"}, id : Ids]
  BY DEF Request
<1> QED
  BY <1>1

(* A store just made is a serial store just made.                          *)
LEMMA InitImplements ==
    ASSUME Processes # {}
    PROVE  Init => LoadsFirst /\ Untouched /\ Serial!Init
<1> SUFFICES ASSUME Init PROVE LoadsFirst /\ Untouched /\ Serial!Init
  OBVIOUS
<1>1. One \in Processes
  BY DEF One
<1>2. queue[One] = <<>> /\ Len(queue[One]) = 0 /\ DOMAIN queue[One] = {}
  BY <1>1 DEF Init
<1>3. LoadsAre(queue[One], step, 0) /\ writes = <<>>
  <2>1. \A at : LoadsAre(<<>>, at, 0)
    BY DEF LoadsAre
  <2>2. ASSUME NEW at PROVE BehindLoads(<<>>, at) = <<>>
    <3>1. <<>> \in Seq(Ops) /\ 0 \in 0..Len(<<>>) /\ Len(<<>>) = 0
      OBVIOUS
    <3>2. BehindLoads(<<>>, at) = SubSeq(<<>>, 0 + 1, Len(<<>>))
      BY <2>1, <3>1, BehindIs
    <3> QED
      BY <3>1, <3>2
  <2> QED
    BY <1>2, <2>1, <2>2 DEF writes
<1>4. LoadsFirst
  BY <1>2, <1>3 DEF LoadsFirst, Init
<1>5. phases = [o \in Ops |-> "new"]
  BY DEF Init, phases, Phase
<1>6. requests = [o \in Ops |-> NoRequest]
  BY <1>5 DEF Init, requests
<1>7. contents = file
  BY <1>1 DEF Init, contents
<1>8. Untouched
  BY DEF Init, Untouched
<1> QED
  BY <1>3, <1>4, <1>5, <1>6, <1>7, <1>8
     DEF Init, Serial!Init, Serial!EarlierTable, EarlierTable,
         Serial!NoRequest, NoRequest, Serial!Status, Status

(* Whoever moves on from where it was asked waits for the load or finds    *)
(* the file loaded.                                                        *)
LEMMA UntouchedStep ==
    ASSUME OneProcess, Processes # {}
    PROVE  Shape /\ OneJob /\ Durable /\ crashes \in Nat /\ Untouched /\ [Next]_vars =>
             Untouched'
<1> SUFFICES ASSUME Shape, OneJob, Durable, crashes \in Nat, Untouched, [Next]_vars,
                    crashes' = 0, ~loaded'[One]
             PROVE  \A o \in Ops : step'[o] \in {"new", "load"}
  BY DEF Untouched
<1> One \in Processes /\ \A o \in Ops : owner[o] = One
  BY AllInOne
<1>1. CASE UNCHANGED vars
  BY <1>1 DEF vars, Untouched
<1>2. ASSUME NEW o \in Ops, NEW r \in Request, Issue(o, r)
      PROVE  \A q \in Ops : step'[q] \in {"new", "load"}
  <2>1. /\ UNCHANGED <<loaded, crashes>> /\ step'[o] = "load"
        /\ \A q \in Ops \ {o} : step'[q] = step[q]
    BY <1>2, Moves DEF Issue
  <2> QED
    BY <2>1 DEF Untouched
<1>3. ASSUME NEW o \in Ops, Load(o) \/ LoadFails(o) PROVE FALSE
  BY <1>3 DEF Load, LoadFails, Durable, Maps
<1>4. ASSUME NEW o \in Ops,
             \/ Read(o) \/ Enqueue(o) \/ Change(o) \/ Sweep(o) \/ Return(o)
             \/ Lock(o) \/ LockTimesOut(o) \/ LockFails(o) \/ WriteTemp(o)
             \/ Rename(o) \/ WriteFails(o) \/ Unlock(o) \/ UnlockFails(o)
      PROVE  FALSE
  <2>1. UNCHANGED <<loaded, crashes>>
    BY <1>4 DEF Read, Enqueue, Change, Sweep, Return, Lock, LockTimesOut, LockFails,
                WriteTemp, Rename, WriteFails, Unlock, UnlockFails
  <2>2. step[o] \notin {"new", "load"}
    BY <1>4 DEF Read, Enqueue, Change, Sweep, Return, Lock, LockTimesOut, LockFails,
                WriteTemp, Rename, WriteFails, Unlock, UnlockFails
  <2> QED
    BY <2>1, <2>2 DEF Untouched
<1>5. ASSUME NEW p \in Processes, Crash(p) PROVE FALSE
  BY <1>5 DEF Crash
<1> QED
  BY <1>1, <1>2, <1>3, <1>4, <1>5 DEF Next, Proceed, Fault

(* Every step but a crash is one of the serial store, or one that it does  *)
(* not see, or a load that fails and forgets what nobody has seen yet; and *)
(* the jobs that load stay first.                                          *)
LEMMA StepImplements ==
    ASSUME OneProcess, Processes # {}, FileAssumption
    PROVE  IInv /\ Durable /\ LoadsFirst /\ Untouched /\ [Next]_vars =>
             /\ LoadsFirst'
             /\ crashes' = 0 => [Serial!Next \/ Serial!Forget]_(Serial!vars)
<1> SUFFICES ASSUME Shape, OneJob, Saved, LockExclusive, Durable, LoadsFirst,
                    Untouched, [Next]_vars
             PROVE  /\ LoadsFirst'
                    /\ crashes' = 0 => \/ Serial!Next \/ Serial!Forget
                                       \/ UNCHANGED Serial!vars
  BY DEF IInv
<1> One \in Processes /\ \A o \in Ops : owner[o] = One
  BY AllInOne
<1>1. CASE UNCHANGED vars
  <2>1. UNCHANGED <<phases, requests, contents, writes, answer>>
    BY <1>1 DEF vars, phases, requests, Phase, contents, writes, BehindLoads, LoadsAre
  <2>2. LoadsFirst'
    BY <1>1 DEF vars, LoadsFirst, InQueue, InJob, Holding, LoadsAre
  <2> QED
    BY <2>1, <2>2 DEF Serial!vars
<1>2. ASSUME NEW o \in Ops, NEW r \in Request, Issue(o, r)
      PROVE  LoadsFirst' /\ UNCHANGED Serial!vars
  <2>1. /\ step[o] = "new" /\ step'[o] = IF loaded[One] THEN "ready" ELSE "load"
        /\ \A q \in Ops \ {o} : step'[q] = step[q] /\ request'[q] = request[q]
        /\ UNCHANGED <<file, sessions, loaded, answer, crashes>>
        /\ IF loaded[One] THEN UNCHANGED queue ELSE queue' = Enqueued(o)
    BY <1>2, Moves DEF Issue
  <2>2. UNCHANGED <<phases, requests, contents>>
    <3>1. Phase(o) = "new" /\ Phase(o)' = "new"
      BY <2>1 DEF Phase
    <3> QED
      BY <2>1, <3>1, Unseen DEF contents
  <2>3. ~InQueue(o)
    BY <2>1 DEF InQueue, InJob, Holding
  <2>4. LoadsFirst' /\ writes' = writes
    BY <2>1, <2>3, QueueStays, QueueGrows
  <2> QED
    BY <2>1, <2>2, <2>4 DEF Serial!vars
<1>3. ASSUME NEW o \in Ops, Load(o) PROVE LoadsFirst' /\ UNCHANGED Serial!vars
  <2>1. /\ step[o] = "load" /\ step'[o] = "ready" /\ Running(o) /\ loaded'[One]
        /\ \A q \in Ops \ {o} : step'[q] = step[q]
        /\ UNCHANGED <<request, answer, crashes>> /\ queue' = Dequeued(o)
    BY <1>3, Moves DEF Load, Durable, Maps
  <2>2. UNCHANGED <<phases, requests>>
    <3>1. Phase(o) = "new" /\ Phase(o)' = "new"
      BY <2>1 DEF Phase
    <3> QED
      BY <2>1, <3>1, Unseen
  <2>3. contents' = contents
    BY <1>3, <2>1 DEF Load, contents, Shape
  <2>4. LoadsFirst' /\ writes' = writes
    BY <2>1, QueueShrinks
  <2> QED
    BY <2>1, <2>2, <2>3, <2>4 DEF Serial!vars
<1>4. ASSUME NEW o \in Ops, Read(o) PROVE LoadsFirst' /\ Serial!Next
  <2>1. /\ step[o] = "ready" /\ step'[o] = "done" /\ request[o].type = "get"
        /\ \A q \in Ops \ {o} : step'[q] = step[q]
        /\ UNCHANGED <<file, sessions, loaded, request, queue, crashes>>
        /\ answer' = [answer EXCEPT ![o] = sessions[One][request[o].id]]
    BY <1>4, Moves DEF Read
  <2>2. loaded[One] /\ request[o] \in Request
    BY <2>1 DEF Durable, Asked
  <2>3. PICK i \in Ids : request[o] = [type |-> "get", id |-> i]
    BY <2>1, <2>2, GetNames
  <2>4. LoadsFirst' /\ writes' = writes
    <3>1. ~InQueue(o)
      BY <2>1 DEF InQueue, InJob, Holding
    <3> QED
      BY <2>1, <3>1, QueueStays
  <2>5. /\ phases[o] = "new" /\ phases' = [phases EXCEPT ![o] = "done"]
        /\ requests' = [requests EXCEPT ![o] = [type |-> "get", id |-> i]]
    <3>1. Phase(o) = "new" /\ Phase(o)' = "done"
      BY <2>1 DEF Phase
    <3> QED
      BY <2>1, <2>3, <3>1, View DEF phases
  <2>6. answer' = [answer EXCEPT ![o] = contents[i]] /\ contents' = contents
    BY <2>1, <2>2, <2>3 DEF contents
  <2>7. Serial!Read(o, i)
    BY <2>4, <2>5, <2>6 DEF Serial!Read
  <2> QED
    BY <2>4, <2>7 DEF Serial!Next
<1>5. ASSUME NEW o \in Ops, Enqueue(o) PROVE LoadsFirst' /\ Serial!Next
  <2>1. /\ step[o] = "ready" /\ step'[o] = "queued" /\ request[o].type # "get"
        /\ \A q \in Ops \ {o} : step'[q] = step[q]
        /\ UNCHANGED <<file, sessions, loaded, request, answer, crashes>>
        /\ queue' = Enqueued(o)
    BY <1>5, Moves DEF Enqueue
  <2>2. loaded[One] /\ request[o] \in Request
    BY <2>1 DEF Durable, Asked
  <2>3. LoadsFirst' /\ writes' = Append(writes, o)
    <3>1. ~InQueue(o)
      BY <2>1 DEF InQueue, InJob, Holding
    <3> QED
      BY <2>1, <2>2, <3>1, QueueGrows
  <2>4. /\ phases[o] = "new" /\ phases' = [phases EXCEPT ![o] = "pending"]
        /\ requests' = [requests EXCEPT ![o] = request[o]]
    <3>1. Phase(o) = "new" /\ Phase(o)' = "pending"
      BY <2>1 DEF Phase
    <3> QED
      BY <2>1, <3>1, View DEF phases
  <2>5. contents' = contents
    BY <2>1 DEF contents
  <2>6. Serial!Enqueue(o, request[o]) /\ request[o] \in Serial!Request
    BY <2>1, <2>2, <2>3, <2>4, <2>5, SameData DEF Serial!Enqueue
  <2> QED
    BY <2>3, <2>6 DEF Serial!Next
(* The change of the map, by a write that is first behind the loads.       *)
<1>6. ASSUME NEW o \in Ops, step[o] = "queued", Running(o),
             step'[o] \in {"return", "lock"},
             \A q \in Ops \ {o} : step'[q] = step[q],
             UNCHANGED <<file, loaded, request, queue, answer, crashes>>
      PROVE  /\ LoadsFirst' /\ Serial!AtHead(o) /\ loaded[One]
             /\ phases[o] = "pending" /\ requests[o] = request[o]
             /\ phases' = [phases EXCEPT ![o] = "applied"]
             /\ UNCHANGED <<requests, writes>>
  <2>1. LoadsFirst' /\ writes' = writes
    <3>1. InQueue(o)' /\ step'[o] # "load"
      BY <1>6 DEF InQueue, InJob
    <3> QED
      BY <1>6, <3>1, QueueStays
  <2>2. Phase(o) = "pending" /\ Phase(o)' = "applied"
    BY <1>6 DEF Phase
  <2>3. phases[o] = "pending" /\ requests[o] = request[o]
    BY <2>2 DEF phases, requests
  <2>4. requests' = [requests EXCEPT ![o] = request[o]]
        /\ phases' = [phases EXCEPT ![o] = "applied"]
    BY <1>6, <2>2, View
  <2>5. requests' = requests
    BY <2>3, <2>4 DEF requests
  <2>6. loaded[One]
    BY <1>6 DEF Durable, Asked
  <2> QED
    BY <1>6, <2>1, <2>3, <2>4, <2>5, <2>6, WriterIsFirst
<1>7. ASSUME NEW o \in Ops, Change(o) PROVE LoadsFirst' /\ Serial!Next
  <2>1. /\ step[o] = "queued" /\ Running(o) /\ request[o].type # "sweep"
        /\ step'[o] \in {"return", "lock"} /\ \A q \in Ops \ {o} : step'[q] = step[q]
        /\ UNCHANGED <<file, loaded, request, queue, answer, crashes>>
    BY <1>7, Moves DEF Change
  <2>2. sessions' = [sessions EXCEPT ![One] = Effect(o, request[o], @)]
    BY <1>7 DEF Change
  <2>3. contents' = Serial!Effect(o, request[o], contents)
    BY <1>6, <2>1, <2>2, SameData DEF contents, Shape
  <2>4. Serial!Apply(o)
    BY <1>6, <2>1, <2>3 DEF Serial!Apply
  <2> QED
    BY <1>6, <2>1, <2>4 DEF Serial!Next
<1>8. ASSUME NEW o \in Ops, Sweep(o) PROVE LoadsFirst' /\ Serial!Next
  <2>1. /\ step[o] = "queued" /\ Running(o) /\ request[o].type = "sweep"
        /\ step'[o] \in {"return", "lock"} /\ \A q \in Ops \ {o} : step'[q] = step[q]
        /\ UNCHANGED <<file, loaded, request, queue, answer, crashes>>
    BY <1>8, Moves DEF Sweep
  <2>2. PICK S \in SUBSET Sweepable(sessions[owner[o]]) :
           sessions' = [sessions EXCEPT ![owner[o]] =
                          [i \in Ids |-> IF i \in S THEN Absent ELSE @[i]]]
    BY <1>8 DEF Sweep
  <2>3. contents' = [i \in Ids |-> IF i \in S THEN Absent ELSE contents[i]]
    <3>1. loaded[One] /\ loaded'[One]
      BY <1>6, <2>1
    <3>2. sessions'[One] = [i \in Ids |-> IF i \in S THEN Absent ELSE sessions[One][i]]
      BY <2>2 DEF Shape
    <3> QED
      BY <3>1, <3>2 DEF contents
  <2>4. S \in SUBSET Serial!Sweepable(contents)
    <3>1. contents = sessions[One]
      BY <1>6, <2>1 DEF contents
    <3> QED
      BY <3>1, SameData
  <2>5. Serial!SweepSome(o)
    BY <1>6, <2>1, <2>3, <2>4 DEF Serial!SweepSome
  <2> QED
    BY <1>6, <2>1, <2>5 DEF Serial!Next
<1>9. ASSUME NEW o \in Ops,
             \/ Return(o) \/ LockTimesOut(o) \/ LockFails(o) \/ Unlock(o)
             \/ UnlockFails(o)
      PROVE  LoadsFirst' /\ Serial!Next
  <2>1. /\ step'[o] \in {"done", "failed"} /\ \A q \in Ops \ {o} : step'[q] = step[q]
        /\ queue' = Dequeued(o) /\ InJob(o)
        /\ UNCHANGED <<file, sessions, loaded, request, answer, crashes>>
    BY <1>9, Moves DEF Return, LockTimesOut, LockFails, Unlock, UnlockFails, InJob,
                       Holding
  <2>2. Running(o) /\ loaded[One] /\ step[o] # "load"
    BY <2>1 DEF OneJob, Durable, Asked, InJob, Holding
  <2>3. LoadsFirst' /\ writes' = Tail(writes) /\ Serial!AtHead(o)
    BY <2>1, <2>2, QueueShrinks, WriterIsFirst
  <2>4. Phase(o) = "applied" /\ Phase(o)' = step'[o]
    BY <2>1 DEF Phase, InJob, Holding
  <2>5. phases[o] = "applied" /\ requests[o] = request[o]
    BY <2>4 DEF phases, requests
  <2>6. requests' = [requests EXCEPT ![o] = request[o]]
        /\ phases' = [phases EXCEPT ![o] = step'[o]]
    BY <2>1, <2>4, View
  <2>7. requests' = requests /\ contents' = contents
    BY <2>1, <2>5, <2>6 DEF requests, contents
  <2>8. Serial!Settle(o)
    BY <2>1, <2>3, <2>5, <2>6, <2>7 DEF Serial!Settle
  <2> QED
    BY <2>3, <2>8 DEF Serial!Next
<1>10. ASSUME NEW o \in Ops, Lock(o) \/ WriteTemp(o) \/ Rename(o) \/ WriteFails(o)
       PROVE  LoadsFirst' /\ UNCHANGED Serial!vars
  <2>1. /\ InJob(o) /\ step'[o] \in {"write", "rename", "unlock", "undo"}
        /\ \A q \in Ops \ {o} : step'[q] = step[q]
        /\ UNCHANGED <<sessions, loaded, request, queue, answer, crashes>>
    BY <1>10, Moves DEF Lock, WriteTemp, Rename, WriteFails, InJob, Holding
  <2>2. InJob(o)' /\ step[o] # "load" /\ step'[o] # "load" /\ loaded[One]
    BY <2>1 DEF InJob, Holding, Durable, Asked
  <2>3. LoadsFirst' /\ writes' = writes
    BY <2>1, <2>2, QueueStays DEF InQueue
  <2>4. Phase(o) = "applied" /\ Phase(o)' = "applied"
    BY <2>1 DEF Phase, InJob, Holding
  <2>5. UNCHANGED <<phases, requests, contents>>
    BY <2>1, <2>2, <2>4, Unseen DEF contents
  <2> QED
    BY <2>1, <2>3, <2>5 DEF Serial!vars
<1>11. ASSUME NEW p \in Processes, Crash(p) PROVE LoadsFirst' /\ crashes' # 0
  <2>1. queue'[One] = <<>> /\ crashes' \in Nat \ {0}
    BY <1>11 DEF Crash, Shape, OneProcess, LoadsFirst
  <2>2. Len(queue'[One]) = 0 /\ DOMAIN queue'[One] = {}
    BY <2>1
  <2> QED
    BY <2>1, <2>2 DEF LoadsFirst, LoadsAre
<1>12. ASSUME NEW o \in Ops, LoadFails(o)
       PROVE  LoadsFirst' /\ (crashes' = 0 => Serial!Forget)
  <2>1. /\ step[o] = "load" /\ step'[o] = "ready" /\ Running(o)
        /\ ~loaded[One] /\ loaded'[One]
        /\ \A q \in Ops \ {o} : step'[q] = step[q]
        /\ UNCHANGED <<request, answer, crashes>> /\ queue' = Dequeued(o)
        /\ sessions'[One] = Empty
    BY <1>12, Moves DEF LoadFails, Durable, Maps, Shape
  <2>2. UNCHANGED <<phases, requests>>
    <3>1. Phase(o) = "new" /\ Phase(o)' = "new"
      BY <2>1 DEF Phase
    <3> QED
      BY <2>1, <3>1, Unseen
  <2>3. contents' = [i \in Ids |-> Absent]
    BY <2>1 DEF contents, Empty
  <2>4. LoadsFirst' /\ writes' = writes
    BY <2>1, QueueShrinks
  <2>5. ASSUME crashes' = 0, NEW q \in Ops PROVE phases[q] = "new"
    <3>1. step[q] \in {"new", "load"}
      BY <2>1, <2>5 DEF Untouched
    <3> QED
      BY <3>1 DEF phases, Phase
  <2> QED
    BY <2>1, <2>2, <2>3, <2>4, <2>5 DEF Serial!Forget
<1> QED
  BY <1>1, <1>2, <1>3, <1>4, <1>5, <1>7, <1>8, <1>9, <1>10, <1>11, <1>12
     DEF Next, Proceed, Fault

(* The file store of the only process on its file implements the serial    *)
(* store as long as that process does not crash: although the map changes  *)
(* before the file does and is empty before the load, clients see whole    *)
(* writes one at a time.  A load that fails forgets the sessions of the    *)
(* file, all of them and before anything was taken or answered             *)
(* (session-store.ts:173-347).                                             *)
THEOREM FileImplementsSerial ==
    ASSUME OneProcess, Processes # {}
    PROVE  Spec => /\ Serial!Init
                   /\ [][crashes' = 0 => Serial!Next \/ Serial!Forget]_(Serial!vars)
<1>1. Init => IInv /\ Durable /\ LoadsFirst /\ Untouched /\ Serial!Init
  BY InitInv, InitDurable, InitImplements
<1>2. IInv /\ Durable /\ LoadsFirst /\ Untouched /\ [Next]_vars =>
        /\ IInv' /\ Durable' /\ LoadsFirst' /\ Untouched'
        /\ [crashes' = 0 => Serial!Next \/ Serial!Forget]_(Serial!vars)
  <2>1. IInv /\ [Next]_vars => IInv'
    BY ShapeStep, LockStep, JobStep, SavedStep DEF IInv
  <2>2. LoadsFirst => crashes \in Nat
    BY DEF LoadsFirst
  <2>3. IInv /\ Durable /\ LoadsFirst /\ Untouched /\ [Next]_vars => Untouched'
    BY <2>2, UntouchedStep DEF IInv
  <2> QED
    BY <2>1, <2>3, DurableStep, StepImplements, FileAssumption
<1> QED
  BY <1>1, <1>2, PTL DEF Spec
=============================================================================
