------------------------ MODULE AcpSessionStoreProofs ------------------------
(***************************************************************************)
(* The store on the runtime's database implements SerialStore, for any     *)
(* number of operations and sessions: its initial states and its steps are *)
(* those of SerialStore, or change nothing that SerialStore tells of.  The *)
(* inductive invariant says that a write works only while it is at the     *)
(* head of the queue, and that what it read is therefore still so.         *)
(* FileSessionStoreProofs shows the same of the file.  The second part     *)
(* concludes for the store that delegates to one of the two: an            *)
(* acknowledged session is durable and the store implements SerialStore,   *)
(* for any number of operations, sessions and crashes, and one process.    *)
(***************************************************************************)
EXTENDS Integers, AcpSessionStore, TLAPS

phases == [o \in Ops |-> Db!Phase(o)]
requests == [o \in Ops |-> IF Db!Phase(o) = "new" THEN Db!NoRequest ELSE request[o]]

DbSerial == INSTANCE SerialStore WITH
    records <- table, phase <- phases, request <- requests, queue <- tail

Steps == {"new", "queued", "init", "select", "write", "written", "done", "failed"}

(* The variables keep their types.                                       *)
TypeOK ==
    /\ table \in Db!Table /\ fetched \in [Ops -> Db!Record \cup {Absent}]
    /\ stale \in [Ops -> SUBSET Ids]
    /\ step \in [Ops -> Steps]
    /\ request \in [Ops -> Db!Request \cup {Db!NoRequest}]
    /\ tail \in Seq(Ops)

Reads(o) == request[o].type = "get"
AtHead(o) == tail # <<>> /\ Head(tail) = o
InQueue(o) == \E k \in 1 .. Len(tail) : tail[k] = o
Working(o) == step[o] \in {"init", "select", "write", "written"}

(* Writes wait in the queue and work at its head; reads pass it by and     *)
(* write nothing.                                                          *)
Queued(o) ==
    /\ step[o] # "new" => request[o] \in Db!Request
    /\ Reads(o) => step[o] \in {"new", "init", "select", "done", "failed"}
    /\ step[o] = "queued" => InQueue(o)
    /\ Working(o) /\ ~Reads(o) => AtHead(o)
OneJob == \A o \in Ops : Queued(o)

(* What a job read from the table is still there when it writes.           *)
Fresh(o) ==
    step[o] = "write" =>
        /\ request[o].type \in {"patch", "status"} =>
              fetched[o] = table[request[o].id]
        /\ request[o].type = "sweep" => stale[o] \subseteq Db!Sweepable(table)
StillFresh == \A o \in Ops : Fresh(o)

DbInv == TypeOK /\ OneJob /\ StillFresh

(* The requests of a store: only a sweep names no session.                 *)
LEMMA RequestKinds ==
    /\ Db!NoRequest.type = "none"
    /\ \A r \in Db!Request :
          /\ r.type \in {"create", "patch", "delete", "get", "status", "sweep"}
          /\ r.type # "sweep" => r.id \in Ids
          /\ r.type = "status" => r.status \in Db!Status
<1>1. ASSUME NEW r \in [type : {"create", "patch", "delete", "get"}, id : Ids]
      PROVE  /\ r.type \in {"create", "patch", "delete", "get"}
             /\ r.id \in Ids
  OBVIOUS
<1>2. ASSUME NEW r \in [type : {"status"}, id : Ids, status : Db!Status]
      PROVE  r.type = "status" /\ r.id \in Ids /\ r.status \in Db!Status
  OBVIOUS
<1>3. [type |-> "sweep"].type = "sweep" /\ Db!NoRequest.type = "none"
  BY DEF Db!NoRequest
<1>4. ASSUME NEW r \in Db!Request
      PROVE  /\ r.type \in {"create", "patch", "delete", "get", "status", "sweep"}
             /\ r.type # "sweep" => r.id \in Ids
             /\ r.type = "status" => r.status \in Db!Status
  <2>1. CASE r \in [type : {"create", "patch", "delete", "get"}, id : Ids]
    BY <1>1, <2>1
  <2>2. CASE r \in [type : {"status"}, id : Ids, status : Db!Status]
    BY <1>2, <2>2
  <2>3. CASE r = [type |-> "sweep"]
    BY <1>3, <2>3
  <2> QED
    BY <2>1, <2>2, <2>3 DEF Db!Request
<1> QED
  BY <1>3, <1>4

(* A get names a session, and nothing else.                                *)
LEMMA GetNames ==
    ASSUME NEW r \in Db!Request, r.type = "get"
    PROVE  \E i \in Ids : r = [type |-> "get", id |-> i]
<1>1. r \in [type : {"create", "patch", "delete", "get"}, id : Ids]
  BY DEF Db!Request
<1> QED
  BY <1>1

(* A store just made satisfies the inductive invariant.                    *)
LEMMA InitInv == Db!Init => DbInv
<1> SUFFICES ASSUME Db!Init PROVE DbInv
  OBVIOUS
<1>1. TypeOK
  BY DEF Db!Init, TypeOK, Steps, Db!EarlierTable, Db!Table, Db!Record
<1>2. OneJob
  BY DEF Db!Init, OneJob, Queued, Reads, Db!NoRequest, Working, InQueue
<1>3. StillFresh
  BY DEF Db!Init, StillFresh, Fresh
<1> QED
  BY <1>1, <1>2, <1>3 DEF DbInv

(* An operation moves on, and only that.                                   *)
LEMMA Moves ==
    ASSUME TypeOK, NEW o \in Ops, NEW s \in Steps, Db!Goto(o, s)
    PROVE  /\ step' \in [Ops -> Steps]
           /\ step'[o] = s /\ \A q \in Ops \ {o} : step'[q] = step[q]
  BY DEF TypeOK, Db!Goto

(* Who joins the queue is in it, behind those who were there.              *)
LEMMA Joins ==
    ASSUME tail \in Seq(Ops), NEW o \in Ops, tail' = Append(tail, o)
    PROVE  /\ tail' \in Seq(Ops)
           /\ \A q \in Ops : InQueue(q)' <=> InQueue(q) \/ q = o
           /\ \A q \in Ops : AtHead(q) => AtHead(q)'
<1>1. /\ tail' \in Seq(Ops) /\ Len(tail') = Len(tail) + 1
      /\ \A k \in 1 .. Len(tail) : tail'[k] = tail[k]
      /\ tail'[Len(tail) + 1] = o
  OBVIOUS
<1>2. ASSUME NEW q \in Ops PROVE InQueue(q)' <=> InQueue(q) \/ q = o
  <2>1. 1 .. Len(tail') = 1 .. Len(tail) \cup {Len(tail) + 1}
    BY <1>1
  <2> QED
    BY <1>1, <2>1 DEF InQueue
<1>3. ASSUME NEW q \in Ops, AtHead(q) PROVE AtHead(q)'
  BY <1>1, <1>3 DEF AtHead
<1> QED
  BY <1>1, <1>2, <1>3

(* Who leaves the head of the queue takes nobody else along.               *)
LEMMA Leaves ==
    ASSUME tail \in Seq(Ops), NEW o \in Ops, AtHead(o), tail' = Tail(tail)
    PROVE  /\ tail' \in Seq(Ops)
           /\ \A q \in Ops \ {o} : InQueue(q)' <=> InQueue(q)
<1>1. /\ tail' \in Seq(Ops) /\ Len(tail') = Len(tail) - 1 /\ Len(tail) > 0
      /\ \A k \in 1 .. Len(tail') : tail'[k] = tail[k + 1]
      /\ tail[1] = o
  BY DEF AtHead
<1>2. ASSUME NEW q \in Ops \ {o} PROVE InQueue(q)' => InQueue(q)
  BY <1>1 DEF InQueue
<1>3. ASSUME NEW q \in Ops \ {o}, InQueue(q) PROVE InQueue(q)'
  <2>1. PICK k \in 1 .. Len(tail) : tail[k] = q
    BY <1>3 DEF InQueue
  <2>2. k # 1 /\ k - 1 \in 1 .. Len(tail') /\ (k - 1) + 1 = k
    BY <1>1, <2>1
  <2>3. tail'[k - 1] = q
    BY <1>1, <2>1, <2>2
  <2> QED
    BY <2>2, <2>3 DEF InQueue
<1> QED
  BY <1>1, <1>2, <1>3

(* What a write puts in place of a record is a record, or none.            *)
LEMMA WrittenType ==
    ASSUME NEW o \in Ops, NEW r \in Db!Request, NEW rec \in Db!Record \cup {Absent}
    PROVE  Db!Written(o, r, rec) \in Db!Record \cup {Absent}
<1>1. [status |-> "live", data |-> o] \in Db!Record
  BY DEF Db!Record, Db!Status
<1>2. rec # Absent => Db!Patched(rec, o, r) \in Db!Record
  BY RequestKinds DEF Db!Patched, Db!Record
<1> QED
  BY <1>1, <1>2 DEF Db!Written

(* Every step keeps the variables in their types.                          *)
LEMMA TypeStep == DbInv /\ [Db!Next]_(Db!vars) => TypeOK'
<1> SUFFICES ASSUME TypeOK, OneJob, [Db!Next]_(Db!vars) PROVE TypeOK'
  BY DEF DbInv
<1>1. CASE UNCHANGED Db!vars \/ Db!FinishInit
  BY <1>1 DEF TypeOK, Db!vars, Db!FinishInit
<1>2. ASSUME NEW o \in Ops, NEW r \in Db!Request, Db!Issue(o, r) PROVE TypeOK'
  <2>1. tail' \in Seq(Ops)
    BY <1>2, Joins DEF TypeOK, Db!Issue
  <2>2. step' \in [Ops -> Steps]
    BY <1>2, Moves DEF Db!Issue, Steps
  <2> QED
    BY <1>2, <2>1, <2>2 DEF TypeOK, Db!Issue
<1>3. ASSUME NEW o \in Ops,
             Db!BeginJob(o) \/ Db!StartInit(o) \/ Db!Initialized(o) \/ Db!ReadRow(o)
      PROVE  TypeOK'
  <2>1. step' \in [Ops -> Steps]
    BY <1>3, Moves DEF Db!BeginJob, Db!StartInit, Db!Initialized, Db!ReadRow,
                       Steps, TypeOK
  <2> QED
    BY <1>3, <2>1 DEF TypeOK, Db!BeginJob, Db!StartInit, Db!Initialized,
                      Db!ReadRow
<1>4. ASSUME NEW o \in Ops, Db!SelectRow(o) \/ Db!SelectStale(o) PROVE TypeOK'
  <2>1. step' \in [Ops -> Steps]
    BY <1>4, Moves DEF Db!SelectRow, Db!SelectStale, Steps
  <2>2. CASE Db!SelectRow(o)
    <3>1. table[request[o].id] \in Db!Record \cup {Absent}
      BY <2>2, RequestKinds DEF TypeOK, Db!SelectRow, Db!Table
    <3> QED
      BY <2>1, <2>2, <3>1 DEF TypeOK, Db!SelectRow
  <2>3. CASE Db!SelectStale(o)
    <3>1. PICK S \in SUBSET Db!Sweepable(table) : stale' = [stale EXCEPT ![o] = S]
      BY <2>3 DEF Db!SelectStale
    <3> QED
      BY <2>1, <2>3, <3>1 DEF TypeOK, Db!SelectStale, Db!Sweepable
  <2> QED
    BY <1>4, <2>2, <2>3
<1>5. ASSUME NEW o \in Ops, Db!WriteRow(o) PROVE TypeOK'
  <2>1. request[o] \in Db!Request /\ request[o].type # "sweep"
    BY <1>5 DEF Db!WriteRow, OneJob, Queued
  <2>2. Db!Written(o, request[o], fetched[o]) \in Db!Record \cup {Absent}
    BY <2>1, WrittenType DEF TypeOK
  <2>3. step' \in [Ops -> Steps]
    BY <1>5, Moves DEF Db!WriteRow, Steps
  <2> QED
    BY <1>5, <2>1, <2>2, <2>3 DEF TypeOK, Db!Table, Db!WriteRow
<1>6. ASSUME NEW o \in Ops, Db!DeleteStale(o) PROVE TypeOK'
  <2>1. step' \in [Ops -> Steps]
    BY <1>6, Moves DEF Db!DeleteStale, Steps
  <2>2. PICK i \in stale[o] : table' = [table EXCEPT ![i] = Absent]
                              /\ stale' = [stale EXCEPT ![o] = @ \ {i}]
    BY <1>6 DEF Db!DeleteStale
  <2> QED
    BY <1>6, <2>1, <2>2 DEF TypeOK, Db!Table, Db!DeleteStale
<1>7. ASSUME NEW o \in Ops, Db!Resolve(o) \/ Db!Reject(o) PROVE TypeOK'
  <2>1. step' \in [Ops -> Steps]
    BY <1>7, Moves DEF Db!Resolve, Db!Reject, Steps
  <2>2. ~Reads(o) => AtHead(o)
    BY <1>7 DEF Db!Resolve, Db!Reject, OneJob, Queued, Working
  <2>3. tail' \in Seq(Ops)
    BY <1>7, <2>2, Leaves DEF Db!Resolve, Db!Reject, Db!Dequeue, Reads, TypeOK
  <2> QED
    BY <1>7, <2>1, <2>3 DEF TypeOK, Db!Resolve, Db!Reject
<1> QED
  BY <1>1, <1>2, <1>3, <1>4, <1>5, <1>6, <1>7 DEF Db!Next, Db!Proceed

(* Writes work at the head of the queue, one at a time.                    *)
LEMMA JobStep == DbInv /\ [Db!Next]_(Db!vars) => OneJob'
<1> SUFFICES ASSUME TypeOK, OneJob, [Db!Next]_(Db!vars) PROVE OneJob'
  BY DEF DbInv
<1>1. CASE UNCHANGED Db!vars \/ Db!FinishInit
  BY <1>1 DEF OneJob, Queued, Reads, Working, AtHead, InQueue, Db!vars,
              Db!FinishInit
<1>2. ASSUME NEW o \in Ops, NEW r \in Db!Request, Db!Issue(o, r) PROVE OneJob'
  <2>1. /\ request'[o] = r
        /\ \A q \in Ops \ {o} : request'[q] = request[q]
    BY <1>2 DEF TypeOK, Db!Issue
  <2>2. \A q \in Ops : AtHead(q) => AtHead(q)'
    BY <1>2, Joins DEF Db!Issue, TypeOK, AtHead
  <2>3. \A q \in Ops : InQueue(q) => InQueue(q)'
    BY <1>2, Joins DEF Db!Issue, TypeOK, InQueue
  <2>4. ASSUME NEW q \in Ops \ {o} PROVE Queued(q)'
    <3>1. step'[q] = step[q]
      BY <1>2, Moves DEF Db!Issue, Steps
    <3> QED
      BY <2>1, <2>2, <2>3, <3>1 DEF OneJob, Queued, Reads, Working
  <2>5. Queued(o)'
    <3>1. CASE r.type = "get"
      <4>1. step'[o] = "init"
        BY <1>2, <3>1, Moves DEF Db!Issue, Steps
      <4> QED
        BY <2>1, <3>1, <4>1 DEF Queued, Reads
    <3>2. CASE r.type # "get"
      <4>1. step'[o] = "queued" /\ InQueue(o)'
        BY <1>2, <3>2, Moves, Joins DEF Db!Issue, Steps, TypeOK
      <4> QED
        BY <2>1, <3>2, <4>1 DEF Queued, Reads, Working
    <3> QED
      BY <3>1, <3>2
  <2> QED
    BY <2>4, <2>5 DEF OneJob
<1>3. ASSUME NEW o \in Ops, UNCHANGED <<request, tail>>,
             \A q \in Ops \ {o} : step'[q] = step[q], Queued(o)'
      PROVE  OneJob'
  BY <1>3 DEF OneJob, Queued, Reads, Working, AtHead, InQueue
<1>4. ASSUME NEW o \in Ops, Db!BeginJob(o) PROVE OneJob'
  <2>1. step'[o] = "init" /\ \A q \in Ops \ {o} : step'[q] = step[q]
    BY <1>4, Moves DEF Db!BeginJob, Steps
  <2>2. AtHead(o) /\ ~Reads(o)
    <3>1. InQueue(o) /\ ~Reads(o)
      BY <1>4 DEF Db!BeginJob, OneJob, Queued
    <3> QED
      BY <1>4, <3>1 DEF Db!BeginJob, AtHead, InQueue, TypeOK
  <2>3. UNCHANGED <<request, tail>>
    BY <1>4 DEF Db!BeginJob
  <2>4. Queued(o)'
    BY <1>4, <2>1, <2>2, <2>3 DEF Db!BeginJob, OneJob, Queued, Reads, AtHead
  <2> QED
    BY <1>3, <2>1, <2>3, <2>4
<1>5. ASSUME NEW o \in Ops,
             \/ Db!StartInit(o) \/ Db!Initialized(o) \/ Db!SelectRow(o) \/ Db!SelectStale(o)
             \/ Db!ReadRow(o) \/ Db!WriteRow(o) \/ Db!DeleteStale(o)
      PROVE  OneJob'
  <2>1. UNCHANGED <<request, tail>>
    BY <1>5 DEF Db!StartInit, Db!Initialized, Db!SelectRow, Db!SelectStale,
                Db!ReadRow, Db!WriteRow,
                Db!DeleteStale
  <2>2. Working(o)
    BY <1>5 DEF Db!StartInit, Db!Initialized, Db!SelectRow, Db!SelectStale,
                Db!ReadRow, Db!WriteRow,
                Db!DeleteStale, Working
  <2>3. \E s \in {"init", "select", "write", "written", "done"} :
          /\ step' = [step EXCEPT ![o] = s]
          /\ Reads(o) => s \in {"init", "select", "done"}
    <3>1. CASE Db!StartInit(o)
      BY <3>1 DEF Db!StartInit, TypeOK
    <3>2. CASE Db!Initialized(o)
      BY <3>2 DEF Db!Initialized, Db!Goto, Reads
    <3>3. CASE Db!SelectRow(o) \/ Db!SelectStale(o)
      BY <3>3 DEF Db!SelectRow, Db!SelectStale, Db!Goto, Reads
    <3>4. CASE Db!ReadRow(o)
      BY <3>4 DEF Db!ReadRow, Db!Goto, Reads
    <3>5. CASE Db!WriteRow(o) \/ Db!DeleteStale(o)
      BY <3>5 DEF Db!WriteRow, Db!DeleteStale, Db!Goto, OneJob, Queued
    <3> QED
      BY <1>5, <3>1, <3>2, <3>3, <3>4, <3>5
  <2>4. Queued(o)'
    BY <2>1, <2>2, <2>3 DEF TypeOK, OneJob, Queued, Reads, Working, AtHead
  <2> QED
    BY <1>3, <2>1, <2>3, <2>4 DEF TypeOK
<1>6. ASSUME NEW o \in Ops, Db!Resolve(o) \/ Db!Reject(o) PROVE OneJob'
  <2>1. step'[o] \in {"done", "failed"} /\ \A q \in Ops \ {o} : step'[q] = step[q]
    BY <1>6, Moves DEF Db!Resolve, Db!Reject, Steps
  <2>2. UNCHANGED request /\ Working(o) /\ Db!Dequeue(o)
    BY <1>6 DEF Db!Resolve, Db!Reject, Working
  <2>3. CASE Reads(o)
    <3>1. UNCHANGED tail
      BY <2>2, <2>3 DEF Db!Dequeue, Reads
    <3>2. Queued(o)'
      BY <2>1, <2>2, <2>3 DEF OneJob, Queued, Reads, Working
    <3> QED
      BY <1>3, <2>1, <2>2, <3>1, <3>2
  <2>4. CASE ~Reads(o)
    <3>1. AtHead(o) /\ tail' = Tail(tail)
      BY <2>2, <2>4 DEF OneJob, Queued, Db!Dequeue, Reads
    <3>2. \A q \in Ops \ {o} : InQueue(q) => InQueue(q)'
      BY <3>1, Leaves DEF TypeOK
    <3>3. \A q \in Ops \ {o} : ~AtHead(q)
      BY <3>1 DEF AtHead
    <3>4. \A q \in Ops \ {o} : Queued(q)'
      BY <2>1, <2>2, <3>2, <3>3 DEF OneJob, Queued, Reads, Working
    <3>5. Queued(o)'
      BY <2>1, <2>2, <2>4 DEF OneJob, Queued, Reads, Working
    <3> QED
      BY <3>4, <3>5 DEF OneJob
  <2> QED
    BY <2>3, <2>4
<1> QED
  BY <1>1, <1>2, <1>4, <1>5, <1>6 DEF Db!Next, Db!Proceed

(* Nobody else is about to write while a write works.                      *)
LEMMA WritesAlone ==
    ASSUME OneJob, NEW o \in Ops, step[o] = "write",
           NEW q \in Ops \ {o}
    PROVE  step[q] # "write"
  BY DEF OneJob, Queued, Working, AtHead

(* What a job read is still there when it writes.                          *)
LEMMA FreshStep == DbInv /\ [Db!Next]_(Db!vars) => StillFresh'
<1> SUFFICES ASSUME TypeOK, OneJob, StillFresh, [Db!Next]_(Db!vars) PROVE StillFresh'
  BY DEF DbInv
<1>1. CASE UNCHANGED Db!vars \/ Db!FinishInit
  BY <1>1 DEF StillFresh, Fresh, Db!Sweepable, Db!vars, Db!FinishInit
<1>2. ASSUME NEW o \in Ops, UNCHANGED <<table, request>>,
             \A q \in Ops \ {o} : /\ step'[q] = step[q] /\ fetched'[q] = fetched[q]
                                  /\ stale'[q] = stale[q],
             Fresh(o)'
      PROVE  StillFresh'
  BY <1>2 DEF StillFresh, Fresh, Db!Sweepable
<1>3. ASSUME NEW o \in Ops, NEW r \in Db!Request, Db!Issue(o, r) PROVE StillFresh'
  <2>1. step'[o] # "write" /\ \A q \in Ops \ {o} : step'[q] = step[q]
    BY <1>3, Moves DEF Db!Issue, Steps
  <2>2. UNCHANGED <<table, fetched, stale>>
    BY <1>3 DEF Db!Issue
  <2>3. \A q \in Ops \ {o} : request'[q] = request[q]
    BY <1>3 DEF Db!Issue, TypeOK
  <2> QED
    BY <2>1, <2>2, <2>3 DEF StillFresh, Fresh, Db!Sweepable
<1>4. ASSUME NEW o \in Ops,
             Db!BeginJob(o) \/ Db!StartInit(o) \/ Db!ReadRow(o) \/ Db!Resolve(o) \/ Db!Reject(o)
      PROVE  StillFresh'
  <2>1. UNCHANGED <<table, request, fetched, stale>>
    BY <1>4 DEF Db!BeginJob, Db!StartInit, Db!ReadRow, Db!Resolve, Db!Reject
  <2>2. step'[o] # "write" /\ \A q \in Ops \ {o} : step'[q] = step[q]
    BY <1>4, Moves DEF Db!BeginJob, Db!StartInit, Db!ReadRow, Db!Resolve,
                       Db!Reject, Steps
  <2> QED
    BY <1>2, <2>1, <2>2 DEF Fresh
<1>5. ASSUME NEW o \in Ops, Db!Initialized(o) PROVE StillFresh'
  <2>1. UNCHANGED <<table, request, fetched, stale>>
    BY <1>5 DEF Db!Initialized
  <2>2. /\ step'[o] = "write" => request[o].type \in {"create", "delete"}
        /\ \A q \in Ops \ {o} : step'[q] = step[q]
    BY <1>5, Moves DEF Db!Initialized, Steps
  <2> QED
    BY <1>2, <2>1, <2>2 DEF Fresh
<1>6. ASSUME NEW o \in Ops, Db!SelectRow(o) PROVE StillFresh'
  <2>1. /\ UNCHANGED <<table, request, stale>>
        /\ request[o].type \in {"patch", "status"}
        /\ fetched'[o] = table[request[o].id]
        /\ \A q \in Ops \ {o} : fetched'[q] = fetched[q]
    BY <1>6 DEF Db!SelectRow, TypeOK
  <2>2. \A q \in Ops \ {o} : step'[q] = step[q]
    BY <1>6, Moves DEF Db!SelectRow, Steps
  <2> QED
    BY <1>2, <2>1, <2>2 DEF Fresh
<1>7. ASSUME NEW o \in Ops, Db!SelectStale(o) PROVE StillFresh'
  <2>1. /\ UNCHANGED <<table, request, fetched>>
        /\ request[o].type = "sweep"
        /\ stale'[o] \subseteq Db!Sweepable(table)
        /\ \A q \in Ops \ {o} : stale'[q] = stale[q]
    BY <1>7 DEF Db!SelectStale, TypeOK
  <2>2. \A q \in Ops \ {o} : step'[q] = step[q]
    BY <1>7, Moves DEF Db!SelectStale, Steps
  <2>3. Db!Sweepable(table)' = Db!Sweepable(table)
    BY <2>1 DEF Db!Sweepable
  <2> QED
    BY <1>2, <2>1, <2>2, <2>3 DEF Fresh
<1>8. ASSUME NEW o \in Ops, Db!WriteRow(o) \/ Db!DeleteStale(o) PROVE StillFresh'
  <2>1. step[o] = "write" /\ \A q \in Ops \ {o} : step'[q] # "write"
    BY <1>8, Moves, WritesAlone DEF Db!WriteRow, Db!DeleteStale, Steps
  <2>2. Fresh(o)'
    <3>1. CASE Db!WriteRow(o)
      BY <3>1, Moves DEF Db!WriteRow, Steps, Fresh
    <3>2. CASE Db!DeleteStale(o)
      <4>1. PICK i \in stale[o] : /\ table' = [table EXCEPT ![i] = Absent]
                                  /\ stale'[o] = stale[o] \ {i}
        BY <3>2 DEF Db!DeleteStale, TypeOK
      <4>2. stale[o] \subseteq Db!Sweepable(table) /\ request'[o].type = "sweep"
        BY <3>2, <2>1 DEF Db!DeleteStale, StillFresh, Fresh
      <4>3. stale'[o] \subseteq Db!Sweepable(table')
        BY <4>1, <4>2 DEF Db!Sweepable, TypeOK, Db!Table
      <4> QED
        BY <4>2, <4>3 DEF Fresh, Db!Sweepable
    <3> QED
      BY <1>8, <3>1, <3>2
  <2> QED
    BY <2>1, <2>2 DEF StillFresh, Fresh
<1> QED
  BY <1>1, <1>3, <1>4, <1>5, <1>6, <1>7, <1>8 DEF Db!Next, Db!Proceed

(* The inductive invariant holds of every behaviour.                       *)
THEOREM DbInvariant == Db!Spec => []DbInv
<1>1. DbInv /\ [Db!Next]_(Db!vars) => DbInv'
  BY TypeStep, JobStep, FreshStep DEF DbInv
<1> QED
  BY InitInv, <1>1, PTL DEF Db!Spec

(* What SerialStore sees of a step is what it does to its operation.       *)
LEMMA View ==
    ASSUME NEW o \in Ops,
           \A q \in Ops \ {o} : step'[q] = step[q] /\ request'[q] = request[q]
    PROVE  /\ phases' = [phases EXCEPT ![o] = Db!Phase(o)']
           /\ requests' = [requests EXCEPT ![o] =
                  IF Db!Phase(o)' = "new" THEN Db!NoRequest ELSE request'[o]]
<1>1. \A q \in Ops \ {o} : Db!Phase(q)' = Db!Phase(q)
  BY DEF Db!Phase
<1>2. phases' = [q \in Ops |-> Db!Phase(q)']
  BY DEF phases
<1>3. requests' = [q \in Ops |-> IF Db!Phase(q)' = "new" THEN Db!NoRequest ELSE request'[q]]
  BY DEF requests
<1> QED
  BY <1>1, <1>2, <1>3 DEF phases, requests

(* A step that leaves the phase of its operation and what it was asked     *)
(* for as they are shows nothing of itself there.                          *)
LEMMA Unseen ==
    ASSUME NEW o \in Ops,
           \A q \in Ops \ {o} : step'[q] = step[q] /\ request'[q] = request[q],
           Db!Phase(o)' = Db!Phase(o), Db!Phase(o) = "new" \/ request'[o] = request[o]
    PROVE  UNCHANGED <<phases, requests>>
<1>1. \A q \in Ops : Db!Phase(q)' = Db!Phase(q)
  BY DEF Db!Phase
<1>2. phases' = [q \in Ops |-> Db!Phase(q)']
  BY DEF phases
<1>3. requests' = [q \in Ops |-> IF Db!Phase(q)' = "new" THEN Db!NoRequest ELSE request'[q]]
  BY DEF requests
<1> QED
  BY <1>1, <1>2, <1>3 DEF phases, requests

(* A store just made is a serial store just made.                          *)
LEMMA InitImplements == Db!Init => DbSerial!Init
<1> SUFFICES ASSUME Db!Init PROVE DbSerial!Init
  OBVIOUS
<1>1. phases = [o \in Ops |-> "new"]
  BY DEF Db!Init, phases, Db!Phase
<1>2. requests = [o \in Ops |-> Db!NoRequest]
  BY <1>1 DEF Db!Init, requests, phases, Db!Phase
<1> QED
  BY <1>1, <1>2 DEF Db!Init, DbSerial!Init, DbSerial!EarlierTable,
                    Db!EarlierTable,
                    DbSerial!NoRequest, Db!NoRequest, DbSerial!Status, Db!Status

(* The data of both are the same.                                          *)
LEMMA SameData ==
    /\ DbSerial!Request = Db!Request
    /\ DbSerial!Sweepable(table) = Db!Sweepable(table)
    /\ \A o, r, rec : DbSerial!Written(o, r, rec) = Db!Written(o, r, rec)
  BY DEF DbSerial!Request, Db!Request, DbSerial!Status, Db!Status,
         DbSerial!Sweepable, Db!Sweepable,
         DbSerial!Written, Db!Written, DbSerial!Patched, Db!Patched

(* Every step is one of the serial store, or one that it does not see.     *)
LEMMA StepImplements == DbInv /\ [Db!Next]_(Db!vars) => [DbSerial!Next]_(DbSerial!vars)
<1> SUFFICES ASSUME TypeOK, OneJob, StillFresh, [Db!Next]_(Db!vars)
             PROVE  DbSerial!Next \/ UNCHANGED DbSerial!vars
  BY DEF DbInv
<1>1. CASE UNCHANGED Db!vars \/ Db!FinishInit
  <2>1. UNCHANGED <<step, request>>
    BY <1>1 DEF Db!vars, Db!FinishInit
  <2>2. UNCHANGED <<phases, requests>>
    BY <2>1 DEF phases, requests, Db!Phase
  <2> QED
    BY <1>1, <2>2 DEF Db!vars, Db!FinishInit, DbSerial!vars
<1>2. ASSUME NEW o \in Ops, NEW r \in Db!Request, Db!Issue(o, r)
      PROVE  DbSerial!Next \/ UNCHANGED DbSerial!vars
  <2>1. /\ request'[o] = r /\ step[o] = "new"
        /\ \A q \in Ops \ {o} : step'[q] = step[q] /\ request'[q] = request[q]
        /\ UNCHANGED <<table, answer>>
    BY <1>2, Moves DEF Db!Issue, TypeOK, Steps
  <2>2. Db!Phase(o) = "new"
    BY <2>1 DEF Db!Phase
  <2>3. CASE r.type = "get"
    <3>1. step'[o] = "init" /\ UNCHANGED tail
      BY <1>2, <2>3, Moves DEF Db!Issue, Steps
    <3>2. Db!Phase(o)' = "new"
      BY <2>1, <2>3, <3>1 DEF Db!Phase
    <3> QED
      BY <2>1, <2>2, <3>1, <3>2, Unseen DEF DbSerial!vars
  <2>4. CASE r.type # "get"
    <3>1. step'[o] = "queued" /\ tail' = Append(tail, o)
      BY <1>2, <2>4, Moves DEF Db!Issue, Steps
    <3>2. Db!Phase(o)' = "pending"
      BY <2>1, <2>4, <3>1 DEF Db!Phase
    <3>3. /\ phases[o] = "new"
          /\ phases' = [phases EXCEPT ![o] = "pending"]
          /\ requests' = [requests EXCEPT ![o] = r]
      BY <2>1, <2>2, <3>2, View DEF phases
    <3>4. DbSerial!Enqueue(o, r)
      BY <2>1, <2>4, <3>1, <3>3 DEF DbSerial!Enqueue
    <3> QED
      BY <3>4, SameData DEF DbSerial!Next
  <2> QED
    BY <2>3, <2>4
<1>3. ASSUME NEW o \in Ops, UNCHANGED <<table, request, tail, answer>>,
             \A q \in Ops \ {o} : step'[q] = step[q], Db!Phase(o)' = Db!Phase(o)
      PROVE  UNCHANGED DbSerial!vars
  BY <1>3, Unseen DEF DbSerial!vars
<1>4. ASSUME NEW o \in Ops, Db!BeginJob(o) \/ Db!StartInit(o) \/ Db!Initialized(o)
      PROVE  UNCHANGED DbSerial!vars
  <2>1. UNCHANGED <<table, request, tail, answer>>
    BY <1>4 DEF Db!BeginJob, Db!StartInit, Db!Initialized
  <2>2. /\ step[o] \in {"queued", "init"} /\ step'[o] \in {"init", "write", "select"}
        /\ \A q \in Ops \ {o} : step'[q] = step[q]
    BY <1>4, Moves DEF Db!BeginJob, Db!StartInit, Db!Initialized, Steps
  <2>3. Db!Phase(o)' = Db!Phase(o)
    BY <2>1, <2>2 DEF Db!Phase
  <2> QED
    BY <1>3, <2>1, <2>2, <2>3
(* A write takes effect with its last statement.                           *)
<1>5. ASSUME NEW o \in Ops, step'[o] = "written", Working(o), step[o] # "written",
             UNCHANGED <<request, tail, answer>>,
             \A q \in Ops \ {o} : step'[q] = step[q]
      PROVE  /\ ~Reads(o) => DbSerial!AtHead(o) /\ phases[o] = "pending"
             /\ requests[o] = request[o] \/ Reads(o)
             /\ phases' = [phases EXCEPT ![o] = "applied"]
             /\ ~Reads(o) => UNCHANGED requests
  <2>1. Db!Phase(o)' = "applied"
    BY <1>5 DEF Db!Phase
  <2>2. ~Reads(o) => AtHead(o) /\ Db!Phase(o) = "pending"
    BY <1>5 DEF OneJob, Queued, Db!Phase, Working, Reads
  <2>3. phases' = [phases EXCEPT ![o] = "applied"]
    BY <1>5, <2>1, View
  <2>4. ~Reads(o) => requests[o] = request[o]
    BY <2>2 DEF requests
  <2>5. ~Reads(o) => UNCHANGED requests
    <3>1. requests' = [requests EXCEPT ![o] = request[o]]
      BY <1>5, <2>1, View
    <3> QED
      BY <2>4, <3>1 DEF requests
  <2> QED
    BY <2>2, <2>3, <2>4, <2>5 DEF phases, AtHead, DbSerial!AtHead
<1>6. ASSUME NEW o \in Ops, Db!SelectRow(o)
      PROVE  DbSerial!Next \/ UNCHANGED DbSerial!vars
  <2>1. /\ UNCHANGED <<table, request, tail, answer>>
        /\ step[o] = "select" /\ request[o].type \in {"patch", "status"}
        /\ \A q \in Ops \ {o} : step'[q] = step[q]
    BY <1>6, Moves DEF Db!SelectRow, Steps
  <2>2. CASE table[request[o].id] = Absent
    <3>1. step'[o] = "written"
      BY <1>6, <2>2, Moves DEF Db!SelectRow, Steps
    <3>2. /\ DbSerial!AtHead(o) /\ phases[o] = "pending" /\ requests[o] = request[o]
          /\ phases' = [phases EXCEPT ![o] = "applied"] /\ UNCHANGED requests
      BY <1>5, <2>1, <3>1 DEF Working, Reads
    <3>3. Db!Written(o, request[o], Absent) = Absent
      BY <2>1 DEF Db!Written
    <3>4. DbSerial!Effect(o, requests[o], table) = table
      BY <2>1, <2>2, <3>2, <3>3, SameData DEF DbSerial!Effect, TypeOK, Db!Table
    <3>5. DbSerial!Apply(o)
      BY <2>1, <3>2, <3>4 DEF DbSerial!Apply
    <3> QED
      BY <3>5 DEF DbSerial!Next
  <2>3. CASE table[request[o].id] # Absent
    <3>1. step'[o] = "write"
      BY <1>6, <2>3, Moves DEF Db!SelectRow, Steps
    <3>2. Db!Phase(o)' = Db!Phase(o)
      BY <2>1, <3>1 DEF Db!Phase
    <3> QED
      BY <1>3, <2>1, <3>2
  <2> QED
    BY <2>2, <2>3
<1>7. ASSUME NEW o \in Ops, Db!SelectStale(o)
      PROVE  DbSerial!Next \/ UNCHANGED DbSerial!vars
  <2>1. /\ UNCHANGED <<table, request, tail, answer>>
        /\ step[o] = "select" /\ request[o].type = "sweep"
        /\ step'[o] \in {"written", "write"}
        /\ \A q \in Ops \ {o} : step'[q] = step[q]
    BY <1>7, Moves DEF Db!SelectStale, Steps
  <2>2. CASE step'[o] = "written"
    <3>1. /\ DbSerial!AtHead(o) /\ phases[o] = "pending" /\ requests[o] = request[o]
          /\ phases' = [phases EXCEPT ![o] = "applied"] /\ UNCHANGED requests
      BY <1>5, <2>1, <2>2 DEF Working, Reads
    <3>2. table' = [i \in Ids |-> IF i \in {} THEN Absent ELSE table[i]]
      BY <2>1 DEF TypeOK, Db!Table
    <3>3. \E S \in SUBSET DbSerial!Sweepable(table) :
            table' = [i \in Ids |-> IF i \in S THEN Absent ELSE table[i]]
      <4>1. {} \in SUBSET DbSerial!Sweepable(table)
        OBVIOUS
      <4> QED
        BY <3>2, <4>1
    <3>4. DbSerial!SweepSome(o)
      BY <2>1, <3>1, <3>3 DEF DbSerial!SweepSome
    <3> QED
      BY <3>4 DEF DbSerial!Next
  <2>3. CASE step'[o] = "write"
    <3>1. Db!Phase(o)' = Db!Phase(o)
      BY <2>1, <2>3 DEF Db!Phase
    <3> QED
      BY <1>3, <2>1, <3>1
  <2> QED
    BY <2>1, <2>2, <2>3
<1>8. ASSUME NEW o \in Ops, Db!ReadRow(o) PROVE DbSerial!Next
  <2>1. /\ step[o] = "select" /\ Reads(o) /\ step'[o] = "done"
        /\ \A q \in Ops \ {o} : step'[q] = step[q] /\ request'[q] = request[q]
        /\ UNCHANGED <<table, request, tail>>
        /\ answer' = [answer EXCEPT ![o] = table[request[o].id]]
    BY <1>8, Moves DEF Db!ReadRow, Steps, Reads
  <2>2. Db!Phase(o) = "new" /\ Db!Phase(o)' = "done"
    BY <2>1 DEF Db!Phase, Reads
  <2>3. PICK i \in Ids : request[o] = [type |-> "get", id |-> i]
    BY <2>1, GetNames DEF OneJob, Queued, Reads
  <2>4. /\ phases[o] = "new" /\ phases' = [phases EXCEPT ![o] = "done"]
        /\ requests' = [requests EXCEPT ![o] = [type |-> "get", id |-> i]]
    BY <2>1, <2>2, <2>3, View DEF phases
  <2>5. answer' = [answer EXCEPT ![o] = table[i]]
    BY <2>1, <2>3
  <2>6. DbSerial!Read(o, i)
    BY <2>1, <2>4, <2>5 DEF DbSerial!Read
  <2> QED
    BY <2>6 DEF DbSerial!Next
<1>9. ASSUME NEW o \in Ops, Db!WriteRow(o) PROVE DbSerial!Next
  <2>1. /\ step[o] = "write" /\ ~Reads(o) /\ step'[o] = "written"
        /\ UNCHANGED <<request, tail, answer>>
        /\ \A q \in Ops \ {o} : step'[q] = step[q]
        /\ request[o] \in Db!Request /\ request[o].type # "sweep"
    BY <1>9, Moves DEF Db!WriteRow, Steps, OneJob, Queued
  <2>2. /\ DbSerial!AtHead(o) /\ phases[o] = "pending" /\ requests[o] = request[o]
        /\ phases' = [phases EXCEPT ![o] = "applied"] /\ UNCHANGED requests
    BY <1>5, <2>1 DEF Working
  <2>3. Db!Written(o, request[o], fetched[o])
          = Db!Written(o, request[o], table[request[o].id])
    <3>1. CASE request[o].type \in {"patch", "status"}
      BY <2>1, <3>1 DEF StillFresh, Fresh
    <3>2. CASE request[o].type \in {"create", "delete"}
      BY <3>2 DEF Db!Written
    <3> QED
      BY <2>1, <3>1, <3>2, RequestKinds DEF Reads
  <2>4. table' = DbSerial!Effect(o, requests[o], table)
    BY <1>9, <2>2, <2>3, SameData DEF Db!WriteRow, DbSerial!Effect
  <2>5. DbSerial!Apply(o)
    BY <2>1, <2>2, <2>4 DEF DbSerial!Apply
  <2> QED
    BY <2>5 DEF DbSerial!Next
<1>10. ASSUME NEW o \in Ops, Db!DeleteStale(o) PROVE DbSerial!Next
  <2>1. PICK i \in stale[o] : table' = [table EXCEPT ![i] = Absent]
    BY <1>10 DEF Db!DeleteStale
  <2>2. /\ step[o] = "write" /\ request[o].type = "sweep"
        /\ step'[o] \in {"written", "write"}
        /\ UNCHANGED <<request, tail, answer>>
        /\ \A q \in Ops \ {o} : step'[q] = step[q]
    BY <1>10, Moves DEF Db!DeleteStale, Steps
  <2>3. {i} \subseteq Db!Sweepable(table)
    BY <2>1, <2>2 DEF StillFresh, Fresh
  <2>4. table' = [k \in Ids |-> IF k \in {i} THEN Absent ELSE table[k]]
    BY <2>1 DEF TypeOK, Db!Table
  <2>5. DbSerial!AtHead(o) /\ phases[o] = "pending" /\ requests[o] = request[o]
    <3>1. AtHead(o) /\ Db!Phase(o) = "pending"
      BY <2>2 DEF OneJob, Queued, Working, Reads, Db!Phase
    <3> QED
      BY <3>1 DEF AtHead, DbSerial!AtHead, phases, requests
  <2>6. UNCHANGED requests
        /\ (UNCHANGED phases \/ phases' = [phases EXCEPT ![o] = "applied"])
    <3>1. CASE step'[o] = "written"
      BY <1>5, <2>2, <3>1 DEF Working, Reads
    <3>2. CASE step'[o] = "write"
      <4>1. Db!Phase(o)' = Db!Phase(o)
        BY <2>2, <3>2 DEF Db!Phase
      <4> QED
        BY <2>2, <4>1, Unseen
    <3> QED
      BY <2>2, <3>1, <3>2
  <2>7. DbSerial!SweepSome(o)
    <3>1. {i} \in SUBSET DbSerial!Sweepable(table)
      BY <2>3, SameData
    <3> QED
      BY <2>2, <2>4, <2>5, <2>6, <3>1 DEF DbSerial!SweepSome
  <2> QED
    BY <2>7 DEF DbSerial!Next
<1>11. ASSUME NEW o \in Ops, Db!Resolve(o) \/ Db!Reject(o) PROVE DbSerial!Next
  <2>1. /\ Working(o) /\ step'[o] \in {"done", "failed"} /\ Db!Dequeue(o)
        /\ step'[o] = "done" => step[o] = "written"
        /\ \A q \in Ops \ {o} : step'[q] = step[q] /\ request'[q] = request[q]
        /\ UNCHANGED <<table, request, answer>>
    BY <1>11, Moves DEF Db!Resolve, Db!Reject, Steps, Working
  <2>2. Db!Phase(o)' = step'[o]
    BY <2>1 DEF Db!Phase
  <2>3. CASE Reads(o)
    <3>1. step'[o] = "failed" /\ UNCHANGED tail /\ Db!Phase(o) = "new"
      BY <2>1, <2>3 DEF OneJob, Queued, Reads, Working, Db!Dequeue, Db!Phase
    <3>2. PICK i \in Ids : request[o] = [type |-> "get", id |-> i]
      BY <2>1, <2>3, GetNames DEF OneJob, Queued, Reads, Working
    <3>3. /\ phases[o] = "new" /\ phases' = [phases EXCEPT ![o] = "failed"]
          /\ requests' = [requests EXCEPT ![o] = [type |-> "get", id |-> i]]
      BY <2>1, <2>2, <3>1, <3>2, View DEF phases
    <3>4. DbSerial!Read(o, i)
      BY <2>1, <3>1, <3>3 DEF DbSerial!Read
    <3> QED
      BY <3>4 DEF DbSerial!Next
  <2>4. CASE ~Reads(o)
    <3>1. AtHead(o) /\ tail' = Tail(tail)
      BY <2>1, <2>4 DEF OneJob, Queued, Db!Dequeue, Reads
    <3>2. Db!Phase(o) = IF step[o] = "written" THEN "applied" ELSE "pending"
      BY <2>1, <2>4 DEF Db!Phase, Working, Reads
    <3>3. requests[o] = request[o]
      BY <3>2 DEF requests
    <3>4. UNCHANGED requests
      <4>1. requests' = [requests EXCEPT ![o] = request[o]]
        BY <2>1, <2>2, View
      <4> QED
        BY <3>3, <4>1 DEF requests
    <3>5. \/ phases[o] = "applied" /\ phases' = [phases EXCEPT ![o] = "done"]
          \/ phases' = [phases EXCEPT ![o] = "failed"]
      BY <2>1, <2>2, <3>2, View DEF phases
    <3>6. DbSerial!Settle(o)
      BY <2>1, <3>1, <3>4, <3>5 DEF DbSerial!Settle, DbSerial!AtHead, AtHead
    <3> QED
      BY <3>6 DEF DbSerial!Next
  <2> QED
    BY <2>3, <2>4
<1> QED
  BY <1>1, <1>2, <1>4, <1>6, <1>7, <1>8, <1>9, <1>10, <1>11 DEF Db!Next,
     Db!Proceed

(* The database store implements the serial store: although an update is a *)
(* SELECT and an INSERT OR REPLACE, a sweep a SELECT and many DELETEs, and *)
(* every statement may be rejected, clients see whole writes one at a time *)
(* (session-store.ts:160-171, 384-460).                                    *)
THEOREM DbImplementsSerial == Db!Spec => DbSerial!Spec
  BY DbInvariant, InitImplements, StepImplements, PTL DEF Db!Spec, DbSerial!Spec
-----------------------------------------------------------------------------
(* Nobody else was asked to change the session that o names; a sweep may   *)
(* have been asked for.                                                    *)
Alone(o) ==
    \A q \in Ops \ {o} : request[q].type \notin {"none", "get", "sweep"} =>
        request[q].id # request[o].id
Created(o) == [status |-> "live", data |-> o]

(* A session that was created is in the table from its write on.           *)
Kept(o) ==
    request[o].type = "create" /\ step[o] \in {"written", "done"} /\ Alone(o) =>
        table[request[o].id] = Created(o)
Asked(o) == step[o] = "new" => request[o] = Db!NoRequest
Durable == \A o \in Ops : Asked(o) /\ Kept(o)

(* In a store just made nothing was created.                               *)
LEMMA InitDurable == Db!Init => Durable
  BY DEF Db!Init, Durable, Asked, Kept

(* A step that asks for nothing and leaves the table alone keeps what was  *)
(* created, unless it is the write itself.                                 *)
LEMMA DurableFrame ==
    ASSUME Durable, NEW o \in Ops, UNCHANGED <<request, table>>,
           \A q \in Ops \ {o} : step'[q] = step[q],
           step'[o] = "new" => step[o] = "new",
           request[o].type = "create" /\ step'[o] \in {"written", "done"}
             => step[o] \in {"written", "done"}
    PROVE  Durable'
<1>1. ASSUME NEW q \in Ops PROVE Asked(q)'
  <2>1. step'[q] = "new" => step[q] = "new"
    OBVIOUS
  <2> QED
    BY <2>1 DEF Durable, Asked
<1>2. ASSUME NEW q \in Ops PROVE Kept(q)'
  <2>1. request[q].type = "create" /\ step'[q] \in {"written", "done"}
          => step[q] \in {"written", "done"}
    OBVIOUS
  <2>2. Alone(q)' => Alone(q)
    BY DEF Alone
  <2> QED
    BY <2>1, <2>2 DEF Durable, Kept, Created
<1> QED
  BY <1>1, <1>2 DEF Durable

(* Every step keeps what was created: a new request is about another       *)
(* session or leaves it no longer alone, and no write touches another      *)
(* session's row, a sweep no row that is live.                             *)
LEMMA DurableStep == DbInv /\ Durable /\ [Db!Next]_(Db!vars) => Durable'
<1> SUFFICES ASSUME TypeOK, OneJob, StillFresh, Durable, [Db!Next]_(Db!vars) PROVE Durable'
  BY DEF DbInv
<1>1. CASE UNCHANGED Db!vars \/ Db!FinishInit
  <2>1. UNCHANGED <<table, request, step>>
    BY <1>1 DEF Db!vars, Db!FinishInit
  <2>2. ASSUME NEW o \in Ops PROVE Alone(o)' => Alone(o)
    BY <2>1 DEF Alone
  <2>3. ASSUME NEW o \in Ops PROVE Asked(o)' /\ Kept(o)'
    BY <2>1, <2>2 DEF Durable, Asked, Kept, Created
  <2> QED
    BY <2>3 DEF Durable
<1>2. ASSUME NEW o \in Ops, NEW r \in Db!Request, Db!Issue(o, r) PROVE Durable'
  <2>1. /\ step[o] = "new" /\ step'[o] \in {"init", "queued"} /\ UNCHANGED table
        /\ \A q \in Ops \ {o} : step'[q] = step[q] /\ request'[q] = request[q]
    BY <1>2, Moves DEF Db!Issue, Steps, TypeOK
  <2>2. ASSUME NEW q \in Ops PROVE Asked(q)'
    BY <2>1 DEF Durable, Asked
  <2>3. ASSUME NEW q \in Ops, Alone(q)', q # o PROVE Alone(q)
    <3>1. request[o].type = "none"
      BY <2>1, RequestKinds DEF Durable, Asked
    <3> QED
      BY <2>1, <2>3, <3>1 DEF Alone
  <2>4. ASSUME NEW q \in Ops PROVE Kept(q)'
    <3>1. CASE q = o
      BY <2>1, <3>1 DEF Kept
    <3>2. CASE q # o
      BY <2>1, <2>3, <3>2 DEF Durable, Kept, Created
    <3> QED
      BY <3>1, <3>2
  <2> QED
    BY <2>2, <2>4 DEF Durable
<1>3. ASSUME NEW o \in Ops,
             Db!BeginJob(o) \/ Db!StartInit(o) \/ Db!Initialized(o) \/ Db!Resolve(o) \/ Db!Reject(o)
      PROVE  Durable'
  <2>1. UNCHANGED <<request, table>>
    BY <1>3 DEF Db!BeginJob, Db!StartInit, Db!Initialized, Db!Resolve, Db!Reject
  <2>2. /\ \A q \in Ops \ {o} : step'[q] = step[q]
        /\ step'[o] # "new"
        /\ step'[o] \in {"written", "done"} => step[o] = "written"
    <3>1. CASE Db!StartInit(o)
      BY <3>1 DEF Db!StartInit
    <3>2. CASE ~Db!StartInit(o)
      BY <1>3, <3>2, Moves DEF Db!BeginJob, Db!Initialized, Db!Resolve,
                               Db!Reject, Steps
    <3> QED
      BY <3>1, <3>2
  <2> QED
    BY <2>1, <2>2, DurableFrame
<1>4. ASSUME NEW o \in Ops, Db!SelectRow(o) \/ Db!SelectStale(o) \/ Db!ReadRow(o)
      PROVE  Durable'
  <2>1. UNCHANGED <<request, table>> /\ request[o].type # "create"
    BY <1>4 DEF Db!SelectRow, Db!SelectStale, Db!ReadRow
  <2>2. step'[o] # "new" /\ \A q \in Ops \ {o} : step'[q] = step[q]
    BY <1>4, Moves DEF Db!SelectRow, Db!SelectStale, Db!ReadRow, Steps
  <2> QED
    BY <2>1, <2>2, DurableFrame
<1>5. ASSUME NEW o \in Ops, Db!WriteRow(o) PROVE Durable'
  <2>1. /\ step[o] = "write" /\ step'[o] = "written" /\ UNCHANGED request
        /\ \A q \in Ops \ {o} : step'[q] = step[q]
        /\ request[o] \in Db!Request /\ request[o].type \notin {"none", "get", "sweep"}
    BY <1>5, Moves, RequestKinds DEF Db!WriteRow, Steps, OneJob, Queued, Reads
  <2>2. /\ table' = [table EXCEPT ![request[o].id] =
                       Db!Written(o, request[o], fetched[o])]
        /\ request[o].id \in Ids
    BY <1>5, <2>1, RequestKinds DEF Db!WriteRow
  <2>3. ASSUME NEW q \in Ops PROVE Asked(q)'
    BY <2>1 DEF Durable, Asked
  <2>4. ASSUME NEW q \in Ops PROVE Kept(q)'
    <3>1. CASE q = o
      <4>1. request[o].type = "create" =>
              table'[request[o].id] = Db!Written(o, request[o], fetched[o])
        BY <2>2 DEF TypeOK, Db!Table
      <4> QED
        BY <2>1, <3>1, <4>1 DEF Kept, Db!Written, Created
    <3>2. CASE q # o
      <4>1. Alone(q)' => Alone(q) /\ request[o].id # request[q].id
        BY <2>1, <3>2 DEF Alone
      <4> QED
        BY <2>1, <2>2, <3>2, <4>1 DEF TypeOK, Db!Table, Durable, Kept, Created
    <3> QED
      BY <3>1, <3>2
  <2> QED
    BY <2>3, <2>4 DEF Durable
<1>6. ASSUME NEW o \in Ops, Db!DeleteStale(o) PROVE Durable'
  <2>1. /\ step[o] = "write" /\ step'[o] \in {"write", "written"}
        /\ UNCHANGED request /\ request[o].type = "sweep"
        /\ \A q \in Ops \ {o} : step'[q] = step[q]
    BY <1>6, Moves DEF Db!DeleteStale, Steps
  <2>2. PICK i \in stale[o] : table' = [table EXCEPT ![i] = Absent]
    BY <1>6 DEF Db!DeleteStale
  <2>3. table[i].status = "ended"
    BY <2>1, <2>2 DEF StillFresh, Fresh, Db!Sweepable
  <2>4. ASSUME NEW q \in Ops PROVE Asked(q)'
    BY <2>1 DEF Durable, Asked
  <2>5. ASSUME NEW q \in Ops PROVE Kept(q)'
    <3>1. CASE q = o
      BY <2>1, <3>1 DEF Kept
    <3>2. CASE q # o
      <4>1. Alone(q)' => Alone(q)
        BY <2>1 DEF Alone
      <4>2. Created(q).status = "live"
        BY DEF Created
      <4>3. table[request[q].id] = Created(q) =>
              table'[request[q].id] = table[request[q].id]
        BY <2>2, <2>3, <4>2 DEF TypeOK, Db!Table
      <4> QED
        BY <2>1, <3>2, <4>1, <4>3 DEF Durable, Kept, Created
    <3> QED
      BY <3>1, <3>2
  <2> QED
    BY <2>4, <2>5 DEF Durable
<1> QED
  BY <1>1, <1>2, <1>3, <1>4, <1>5, <1>6 DEF Db!Next, Db!Proceed
-----------------------------------------------------------------------------
FileProofs == INSTANCE FileSessionStoreProofs

(* One process has the file to itself.                                     *)
OneProcess == Processes # {} /\ \A p, q \in Processes : p = q

StoreInv ==
    \/ backend = "runtime-db" /\ DbInv /\ Durable
    \/ /\ backend = "file" /\ FileProofs!IInv /\ FileProofs!Durable
       /\ FileProofs!LoadsFirst /\ FileProofs!Untouched

(* The initial states and the steps that the store has from its file are   *)
(* those that FileSessionStoreProofs is about.                             *)
LEMMA SameFile == /\ File!Init => FileProofs!Init
                  /\ File!Next => FileProofs!Next
<1>1. File!Init => FileProofs!Init
  BY DEF File!Init, FileProofs!Init, File!EarlierTable, FileProofs!EarlierTable,
         File!Status, FileProofs!Status, File!NoRequest, FileProofs!NoRequest,
         File!Empty, FileProofs!Empty
<1>2. ASSUME NEW o \in Ops, File!Proceed(o) PROVE FileProofs!Proceed(o)
  <2>1. ASSUME \/ File!Load(o) \/ File!Read(o) \/ File!Enqueue(o)
               \/ File!Return(o)
        PROVE  FileProofs!Proceed(o)
    BY <2>1
       DEF File!Load, FileProofs!Load, File!Read, FileProofs!Read, File!Enqueue,
           FileProofs!Enqueue, File!Return, FileProofs!Return, File!Running,
           FileProofs!Running, File!Enqueued, FileProofs!Enqueued, File!Dequeued,
           FileProofs!Dequeued, File!Goto, FileProofs!Goto,
           FileProofs!Proceed
  <2>2. ASSUME File!Change(o) \/ File!Sweep(o)
        PROVE  FileProofs!Proceed(o)
    BY <2>2
       DEF File!Change, FileProofs!Change, File!Sweep, FileProofs!Sweep,
           File!Running, FileProofs!Running, File!Goto, FileProofs!Goto,
           File!Sweepable, FileProofs!Sweepable, File!Effect, FileProofs!Effect,
           File!Written, FileProofs!Written, File!Patched, FileProofs!Patched,
           FileProofs!Proceed
  <2>3. ASSUME \/ File!Lock(o) \/ File!LockTimesOut(o) \/ File!WriteTemp(o)
               \/ File!Rename(o) \/ File!Unlock(o)
        PROVE  FileProofs!Proceed(o)
    BY <2>3
       DEF File!Lock, FileProofs!Lock, File!LockTimesOut,
           FileProofs!LockTimesOut,
           File!WriteTemp, FileProofs!WriteTemp, File!Rename, FileProofs!Rename,
           File!Unlock, FileProofs!Unlock, File!Dequeued, FileProofs!Dequeued,
           File!Goto, FileProofs!Goto,
           FileProofs!Proceed
  <2> QED
    BY <1>2, <2>1, <2>2, <2>3 DEF File!Proceed
<1>3. ASSUME NEW o \in Ops, File!Fault(o) PROVE FileProofs!Fault(o)
  BY <1>3
     DEF File!Fault, FileProofs!Fault, File!LockFails, FileProofs!LockFails,
         File!WriteFails, FileProofs!WriteFails, File!UnlockFails,
         FileProofs!UnlockFails, File!LoadFails, FileProofs!LoadFails,
         File!Running, FileProofs!Running, File!Empty, FileProofs!Empty,
         File!Dequeued, FileProofs!Dequeued,
         File!Goto, FileProofs!Goto
<1>4. ASSUME NEW o \in Ops, NEW r \in Request, File!Issue(o, r)
      PROVE  FileProofs!Issue(o, r)
  BY <1>4 DEF File!Issue, FileProofs!Issue, File!Enqueued, FileProofs!Enqueued,
              File!Goto, FileProofs!Goto
<1>5. ASSUME NEW p \in Processes, File!Crash(p) PROVE FileProofs!Crash(p)
  BY <1>5 DEF File!Crash, FileProofs!Crash, File!Empty, FileProofs!Empty
<1>6. File!Request = Request /\ FileProofs!Request = Request
  BY DEF File!Request, FileProofs!Request, Request, File!Status,
         FileProofs!Status, Status
<1> QED
  BY <1>1, <1>2, <1>3, <1>4, <1>5, <1>6 DEF File!Next, FileProofs!Next

(* Every state satisfies the invariants of the backend it has.             *)
THEOREM StoreInvariant ==
    ASSUME OneProcess
    PROVE  Spec => []StoreInv
<1>1. Init => StoreInv
  BY SameFile, InitInv, InitDurable, FileProofs!InitInv,
     FileProofs!InitDurable, FileProofs!InitImplements, StoreAssumption
     DEF Init, StoreInv, OneProcess
<1>2. StoreInv /\ [Next]_vars => StoreInv'
  <2> SUFFICES ASSUME StoreInv, [Next]_vars PROVE StoreInv'
    OBVIOUS
  <2>1. CASE backend = "runtime-db"
    <3>1. DbInv /\ Durable
      BY <2>1 DEF StoreInv
    <3>2. [Db!Next]_(Db!vars) /\ backend' = backend
      BY <2>1 DEF Next, vars, delegateVars, dbVars, Db!vars
    <3>3. DbInv' /\ Durable'
      BY <3>1, <3>2, TypeStep, JobStep, FreshStep,
         DurableStep DEF DbInv
    <3> QED
      BY <2>1, <3>2, <3>3 DEF StoreInv
  <2>2. CASE backend = "file"
    <3>1. FileProofs!IInv /\ FileProofs!Durable /\ FileProofs!LoadsFirst
          /\ FileProofs!Untouched
      BY <2>2 DEF StoreInv
    <3>2. [FileProofs!Next]_(FileProofs!vars) /\ backend' = backend
      BY <2>2, SameFile DEF Next, vars, delegateVars, fileVars, FileProofs!vars
    <3>3. FileProofs!IInv'
      BY <3>1, <3>2, FileProofs!ShapeStep, FileProofs!LockStep,
         FileProofs!JobStep,
         FileProofs!SavedStep, StoreAssumption DEF FileProofs!IInv
    <3>4. FileProofs!OneProcess
      BY DEF OneProcess, FileProofs!OneProcess
    <3>5. FileProofs!Durable'
      BY <3>1, <3>2, <3>4, FileProofs!DurableStep, StoreAssumption
    <3>6. FileProofs!LoadsFirst'
      BY <3>1, <3>2, <3>4, FileProofs!StepImplements,
         StoreAssumption DEF OneProcess
    <3>7. FileProofs!Untouched'
      BY <3>1, <3>2, <3>4, FileProofs!UntouchedStep, StoreAssumption
         DEF OneProcess, FileProofs!IInv, FileProofs!LoadsFirst
    <3> QED
      BY <2>2, <3>2, <3>3, <3>5, <3>6, <3>7 DEF StoreInv
  <2> QED
    BY <2>1, <2>2 DEF StoreInv
<1> QED
  BY <1>1, <1>2, PTL DEF Spec

(* A session whose creation was acknowledged is in the table or the file   *)
(* as long as nobody else was asked to change it, whatever crashes, is     *)
(* rejected or fails, when one process has the file and no load failed to  *)
(* read it since (session-store.ts:263-369, 384-460).                      *)
THEOREM AckedDurableHolds ==
    ASSUME OneProcess
    PROVE  Spec => []AckedDurable
<1>1. StoreInv => AckedDurable
  <2> SUFFICES ASSUME StoreInv, NEW o \in Ops, o \notin forgotten, step[o] = "done",
                      request[o].type = "create",
                      \A q \in Ops \ {o} :
                         request[q].type \notin {"none", "get", "sweep"}
                           => request[q].id # request[o].id
               PROVE  LET persistent == IF backend = "file" THEN file ELSE table
                      IN  /\ persistent[request[o].id] # Absent
                          /\ persistent[request[o].id].data = o
    BY DEF AckedDurable
  <2> DEFINE created == [status |-> "live", data |-> o]
  <2>1. created \in Record /\ created.data = o
    BY DEF Record, Status
  <2>2. CASE backend = "runtime-db"
    <3>1. table[request[o].id] = created
      BY <2>2 DEF StoreInv, Durable, Kept, Alone,
                  Created
    <3> QED
      BY <2>1, <2>2, <3>1, StoreAssumption
  <2>3. CASE backend = "file"
    <3>1. file[request[o].id] = created
      BY <2>3 DEF StoreInv, FileProofs!Durable, FileProofs!Kept,
                  FileProofs!Alone,
                  FileProofs!Created
    <3> QED
      BY <2>1, <2>3, <3>1, StoreAssumption
  <2> QED
    BY <2>2, <2>3 DEF StoreInv
<1> QED
  BY <1>1, StoreInvariant, PTL

(* The table, the phases, the requests and the queue of SerialStore.       *)
Phases == [o \in Ops |-> Phase(o)]
Requests == [o \in Ops |-> IF Phase(o) = "new" THEN NoRequest ELSE request[o]]
Queue == IF backend = "runtime-db" THEN tail ELSE File!BehindLoads(queue[One], step)

(* With the database they are those of the first part.                     *)
LEMMA ViewOfDb ==
    ASSUME backend = "runtime-db"
    PROVE  /\ Records = table /\ Queue = tail
           /\ Phases = phases /\ Requests = requests
<1>1. \A o \in Ops : Phase(o) = Db!Phase(o)
  BY DEF Phase
<1> QED
  BY <1>1 DEF Records, Queue, Phases, Requests, phases, requests,
              NoRequest, Db!NoRequest

(* With the file they are those of FileSessionStoreProofs.                 *)
LEMMA ViewOfFile ==
    ASSUME backend = "file", One \in Processes
    PROVE  /\ Records = FileProofs!contents /\ Queue = FileProofs!writes
           /\ Phases = FileProofs!phases /\ Requests = FileProofs!requests
<1>1. \A o \in Ops : Phase(o) = FileProofs!Phase(o)
  BY DEF Phase, File!Phase, FileProofs!Phase
<1>2. One = FileProofs!One
  BY DEF One, FileProofs!One
<1>3. Records = FileProofs!contents
  BY <1>2 DEF Records, FileProofs!contents
<1>4. Queue = FileProofs!writes
  BY <1>2 DEF Queue, FileProofs!writes, File!BehindLoads,
              FileProofs!BehindLoads,
              File!LoadsAre, FileProofs!LoadsAre
<1> QED
  BY <1>1, <1>3, <1>4 DEF Phases, Requests, FileProofs!phases,
                          FileProofs!requests,
                          NoRequest, FileProofs!NoRequest

(* What SerialStore sees of a store that has a database is what it sees of *)
(* the database.                                                           *)
LEMMA SerialOfDb ==
    ASSUME backend = "runtime-db", UNCHANGED backend
    PROVE  [DbSerial!Next]_(DbSerial!vars) => [Serial!Next]_(Serial!vars)
<1>1. /\ Records = table /\ Queue = tail
      /\ Phases = phases /\ Requests = requests
  BY ViewOfDb
<1>2. /\ Records' = table' /\ Queue' = tail'
      /\ Phases' = phases' /\ Requests' = requests'
  <2>1. \A o \in Ops : Phase(o)' = Db!Phase(o)'
    BY DEF Phase
  <2> QED
    BY <2>1 DEF Records, Queue, Phases, Requests, phases,
                requests, NoRequest, Db!NoRequest
<1>3. UNCHANGED DbSerial!vars => UNCHANGED Serial!vars
  BY <1>1, <1>2 DEF DbSerial!vars, Serial!vars, Phases, Requests, Queue
<1>4. ASSUME NEW o \in Ops, NEW r, DbSerial!Enqueue(o, r) PROVE Serial!Enqueue(o, r)
  BY <1>1, <1>2, <1>4 DEF DbSerial!Enqueue, Serial!Enqueue, Phases, Requests,
                          Queue
<1>5. ASSUME NEW o \in Ops, DbSerial!AtHead(o) PROVE Serial!AtHead(o)
  BY <1>1, <1>5 DEF DbSerial!AtHead, Serial!AtHead, Queue
<1>6. ASSUME NEW o \in Ops, DbSerial!Apply(o) PROVE Serial!Apply(o)
  <2>1. Serial!AtHead(o)
    BY <1>5, <1>6 DEF DbSerial!Apply
  <2> QED
    BY <1>1, <1>2, <1>6, <2>1
       DEF DbSerial!Apply, Serial!Apply, DbSerial!Effect,
           Serial!Effect, DbSerial!Written, Serial!Written,
           DbSerial!Patched, Serial!Patched,
           Phases, Requests, Queue
<1>7. ASSUME NEW o \in Ops, DbSerial!SweepSome(o) PROVE Serial!SweepSome(o)
  <2>1. Serial!AtHead(o)
    BY <1>5, <1>7 DEF DbSerial!SweepSome
  <2> QED
    BY <1>1, <1>2, <1>7, <2>1
       DEF DbSerial!SweepSome, Serial!SweepSome, DbSerial!Sweepable,
           Serial!Sweepable, Phases, Requests,
           Queue
<1>8. ASSUME NEW o \in Ops, DbSerial!Settle(o) PROVE Serial!Settle(o)
  <2>1. Serial!AtHead(o)
    BY <1>5, <1>8 DEF DbSerial!Settle
  <2> QED
    BY <1>1, <1>2, <1>8, <2>1
       DEF DbSerial!Settle, Serial!Settle, Phases, Requests, Queue
<1>9. ASSUME NEW o \in Ops, NEW i \in Ids, DbSerial!Read(o, i)
       PROVE  Serial!Read(o, i)
  BY <1>1, <1>2, <1>9 DEF DbSerial!Read, Serial!Read, Phases, Requests, Queue
<1>10. DbSerial!Request = Serial!Request
  BY DEF DbSerial!Request, Serial!Request, DbSerial!Status,
         Serial!Status
<1> QED
  BY <1>3, <1>4, <1>6, <1>7, <1>8, <1>9, <1>10
     DEF DbSerial!Next, Serial!Next

(* And of a store that has a file, what it sees of the file.               *)
LEMMA SerialOfFile ==
    ASSUME backend = "file", UNCHANGED backend, One \in Processes
    PROVE  [FileProofs!Serial!Next \/ FileProofs!Serial!Forget]_(FileProofs!Serial!vars)
             => [Serial!Next \/ Serial!Forget]_(Serial!vars)
<1>1. /\ Records = FileProofs!contents /\ Queue = FileProofs!writes
      /\ Phases = FileProofs!phases /\ Requests = FileProofs!requests
  BY ViewOfFile
<1>2. /\ Records' = FileProofs!contents' /\ Queue' = FileProofs!writes'
      /\ Phases' = FileProofs!phases' /\ Requests' = FileProofs!requests'
  <2>1. \A o \in Ops : Phase(o)' = FileProofs!Phase(o)'
    BY DEF Phase, File!Phase, FileProofs!Phase
  <2>2. One = FileProofs!One
    BY DEF One, FileProofs!One
  <2>3. Records' = FileProofs!contents'
    BY <2>2 DEF Records, FileProofs!contents
  <2>4. Queue' = FileProofs!writes'
    BY <2>2 DEF Queue, FileProofs!writes, File!BehindLoads,
                FileProofs!BehindLoads,
                File!LoadsAre, FileProofs!LoadsAre
  <2> QED
    BY <2>1, <2>3, <2>4 DEF Phases, Requests, FileProofs!phases,
                            FileProofs!requests,
                            NoRequest, FileProofs!NoRequest
<1>3. UNCHANGED FileProofs!Serial!vars => UNCHANGED Serial!vars
  BY <1>1, <1>2 DEF FileProofs!Serial!vars, Serial!vars, Phases, Requests, Queue
<1>4. ASSUME NEW o \in Ops, NEW r, FileProofs!Serial!Enqueue(o, r) PROVE Serial!Enqueue(o, r)
  BY <1>1, <1>2, <1>4 DEF FileProofs!Serial!Enqueue, Serial!Enqueue, Phases,
                          Requests,
                          Queue
<1>5. ASSUME NEW o \in Ops, FileProofs!Serial!AtHead(o) PROVE Serial!AtHead(o)
  BY <1>1, <1>5 DEF FileProofs!Serial!AtHead, Serial!AtHead, Queue
<1>6. ASSUME NEW o \in Ops, FileProofs!Serial!Apply(o) PROVE Serial!Apply(o)
  <2>1. Serial!AtHead(o)
    BY <1>5, <1>6 DEF FileProofs!Serial!Apply
  <2> QED
    BY <1>1, <1>2, <1>6, <2>1
       DEF FileProofs!Serial!Apply, Serial!Apply, FileProofs!Serial!Effect,
           Serial!Effect, FileProofs!Serial!Written, Serial!Written,
           FileProofs!Serial!Patched, Serial!Patched,
           Phases, Requests, Queue
<1>7. ASSUME NEW o \in Ops, FileProofs!Serial!SweepSome(o) PROVE Serial!SweepSome(o)
  <2>1. Serial!AtHead(o)
    BY <1>5, <1>7 DEF FileProofs!Serial!SweepSome
  <2> QED
    BY <1>1, <1>2, <1>7, <2>1
       DEF FileProofs!Serial!SweepSome, Serial!SweepSome,
           FileProofs!Serial!Sweepable, Serial!Sweepable, Phases, Requests,
           Queue
<1>8. ASSUME NEW o \in Ops, FileProofs!Serial!Settle(o) PROVE Serial!Settle(o)
  <2>1. Serial!AtHead(o)
    BY <1>5, <1>8 DEF FileProofs!Serial!Settle
  <2> QED
    BY <1>1, <1>2, <1>8, <2>1
       DEF FileProofs!Serial!Settle, Serial!Settle, Phases, Requests, Queue
<1>9. ASSUME NEW o \in Ops, NEW i \in Ids, FileProofs!Serial!Read(o, i)
       PROVE  Serial!Read(o, i)
  BY <1>1, <1>2, <1>9 DEF FileProofs!Serial!Read, Serial!Read, Phases,
                          Requests, Queue
<1>10. FileProofs!Serial!Request = Serial!Request
  BY DEF FileProofs!Serial!Request, Serial!Request, FileProofs!Serial!Status,
         Serial!Status
<1>11. ASSUME FileProofs!Serial!Forget PROVE Serial!Forget
  BY <1>1, <1>2, <1>11 DEF FileProofs!Serial!Forget, Serial!Forget, Phases, Requests,
                           Queue
<1> QED
  BY <1>3, <1>4, <1>6, <1>7, <1>8, <1>9, <1>10, <1>11
     DEF FileProofs!Serial!Next, Serial!Next

(* A store just made is a serial store just made, whichever its backend.   *)
LEMMA InitSerial ==
    ASSUME OneProcess
    PROVE  Init => Serial!Init
<1> SUFFICES ASSUME Init PROVE Serial!Init
  OBVIOUS
<1>1. CASE backend = "runtime-db" /\ Db!Init
  <2>1. DbSerial!Init
    BY <1>1, InitImplements
  <2> QED
    BY <1>1, <2>1, ViewOfDb
       DEF DbSerial!Init, Serial!Init, DbSerial!EarlierTable,
           Serial!EarlierTable, DbSerial!NoRequest, Serial!NoRequest,
           DbSerial!Status, Serial!Status, Phases, Requests, Queue
<1>2. CASE backend = "file" /\ FileProofs!Init
  <2>1. FileProofs!Serial!Init
    BY <1>2, FileProofs!InitImplements, StoreAssumption DEF OneProcess
  <2>2. One \in Processes
    BY DEF One, OneProcess
  <2> QED
    BY <1>2, <2>1, <2>2, ViewOfFile
       DEF FileProofs!Serial!Init, Serial!Init, FileProofs!Serial!EarlierTable,
           Serial!EarlierTable, FileProofs!Serial!NoRequest, Serial!NoRequest,
           FileProofs!Serial!Status, Serial!Status, Phases, Requests, Queue
<1> QED
  BY <1>1, <1>2, SameFile DEF Init

(* Whichever backend it has, the store implements SerialStore: of the      *)
(* database always, of the file while its process does not crash and but   *)
(* for a load that fails, which forgets all the file held before anything  *)
(* was answered (session-store.ts:160-171, 173-347, 384-460).              *)
THEOREM SerializedHolds ==
    ASSUME OneProcess
    PROVE  Spec => Serialized
<1>1. StoreInv /\ [Next]_vars =>
        [crashes' = 0 => \/ Serial!Next
                         \/ backend = "file" /\ Serial!Forget]_(Serial!vars)
  <2> SUFFICES ASSUME StoreInv, [Next]_vars, crashes' = 0
               PROVE  [Serial!Next \/ (backend = "file" /\ Serial!Forget)]_(Serial!vars)
    OBVIOUS
  <2>1. CASE backend = "runtime-db"
    <3>1. DbInv
      BY <2>1 DEF StoreInv
    <3>2. [Db!Next]_(Db!vars) /\ backend' = backend
      BY <2>1 DEF Next, vars, delegateVars, dbVars, Db!vars
    <3>3. [DbSerial!Next]_(DbSerial!vars)
      BY <3>1, <3>2, StepImplements
    <3> QED
      BY <2>1, <3>2, <3>3, SerialOfDb
  <2>2. CASE backend = "file"
    <3>1. FileProofs!IInv /\ FileProofs!Durable /\ FileProofs!LoadsFirst
          /\ FileProofs!Untouched
      BY <2>2 DEF StoreInv
    <3>2. [FileProofs!Next]_(FileProofs!vars) /\ backend' = backend
      BY <2>2, SameFile DEF Next, vars, delegateVars, fileVars, FileProofs!vars
    <3>3. FileProofs!OneProcess /\ One \in Processes
      BY DEF OneProcess, FileProofs!OneProcess, One
    <3>4. [FileProofs!Serial!Next \/ FileProofs!Serial!Forget]_(FileProofs!Serial!vars)
      BY <3>1, <3>2, <3>3, FileProofs!StepImplements,
         StoreAssumption DEF OneProcess
    <3> QED
      BY <2>2, <3>2, <3>3, <3>4, SerialOfFile
  <2> QED
    BY <2>1, <2>2 DEF StoreInv
<1> QED
  BY <1>1, InitSerial, StoreInvariant, PTL DEF Spec, Serialized
=============================================================================
