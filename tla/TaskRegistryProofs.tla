-------------------------- MODULE TaskRegistryProofs --------------------------
(***************************************************************************)
(* The acceptance of a thread is decided once, and held while a verifier   *)
(* runs, for any number of sessions, calls, events and acts; and a  *)
(* start interrupts every session that seems to live.  The first two rest  *)
(* on there being at most one program that has a statement about the       *)
(* acceptance left, and one such statement in it: which one it is tells    *)
(* how far the verification is.                                            *)
(***************************************************************************)
EXTENDS TaskRegistry, SequenceTheorems, FiniteSetTheorems,
        WellFoundedInduction, TLAPS

(* The statements on the acceptance, in the order in which they are issued.*)
Marks == {"expect", "begin", "evaluate", "report", "decide", "release"}
IsProgram(p) == p \in Seq(ToSet(p))
Plain(p) == IsProgram(p) /\ \A k \in DOMAIN p : p[k][1] \notin Marks
Marked(p, m) ==
  /\ IsProgram(p)
  /\ \E k \in DOMAIN p : /\ p[k][1] = m
                         /\ \A l \in DOMAIN p : l # k => p[l][1] \notin Marks

PlainBlock(b) == DOMAIN b \subseteq Nat /\ \A i \in DOMAIN b : Plain(b[i])
PlainBlocks(blocks) ==
  IsProgram(blocks) /\ \A k \in DOMAIN blocks : PlainBlock(blocks[k])
CallSound(v) ==
  /\ v = [par |-> v.par, next |-> v.next] /\ DOMAIN v.par \subseteq Nat
  /\ \A i \in DOMAIN v.par : IsProgram(v.par[i])
  /\ PlainBlocks(v.next)
Sound(f) == DOMAIN f = Calls /\ \A c \in Calls : CallSound(f[c])

(* A batch of requests is of programs that ask; a request is in one batch. *)
Queued(q, f) ==
  /\ IsProgram(q)
  /\ \A k \in DOMAIN q :
       /\ q[k][1] \in Calls /\ q[k][2] # {}
       /\ q[k][2] \subseteq Asking(f[q[k][1]].par)
       /\ \A l \in DOMAIN q :
            l # k /\ q[l][1] = q[k][1] => q[l][2] \cap q[k][2] = {}
Unasked(q, c, i) == \A k \in DOMAIN q : q[k][1] = c => i \notin q[k][2]
Idle(f, c) == \A i \in DOMAIN f[c].par : f[c].par[i] = <<>>

Others(f, c, i) ==
  \A d \in Calls : \A j \in DOMAIN f[d].par :
    d # c \/ j # i => Plain(f[d].par[j])
AllPlain(f) == \A d \in Calls : \A j \in DOMAIN f[d].par : Plain(f[d].par[j])
Alone(f, m) ==
  \E c \in Calls : \E i \in DOMAIN f[c].par : Marked(f[c].par[i], m) /\ Others(f, c, i)

(* How far the acceptance is when a statement m is left.                   *)
Fits(m, job) ==
  /\ m = "expect" => job = "none"
  /\ m = "begin" => job = "pending"
  /\ m \in {"evaluate", "report", "decide"} => job = "running"
  /\ m = "release" => job \in {"passed", "failed"}
Verification(f, runs, job) ==
  \/ AllPlain(f) /\ ~runs
  \/ \E m \in Marks : Alone(f, m) /\ Fits(m, job) /\ (runs <=> m # "expect")

Calm(f, q) == Sound(f) /\ Queued(q, f)
(* The inductive invariant.                                                *)
IInv ==
  /\ Calm(call, queue)
  /\ Verification(call, verifying, db.acceptance)
  /\ "acceptance" \in DOMAIN db /\ verifying \in BOOLEAN /\ tasks \subseteq Sessions
-----------------------------------------------------------------------------
(* Programs.                                                               *)

LEMMA ProgramIn == ASSUME NEW S, NEW p \in Seq(S) PROVE IsProgram(p)
<1>1. Len(p) \in Nat /\ p \in [1 .. Len(p) -> S]
  BY LenProperties
<1>2. p \in [1 .. Len(p) -> ToSet(p)]
  BY <1>1 DEF ToSet
<1> QED
  BY <1>1, <1>2, SeqDef DEF IsProgram

LEMMA TailProgram ==
  ASSUME NEW p, IsProgram(p), p # <<>>
  PROVE  /\ IsProgram(Tail(p)) /\ Len(p) \in Nat /\ DOMAIN p = 1 .. Len(p)
         /\ Head(p) = p[1] /\ 1 \in DOMAIN p
         /\ DOMAIN Tail(p) = 1 .. Len(p) - 1
         /\ \A i \in 1 .. Len(p) - 1 : Tail(p)[i] = p[i + 1]
<1>1. PICK S : p \in Seq(S)
  BY DEF IsProgram
<1>2. /\ Tail(p) \in Seq(S) /\ Len(Tail(p)) = Len(p) - 1
      /\ \A i \in 1 .. Len(Tail(p)) : Tail(p)[i] = p[i + 1]
  BY <1>1, HeadTailProperties
<1>3. /\ Len(p) \in Nat /\ DOMAIN p = 1 .. Len(p) /\ Len(p) # 0
      /\ DOMAIN Tail(p) = 1 .. Len(Tail(p))
  BY <1>1, <1>2, LenProperties, EmptySeq
<1>4. Head(p) = p[1]
  BY <1>1
<1>5. IsProgram(Tail(p))
  BY <1>2, ProgramIn
<1> QED
  BY <1>2, <1>3, <1>4, <1>5

LEMMA JoinedPrograms ==
  ASSUME NEW p, NEW q, IsProgram(p), IsProgram(q)
  PROVE  /\ IsProgram(p \o q) /\ DOMAIN p = 1 .. Len(p) /\ DOMAIN q = 1 .. Len(q)
         /\ Len(p) \in Nat /\ Len(q) \in Nat
         /\ DOMAIN (p \o q) = 1 .. Len(p) + Len(q)
         /\ \A i \in 1 .. Len(p) + Len(q) :
              (p \o q)[i] = IF i <= Len(p) THEN p[i] ELSE q[i - Len(p)]
<1>1. PICK S : S = ToSet(p) \cup ToSet(q)
  OBVIOUS
<1>2. p \in Seq(S) /\ q \in Seq(S)
  BY <1>1, SeqMonotonic DEF IsProgram
<1>3. /\ p \o q \in Seq(S) /\ Len(p \o q) = Len(p) + Len(q)
      /\ \A i \in 1 .. Len(p) + Len(q) :
           (p \o q)[i] = IF i <= Len(p) THEN p[i] ELSE q[i - Len(p)]
  BY <1>2, ConcatProperties
<1>4. /\ Len(p) \in Nat /\ DOMAIN p = 1 .. Len(p)
      /\ Len(q) \in Nat /\ DOMAIN q = 1 .. Len(q)
      /\ DOMAIN (p \o q) = 1 .. Len(p \o q)
  BY <1>2, <1>3, LenProperties
<1>5. IsProgram(p \o q)
  BY <1>3, ProgramIn
<1> QED
  BY <1>3, <1>4, <1>5

(* A statement that is not about the acceptance, and two programs of such. *)
LEMMA PlainOne ==
  ASSUME NEW op, NEW x, NEW v, op \notin Marks PROVE Plain(One(op, x, v))
<1>1. PICK s : s = <<op, x, v>>
  OBVIOUS
<1>2. <<s>> \in Seq({s}) /\ DOMAIN <<s>> = {1} /\ <<s>>[1] = s
  OBVIOUS
<1>3. IsProgram(<<s>>)
  BY <1>2, ProgramIn
<1>4. s[1] = op
  BY <1>1
<1> QED
  BY <1>1, <1>2, <1>3, <1>4 DEF Plain, One

LEMMA MarkedOne ==
  ASSUME NEW op, NEW x, NEW v PROVE Marked(One(op, x, v), op)
<1>1. PICK s : s = <<op, x, v>>
  OBVIOUS
<1>2. <<s>> \in Seq({s}) /\ DOMAIN <<s>> = {1} /\ <<s>>[1] = s
  OBVIOUS
<1>3. IsProgram(<<s>>)
  BY <1>2, ProgramIn
<1>4. s[1] = op
  BY <1>1
<1> QED
  BY <1>1, <1>2, <1>3, <1>4 DEF Marked, One

LEMMA PlainNone == Plain(<<>>)
<1>1. <<>> \in Seq({}) /\ DOMAIN <<>> = {}
  OBVIOUS
<1> QED
  BY <1>1, ProgramIn DEF Plain

LEMMA PlainJoined ==
  ASSUME NEW p, NEW q, Plain(p), Plain(q) PROVE Plain(p \o q)
<1>1. IsProgram(p) /\ IsProgram(q)
  BY DEF Plain
<1>2. PICK r : r = p \o q
  OBVIOUS
<1>3. /\ IsProgram(r) /\ DOMAIN p = 1 .. Len(p) /\ DOMAIN q = 1 .. Len(q)
      /\ Len(p) \in Nat /\ Len(q) \in Nat
      /\ DOMAIN r = 1 .. Len(p) + Len(q)
      /\ \A i \in 1 .. Len(p) + Len(q) :
           r[i] = IF i <= Len(p) THEN p[i] ELSE q[i - Len(p)]
  BY <1>1, <1>2, JoinedPrograms
<1>4. ASSUME NEW k \in DOMAIN r PROVE r[k][1] \notin Marks
  <2>1. CASE k <= Len(p)
    BY <1>3, <2>1 DEF Plain
  <2>2. CASE ~(k <= Len(p))
    <3>1. k - Len(p) \in DOMAIN q
      BY <1>3, <2>2
    <3> QED
      BY <1>3, <2>2, <3>1 DEF Plain
  <2> QED
    BY <2>1, <2>2
<1> QED
  BY <1>2, <1>3, <1>4 DEF Plain

LEMMA MarkedJoined ==
  ASSUME NEW p, NEW q, NEW m,
         \/ Plain(p) /\ Marked(q, m)
         \/ Marked(p, m) /\ Plain(q)
  PROVE  Marked(p \o q, m)
<1>1. IsProgram(p) /\ IsProgram(q)
  BY DEF Plain, Marked
<1>2. PICK r, n : r = p \o q /\ n = Len(p)
  OBVIOUS
<1>3. /\ IsProgram(r) /\ DOMAIN p = 1 .. n /\ DOMAIN q = 1 .. Len(q)
      /\ n \in Nat /\ Len(q) \in Nat
      /\ DOMAIN r = 1 .. n + Len(q)
      /\ \A i \in 1 .. n + Len(q) : r[i] = IF i <= n THEN p[i] ELSE q[i - n]
  BY <1>1, <1>2, JoinedPrograms
<1>a. \A l \in DOMAIN r : l <= n => l \in DOMAIN p /\ r[l] = p[l]
  BY <1>3
<1>b. \A l \in DOMAIN r : ~(l <= n) => l - n \in DOMAIN q /\ r[l] = q[l - n]
  BY <1>3
<1>4. CASE Plain(p) /\ Marked(q, m)
  <2>1. PICK k \in DOMAIN q : /\ q[k][1] = m
                              /\ \A l \in DOMAIN q : l # k => q[l][1] \notin Marks
    BY <1>4 DEF Marked
  <2>2. n + k \in DOMAIN r /\ r[n + k] = q[k]
    BY <1>3, <2>1
  <2>3. ASSUME NEW l \in DOMAIN r, l # n + k PROVE r[l][1] \notin Marks
    <3>1. CASE l <= n
      BY <1>4, <1>a, <3>1 DEF Plain
    <3>2. CASE ~(l <= n)
      <4>1. l - n \in DOMAIN q /\ l - n # k /\ r[l] = q[l - n]
        BY <1>3, <1>b, <2>1, <2>3, <3>2
      <4> QED
        BY <2>1, <4>1
    <3> QED
      BY <3>1, <3>2
  <2> QED
    BY <1>2, <1>3, <2>1, <2>2, <2>3 DEF Marked
<1>5. CASE Marked(p, m) /\ Plain(q)
  <2>1. PICK k \in DOMAIN p : /\ p[k][1] = m
                              /\ \A l \in DOMAIN p : l # k => p[l][1] \notin Marks
    BY <1>5 DEF Marked
  <2>2. k \in DOMAIN r /\ r[k] = p[k]
    BY <1>3, <2>1
  <2>3. ASSUME NEW l \in DOMAIN r, l # k PROVE r[l][1] \notin Marks
    <3>1. CASE l <= n
      BY <1>a, <2>1, <2>3, <3>1
    <3>2. CASE ~(l <= n)
      BY <1>5, <1>b, <3>2 DEF Plain
    <3> QED
      BY <3>1, <3>2
  <2> QED
    BY <1>2, <1>3, <2>1, <2>2, <2>3 DEF Marked
<1> QED
  BY <1>4, <1>5

(* What a program has left after its first statement.                      *)
LEMMA PlainTail == ASSUME NEW p, Plain(p), p # <<>> PROVE Plain(Tail(p))
<1>1. IsProgram(p)
  BY DEF Plain
<1>2. PICK r, n : r = Tail(p) /\ n = Len(p)
  OBVIOUS
<1>3. /\ IsProgram(r) /\ n \in Nat /\ DOMAIN p = 1 .. n
      /\ DOMAIN r = 1 .. n - 1 /\ \A i \in 1 .. n - 1 : r[i] = p[i + 1]
  BY <1>1, <1>2, TailProgram
<1>4. ASSUME NEW k \in DOMAIN r PROVE r[k][1] \notin Marks
  <2>1. k + 1 \in DOMAIN p /\ r[k] = p[k + 1]
    BY <1>3
  <2> QED
    BY <2>1 DEF Plain
<1> QED
  BY <1>2, <1>3, <1>4 DEF Plain

LEMMA MarkedTail ==
  ASSUME NEW p, NEW m, Marked(p, m), m \in Marks
  PROVE  /\ p # <<>>
         /\ Head(p)[1] \in Marks => Head(p)[1] = m /\ Plain(Tail(p))
         /\ Head(p)[1] \notin Marks => Marked(Tail(p), m)
<1>1. IsProgram(p)
  BY DEF Marked
<1>2. PICK k \in DOMAIN p : /\ p[k][1] = m
                            /\ \A l \in DOMAIN p : l # k => p[l][1] \notin Marks
  BY DEF Marked
<1>3. p # <<>>
  BY <1>2
<1>4. PICK r, n : r = Tail(p) /\ n = Len(p)
  OBVIOUS
<1>5. /\ IsProgram(r) /\ n \in Nat /\ DOMAIN p = 1 .. n
      /\ Head(p) = p[1] /\ 1 \in DOMAIN p
      /\ DOMAIN r = 1 .. n - 1 /\ \A i \in 1 .. n - 1 : r[i] = p[i + 1]
  BY <1>1, <1>3, <1>4, TailProgram
<1>6. CASE k = 1
  <2>1. ASSUME NEW l \in DOMAIN r PROVE r[l][1] \notin Marks
    <3>1. l + 1 \in DOMAIN p /\ l + 1 # k /\ r[l] = p[l + 1]
      BY <1>5, <1>6
    <3> QED
      BY <1>2, <3>1
  <2> QED
    BY <1>2, <1>3, <1>4, <1>5, <1>6, <2>1 DEF Plain
<1>7. CASE k # 1
  <2>1. k - 1 \in DOMAIN r /\ r[k - 1] = p[k]
    BY <1>5, <1>7
  <2>2. ASSUME NEW l \in DOMAIN r, l # k - 1 PROVE r[l][1] \notin Marks
    <3>1. l + 1 \in DOMAIN p /\ l + 1 # k /\ r[l] = p[l + 1]
      BY <1>5, <2>2
    <3> QED
      BY <1>2, <3>1
  <2>3. Marked(r, m)
    BY <1>2, <1>5, <2>1, <2>2 DEF Marked
  <2>4. Head(p)[1] \notin Marks
    BY <1>2, <1>5, <1>7
  <2> QED
    BY <1>3, <1>4, <2>3, <2>4
<1> QED
  BY <1>6, <1>7

LEMMA PlainHead ==
  ASSUME NEW p, Plain(p), p # <<>> PROVE Head(p)[1] \notin Marks
<1>1. Head(p) = p[1] /\ 1 \in DOMAIN p
  BY TailProgram DEF Plain
<1> QED
  BY <1>1 DEF Plain

LEMMA PlainStatements ==
  /\ Plain(AppendEvent) /\ Plain(RecordArtifact) /\ Plain(GetThreadRecord)
  /\ Plain(GetThread) /\ Plain(GetThreadSummary) /\ Plain(GetSession)
  /\ Plain(GetVerifierJob) /\ Plain(Other)
  /\ Plain(RecomputeThread) /\ Plain(RecomputeGraph)
<1>1. "other" \notin Marks /\ "threadControl" \notin Marks /\ "readGraph" \notin Marks
  BY DEF Marks
<1> QED
  BY <1>1, PlainOne
     DEF AppendEvent, RecordArtifact, GetThreadRecord, GetThread, GetThreadSummary,
         GetSession, GetVerifierJob, Other, RecomputeThread, RecomputeGraph

LEMMA PlainThread ==
  /\ Plain(CreateThread) /\ Plain(UpdateSummary)
  /\ \A st, control : Plain(UpdateThread(st, control))
<1>1. "addThread" \notin Marks /\ "readThread" \notin Marks
  BY DEF Marks
<1>2. Plain(One("addThread", None, None))
  BY <1>1, PlainOne
<1>3. Plain(CreateThread)
  BY <1>2, PlainStatements, PlainJoined DEF CreateThread
<1>4. Plain(UpdateSummary)
  BY PlainStatements, PlainJoined DEF UpdateSummary
<1>5. \A st, control : Plain(UpdateThread(st, control))
  BY <1>1, PlainOne DEF UpdateThread
<1> QED
  BY <1>3, <1>4, <1>5

LEMMA PlainSession ==
  ASSUME NEW s, NEW st
  PROVE  /\ Plain(RegisterSession(s)) /\ Plain(UpdateSession(s, st))
         /\ Plain(SyncLater(s)) /\ Plain(CheckLater) /\ Plain(CreateClaim(s))
<1>1. /\ "addRow" \notin Marks /\ "setRow" \notin Marks
      /\ "findRow" \notin Marks /\ "sync" \notin Marks
      /\ "check" \notin Marks /\ "addClaim" \notin Marks
  BY DEF Marks
<1>2. Plain(One("addRow", s, "active")) /\ Plain(One("addClaim", s, None))
  BY <1>1, PlainOne
<1>3. Plain(GetThreadRecord \o One("addRow", s, "active"))
  BY <1>2, PlainStatements, PlainJoined
<1>4. Plain(GetThreadRecord \o One("addRow", s, "active") \o AppendEvent)
  BY <1>3, PlainStatements, PlainJoined
<1>5. Plain(RegisterSession(s))
  BY <1>4, PlainStatements, PlainJoined DEF RegisterSession
<1>6. Plain(CreateClaim(s))
  BY <1>2, PlainStatements, PlainJoined DEF CreateClaim
<1> QED
  BY <1>1, <1>5, <1>6, PlainOne DEF UpdateSession, SyncLater, CheckLater

LEMMA PlainNode ==
  ASSUME NEW n, NEW st
  PROVE  /\ Plain(CreateNode(n, st)) /\ Plain(UpdateNode(n, st))
         /\ Plain(CreateDependency(n)) /\ Plain(One("setNode", n, st))
         /\ Plain(RecordEvidence(n))
<1>1. /\ "setNode" \notin Marks /\ "findNode" \notin Marks /\ "addDep" \notin Marks
      /\ "addEvidence" \notin Marks
  BY DEF Marks
<1>2. /\ Plain(One("setNode", n, st)) /\ Plain(One("addDep", n, None))
      /\ Plain(One("addEvidence", n, None))
  BY <1>1, PlainOne
<1>3. /\ Plain(One("setNode", n, st) \o AppendEvent)
      /\ Plain(One("addDep", n, None) \o AppendEvent)
  BY <1>2, PlainStatements, PlainJoined
<1>4. Plain(CreateNode(n, st)) /\ Plain(CreateDependency(n)) /\ Plain(RecordEvidence(n))
  BY <1>2, <1>3, PlainStatements, PlainJoined
     DEF CreateNode, CreateDependency, RecordEvidence
<1> QED
  BY <1>1, <1>2, <1>4, PlainOne DEF UpdateNode

LEMMA PlainJob ==
  ASSUME NEW s, NEW st PROVE Plain(CreateJob(s, st)) /\ Plain(UpdateJob(s, st))
<1>1. Plain(One("setJob", s, st))
  BY PlainOne DEF Marks
<1> QED
  BY <1>1, PlainStatements, PlainJoined DEF CreateJob, UpdateJob

LEMMA PlainChecks ==
  ASSUME NEW T
  PROVE  Plain(CheckAll(T)) /\ Plain(Verdict(T))
<1>1. Plain(One("readyVerifiers", T, None)) /\ Plain(One("verdict", T, None))
  BY PlainOne DEF Marks
<1> QED
  BY <1>1, PlainStatements, PlainJoined DEF CheckAll, Verdict

LEMMA PlainLater ==
  ASSUME NEW N, NEW x PROVE Plain(Later("setNodes", N, x))
  BY PlainNone, PlainOne DEF Later, Marks

(* What is issued late is about the acceptance of nothing.                 *)
LEMMA PlainIssued ==
  ASSUME NEW op \in Pending, NEW x, NEW v PROVE Plain(Issued(op, x, v))
<1>1. CASE op = "sync"
  <2>1. Plain(One("syncNode", x, None)) /\ Plain(One("findClaim", x, None))
    BY PlainOne DEF Marks
  <2>2. ASSUME NEW st PROVE Plain(Sync(x, st))
    <3>1. Plain(UpdateSession(x, st))
      BY PlainSession
    <3>2. Plain(UpdateSession(x, st) \o One("syncNode", x, None))
      BY <2>1, <3>1, PlainJoined
    <3> QED
      BY <2>1, <3>2, PlainJoined DEF Sync
  <2>3. PICK st : st = mem'[x]
    OBVIOUS
  <2>4. Issued(op, x, v) = Sync(x, st)
    BY <1>1, <2>3 DEF Issued
  <2> QED
    BY <2>2, <2>4
<1>2. CASE op = "syncNode"
  <2>1. PICK n, st : n = nodeOf[x] /\ st = NodeStatus(mem'[x])
    OBVIOUS
  <2>2. Issued(op, x, v) = UpdateNode(n, st)
    BY <1>2, <2>1 DEF Issued
  <2> QED
    BY <2>2, PlainNode
<1>3. CASE op = "check"
  <2>1. PICK T : T = tasks'
    OBVIOUS
  <2>2. Issued(op, x, v) \in {CheckAll(T), <<>>}
    BY <1>3, <2>1 DEF Issued
  <2> QED
    BY <2>2, PlainChecks, PlainNone
<1>4. CASE op = "planNodes"
  <2>1. PICK n, N : n = First(x) /\ N = x \ {First(x)}
    OBVIOUS
  <2>2. Plain(One("planNodes", N, None))
    BY PlainOne DEF Marks
  <2>3. Plain(CreateNode(n, "ready") \o CreateDependency(n))
    BY PlainNode, PlainJoined
  <2>4. Plain(CreateNode(n, "ready") \o CreateDependency(n) \o One("planNodes", N, None))
    BY <2>2, <2>3, PlainJoined
  <2>5. Issued(op, x, v) \in
          {<<>>, CreateNode(n, "ready") \o CreateDependency(n) \o One("planNodes", N, None)}
    BY <1>4, <2>1 DEF Issued
  <2> QED
    BY <2>4, <2>5, PlainNone
<1>5. CASE op = "setNodes"
  <2>1. PICK n, st, N : n = First(x) /\ st = v[First(x)] /\ N = x \ {First(x)}
    OBVIOUS
  <2>2. Plain(One("setNode", n, st) \o Later("setNodes", N, v))
    BY PlainNode, PlainLater, PlainJoined
  <2>3. Issued(op, x, v) = One("setNode", n, st) \o Later("setNodes", N, v)
    BY <1>5, <2>1 DEF Issued
  <2> QED
    BY <2>2, <2>3
<1> QED
  BY <1>1, <1>2, <1>3, <1>4, <1>5 DEF Pending

LEMMA IssueKeeps ==
  ASSUME NEW p
  PROVE  /\ IsProgram(p) => IsProgram(Issue(p))
         /\ Plain(p) => Plain(Issue(p))
         /\ \A m \in Marks : Marked(p, m) => Marked(Issue(p), m)
<1>1. CASE p = <<>> \/ Head(p)[1] \notin Pending
  BY <1>1 DEF Issue
<1>2. CASE ~(p = <<>> \/ Head(p)[1] \notin Pending)
  <2>1. PICK r : r = Issued(Head(p)[1], Head(p)[2], Head(p)[3])
    OBVIOUS
  <2>2. Plain(r)
    BY <1>2, <2>1, PlainIssued
  <2>3. Issue(p) = r \o Tail(p)
    BY <1>2, <2>1 DEF Issue
  <2>4. IsProgram(p) => IsProgram(r \o Tail(p))
    BY <1>2, <2>2, TailProgram, JoinedPrograms DEF Plain
  <2>5. Plain(p) => Plain(r \o Tail(p))
    BY <1>2, <2>2, PlainTail, PlainJoined
  <2>6. ASSUME NEW m \in Marks, Marked(p, m) PROVE Marked(r \o Tail(p), m)
    <3>1. Head(p)[1] \notin Marks
      BY <1>2 DEF Pending, Marks
    <3>2. Marked(Tail(p), m)
      BY <2>6, <3>1, MarkedTail
    <3> QED
      BY <2>2, <3>2, MarkedJoined
  <2> QED
    BY <2>3, <2>4, <2>5, <2>6
<1> QED
  BY <1>1, <1>2

-----------------------------------------------------------------------------
(* Calls and the queue of their requests.                                  *)

LEMMA MinIn ==
  ASSUME NEW S, S \subseteq Nat, S # {} PROVE Min(S) \in S /\ Min(S) \in Nat
<1>1. PICK x \in S : \A y \in S : ~(<<y, x>> \in OpToRel(<, Nat))
  BY NatLessThanWellFounded, WFMin
<1>2. ASSUME NEW y \in S PROVE x <= y
  <2>1. ~(<<y, x>> \in OpToRel(<, Nat)) /\ x \in Nat /\ y \in Nat
    BY <1>1
  <2>2. y < x => <<y, x>> \in OpToRel(<, Nat)
    <3>1. <<y, x>> \in Nat \X Nat /\ <<y, x>>[1] = y /\ <<y, x>>[2] = x
      BY <2>1
    <3> QED
      BY <3>1 DEF OpToRel
  <2>3. ~(y < x)
    BY <2>1, <2>2
  <2>4. x \in Nat /\ y \in Nat
    OBVIOUS
  <2> QED
    BY <2>3, <2>4
<1> QED
  BY <1>2 DEF Min

LEMMA BegunSound ==
  ASSUME NEW blocks, PlainBlocks(blocks)
  PROVE  /\ CallSound(Begun(blocks))
         /\ \A i \in DOMAIN Begun(blocks).par : Plain(Begun(blocks).par[i])
<1> DEFINE Start(k) == [i \in DOMAIN blocks[k] |-> Issue(blocks[k][i])]
           busy == {k \in DOMAIN blocks : \E i \in DOMAIN blocks[k] : Start(k)[i] # <<>>}
<1>1. CASE busy = {}
  <2>1. Begun(blocks) = [par |-> <<>>, next |-> <<>>]
    BY <1>1 DEF Begun, Free
  <2>2. PlainBlocks(<<>>) /\ DOMAIN <<>> = {}
    BY PlainNone DEF PlainBlocks, Plain
  <2> QED
    BY <2>1, <2>2 DEF CallSound
<1>2. CASE busy # {}
  <2>1. PICK m, n : m = Min(busy) /\ n = Len(blocks)
    OBVIOUS
  <2>2. blocks \in Seq(ToSet(blocks)) /\ n \in Nat /\ DOMAIN blocks = 1 .. n
    BY <2>1, LenProperties DEF PlainBlocks, IsProgram
  <2>3. m \in 1 .. n
    <3>1. PICK B : B = busy
      OBVIOUS
    <3>2. B \subseteq 1 .. n
      BY <2>2, <3>1
    <3> QED
      <4>1. B # {} /\ m = Min(B)
        BY <1>2, <2>1, <3>1
      <4>2. B \subseteq Nat
        BY <2>2, <3>2
      <4> QED
        BY <3>2, <4>1, <4>2, MinIn
  <2>4. PICK rest : rest = SubSeq(blocks, m + 1, n)
    OBVIOUS
  <2>5. \A i \in m + 1 .. n : blocks[i] \in ToSet(blocks)
    BY <2>2, <2>3 DEF ToSet
  <2>6. /\ rest \in Seq(ToSet(blocks))
        /\ \A i \in 1 .. n - (m + 1) + 1 : rest[i] = blocks[m + 1 + i - 1]
        /\ Len(rest) = IF m + 1 <= n THEN n - (m + 1) + 1 ELSE 0
    BY <2>2, <2>3, <2>4, <2>5, SubSeqProperties
  <2>7. IsProgram(rest) /\ DOMAIN rest = 1 .. n - m
    BY <2>2, <2>3, <2>6, ProgramIn
  <2>8. ASSUME NEW k \in DOMAIN rest PROVE m + k \in DOMAIN blocks /\ rest[k] = blocks[m + k]
    BY <2>2, <2>3, <2>6, <2>7
  <2>9. PlainBlocks(rest)
    BY <2>7, <2>8 DEF PlainBlocks
  <2>10. \A i \in DOMAIN blocks[m] : Plain(blocks[m][i])
    BY <2>2, <2>3 DEF PlainBlocks, PlainBlock
  <2>11. DOMAIN blocks[m] \subseteq Nat
    BY <2>2, <2>3 DEF PlainBlocks, PlainBlock
  <2>12. Begun(blocks) = [par |-> Start(m), next |-> rest]
    BY <1>2, <2>1, <2>4 DEF Begun
  <2>13. \A i \in DOMAIN Start(m) : Plain(Start(m)[i])
    BY <2>10, IssueKeeps
  <2> QED
    BY <2>9, <2>11, <2>12, <2>13 DEF CallSound, Plain
<1> QED
  BY <1>1, <1>2

LEMMA Enqueued ==
  ASSUME NEW q, NEW f, NEW c \in Calls, NEW S, Queued(q, f),
         S \subseteq Asking(f[c].par), \A i \in S : Unasked(q, c, i)
  PROVE  /\ Queued(Enqueue(q, c, S), f)
         /\ \A d, i : (d # c \/ i \notin S) /\ Unasked(q, d, i)
                        => Unasked(Enqueue(q, c, S), d, i)
<1>1. CASE S = {}
  BY <1>1 DEF Enqueue
<1>2. CASE S # {}
  <2>1. PICK b, r, n : b = <<c, S>> /\ r = Append(q, b) /\ n = Len(q)
    OBVIOUS
  <2>2. q \in Seq(ToSet(q)) /\ n \in Nat /\ DOMAIN q = 1 .. n
    BY <2>1, LenProperties DEF Queued, IsProgram
  <2>3. q \in Seq(ToSet(q) \cup {b})
    BY <2>2, SeqMonotonic
  <2>4. /\ r \in Seq(ToSet(q) \cup {b}) /\ DOMAIN r = 1 .. n + 1
        /\ \A k \in 1 .. n : r[k] = q[k]
        /\ r[n + 1] = b
    BY <2>1, <2>2, <2>3
  <2>5. IsProgram(r) /\ b[1] = c /\ b[2] = S
    BY <2>1, <2>4, ProgramIn
  <2>6. ASSUME NEW k \in DOMAIN r
        PROVE  (k \in DOMAIN q /\ r[k] = q[k]) \/ (k = n + 1 /\ r[k] = b)
    BY <2>2, <2>4
  <2>7. ASSUME NEW k \in DOMAIN r
        PROVE  /\ r[k][1] \in Calls /\ r[k][2] # {}
               /\ r[k][2] \subseteq Asking(f[r[k][1]].par)
    BY <1>2, <2>5, <2>6 DEF Queued
  <2>8. ASSUME NEW k \in DOMAIN r, NEW l \in DOMAIN r, l # k, r[l][1] = r[k][1]
        PROVE  r[l][2] \cap r[k][2] = {}
    <3>1. CASE k \in DOMAIN q /\ l \in DOMAIN q /\ r[k] = q[k] /\ r[l] = q[l]
      BY <2>8, <3>1 DEF Queued
    <3>2. CASE k \in DOMAIN q /\ r[k] = q[k] /\ r[l] = b
      BY <2>5, <2>8, <3>2 DEF Unasked
    <3>3. CASE l \in DOMAIN q /\ r[l] = q[l] /\ r[k] = b
      BY <2>5, <2>8, <3>3 DEF Unasked
    <3> QED
      BY <2>6, <2>8, <3>1, <3>2, <3>3
  <2>9. Queued(r, f)
    BY <2>5, <2>7, <2>8 DEF Queued
  <2>10. ASSUME NEW d, NEW i, d # c \/ i \notin S, Unasked(q, d, i)
         PROVE  Unasked(r, d, i)
    BY <2>5, <2>6, <2>10 DEF Unasked
  <2> QED
    BY <1>2, <2>1, <2>9, <2>10 DEF Enqueue
<1> QED
  BY <1>1, <1>2

LEMMA StillQueued ==
  ASSUME NEW q, NEW f, NEW g, Queued(q, f),
         \A k \in DOMAIN q : q[k][2] \subseteq Asking(g[q[k][1]].par)
  PROVE  Queued(q, g)
  BY DEF Queued

(* What becomes of the calls when one of them becomes v.                   *)
Began(f, q, c, v, st) ==
  /\ Sound(st.call) /\ Queued(st.queue, st.call)
  /\ st = [call |-> st.call, queue |-> st.queue]
  /\ st.call[c] = v /\ \A d \in Calls : d # c => st.call[d] = f[d]
  /\ \A d, i : d # c /\ Unasked(q, d, i) => Unasked(st.queue, d, i)

LEMMA BeginAny ==
  ASSUME NEW f, NEW q, NEW c \in Calls, NEW blocks, Sound(f), Queued(q, f),
         \A k \in DOMAIN q : q[k][1] # c, CallSound(Begun(blocks))
  PROVE  Began(f, q, c, Begun(blocks), Begin([call |-> f, queue |-> q], c, blocks))
<1>0. PICK st : st = Begin([call |-> f, queue |-> q], c, blocks)
  OBVIOUS
<1>1. PICK v : v = Begun(blocks)
  OBVIOUS
<1>2. CallSound(v)
  BY <1>1
<1>3. PICK g, S : g = [f EXCEPT ![c] = v] /\ S = Asking(v.par)
  OBVIOUS
<1>4. st = [call |-> g, queue |-> Enqueue(q, c, S)]
  BY <1>0, <1>1, <1>3 DEF Begin
<1>5. st.call = g /\ st.queue = Enqueue(q, c, S)
  BY <1>4
<1>6. /\ DOMAIN g = Calls /\ g[c] = v
      /\ \A d \in Calls : d # c => g[d] = f[d]
  BY <1>3 DEF Sound
<1>7. Sound(g)
  BY <1>2, <1>6 DEF Sound
<1>8. Queued(q, g)
  <2>1. ASSUME NEW k \in DOMAIN q PROVE q[k][2] \subseteq Asking(g[q[k][1]].par)
    <3>1. g[q[k][1]] = f[q[k][1]]
      BY <1>6 DEF Queued
    <3> QED
      BY <3>1 DEF Queued
  <2> QED
    BY <2>1, StillQueued
<1>9. \A i \in S : Unasked(q, c, i)
  BY DEF Unasked
<1>10. /\ Queued(Enqueue(q, c, S), g)
       /\ \A d, i : (d # c \/ i \notin S) /\ Unasked(q, d, i)
                      => Unasked(Enqueue(q, c, S), d, i)
  BY <1>3, <1>6, <1>8, <1>9, Enqueued
<1> QED
  BY <1>0, <1>1, <1>4, <1>5, <1>6, <1>7, <1>10 DEF Began

LEMMA BeginSound ==
  ASSUME NEW f, NEW q, NEW c \in Calls, NEW blocks, Sound(f), Queued(q, f),
         \A k \in DOMAIN q : q[k][1] # c, PlainBlocks(blocks)
  PROVE  /\ Began(f, q, c, Begun(blocks), Begin([call |-> f, queue |-> q], c, blocks))
         /\ \A i \in DOMAIN Begun(blocks).par : Plain(Begun(blocks).par[i])
  BY BegunSound, BeginAny

(* What becomes of the programs when one of them goes on with p.           *)
Moved(f, g, c, i, p) ==
  /\ \A d \in Calls : d # c => g[d] = f[d]
  /\ \/ /\ DOMAIN g[c].par = DOMAIN f[c].par
        /\ \A j \in DOMAIN f[c].par :
             g[c].par[j] = IF j = i THEN Issue(p) ELSE f[c].par[j]
     \/ /\ \A j \in DOMAIN f[c].par : j # i => f[c].par[j] = <<>>
        /\ Issue(p) = <<>>
        /\ \A j \in DOMAIN g[c].par : Plain(g[c].par[j])

LEMMA AdvanceSound ==
  ASSUME NEW f, NEW q, NEW c \in Calls, NEW i \in DOMAIN f[c].par, NEW p,
         Sound(f), Queued(q, f), Unasked(q, c, i), IsProgram(p),
         NEW st, st = Advance([call |-> f, queue |-> q], c, i, p)
  PROVE  /\ Sound(st.call) /\ Queued(st.queue, st.call)
         /\ Moved(f, st.call, c, i, p)
<1>1. PICK v, r : v = f[c] /\ r = Issue(p)
  OBVIOUS
<1>2. PICK par : par = [v.par EXCEPT ![i] = r]
  OBVIOUS
<1>3. CallSound(v) /\ IsProgram(r) /\ i \in DOMAIN v.par
  BY <1>1, IssueKeeps DEF Sound
<1>4. DOMAIN par = DOMAIN v.par /\ \A j \in DOMAIN v.par : par[j] = IF j = i THEN r ELSE v.par[j]
  BY <1>2, <1>3
<1>5. CASE \E k \in DOMAIN par : par[k] # <<>>
  <2>1. PICK g, S : /\ g = [f EXCEPT ![c] = [v EXCEPT !.par = par]]
                    /\ S = {i} \cap Asking(par)
    OBVIOUS
  <2>2. st = [call |-> g, queue |-> Enqueue(q, c, S)]
    BY <1>1, <1>2, <1>5, <2>1 DEF Advance
  <2>3. st.call = g /\ st.queue = Enqueue(q, c, S)
    BY <2>2
  <2>4. PICK w : w = [v EXCEPT !.par = par]
    OBVIOUS
  <2>5. w = [par |-> par, next |-> v.next]
    <3>1. v = [par |-> v.par, next |-> v.next]
      BY <1>3 DEF CallSound
    <3> QED
      BY <2>4, <3>1
  <2>6. w.par = par /\ w.next = v.next
    BY <2>5
  <2>7. CallSound(w)
    BY <1>3, <1>4, <2>5, <2>6 DEF CallSound
  <2>8. DOMAIN g = Calls /\ g[c] = w /\ \A d \in Calls : d # c => g[d] = f[d]
    BY <2>1, <2>4 DEF Sound
  <2>9. Sound(g)
    BY <2>7, <2>8 DEF Sound
  <2>10. ASSUME NEW k \in DOMAIN q PROVE q[k][2] \subseteq Asking(g[q[k][1]].par)
    <3>1. q[k][1] \in Calls /\ q[k][2] \subseteq Asking(f[q[k][1]].par)
      BY DEF Queued
    <3>2. CASE q[k][1] # c
      BY <2>8, <3>1, <3>2
    <3>3. CASE q[k][1] = c
      <4>1. i \notin q[k][2] /\ q[k][2] \subseteq Asking(v.par)
        BY <1>1, <3>1, <3>3 DEF Unasked
      <4>2. q[k][2] \subseteq Asking(par)
        BY <1>4, <4>1 DEF Asking
      <4> QED
        BY <2>6, <2>8, <3>3, <4>2
    <3> QED
      BY <3>2, <3>3
  <2>11. Queued(q, g)
    BY <2>10, StillQueued
  <2>12. S \subseteq Asking(g[c].par) /\ \A j \in S : Unasked(q, c, j)
    BY <2>1, <2>6, <2>8
  <2>13. Queued(Enqueue(q, c, S), g)
    BY <2>11, <2>12, Enqueued
  <2>14. Moved(f, g, c, i, p)
    BY <1>1, <1>4, <2>6, <2>8 DEF Moved
  <2> QED
    BY <2>3, <2>9, <2>13, <2>14
<1>6. CASE ~ \E k \in DOMAIN par : par[k] # <<>>
  <2>1. st = Begin([call |-> f, queue |-> q], c, v.next)
    BY <1>1, <1>2, <1>6 DEF Advance
  <2>2. r = <<>> /\ \A j \in DOMAIN v.par : j # i => v.par[j] = <<>>
    BY <1>3, <1>4, <1>6
  <2>3. ASSUME NEW k \in DOMAIN q PROVE q[k][1] # c
    <3>1. SUFFICES ASSUME q[k][1] = c PROVE FALSE
      OBVIOUS
    <3>2. q[k][2] # {} /\ q[k][2] \subseteq Asking(v.par) /\ i \notin q[k][2]
      BY <1>1, <3>1 DEF Queued, Unasked
    <3> QED
      BY <2>2, <3>2 DEF Asking, Asks
  <2>4. PlainBlocks(v.next)
    BY <1>3 DEF CallSound
  <2>5. /\ Sound(st.call) /\ Queued(st.queue, st.call)
        /\ \A d \in Calls : d # c => st.call[d] = f[d]
        /\ \A j \in DOMAIN st.call[c].par : Plain(st.call[c].par[j])
    <3>1. \A k \in DOMAIN q : q[k][1] # c
      BY <2>3
    <3>2. /\ Began(f, q, c, Begun(v.next), st)
          /\ \A j \in DOMAIN Begun(v.next).par : Plain(Begun(v.next).par[j])
      BY <2>1, <2>4, <3>1, BeginSound
    <3> QED
      BY <3>2 DEF Began
  <2> QED
    BY <1>1, <2>2, <2>5 DEF Moved
<1> QED
  BY <1>5, <1>6

(* A program that is marked is the only one.                               *)
LEMMA MovedPlain ==
  ASSUME NEW f, NEW g, NEW c \in Calls, NEW i, NEW p,
         Moved(f, g, c, i, p), Others(f, c, i), Plain(p)
  PROVE  AllPlain(g)
<1>1. Plain(Issue(p))
  BY IssueKeeps
<1>2. ASSUME NEW d \in Calls, NEW j \in DOMAIN g[d].par PROVE Plain(g[d].par[j])
  <2>1. CASE d # c
    BY <1>2, <2>1 DEF Moved, Others
  <2>2. CASE d = c
    BY <1>1, <1>2, <2>2 DEF Moved, Others
  <2> QED
    BY <2>1, <2>2
<1> QED
  BY <1>2 DEF AllPlain

LEMMA MovedMarked ==
  ASSUME NEW f, NEW g, NEW c \in Calls, NEW i \in DOMAIN f[c].par, NEW p, NEW m \in Marks,
         Moved(f, g, c, i, p), Others(f, c, i), Marked(p, m)
  PROVE  Alone(g, m)
<1>1. Marked(Issue(p), m) /\ Issue(p) # <<>>
  BY IssueKeeps, MarkedTail
<1>2. /\ DOMAIN g[c].par = DOMAIN f[c].par
      /\ \A j \in DOMAIN f[c].par :
           g[c].par[j] = IF j = i THEN Issue(p) ELSE f[c].par[j]
  BY <1>1 DEF Moved
<1>3. Marked(g[c].par[i], m)
  BY <1>1, <1>2
<1>4. ASSUME NEW d \in Calls, NEW j \in DOMAIN g[d].par, d # c \/ j # i
      PROVE  Plain(g[d].par[j])
  <2>1. CASE d # c
    BY <1>4, <2>1 DEF Moved, Others
  <2>2. CASE d = c
    BY <1>2, <1>4, <2>2 DEF Others
  <2> QED
    BY <2>1, <2>2
<1> QED
  BY <1>2, <1>3, <1>4 DEF Alone, Others

LEMMA PlainNotMarked ==
  ASSUME NEW p, NEW m \in Marks, Marked(p, m) PROVE ~Plain(p)
  BY DEF Plain, Marked

LEMMA MovedAlone ==
  ASSUME NEW f, NEW g, NEW c \in Calls, NEW i \in DOMAIN f[c].par, NEW p, NEW m \in Marks,
         Moved(f, g, c, i, p), Alone(f, m), Plain(f[c].par[i]), Plain(p)
  PROVE  Alone(g, m)
<1>0. PICK d \in Calls :
        \E j \in DOMAIN f[d].par : Marked(f[d].par[j], m) /\ Others(f, d, j)
  BY DEF Alone
<1>1. PICK j \in DOMAIN f[d].par : Marked(f[d].par[j], m) /\ Others(f, d, j)
  BY <1>0
<1>2. d # c \/ j # i
  BY <1>1, PlainNotMarked
<1>3. f[d].par[j] # <<>>
  BY <1>1, MarkedTail
<1>4. Plain(Issue(p))
  BY IssueKeeps
<1>5. CASE d # c
  <2>1. g[d] = f[d]
    BY <1>5 DEF Moved
  <2>2. ASSUME NEW e \in Calls, NEW k \in DOMAIN g[e].par, e # d \/ k # j
        PROVE  Plain(g[e].par[k])
    <3>1. CASE e # c
      BY <1>1, <2>2, <3>1 DEF Moved, Others
    <3>2. CASE e = c
      BY <1>1, <1>4, <1>5, <2>2, <3>2 DEF Moved, Others
    <3> QED
      BY <3>1, <3>2
  <2> QED
    BY <1>1, <2>1, <2>2 DEF Alone, Others
<1>6. CASE d = c
  <2>1. j # i
    BY <1>2, <1>6
  <2>2. /\ DOMAIN g[c].par = DOMAIN f[c].par
        /\ \A k \in DOMAIN f[c].par :
             g[c].par[k] = IF k = i THEN Issue(p) ELSE f[c].par[k]
    BY <1>3, <1>6, <2>1 DEF Moved
  <2>3. ASSUME NEW e \in Calls, NEW k \in DOMAIN g[e].par, e # c \/ k # j
        PROVE  Plain(g[e].par[k])
    <3>1. CASE e # c
      BY <1>1, <1>6, <2>3, <3>1 DEF Moved, Others
    <3>2. CASE e = c
      BY <1>1, <1>4, <1>6, <2>2, <2>3, <3>2 DEF Others
    <3> QED
      BY <3>1, <3>2
  <2>4. Marked(g[c].par[j], m)
    BY <1>1, <1>6, <2>1, <2>2
  <2> QED
    BY <1>6, <2>2, <2>3, <2>4 DEF Alone, Others
<1> QED
  BY <1>5, <1>6

(* A statement that is not about the acceptance is answered.               *)
LEMMA MovedKeeps ==
  ASSUME NEW f, NEW g, NEW c \in Calls, NEW i \in DOMAIN f[c].par, NEW push,
         f[c].par[i] # <<>>, Head(f[c].par[i])[1] \notin Marks, Plain(push),
         Moved(f, g, c, i, push \o Tail(f[c].par[i])),
         NEW v, NEW a, Verification(f, v, a)
  PROVE  Verification(g, v, a)
<1>1. PICK p : p = f[c].par[i]
  OBVIOUS
<1>2. CASE AllPlain(f) /\ ~v
  <2>1. Plain(p) /\ Others(f, c, i)
    BY <1>1, <1>2 DEF AllPlain, Others
  <2>2. Plain(push \o Tail(p))
    BY <1>1, <2>1, PlainTail, PlainJoined
  <2>3. AllPlain(g)
    BY <1>1, <2>1, <2>2, MovedPlain
  <2> QED
    BY <1>2, <2>3 DEF Verification
<1>3. ASSUME NEW m \in Marks, Alone(f, m) PROVE Alone(g, m)
  <2>1. PICK d \in Calls :
          \E j \in DOMAIN f[d].par : Marked(f[d].par[j], m) /\ Others(f, d, j)
    BY <1>3 DEF Alone
  <2>2. PICK j \in DOMAIN f[d].par : Marked(f[d].par[j], m) /\ Others(f, d, j)
    BY <2>1
  <2>3. CASE d = c /\ j = i
    <3>1. Marked(p, m) /\ Others(f, c, i)
      BY <1>1, <2>2, <2>3
    <3>2. Marked(Tail(p), m)
      BY <1>1, <3>1, MarkedTail
    <3>3. Marked(push \o Tail(p), m)
      BY <3>2, MarkedJoined
    <3> QED
      BY <1>1, <3>1, <3>3, MovedMarked
  <2>4. CASE d # c \/ j # i
    <3>1. Plain(p)
      BY <1>1, <2>2, <2>4 DEF Others
    <3>2. Plain(push \o Tail(p))
      BY <1>1, <3>1, PlainTail, PlainJoined
    <3> QED
      BY <1>1, <1>3, <3>1, <3>2, MovedAlone
  <2> QED
    BY <2>3, <2>4
<1> QED
  BY <1>2, <1>3 DEF Verification

(* One that is tells how far the verification is, and is the only one.     *)
LEMMA MarkedHead ==
  ASSUME NEW f, NEW c \in Calls, NEW i \in DOMAIN f[c].par,
         f[c].par[i] # <<>>, Head(f[c].par[i])[1] \in Marks,
         NEW v, NEW a, Verification(f, v, a)
  PROVE  /\ Others(f, c, i) /\ Plain(Tail(f[c].par[i]))
         /\ Fits(Head(f[c].par[i])[1], a)
         /\ v <=> Head(f[c].par[i])[1] # "expect"
<1>1. PICK p : p = f[c].par[i]
  OBVIOUS
<1>2. ~Plain(p)
  BY <1>1, PlainHead
<1>3. PICK m \in Marks : Alone(f, m) /\ Fits(m, a) /\ (v <=> m # "expect")
  BY <1>1, <1>2 DEF Verification, AllPlain
<1>4. PICK d \in Calls :
        \E j \in DOMAIN f[d].par : Marked(f[d].par[j], m) /\ Others(f, d, j)
  BY <1>3 DEF Alone
<1>5. PICK j \in DOMAIN f[d].par : Marked(f[d].par[j], m) /\ Others(f, d, j)
  BY <1>4
<1>6. d = c /\ j = i
  BY <1>1, <1>2, <1>5 DEF Others
<1>7. Marked(p, m) /\ Others(f, c, i)
  BY <1>1, <1>5, <1>6
<1>8. Head(p)[1] = m /\ Plain(Tail(p))
  BY <1>1, <1>7, MarkedTail
<1> QED
  BY <1>1, <1>3, <1>7, <1>8

LEMMA BeganKeeps ==
  ASSUME NEW f, NEW q, NEW c \in Calls, NEW w, NEW st, Began(f, q, c, w, st),
         Idle(f, c), \A i \in DOMAIN w.par : Plain(w.par[i]),
         NEW v, NEW a, Verification(f, v, a)
  PROVE  Verification(st.call, v, a)
<1>1. PICK g : g = st.call
  OBVIOUS
<1>2. /\ \A d \in Calls : d # c => g[d] = f[d]
      /\ \A i \in DOMAIN g[c].par : Plain(g[c].par[i])
  BY <1>1 DEF Began
<1>3. CASE AllPlain(f) /\ ~v
  <2>1. AllPlain(g)
    BY <1>2, <1>3 DEF AllPlain
  <2> QED
    BY <1>1, <1>3, <2>1 DEF Verification
<1>4. ASSUME NEW m \in Marks, Alone(f, m) PROVE Alone(g, m)
  <2>1. PICK d \in Calls :
          \E j \in DOMAIN f[d].par : Marked(f[d].par[j], m) /\ Others(f, d, j)
    BY <1>4 DEF Alone
  <2>2. PICK j \in DOMAIN f[d].par : Marked(f[d].par[j], m) /\ Others(f, d, j)
    BY <2>1
  <2>3. d # c
    BY <2>2, MarkedTail DEF Idle
  <2>4. g[d] = f[d]
    BY <1>2, <2>3
  <2>5. Others(g, d, j)
    BY <1>2, <2>2, <2>3 DEF Others
  <2> QED
    BY <2>2, <2>4, <2>5 DEF Alone
<1> QED
  BY <1>1, <1>3, <1>4 DEF Verification

LEMMA IdleUnqueued ==
  ASSUME NEW f, NEW q, NEW c, Queued(q, f), Idle(f, c)
  PROVE  \A k \in DOMAIN q : q[k][1] # c
  BY DEF Queued, Idle, Asking, Asks

(* The program whose statement is served, and the queue without it.        *)
LEMMA TurnSound ==
  ASSUME Sound(call), Queued(queue, call), queue # <<>>
  PROVE  /\ Turn[1] \in Calls /\ Turn[2] \in DOMAIN call[Turn[1]].par
         /\ call[Turn[1]].par[Turn[2]] # <<>>
         /\ Queued(Served, call) /\ Unasked(Served, Turn[1], Turn[2])
<1>1. PICK q, n : q = queue /\ n = Len(queue)
  OBVIOUS
<1>2. /\ IsProgram(q) /\ n \in Nat /\ DOMAIN q = 1 .. n /\ 1 \in DOMAIN q
      /\ Head(q) = q[1]
      /\ IsProgram(Tail(q)) /\ DOMAIN Tail(q) = 1 .. n - 1
      /\ \A k \in 1 .. n - 1 : Tail(q)[k] = q[k + 1]
  BY <1>1, TailProgram DEF Queued
<1>3. PICK c, S, i : c = q[1][1] /\ S = q[1][2] /\ i = Min(S)
  OBVIOUS
<1>4. Queued(q, call)
  BY <1>1
<1>5. c \in Calls /\ S # {} /\ S \subseteq Asking(call[c].par)
  BY <1>2, <1>3, <1>4 DEF Queued
<1>6. S \subseteq Nat
  BY <1>5 DEF Sound, CallSound, Asking
<1>7. i \in S
  BY <1>3, <1>5, <1>6, MinIn
<1>8. i \in DOMAIN call[c].par /\ call[c].par[i] # <<>>
  BY <1>5, <1>7 DEF Asking, Asks
<1>9. Turn = <<c, i>> /\ Turn[1] = c /\ Turn[2] = i
  BY <1>1, <1>2, <1>3 DEF Turn
<1>10. PICK r, h : /\ r = Served
                   /\ h = [k \in DOMAIN r |-> IF S \ {i} = {} THEN k + 1 ELSE k]
  OBVIOUS
<1>11. /\ IsProgram(r)
       /\ \A k \in DOMAIN r :
            /\ h[k] \in DOMAIN q /\ r[k][1] = q[h[k]][1]
            /\ r[k][2] # {} /\ r[k][2] \subseteq q[h[k]][2]
            /\ h[k] = 1 => i \notin r[k][2]
       /\ \A k, l \in DOMAIN r : h[k] = h[l] => k = l
  <2>1. CASE S \ {i} = {}
    <3>1. r = Tail(q) /\ h = [k \in DOMAIN r |-> k + 1]
      BY <1>1, <1>2, <1>3, <1>9, <1>10, <2>1 DEF Served
    <3>2. DOMAIN r = 1 .. n - 1
      BY <1>2, <3>1
    <3>3. ASSUME NEW k \in DOMAIN r
          PROVE  h[k] = k + 1 /\ h[k] # 1 /\ h[k] \in DOMAIN q /\ r[k] = q[h[k]]
      BY <1>2, <3>1, <3>2
    <3>4. \A k, l \in DOMAIN r : h[k] = h[l] => k = l
      BY <1>2, <3>1, <3>2
    <3>5. IsProgram(r)
      BY <1>2, <3>1
    <3> QED
      BY <1>4, <3>3, <3>4, <3>5 DEF Queued
  <2>2. CASE S \ {i} # {}
    <3>1. PICK b : b = <<c, S \ {i}>>
      OBVIOUS
    <3>2. r = [q EXCEPT ![1] = b] /\ h = [k \in DOMAIN r |-> k]
      BY <1>1, <1>2, <1>3, <1>9, <1>10, <2>2, <3>1 DEF Served
    <3>3. /\ DOMAIN r = DOMAIN q /\ r[1] = b
          /\ \A k \in DOMAIN q : k # 1 => r[k] = q[k]
      BY <1>2, <3>2
    <3>4. IsProgram(r)
      <4>1. q \in Seq(ToSet(q) \cup {b})
        BY <1>2, SeqMonotonic DEF IsProgram
      <4>2. 1 \in 1 .. Len(q)
        BY <1>1, <1>2
      <4>3. r \in Seq(ToSet(q) \cup {b})
        BY <3>2, <4>1, <4>2, ExceptSeq
      <4> QED
        BY <4>3, ProgramIn
    <3>5. b[1] = c /\ b[2] = S \ {i}
      BY <3>1
    <3>6. ASSUME NEW k \in DOMAIN r
          PROVE  /\ h[k] \in DOMAIN q /\ r[k][1] = q[h[k]][1]
                 /\ r[k][2] # {} /\ r[k][2] \subseteq q[h[k]][2]
                 /\ h[k] = 1 => i \notin r[k][2]
      <4>1. CASE k = 1
        BY <1>3, <2>2, <3>2, <3>3, <3>5, <4>1
      <4>2. CASE k # 1
        BY <1>4, <3>2, <3>3, <4>2 DEF Queued
      <4> QED
        BY <4>1, <4>2
    <3>7. \A k, l \in DOMAIN r : h[k] = h[l] => k = l
      BY <3>2
    <3> QED
      BY <3>4, <3>6, <3>7
  <2> QED
    BY <2>1, <2>2
<1>12. ASSUME NEW k \in DOMAIN r
       PROVE  r[k][1] \in Calls /\ r[k][2] \subseteq Asking(call[r[k][1]].par)
  BY <1>4, <1>11 DEF Queued
<1>13. ASSUME NEW k \in DOMAIN r, NEW l \in DOMAIN r, l # k, r[l][1] = r[k][1]
       PROVE  r[l][2] \cap r[k][2] = {}
  <2>1. q[h[l]][2] \cap q[h[k]][2] = {}
    BY <1>4, <1>11, <1>13 DEF Queued
  <2> QED
    BY <1>11, <2>1
<1>14. Queued(r, call)
  BY <1>11, <1>12, <1>13 DEF Queued
<1>15. ASSUME NEW k \in DOMAIN r, r[k][1] = c PROVE i \notin r[k][2]
  <2>1. CASE h[k] = 1
    BY <1>11, <2>1
  <2>2. CASE h[k] # 1
    <3>1. q[h[k]][2] \cap S = {}
      BY <1>2, <1>3, <1>4, <1>11, <1>15, <2>2 DEF Queued
    <3> QED
      BY <1>7, <1>11, <3>1
  <2> QED
    BY <2>1, <2>2
<1> QED
  BY <1>5, <1>8, <1>9, <1>10, <1>14, <1>15 DEF Unasked

-----------------------------------------------------------------------------
(* The ways in which a step changes the calls.                             *)

LEMMA AnswerMoves ==
  ASSUME Calm(call, queue), queue # <<>>, NEW push, IsProgram(push), Answer(push)
  PROVE  /\ Calm(call', queue')
         /\ Moved(call, call', Turn[1], Turn[2], push \o Rest)
<1>1. PICK c, i, q, p : /\ c = Turn[1] /\ i = Turn[2] /\ q = Served
                        /\ p = push \o Rest
  OBVIOUS
<1>2. /\ c \in Calls /\ i \in DOMAIN call[c].par /\ call[c].par[i] # <<>>
      /\ Queued(q, call) /\ Unasked(q, c, i) /\ Sound(call)
  BY <1>1, TurnSound DEF Calm
<1>3. IsProgram(p)
  <2>1. IsProgram(call[c].par[i])
    BY <1>2 DEF Sound, CallSound
  <2>2. IsProgram(Tail(call[c].par[i]))
    BY <1>2, <2>1, TailProgram
  <2> QED
    BY <1>1, <2>2, JoinedPrograms DEF Rest
<1>4. PICK st : st = Advance([call |-> call, queue |-> q], c, i, p)
  OBVIOUS
<1>5. [Now EXCEPT !.queue = Served] = [call |-> call, queue |-> q]
  BY <1>1 DEF Now
<1>6. call' = st.call /\ queue' = st.queue
  BY <1>1, <1>4, <1>5 DEF Answer, Become
<1>7. /\ Sound(st.call) /\ Queued(st.queue, st.call)
      /\ Moved(call, st.call, c, i, p)
  BY <1>2, <1>3, <1>4, AdvanceSound
<1> QED
  BY <1>1, <1>6, <1>7 DEF Calm

LEMMA AnswerKeeps ==
  ASSUME Calm(call, queue), queue # <<>>, Statement[1] \notin Marks,
         NEW push, Plain(push), Answer(push)
  PROVE  /\ Calm(call', queue')
         /\ \A v, a : Verification(call, v, a) => Verification(call', v, a)
<1>1. PICK c, i : c = Turn[1] /\ i = Turn[2]
  OBVIOUS
<1>2. c \in Calls /\ i \in DOMAIN call[c].par /\ call[c].par[i] # <<>>
  BY <1>1, TurnSound DEF Calm
<1>3. Calm(call', queue') /\ Moved(call, call', c, i, push \o Tail(call[c].par[i]))
  BY <1>1, AnswerMoves DEF Plain, Rest
<1>4. Head(call[c].par[i])[1] \notin Marks
  BY <1>1 DEF Statement
<1> QED
  BY <1>2, <1>3, <1>4, MovedKeeps

(* The database serves a statement on the acceptance.                      *)
LEMMA AnswerMarked ==
  ASSUME Calm(call, queue), queue # <<>>, NEW m \in Marks, Statement[1] = m,
         NEW v, NEW a, Verification(call, v, a), NEW push, Answer(push)
  PROVE  /\ Fits(m, a) /\ (v <=> m # "expect")
         /\ Plain(push) => Calm(call', queue') /\ AllPlain(call')
         /\ \A n \in Marks : Marked(push, n) => Calm(call', queue') /\ Alone(call', n)
<1>1. PICK c, i : c = Turn[1] /\ i = Turn[2]
  OBVIOUS
<1>2. c \in Calls /\ i \in DOMAIN call[c].par /\ call[c].par[i] # <<>>
  BY <1>1, TurnSound DEF Calm
<1>3. Head(call[c].par[i])[1] = m
  BY <1>1 DEF Statement
<1>4. /\ Others(call, c, i) /\ Plain(Tail(call[c].par[i]))
      /\ Fits(m, a) /\ (v <=> m # "expect")
  BY <1>2, <1>3, MarkedHead
<1>5. ASSUME Plain(push) PROVE Calm(call', queue') /\ AllPlain(call')
  <2>1. Calm(call', queue') /\ Moved(call, call', c, i, push \o Tail(call[c].par[i]))
    BY <1>1, <1>5, AnswerMoves DEF Plain, Rest
  <2>2. Plain(push \o Tail(call[c].par[i]))
    BY <1>4, <1>5, PlainJoined
  <2> QED
    BY <1>2, <1>4, <2>1, <2>2, MovedPlain
<1>6. ASSUME NEW n \in Marks, Marked(push, n) PROVE Calm(call', queue') /\ Alone(call', n)
  <2>1. Calm(call', queue') /\ Moved(call, call', c, i, push \o Tail(call[c].par[i]))
    BY <1>1, <1>6, AnswerMoves DEF Marked, Rest
  <2>2. Marked(push \o Tail(call[c].par[i]), n)
    BY <1>4, <1>6, MarkedJoined
  <2> QED
    BY <1>2, <1>4, <2>1, <2>2, MovedMarked
<1> QED
  BY <1>4, <1>5, <1>6

(* An answer from elsewhere.                                               *)
LEMMA ResolveMoves ==
  ASSUME Calm(call, queue), NEW c \in Calls, NEW i, NEW what \in Outside,
         Waits(c, i, what), NEW push, IsProgram(push), Resolve(c, i, push)
  PROVE  /\ i \in DOMAIN call[c].par /\ call[c].par[i] # <<>>
         /\ Head(call[c].par[i])[1] = what
         /\ Calm(call', queue')
         /\ Moved(call, call', c, i, push \o Tail(call[c].par[i]))
<1>1. /\ i \in DOMAIN call[c].par /\ call[c].par[i] # <<>>
      /\ Head(call[c].par[i])[1] = what
  BY DEF Waits
<1>2. Unasked(queue, c, i)
  BY <1>1 DEF Calm, Queued, Unasked, Asking, Asks
<1>3. PICK p : p = push \o Tail(call[c].par[i])
  OBVIOUS
<1>4. IsProgram(p)
  <2>1. IsProgram(call[c].par[i])
    BY <1>1 DEF Calm, Sound, CallSound
  <2>2. IsProgram(Tail(call[c].par[i]))
    BY <1>1, <2>1, TailProgram
  <2> QED
    BY <1>3, <2>2, JoinedPrograms
<1>5. PICK st : st = Advance([call |-> call, queue |-> queue], c, i, p)
  OBVIOUS
<1>6. call' = st.call /\ queue' = st.queue
  BY <1>3, <1>5 DEF Resolve, Become, Now
<1>7. /\ Sound(st.call) /\ Queued(st.queue, st.call)
      /\ Moved(call, st.call, c, i, p)
  BY <1>1, <1>2, <1>4, <1>5, AdvanceSound DEF Calm
<1> QED
  BY <1>1, <1>3, <1>6, <1>7 DEF Calm

LEMMA ResolveKeeps ==
  ASSUME Calm(call, queue), NEW c \in Calls, NEW i, NEW what \in Outside \ {"report"},
         Waits(c, i, what), NEW push, Plain(push), Resolve(c, i, push)
  PROVE  /\ Calm(call', queue')
         /\ \A v, a : Verification(call, v, a) => Verification(call', v, a)
<1>1. /\ i \in DOMAIN call[c].par /\ call[c].par[i] # <<>>
      /\ Head(call[c].par[i])[1] = what
      /\ Calm(call', queue')
      /\ Moved(call, call', c, i, push \o Tail(call[c].par[i]))
  BY ResolveMoves DEF Plain
<1>2. what \notin Marks
  BY DEF Outside, Marks
<1> QED
  BY <1>1, <1>2, MovedKeeps

LEMMA GoesKeeps ==
  ASSUME Calm(call, queue), NEW c \in Calls, NEW i, NEW what \in Outside \ {"report"},
         Waits(c, i, what), NEW blocks, PlainBlocks(blocks), Goes(c, i, blocks)
  PROVE  /\ Calm(call', queue')
         /\ \A v, a : Verification(call, v, a) => Verification(call', v, a)
<1>1. /\ i \in DOMAIN call[c].par /\ call[c].par[i] # <<>>
      /\ Head(call[c].par[i])[1] = what
  BY DEF Waits
<1>2. PICK w, f : /\ w = [par |-> call[c].par, next |-> blocks]
                  /\ f = [call EXCEPT ![c] = w]
  OBVIOUS
<1>3. CallSound(call[c]) /\ DOMAIN call = Calls
  BY DEF Calm, Sound
<1>4. f = [call EXCEPT ![c].next = blocks]
  <2>1. [call[c] EXCEPT !.next = blocks] = w
    BY <1>2, <1>3 DEF CallSound
  <2> QED
    BY <1>2, <2>1
<1>5. w.par = call[c].par /\ w.next = blocks
  BY <1>2
<1>6. DOMAIN f = Calls /\ f[c] = w /\ \A d \in Calls : d # c => f[d] = call[d]
  BY <1>2, <1>3
<1>7. \A d \in Calls : f[d].par = call[d].par
  BY <1>5, <1>6
<1>8. Sound(f)
  <2>1. CallSound(w)
    BY <1>2, <1>3, <1>5 DEF CallSound
  <2> QED
    BY <1>6, <2>1 DEF Calm, Sound
<1>9. Queued(queue, f)
  <2>1. ASSUME NEW k \in DOMAIN queue
        PROVE  queue[k][2] \subseteq Asking(f[queue[k][1]].par)
    BY <1>7 DEF Calm, Queued
  <2> QED
    BY <2>1, StillQueued DEF Calm
<1>10. Unasked(queue, c, i)
  BY <1>1 DEF Calm, Queued, Unasked, Asking, Asks
<1>11. PICK p : p = Tail(call[c].par[i])
  OBVIOUS
<1>12. IsProgram(p) /\ <<>> \o p = p
  <2>1. IsProgram(call[c].par[i])
    BY <1>1 DEF Calm, Sound, CallSound
  <2>2. IsProgram(p)
    BY <1>1, <1>11, <2>1, TailProgram
  <2> QED
    BY <2>2, ConcatEmptySeq DEF IsProgram
<1>13. PICK st : st = Advance([call |-> f, queue |-> queue], c, i, p)
  OBVIOUS
<1>14. call' = st.call /\ queue' = st.queue
  <2>1. [Now EXCEPT !.call[c].next = blocks] = [call |-> f, queue |-> queue]
    BY <1>4 DEF Now
  <2> QED
    BY <1>11, <1>13, <2>1 DEF Goes, Become
<1>15. Sound(st.call) /\ Queued(st.queue, st.call) /\ Moved(f, st.call, c, i, p)
  <2>1. i \in DOMAIN f[c].par
    BY <1>1, <1>7
  <2> QED
    BY <1>8, <1>9, <1>10, <1>12, <1>13, <2>1, AdvanceSound
<1>16. ASSUME NEW v, NEW a, Verification(call, v, a) PROVE Verification(call', v, a)
  <2>1. Verification(f, v, a)
    BY <1>7, <1>16 DEF Verification, AllPlain, Alone, Others
  <2>2. /\ i \in DOMAIN f[c].par /\ f[c].par[i] # <<>>
        /\ Head(f[c].par[i])[1] \notin Marks /\ p = Tail(f[c].par[i])
    BY <1>1, <1>7, <1>11 DEF Outside, Marks
  <2>3. Moved(f, st.call, c, i, <<>> \o Tail(f[c].par[i]))
    BY <1>12, <1>15, <2>2
  <2> QED
    BY <1>14, <2>1, <2>2, <2>3, MovedKeeps, PlainNone
<1> QED
  BY <1>14, <1>15, <1>16 DEF Calm

(* A new call.                                                             *)
LEMMA BeginNew ==
  ASSUME Calm(call, queue), NEW c \in FreeCalls, NEW blocks, PlainBlocks(blocks)
  PROVE  /\ Began(call, queue, c, Begun(blocks), Begin(Now, c, blocks))
         /\ \A v, a : Verification(call, v, a)
                        => Verification(Begin(Now, c, blocks).call, v, a)
<1>1. c \in Calls /\ Idle(call, c)
  BY DEF FreeCalls, Free, Idle
<1>2. \A k \in DOMAIN queue : queue[k][1] # c
  BY <1>1, IdleUnqueued DEF Calm
<1>3. /\ Began(call, queue, c, Begun(blocks), Begin(Now, c, blocks))
      /\ \A i \in DOMAIN Begun(blocks).par : Plain(Begun(blocks).par[i])
  BY <1>1, <1>2, BeginSound DEF Calm, Now
<1> QED
  BY <1>1, <1>3, BeganKeeps

LEMMA LaunchKeeps ==
  ASSUME Calm(call, queue), NEW blocks, PlainBlocks(blocks), Launch(blocks)
  PROVE  /\ Calm(call', queue')
         /\ \A v, a : Verification(call, v, a) => Verification(call', v, a)
<1>1. PICK c \in FreeCalls : Become(Begin(Now, c, blocks))
  BY DEF Launch, Least
<1>2. PICK st : st = Begin(Now, c, blocks)
  OBVIOUS
<1>3. call' = st.call /\ queue' = st.queue
  BY <1>1, <1>2 DEF Become
<1>4. /\ Began(call, queue, c, Begun(blocks), st)
      /\ \A v, a : Verification(call, v, a) => Verification(st.call, v, a)
  BY <1>2, BeginNew
<1> QED
  BY <1>3, <1>4 DEF Began, Calm

-----------------------------------------------------------------------------
(* Blocks.                                                                 *)

LEMMA SingleBlock ==
  ASSUME NEW p, Plain(p) PROVE IsProgram(<<p>>) /\ PlainBlock(<<p>>)
<1>1. <<p>> \in Seq({p}) /\ DOMAIN <<p>> = {1} /\ <<p>>[1] = p
  OBVIOUS
<1>2. IsProgram(<<p>>)
  BY <1>1, ProgramIn
<1>3. PlainBlock(<<p>>)
  BY <1>1 DEF PlainBlock
<1> QED
  BY <1>2, <1>3

LEMMA JoinedBlocks ==
  ASSUME NEW a, NEW b, IsProgram(a), IsProgram(b), PlainBlock(a), PlainBlock(b)
  PROVE  IsProgram(a \o b) /\ PlainBlock(a \o b)
<1>1. PICK r : r = a \o b
  OBVIOUS
<1>2. /\ IsProgram(r) /\ DOMAIN a = 1 .. Len(a) /\ DOMAIN b = 1 .. Len(b)
      /\ Len(a) \in Nat /\ Len(b) \in Nat
      /\ DOMAIN r = 1 .. Len(a) + Len(b)
      /\ \A i \in 1 .. Len(a) + Len(b) :
           r[i] = IF i <= Len(a) THEN a[i] ELSE b[i - Len(a)]
  BY <1>1, JoinedPrograms
<1>3. ASSUME NEW i \in DOMAIN r PROVE Plain(r[i])
  <2>1. CASE i <= Len(a)
    BY <1>2, <2>1 DEF PlainBlock
  <2>2. CASE ~(i <= Len(a))
    <3>1. i - Len(a) \in DOMAIN b /\ r[i] = b[i - Len(a)]
      BY <1>2, <2>2
    <3> QED
      BY <3>1 DEF PlainBlock
  <2> QED
    BY <2>1, <2>2
<1> QED
  BY <1>1, <1>2, <1>3 DEF PlainBlock

LEMMA DoubleBlock ==
  ASSUME NEW p, NEW q, Plain(p), Plain(q)
  PROVE  IsProgram(<<p, q>>) /\ PlainBlock(<<p, q>>)
<1>1. /\ <<p, q>> \in Seq({p, q}) /\ DOMAIN <<p, q>> = {1, 2}
      /\ <<p, q>>[1] = p /\ <<p, q>>[2] = q
  OBVIOUS
<1>2. IsProgram(<<p, q>>)
  BY <1>1, ProgramIn
<1>3. PlainBlock(<<p, q>>)
  BY <1>1 DEF PlainBlock
<1> QED
  BY <1>2, <1>3

LEMMA FourfoldBlock ==
  ASSUME NEW p, NEW q, NEW r, NEW s, Plain(p), Plain(q), Plain(r), Plain(s)
  PROVE  IsProgram(<<p, q, r, s>>) /\ PlainBlock(<<p, q, r, s>>)
<1>1. <<p, q, r, s>> = <<p, q>> \o <<r, s>>
  OBVIOUS
<1> QED
  BY <1>1, DoubleBlock, JoinedBlocks

LEMMA OneBlock == ASSUME NEW b, PlainBlock(b) PROVE PlainBlocks(<<b>>)
<1>1. <<b>> \in Seq({b}) /\ DOMAIN <<b>> = {1} /\ <<b>>[1] = b
  OBVIOUS
<1> QED
  BY <1>1, ProgramIn DEF PlainBlocks

LEMMA TwoBlocks ==
  ASSUME NEW a, NEW b, PlainBlock(a), PlainBlock(b) PROVE PlainBlocks(<<a, b>>)
<1>1. /\ <<a, b>> \in Seq({a, b}) /\ DOMAIN <<a, b>> = {1, 2}
      /\ <<a, b>>[1] = a /\ <<a, b>>[2] = b
  OBVIOUS
<1> QED
  BY <1>1, ProgramIn DEF PlainBlocks

LEMMA LaunchOne ==
  ASSUME Calm(call, queue), NEW p, Plain(p), Launch(<< <<p>> >>)
  PROVE  /\ Calm(call', queue')
         /\ \A v, a : Verification(call, v, a) => Verification(call', v, a)
<1>1. PlainBlocks(<< <<p>> >>)
  BY SingleBlock, OneBlock
<1> QED
  BY <1>1, LaunchKeeps

LEMMA PersistPlain == ASSUME NEW s, NEW n PROVE PlainBlocks(Persist(s, n))
<1>1. PlainBlock(<<GetThreadRecord>>)
  BY SingleBlock, PlainStatements
<1>2. PlainBlock(Registration(s, n))
  <2>1. /\ Plain(RegisterSession(s)) /\ Plain(UpdateNode(n, "running"))
        /\ Plain(CreateClaim(s)) /\ Plain(AppendEvent)
    BY PlainSession, PlainNode, PlainStatements
  <2> QED
    BY <2>1, FourfoldBlock DEF Registration
<1> QED
  BY <1>1, <1>2, TwoBlocks DEF Persist

LEMMA VerdictPlain ==
  ASSUME NEW s
  PROVE  /\ PlainBlocks(Completed(s))
         /\ \A verdict : PlainBlocks(Unproved(s, verdict))
<1>1. PICK n : n = nodeOf[s]
  OBVIOUS
<1>2. ASSUME NEW st
      PROVE  /\ IsProgram(IF Repo THEN << UpdateJob(s, st), RecordEvidence(n) >> ELSE <<>>)
             /\ PlainBlock(IF Repo THEN << UpdateJob(s, st), RecordEvidence(n) >> ELSE <<>>)
  <2>1. IsProgram(<<>>) /\ PlainBlock(<<>>)
    BY PlainNone DEF Plain, PlainBlock
  <2>2. /\ IsProgram(<< UpdateJob(s, st), RecordEvidence(n) >>)
        /\ PlainBlock(<< UpdateJob(s, st), RecordEvidence(n) >>)
    BY PlainJob, PlainNode, DoubleBlock
  <2> QED
    BY <2>1, <2>2
<1>3. Plain(SyncLater(s)) /\ Plain(UpdateSummary) /\ Plain(AppendEvent) /\ Plain(CheckLater)
  BY PlainSession, PlainThread, PlainStatements
<1>4. PlainBlocks(Completed(s))
  <2>1. /\ IsProgram(<<SyncLater(s), UpdateSummary, AppendEvent, AppendEvent>>)
        /\ PlainBlock(<<SyncLater(s), UpdateSummary, AppendEvent, AppendEvent>>)
    BY <1>3, FourfoldBlock
  <2>2. PlainBlock(<<CheckLater>>)
    BY <1>3, SingleBlock
  <2>3. PlainBlock(<<SyncLater(s), UpdateSummary, AppendEvent, AppendEvent>>
                   \o (IF Repo THEN << UpdateJob(s, "passed"), RecordEvidence(n) >>
                       ELSE <<>>))
    BY <1>2, <2>1, JoinedBlocks
  <2> QED
    BY <1>1, <2>2, <2>3, TwoBlocks DEF Completed
<1>5. ASSUME NEW verdict PROVE PlainBlocks(Unproved(s, verdict))
  <2>1. /\ IsProgram(<<SyncLater(s), AppendEvent>>)
        /\ PlainBlock(<<SyncLater(s), AppendEvent>>)
    BY <1>3, DoubleBlock
  <2>2. PlainBlock(<<One("followUp", s, verdict)>>)
    BY SingleBlock, PlainOne DEF Marks
  <2>3. PlainBlock(<<SyncLater(s), AppendEvent>>
                   \o (IF Repo THEN << UpdateJob(s, "failed"), RecordEvidence(n) >>
                       ELSE <<>>))
    BY <1>2, <2>1, JoinedBlocks
  <2> QED
    BY <1>1, <2>2, <2>3, TwoBlocks DEF Unproved
<1> QED
  BY <1>4, <1>5

-----------------------------------------------------------------------------
(* The steps.                                                              *)

(* A step that is not about the acceptance.                                *)
Quiet ==
  /\ Calm(call', queue')
  /\ \A v, a : Verification(call, v, a) => Verification(call', v, a)
  /\ verifying' = verifying /\ tasks' \subseteq Sessions
  /\ db'.acceptance = db.acceptance /\ "acceptance" \in DOMAIN db'

(* The acceptance of a thread takes one step, and is held while it runs.   *)
Proceeds ==
  /\ db'.acceptance # db.acceptance =>
       <<db.acceptance, db'.acceptance>> \in
         {<<"none", "pending">>, <<"pending", "running">>,
          <<"running", "passed">>, <<"running", "failed">>}
  /\ (db.acceptance = "running" => verifying) =>
       \/ db'.acceptance = "running" => verifying'
       \/ phase' = "down"

LEMMA QuietKeeps == IInv /\ Quiet => IInv' /\ Proceeds
<1> SUFFICES ASSUME IInv, Quiet PROVE IInv' /\ Proceeds
  OBVIOUS
<1>1. PICK v, a : v = verifying /\ a = db.acceptance
  OBVIOUS
<1>2. Verification(call', v, a)
  BY <1>1 DEF IInv, Quiet
<1>3. verifying' = v /\ db'.acceptance = a
  BY <1>1 DEF Quiet
<1>4. Verification(call', verifying', db'.acceptance)
  BY <1>2, <1>3
<1> QED
  BY <1>4 DEF IInv, Quiet, Proceeds

LEMMA ReadsQuiet ==
  ASSUME IInv, queue # <<>>, Statement[1] \notin Marks, NEW push, Plain(push), Reads(push)
  PROVE  Quiet
<1>1. UNCHANGED <<verifying, tasks, db>> /\ Answer(push)
  BY DEF Reads, memory
<1> QED
  BY <1>1, AnswerKeeps DEF IInv, Quiet

LEMMA WritesQuiet ==
  ASSUME IInv, queue # <<>>, Statement[1] \notin Marks,
         NEW rows, rows.acceptance = db.acceptance, "acceptance" \in DOMAIN rows,
         Writes(rows)
  PROVE  Quiet
<1>1. UNCHANGED <<verifying, tasks>> /\ db' = rows /\ Answer(<<>>)
  BY DEF Writes, memory
<1> QED
  BY <1>1, AnswerKeeps, PlainNone DEF IInv, Quiet

(* The sessions' rows.                                                     *)
LEMMA SessionStatements ==
  ASSUME IInv, ServeOther \/ FindRow \/ SetRow \/ ReadRows \/ ThreadControl
               \/ FindInterrupted \/ InterruptRows \/ Started
  PROVE  Quiet
<1>1. CASE ServeOther
  <2>1. queue # <<>> /\ Statement[1] \notin Marks /\ Reads(<<>>)
    BY <1>1 DEF ServeOther, Serving, Marks
  <2> QED
    BY <2>1, ReadsQuiet, PlainNone
<1>2. CASE FindRow
  <2>1. PICK push : /\ Reads(push)
                    /\ push = (IF db.row[Row] = "none" THEN <<>>
                               ELSE GetSession \o One("setRow", Row, Value) \o AppendEvent
                                    \o RecomputeThread)
    BY <1>2 DEF FindRow
  <2>2. PICK s, st : s = Row /\ st = Value
    OBVIOUS
  <2>3. Plain(One("setRow", s, st))
    BY PlainOne DEF Marks
  <2>4. Plain(GetSession \o One("setRow", s, st))
    BY <2>3, PlainStatements, PlainJoined
  <2>5. Plain(GetSession \o One("setRow", s, st) \o AppendEvent)
    BY <2>4, PlainStatements, PlainJoined
  <2>6. Plain(GetSession \o One("setRow", s, st) \o AppendEvent \o RecomputeThread)
    BY <2>5, PlainStatements, PlainJoined
  <2>7. Plain(push)
    BY <2>1, <2>2, <2>6, PlainNone
  <2>8. queue # <<>> /\ Statement[1] \notin Marks
    BY <1>2 DEF FindRow, Serving, Marks
  <2> QED
    BY <2>1, <2>7, <2>8, ReadsQuiet
<1>3. CASE SetRow
  <2>1. PICK s, st : s = Row /\ st = Value
    OBVIOUS
  <2>2. PICK rows : rows = [db EXCEPT !.row[s] = st]
    OBVIOUS
  <2>3. rows.acceptance = db.acceptance /\ "acceptance" \in DOMAIN rows
    BY <2>2 DEF IInv
  <2>4. queue # <<>> /\ Statement[1] \notin Marks /\ Writes(rows)
    BY <1>3, <2>1, <2>2 DEF SetRow, Serving, Marks
  <2> QED
    BY <2>3, <2>4, WritesQuiet
<1>4. CASE ReadRows
  <2>1. PICK st : st = ThreadStatus(db.row, Value)
    OBVIOUS
  <2>2. queue # <<>> /\ Statement[1] \notin Marks /\ Reads(One("setStatus", None, st))
    BY <1>4, <2>1 DEF ReadRows, Serving, Marks
  <2>3. Plain(One("setStatus", None, st))
    BY PlainOne DEF Marks
  <2> QED
    BY <2>2, <2>3, ReadsQuiet
<1>5. CASE ThreadControl
  <2>1. PICK st : st = db.thread.control
    OBVIOUS
  <2>2. PICK push : /\ Reads(push)
                    /\ push \in {<<>>, One("readRows", None, st)}
    BY <1>5, <2>1 DEF ThreadControl
  <2>3. queue # <<>> /\ Statement[1] \notin Marks
    BY <1>5 DEF ThreadControl, Serving, Marks
  <2>4. Plain(One("readRows", None, st))
    BY PlainOne DEF Marks
  <2> QED
    BY <2>2, <2>3, <2>4, ReadsQuiet, PlainNone
<1>6. CASE FindInterrupted
  <2>1. PICK push, n :
          /\ Reads(push)
          /\ push = (IF n = 0 THEN <<>>
                     ELSE One("interruptRows", None, None) \o Other \o RecomputeThread)
                    \o One("started", None, None)
    BY <1>6 DEF FindInterrupted
  <2>2. Plain(One("interruptRows", None, None)) /\ Plain(One("started", None, None))
    BY PlainOne DEF Marks
  <2>3. Plain(One("interruptRows", None, None) \o Other)
    BY <2>2, PlainStatements, PlainJoined
  <2>4. Plain(One("interruptRows", None, None) \o Other \o RecomputeThread)
    BY <2>3, PlainStatements, PlainJoined
  <2>5. Plain(push)
    BY <2>1, <2>2, <2>4, PlainNone, PlainJoined
  <2>6. queue # <<>> /\ Statement[1] \notin Marks
    BY <1>6 DEF FindInterrupted, Serving, Marks
  <2> QED
    BY <2>1, <2>5, <2>6, ReadsQuiet
<1>7. CASE InterruptRows
  <2>1. PICK t : t = [s \in Sessions |->
                        IF db.row[s] \in Live THEN "interrupted" ELSE db.row[s]]
    OBVIOUS
  <2>2. PICK rows : rows = [db EXCEPT !.row = t]
    OBVIOUS
  <2>3. rows.acceptance = db.acceptance /\ "acceptance" \in DOMAIN rows
    BY <2>2 DEF IInv
  <2>4. queue # <<>> /\ Statement[1] \notin Marks /\ Writes(rows)
    BY <1>7, <2>1, <2>2 DEF InterruptRows, Serving, Marks
  <2> QED
    BY <2>3, <2>4, WritesQuiet
<1>8. CASE Started
  <2>1. /\ queue # <<>> /\ Statement[1] \notin Marks /\ Answer(<<>>)
        /\ UNCHANGED <<verifying, tasks, db>>
    BY <1>8 DEF Started, Serving, Marks, memory
  <2> QED
    BY <2>1, AnswerKeeps, PlainNone DEF IInv, Quiet
<1> QED
  BY <1>1, <1>2, <1>3, <1>4, <1>5, <1>6, <1>7, <1>8

(* The thread.                                                             *)
LEMMA ThreadStatements ==
  ASSUME IInv, AddThread \/ ReadThread \/ SetThread \/ ArchiveThread \/ ReopenThread
               \/ SetThreadStatus
  PROVE  Quiet
<1>1. ASSUME AddThread \/ SetThread \/ ArchiveThread \/ ReopenThread \/ SetThreadStatus
      PROVE  Quiet
  <2>1. \E t : Writes([db EXCEPT !.thread = t])
    <3>1. CASE AddThread
      <4>1. PICK t : t = [db.thread EXCEPT !.status = "open"]
        OBVIOUS
      <4>2. Writes([db EXCEPT !.thread = t])
        BY <3>1, <4>1 DEF AddThread
      <4> QED
        BY <4>2
    <3>2. CASE SetThread
      BY <3>2 DEF SetThread
    <3>3. CASE ArchiveThread
      <4>1. PICK t : t = [db.thread EXCEPT !.status = "archived", !.archived = TRUE]
        OBVIOUS
      <4>2. [db EXCEPT !.thread = t]
              = [db EXCEPT !.thread.status = "archived", !.thread.archived = TRUE]
        BY <4>1
      <4>3. Writes([db EXCEPT !.thread = t])
        BY <3>3, <4>2 DEF ArchiveThread
      <4> QED
        BY <4>3
    <3>4. CASE ReopenThread
      <4>1. PICK t : t = [db.thread EXCEPT !.status = "open", !.archived = FALSE]
        OBVIOUS
      <4>2. [db EXCEPT !.thread = t]
              = [db EXCEPT !.thread.status = "open", !.thread.archived = FALSE]
        BY <4>1
      <4>3. Writes([db EXCEPT !.thread = t])
        BY <3>4, <4>2 DEF ReopenThread
      <4> QED
        BY <4>3
    <3>5. CASE SetThreadStatus
      <4>1. PICK t : t = [db.thread EXCEPT !.status = Value]
        OBVIOUS
      <4>2. Writes([db EXCEPT !.thread = t])
        BY <3>5, <4>1 DEF SetThreadStatus
      <4> QED
        BY <4>2
    <3> QED
      BY <1>1, <3>1, <3>2, <3>3, <3>4, <3>5
  <2>2. PICK t : Writes([db EXCEPT !.thread = t])
    BY <2>1
  <2>3. PICK rows : rows = [db EXCEPT !.thread = t]
    OBVIOUS
  <2>4. rows.acceptance = db.acceptance /\ "acceptance" \in DOMAIN rows
    BY <2>3 DEF IInv
  <2>5. queue # <<>> /\ Statement[1] \notin Marks
    BY <1>1 DEF AddThread, SetThread, ArchiveThread, ReopenThread, SetThreadStatus,
                Serving, Marks
  <2> QED
    BY <2>2, <2>3, <2>4, <2>5, WritesQuiet
<1>2. CASE ReadThread
  <2>1. PICK t : Reads(One("setThread", None, t))
    BY <1>2 DEF ReadThread
  <2>2. Plain(One("setThread", None, t))
    BY PlainOne DEF Marks
  <2>3. queue # <<>> /\ Statement[1] \notin Marks
    BY <1>2 DEF ReadThread, Serving, Marks
  <2> QED
    BY <2>1, <2>2, <2>3, ReadsQuiet
<1> QED
  BY <1>1, <1>2

(* The graph of nodes.                                                     *)
LEMMA GraphStatements ==
  ASSUME IInv, FindNode \/ SetNode \/ AddDependency \/ ReadGraph
  PROVE  Quiet
<1>1. CASE FindNode
  <2>1. PICK n, st : n = Row /\ st = (IF Value = "keep" THEN db.node[Row] ELSE Value)
    OBVIOUS
  <2>2. PICK push : /\ Reads(push)
                    /\ push \in {<<>>, One("setNode", n, st) \o AppendEvent
                                         \o RecomputeGraph}
    BY <1>1, <2>1 DEF FindNode
  <2>3. Plain(One("setNode", n, st) \o AppendEvent)
    BY PlainNode, PlainStatements, PlainJoined
  <2>4. Plain(push)
    BY <2>2, <2>3, PlainNone, PlainStatements, PlainJoined
  <2>5. queue # <<>> /\ Statement[1] \notin Marks
    BY <1>1 DEF FindNode, Serving, Marks
  <2> QED
    BY <2>2, <2>4, <2>5, ReadsQuiet
<1>2. CASE SetNode
  <2>1. PICK rows : rows = [db EXCEPT !.node[Row] = Value]
    OBVIOUS
  <2>2. rows.acceptance = db.acceptance /\ "acceptance" \in DOMAIN rows
    BY <2>1 DEF IInv
  <2>3. queue # <<>> /\ Statement[1] \notin Marks /\ Writes(rows)
    BY <1>2, <2>1 DEF SetNode, Serving, Marks
  <2> QED
    BY <2>2, <2>3, WritesQuiet
<1>3. CASE AddDependency
  <2>1. PICK deps : deps = db.deps \cup {Row}
    OBVIOUS
  <2>2. PICK rows : rows = [db EXCEPT !.deps = deps]
    OBVIOUS
  <2>3. rows.acceptance = db.acceptance /\ "acceptance" \in DOMAIN rows
    BY <2>2 DEF IInv
  <2>4. queue # <<>> /\ Statement[1] \notin Marks /\ Writes(rows)
    BY <1>3, <2>1, <2>2 DEF AddDependency, Serving, Marks
  <2> QED
    BY <2>3, <2>4, WritesQuiet
<1>4. CASE ReadGraph
  <2>1. PICK N, x : Reads(Later("setNodes", N, x))
    BY <1>4 DEF ReadGraph
  <2>2. queue # <<>> /\ Statement[1] \notin Marks
    BY <1>4 DEF ReadGraph, Serving, Marks
  <2> QED
    BY <2>1, <2>2, PlainLater, ReadsQuiet
<1> QED
  BY <1>1, <1>2, <1>3, <1>4

(* Claims, completion jobs and evidence.                                   *)
LEMMA ClaimStatements ==
  ASSUME IInv, AddClaim \/ FindClaim \/ EndClaim \/ SetJob \/ AddEvidence
  PROVE  Quiet
<1>1. CASE AddClaim
  <2>1. PICK claims, claimed :
          Writes([db EXCEPT !.claims = claims, !.claimed = claimed])
    <3>1. PICK claims : claims = [db.claims EXCEPT ![Row] = @ \cup {db.claimed + 1}]
      OBVIOUS
    <3>2. PICK claimed : claimed = db.claimed + 1
      OBVIOUS
    <3>3. [db EXCEPT !.claims = claims, !.claimed = claimed]
            = [db EXCEPT !.claims[Row] = @ \cup {db.claimed + 1}, !.claimed = @ + 1]
      BY <3>1, <3>2
    <3> QED
      BY <1>1, <3>3 DEF AddClaim
  <2>2. PICK rows : rows = [db EXCEPT !.claims = claims, !.claimed = claimed]
    OBVIOUS
  <2>3. rows.acceptance = db.acceptance /\ "acceptance" \in DOMAIN rows
    BY <2>2 DEF IInv
  <2>4. queue # <<>> /\ Statement[1] \notin Marks /\ Writes(rows)
    BY <1>1, <2>1, <2>2 DEF AddClaim, Serving, Marks
  <2> QED
    BY <2>3, <2>4, WritesQuiet
<1>2. CASE FindClaim
  <2>1. PICK s, n : s = Row /\ n = Max(db.claims[Row])
    OBVIOUS
  <2>2. PICK push : /\ Reads(push)
                    /\ push \in {Other \o One("endClaim", s, n), CreateClaim(s), <<>>}
    BY <1>2, <2>1 DEF FindClaim
  <2>3. Plain(One("endClaim", s, n))
    BY PlainOne DEF Marks
  <2>4. Plain(push)
    BY <2>2, <2>3, PlainNone, PlainStatements, PlainSession, PlainJoined
  <2>5. queue # <<>> /\ Statement[1] \notin Marks
    BY <1>2 DEF FindClaim, Serving, Marks
  <2> QED
    BY <2>2, <2>4, <2>5, ReadsQuiet
<1>3. CASE EndClaim
  <2>1. PICK claims : claims = [db.claims EXCEPT ![Row] = @ \ {Value}]
    OBVIOUS
  <2>2. PICK rows : rows = [db EXCEPT !.claims = claims]
    OBVIOUS
  <2>3. rows = [db EXCEPT !.claims[Row] = @ \ {Value}]
    BY <2>1, <2>2
  <2>4. rows.acceptance = db.acceptance /\ "acceptance" \in DOMAIN rows
    BY <2>2 DEF IInv
  <2>5. queue # <<>> /\ Statement[1] \notin Marks /\ Writes(rows)
    BY <1>3, <2>3 DEF EndClaim, Serving, Marks
  <2> QED
    BY <2>4, <2>5, WritesQuiet
<1>4. CASE SetJob
  <2>1. PICK rows : rows = [db EXCEPT !.completion[Row] = Value]
    OBVIOUS
  <2>2. rows.acceptance = db.acceptance /\ "acceptance" \in DOMAIN rows
    BY <2>1 DEF IInv
  <2>3. queue # <<>> /\ Statement[1] \notin Marks /\ Writes(rows)
    BY <1>4, <2>1 DEF SetJob, Serving, Marks
  <2> QED
    BY <2>2, <2>3, WritesQuiet
<1>5. CASE AddEvidence
  <2>1. PICK proven : proven = db.proven \cup {Row}
    OBVIOUS
  <2>2. PICK rows : rows = [db EXCEPT !.proven = proven]
    OBVIOUS
  <2>3. rows.acceptance = db.acceptance /\ "acceptance" \in DOMAIN rows
    BY <2>2 DEF IInv
  <2>4. queue # <<>> /\ Statement[1] \notin Marks /\ Writes(rows)
    BY <1>5, <2>1, <2>2 DEF AddEvidence, Serving, Marks
  <2> QED
    BY <2>3, <2>4, WritesQuiet
<1> QED
  BY <1>1, <1>2, <1>3, <1>4, <1>5

(* Statements that begin or end something of the coordinator's.            *)
LEMMA PausedPlain ==
  /\ Plain(Resumed) /\ \A control : Plain(Paused(control))
  BY PlainThread, PlainStatements, PlainJoined DEF Resumed, Paused

(* What follows in stopLiveThreadSessions.                                 *)
LEMMA HaltingPlain ==
  ASSUME NEW s, NEW ids, NEW control
  PROVE  Plain((IF s \in tasks THEN SyncLater(s) ELSE <<>>) \o One("halting", ids, control))
<1>1. Plain(One("halting", ids, control))
  BY PlainOne DEF Marks
<1>2. Plain(IF s \in tasks THEN SyncLater(s) ELSE <<>>)
  BY PlainNone, PlainSession
<1> QED
  BY <1>1, <1>2, PlainJoined

LEMMA CoordinatorStatements ==
  ASSUME IInv, FinishCheck \/ FindLive \/ FindResumable
  PROVE  Quiet
<1>1. CASE FinishCheck
  <2>1. /\ queue # <<>> /\ Statement[1] \notin Marks /\ Answer(<<>>)
        /\ UNCHANGED <<verifying, tasks, db>>
    BY <1>1 DEF FinishCheck, Serving, Marks
  <2> QED
    BY <2>1, AnswerKeeps, PlainNone DEF IInv, Quiet
<1>2. CASE FindLive
  <2>1. /\ queue # <<>> /\ Statement[1] \notin Marks
        /\ UNCHANGED <<verifying, tasks, db>>
    BY <1>2 DEF FindLive, Serving, Marks, InMemory
  <2>2. \/ \E control : Answer(Paused(control))
        \/ \E s, ids, control : Answer((IF s \in tasks THEN SyncLater(s) ELSE <<>>)
                                       \o One("halting", ids, control))
    BY <1>2 DEF FindLive, StopLive
  <2>3. PICK push : Plain(push) /\ Answer(push)
    BY <2>2, PausedPlain, HaltingPlain
  <2> QED
    BY <2>1, <2>3, AnswerKeeps DEF IInv, Quiet
<1>3. CASE FindResumable
  <2>1. /\ queue # <<>> /\ Statement[1] \notin Marks
        /\ UNCHANGED <<verifying, tasks, db>>
    BY <1>3 DEF FindResumable, Serving, Marks, memory
  <2>2. PICK s, push :
          Answer(push) /\ push \in {One("prompted", s, None), <<>>, One("respawn", None, None)}
    BY <1>3 DEF FindResumable
  <2>3. Plain(push)
    BY <2>2, PlainNone, PlainOne DEF Marks
  <2> QED
    BY <2>1, <2>2, <2>3, AnswerKeeps DEF IInv, Quiet
<1> QED
  BY <1>1, <1>2, <1>3

(* The statements on the acceptance.                                       *)
LEMMA ReadyVerifiersKeeps == IInv /\ ReadyVerifiers => IInv' /\ Proceeds
<1> SUFFICES ASSUME IInv, ReadyVerifiers PROVE IInv' /\ Proceeds
  OBVIOUS
<1>1. PICK T : T = Row
  OBVIOUS
<1>2. /\ queue # <<>> /\ Statement[1] = "readyVerifiers" /\ UNCHANGED <<tasks, db>>
  BY DEF ReadyVerifiers, Serving
<1>3. Statement[1] \notin Marks
  BY <1>2 DEF Marks
<1>4. CASE AcceptanceReady /\ ~verifying
  <2>1. verifying' = TRUE /\ Answer(GetVerifierJob \o One("begin", T, None))
    BY <1>1, <1>4 DEF ReadyVerifiers
  <2>2. Marked(GetVerifierJob \o One("begin", T, None), "begin")
    BY MarkedOne, PlainStatements, MarkedJoined
  <2>3. db.acceptance = "pending"
    BY <1>4 DEF AcceptanceReady
  <2>4. AllPlain(call)
    BY <1>4, <2>3 DEF IInv, Verification, Fits
  <2>5. PICK c, i : c = Turn[1] /\ i = Turn[2]
    OBVIOUS
  <2>6. c \in Calls /\ i \in DOMAIN call[c].par /\ call[c].par[i] # <<>>
    BY <1>2, <2>5, TurnSound DEF IInv, Calm
  <2>7. /\ Calm(call', queue')
        /\ Moved(call, call', c, i,
                 GetVerifierJob \o One("begin", T, None) \o Tail(call[c].par[i]))
    BY <1>2, <2>1, <2>2, <2>5, AnswerMoves DEF Marked, Rest, IInv
  <2>8. Others(call, c, i) /\ Plain(Tail(call[c].par[i]))
    BY <2>4, <2>6, PlainTail DEF AllPlain, Others
  <2>9. Marked(GetVerifierJob \o One("begin", T, None) \o Tail(call[c].par[i]), "begin")
    BY <2>2, <2>8, MarkedJoined
  <2>10. "begin" \in Marks
    BY DEF Marks
  <2>11. Alone(call', "begin")
    BY <2>6, <2>7, <2>8, <2>9, <2>10, MovedMarked
  <2>12. Verification(call', verifying', db'.acceptance)
    BY <1>2, <2>1, <2>3, <2>10, <2>11 DEF Verification, Fits
  <2> QED
    BY <1>2, <2>1, <2>7, <2>12 DEF IInv, Proceeds
<1>5. CASE ~(AcceptanceReady /\ ~verifying)
  <2>1. verifying' = verifying /\ Answer(Verdict(T))
    BY <1>1, <1>5 DEF ReadyVerifiers, IInv
  <2>2. Quiet
    BY <1>2, <1>3, <2>1, PlainChecks, AnswerKeeps DEF IInv, Quiet
  <2> QED
    BY <2>2, QuietKeeps
<1> QED
  BY <1>4, <1>5

LEMMA ServeExpectKeeps == IInv /\ ServeExpect => IInv' /\ Proceeds
<1> SUFFICES ASSUME IInv, ServeExpect PROVE IInv' /\ Proceeds
  OBVIOUS
<1>1. /\ queue # <<>> /\ Statement[1] = "expect" /\ Answer(<<>>)
      /\ UNCHANGED <<tasks, verifying>> /\ db' = [db EXCEPT !.acceptance = "pending"]
  BY DEF ServeExpect, Serving, Writes, memory
<1>2. "expect" \in Marks
  BY DEF Marks
<1>3. PICK v, a : v = verifying /\ a = db.acceptance
  OBVIOUS
<1>4. /\ Fits("expect", a) /\ (v <=> "expect" # "expect")
      /\ Calm(call', queue') /\ AllPlain(call')
  BY <1>1, <1>2, <1>3, AnswerMarked, PlainNone DEF IInv
<1>5. ~verifying /\ db.acceptance = "none"
  BY <1>3, <1>4 DEF Fits
<1>6. db'.acceptance = "pending" /\ "acceptance" \in DOMAIN db'
  BY <1>1 DEF IInv
<1> QED
  BY <1>1, <1>4, <1>5, <1>6 DEF IInv, Proceeds, Verification

LEMMA BeginRunKeeps == IInv /\ BeginRun => IInv' /\ Proceeds
<1> SUFFICES ASSUME IInv, BeginRun PROVE IInv' /\ Proceeds
  OBVIOUS
<1>1. PICK push, T : push = AppendEvent \o One("evaluate", T, None) /\ T = Row
  OBVIOUS
<1>2. /\ queue # <<>> /\ Statement[1] = "begin" /\ Answer(push)
      /\ UNCHANGED <<tasks, verifying>> /\ db' = [db EXCEPT !.acceptance = "running"]
  BY <1>1 DEF BeginRun, Serving, Accepts, memory
<1>3. "begin" \in Marks /\ "evaluate" \in Marks
  BY DEF Marks
<1>4. Marked(push, "evaluate")
  BY <1>1, MarkedOne, PlainStatements, MarkedJoined
<1>5. PICK v, a : v = verifying /\ a = db.acceptance
  OBVIOUS
<1>6. /\ Fits("begin", a) /\ (v <=> "begin" # "expect")
      /\ Calm(call', queue') /\ Alone(call', "evaluate")
  BY <1>2, <1>3, <1>4, <1>5, AnswerMarked DEF IInv
<1>7. verifying /\ db.acceptance = "pending"
  BY <1>5, <1>6 DEF Fits
<1>8. db'.acceptance = "running" /\ "acceptance" \in DOMAIN db'
  BY <1>2 DEF IInv
<1>9. Verification(call', verifying', db'.acceptance)
  BY <1>2, <1>3, <1>6, <1>7, <1>8 DEF Verification, Fits
<1> QED
  BY <1>2, <1>6, <1>7, <1>8, <1>9 DEF IInv, Proceeds

LEMMA EvaluateKeeps == IInv /\ Evaluate => IInv' /\ Proceeds
<1> SUFFICES ASSUME IInv, Evaluate PROVE IInv' /\ Proceeds
  OBVIOUS
<1>1. PICK push, T, x : push = One("report", T, x) /\ T = Row /\ x = PrerequisitesFail
  OBVIOUS
<1>2. /\ queue # <<>> /\ Statement[1] = "evaluate" /\ Answer(push)
      /\ UNCHANGED <<tasks, verifying, db>>
  BY <1>1 DEF Evaluate, Serving, Reads, memory
<1>3. "evaluate" \in Marks /\ "report" \in Marks
  BY DEF Marks
<1>4. Marked(push, "report")
  BY <1>1, MarkedOne
<1>5. PICK v, a : v = verifying /\ a = db.acceptance
  OBVIOUS
<1>6. /\ Fits("evaluate", a) /\ (v <=> "evaluate" # "expect")
      /\ Calm(call', queue') /\ Alone(call', "report")
  BY <1>2, <1>3, <1>4, <1>5, AnswerMarked DEF IInv
<1>7. verifying /\ db.acceptance = "running"
  BY <1>5, <1>6 DEF Fits
<1>8. Verification(call', verifying', db'.acceptance)
  BY <1>2, <1>3, <1>6, <1>7 DEF Verification, Fits
<1> QED
  BY <1>2, <1>6, <1>8 DEF IInv, Proceeds

LEMMA FinalizedPlain ==
  ASSUME NEW outcome PROVE Plain(Finalized(outcome))
<1>1. Plain(RecordArtifact \o RecordEvidence(Goal))
  BY PlainStatements, PlainNode, PlainJoined
<1>2. Plain(RecordArtifact \o RecordEvidence(Goal) \o AppendEvent)
  BY <1>1, PlainStatements, PlainJoined
<1>3. ASSUME NEW st
      PROVE  Plain(RecordArtifact \o RecordEvidence(Goal) \o AppendEvent
                   \o UpdateNode(Goal, st) \o GetThread)
  <2>1. Plain(RecordArtifact \o RecordEvidence(Goal) \o AppendEvent \o UpdateNode(Goal, st))
    BY <1>2, PlainNode, PlainJoined
  <2> QED
    BY <2>1, PlainStatements, PlainJoined
<1>4. Plain(AppendEvent \o UpdateNode(Goal, "failed"))
  BY PlainStatements, PlainNode, PlainJoined
<1> QED
  BY <1>3, <1>4 DEF Finalized

LEMMA DecideKeeps == IInv /\ Decide => IInv' /\ Proceeds
<1> SUFFICES ASSUME IInv, Decide PROVE IInv' /\ Proceeds
  OBVIOUS
<1>1. PICK push, T : push = Finalized(Value) \o One("release", T, None) /\ T = Row
  OBVIOUS
<1>2. /\ queue # <<>> /\ Statement[1] = "decide" /\ Answer(push)
      /\ UNCHANGED <<tasks, verifying>>
      /\ \/ db' = [db EXCEPT !.acceptance = "passed"]
         \/ db' = [db EXCEPT !.acceptance = "failed"]
  BY <1>1 DEF Decide, Serving, Accepts, memory
<1>3. "decide" \in Marks /\ "release" \in Marks
  BY DEF Marks
<1>4. Marked(push, "release")
  BY <1>1, MarkedOne, FinalizedPlain, MarkedJoined
<1>5. PICK v, a : v = verifying /\ a = db.acceptance
  OBVIOUS
<1>6. /\ Fits("decide", a) /\ (v <=> "decide" # "expect")
      /\ Calm(call', queue') /\ Alone(call', "release")
  BY <1>2, <1>3, <1>4, <1>5, AnswerMarked DEF IInv
<1>7. verifying /\ db.acceptance = "running"
  BY <1>5, <1>6 DEF Fits
<1>8. db'.acceptance \in {"passed", "failed"} /\ "acceptance" \in DOMAIN db'
  BY <1>2 DEF IInv
<1>9. Verification(call', verifying', db'.acceptance)
  BY <1>2, <1>3, <1>6, <1>7, <1>8 DEF Verification, Fits
<1> QED
  BY <1>2, <1>6, <1>7, <1>8, <1>9 DEF IInv, Proceeds

LEMMA ReleaseKeeps == IInv /\ Release => IInv' /\ Proceeds
<1> SUFFICES ASSUME IInv, Release PROVE IInv' /\ Proceeds
  OBVIOUS
<1>1. PICK push, T : push = Verdict(T) /\ T = Row
  OBVIOUS
<1>2. /\ queue # <<>> /\ Statement[1] = "release" /\ Answer(push)
      /\ verifying' = FALSE /\ UNCHANGED <<tasks, db>>
  BY <1>1 DEF Release, Serving
<1>3. "release" \in Marks
  BY DEF Marks
<1>4. PICK v, a : v = verifying /\ a = db.acceptance
  OBVIOUS
<1>5. Fits("release", a) /\ Calm(call', queue') /\ AllPlain(call')
  BY <1>1, <1>2, <1>3, <1>4, PlainChecks, AnswerMarked DEF IInv
<1>6. db.acceptance \in {"passed", "failed"}
  BY <1>4, <1>5 DEF Fits
<1> QED
  BY <1>2, <1>5, <1>6 DEF IInv, Proceeds, Verification

LEMMA ReportedKeeps ==
  ASSUME IInv, NEW c \in Calls, NEW i, Reported(c, i) PROVE IInv' /\ Proceeds
<1>1. PICK outcome \in {"pass", "fail", "throw"} :
        Resolve(c, i, GetVerifierJob \o One("decide", Subject(c, i), outcome))
  BY DEF Reported
<1>2. PICK T : T = Subject(c, i)
  OBVIOUS
<1>3. PICK push : push = GetVerifierJob \o One("decide", T, outcome)
  OBVIOUS
<1>4. Waits(c, i, "report") /\ Resolve(c, i, push) /\ UNCHANGED <<tasks, verifying, db>>
  BY <1>1, <1>2, <1>3 DEF Reported, memory
<1>5. /\ "report" \in Outside /\ "report" \in Marks /\ "decide" \in Marks
      /\ "report" # "expect" /\ "decide" # "expect"
  BY DEF Outside, Marks
<1>6. Marked(push, "decide")
  BY <1>3, MarkedOne, PlainStatements, MarkedJoined
<1>7. /\ i \in DOMAIN call[c].par /\ call[c].par[i] # <<>>
      /\ Head(call[c].par[i])[1] = "report"
      /\ Calm(call', queue')
      /\ Moved(call, call', c, i, push \o Tail(call[c].par[i]))
  BY <1>4, <1>5, <1>6, ResolveMoves DEF IInv, Marked
<1>8. PICK v, a : v = verifying /\ a = db.acceptance
  OBVIOUS
<1>9. Verification(call, v, a)
  BY <1>8 DEF IInv
<1>10. /\ Others(call, c, i) /\ Plain(Tail(call[c].par[i]))
       /\ Fits("report", a) /\ (v <=> "report" # "expect")
  BY <1>5, <1>7, <1>9, MarkedHead
<1>11. Marked(push \o Tail(call[c].par[i]), "decide")
  BY <1>6, <1>10, MarkedJoined
<1>12. Alone(call', "decide")
  BY <1>5, <1>7, <1>10, <1>11, MovedMarked
<1>13. verifying /\ db.acceptance = "running"
  BY <1>8, <1>10 DEF Fits
<1>14. Verification(call', verifying', db'.acceptance)
  BY <1>4, <1>5, <1>12, <1>13 DEF Verification, Fits
<1> QED
  BY <1>4, <1>7, <1>14 DEF IInv, Proceeds

(* The answers of the model, the validator and the PTY service.            *)
LEMMA VerdictsKeep ==
  ASSUME IInv, NEW c \in Calls, NEW i, Validated(c, i) \/ FollowedUp(c, i)
  PROVE  Quiet
<1>1. PICK s : s = Subject(c, i)
  OBVIOUS
<1>2. UNCHANGED <<verifying, tasks, db>>
  BY DEF Validated, FollowedUp, InMemory
<1>3. PICK what \in Outside \ {"report"} : Waits(c, i, what)
  BY DEF Validated, FollowedUp, Outside
<1>4. PICK blocks : PlainBlocks(blocks) /\ Goes(c, i, blocks)
  <2>1. CASE Validated(c, i)
    <3>1. PICK verdict :
            Goes(c, i, IF verdict = "pass" THEN Completed(s) ELSE Unproved(s, verdict))
      BY <1>1, <2>1 DEF Validated
    <3> QED
      BY <3>1, VerdictPlain
  <2>2. CASE FollowedUp(c, i)
    <3>1. \/ Goes(c, i, << <<SyncLater(s)>>, <<One("followUp", s, "sent")>> >>)
          \/ Goes(c, i, Completed(s))
      BY <1>1, <2>2 DEF FollowedUp
    <3>2. PlainBlocks(<< <<SyncLater(s)>>, <<One("followUp", s, "sent")>> >>)
      <4>1. Plain(SyncLater(s)) /\ Plain(One("followUp", s, "sent"))
        BY PlainSession, PlainOne DEF Marks
      <4> QED
        BY <4>1, SingleBlock, TwoBlocks
    <3> QED
      BY <3>1, <3>2, VerdictPlain
  <2> QED
    BY <2>1, <2>2
<1> QED
  BY <1>2, <1>3, <1>4, GoesKeeps DEF IInv, Quiet

LEMMA ControlKeeps ==
  ASSUME IInv, NEW c \in Calls, NEW i, Halted(c, i) \/ Prompted(c, i) \/ Cleared(c, i)
  PROVE  Quiet
<1>1. PICK what \in Outside \ {"report"} : Waits(c, i, what)
  BY DEF Halted, Prompted, Cleared, Outside
<1>2. UNCHANGED <<verifying, db>> /\ tasks' \subseteq Sessions
  BY DEF Halted, Prompted, Cleared, InMemory, Forget, IInv
<1>3. PICK push : Plain(push) /\ Resolve(c, i, push)
  <2>1. CASE Halted(c, i)
    <3>1. \/ \E control : Resolve(c, i, Paused(control))
          \/ \E s, ids, control :
               Resolve(c, i, (IF s \in tasks THEN SyncLater(s) ELSE <<>>)
                             \o One("halting", ids, control))
      BY <2>1 DEF Halted, StopLive
    <3> QED
      BY <3>1, PausedPlain, HaltingPlain
  <2>2. CASE Prompted(c, i)
    <3>1. PICK s : s = Subject(c, i)
      OBVIOUS
    <3>2. Resolve(c, i, SyncLater(s) \o Resumed)
      BY <2>2, <3>1 DEF Prompted
    <3>3. Plain(SyncLater(s) \o Resumed)
      BY PlainSession, PausedPlain, PlainJoined
    <3> QED
      BY <3>2, <3>3
  <2>3. CASE Cleared(c, i)
    BY <2>3, PlainNone DEF Cleared
  <2> QED
    BY <2>1, <2>2, <2>3
<1> QED
  BY <1>1, <1>2, <1>3, ResolveKeeps DEF IInv, Quiet

(* A session takes over: a call of its own stores it.                      *)
LEMMA RespawnedKeeps ==
  ASSUME IInv, NEW c \in Calls, NEW i, Respawned(c, i) PROVE Quiet
<1>1. PICK r \in Unused, n \in {nodeOf[s] : s \in Sessions} \ {None}, d \in Calls :
        /\ Register(r, n) /\ Least(d, FreeCalls)
        /\ Become(Advance(Begin(Now, d, Persist(r, n)), c, i, Resumed \o Tail(call[c].par[i])))
  BY DEF Respawned
<1>2. /\ i \in DOMAIN call[c].par /\ call[c].par[i] # <<>>
      /\ Head(call[c].par[i])[1] = "respawn" /\ "respawn" \in Outside /\ "respawn" \notin Marks
  BY DEF Respawned, Waits, Outside, Marks
<1>3. Unasked(queue, c, i)
  BY <1>2 DEF IInv, Calm, Queued, Unasked, Asking, Asks
<1>4. d \in FreeCalls /\ d # c
  BY <1>1, <1>2 DEF Least, FreeCalls, Free
<1>5. PICK st, p : st = Begin(Now, d, Persist(r, n)) /\ p = Resumed \o Tail(call[c].par[i])
  OBVIOUS
<1>6. /\ Began(call, queue, d, Begun(Persist(r, n)), st)
      /\ \A v, a : Verification(call, v, a) => Verification(st.call, v, a)
  BY <1>4, <1>5, PersistPlain, BeginNew DEF IInv
<1>7. PICK f, q : f = st.call /\ q = st.queue
  OBVIOUS
<1>8. /\ Sound(f) /\ Queued(q, f) /\ st = [call |-> f, queue |-> q]
      /\ f[c] = call[c] /\ Unasked(q, c, i)
  BY <1>3, <1>4, <1>6, <1>7 DEF Began
<1>9. IsProgram(p)
  <2>1. IsProgram(call[c].par[i])
    BY <1>2 DEF IInv, Calm, Sound, CallSound
  <2>2. IsProgram(Tail(call[c].par[i])) /\ IsProgram(Resumed)
    BY <1>2, <2>1, TailProgram, PausedPlain DEF Plain
  <2> QED
    BY <1>5, <2>2, JoinedPrograms
<1>10. PICK nd : nd = Advance(st, c, i, p)
  OBVIOUS
<1>11. call' = nd.call /\ queue' = nd.queue
  BY <1>1, <1>5, <1>10 DEF Become
<1>12. Sound(nd.call) /\ Queued(nd.queue, nd.call) /\ Moved(f, nd.call, c, i, p)
  <2>1. i \in DOMAIN f[c].par /\ nd = Advance([call |-> f, queue |-> q], c, i, p)
    BY <1>2, <1>8, <1>10
  <2> QED
    BY <1>8, <1>9, <2>1, AdvanceSound
<1>13. ASSUME NEW v, NEW a, Verification(call, v, a) PROVE Verification(call', v, a)
  <2>1. Verification(f, v, a)
    BY <1>6, <1>7, <1>13
  <2>2. /\ i \in DOMAIN f[c].par /\ f[c].par[i] # <<>>
        /\ Head(f[c].par[i])[1] \notin Marks
        /\ Moved(f, nd.call, c, i, Resumed \o Tail(f[c].par[i]))
    BY <1>2, <1>5, <1>8, <1>12
  <2> QED
    BY <1>11, <2>1, <2>2, PausedPlain, MovedKeeps
<1>14. UNCHANGED <<verifying, db>> /\ tasks' \subseteq Sessions
  BY <1>1 DEF Register, Unused, IInv
<1> QED
  BY <1>11, <1>12, <1>13, <1>14 DEF IInv, Quiet, Calm

(* What befalls sessions.                                                  *)
LEMMA SessionSteps ==
  ASSUME IInv, NEW s,
         \/ \E st \in Live : Touched(s, st)
         \/ Complete(s) \/ SessionStopped(s) \/ SessionErred(s)
  PROVE  Quiet
<1>1. UNCHANGED <<verifying, tasks, db>>
  BY DEF Touched, Complete, SessionStopped, SessionErred
<1>2. Plain(SyncLater(s)) /\ Plain(CheckLater) /\ Plain(AppendEvent)
  BY PlainSession, PlainStatements
<1>3. PICK blocks : PlainBlocks(blocks) /\ Launch(blocks)
  <2>1. CASE \E st \in Live : Touched(s, st)
    <3>1. PICK st : Launch(<< <<IF st = "blocked" THEN SyncLater(s) \o SyncLater(s)
                                ELSE SyncLater(s)>> >>)
      BY <2>1 DEF Touched
    <3>2. Plain(IF st = "blocked" THEN SyncLater(s) \o SyncLater(s) ELSE SyncLater(s))
      BY <1>2, PlainJoined
    <3> QED
      BY <3>1, <3>2, SingleBlock, OneBlock
  <2>2. CASE Complete(s)
    <3>1. PICK p : p = GetSession \o (IF Repo THEN CreateJob(s, "running") ELSE <<>>)
                       \o One("validate", s, None)
      OBVIOUS
    <3>2. Launch(<< <<SyncLater(s), AppendEvent>>, <<p>> >>)
      BY <2>2, <3>1 DEF Complete
    <3>3. Plain(p)
      <4>1. Plain(IF Repo THEN CreateJob(s, "running") ELSE <<>>)
        BY PlainJob, PlainNone
      <4>2. Plain(GetSession \o (IF Repo THEN CreateJob(s, "running") ELSE <<>>))
        BY <4>1, PlainStatements, PlainJoined
      <4>3. Plain(One("validate", s, None))
        BY PlainOne DEF Marks
      <4> QED
        BY <3>1, <4>2, <4>3, PlainJoined
    <3> QED
      BY <1>2, <3>2, <3>3, SingleBlock, DoubleBlock, TwoBlocks
  <2>3. CASE SessionStopped(s) \/ SessionErred(s)
    <3>1. Launch(<< <<AppendEvent>>, <<CheckLater, SyncLater(s)>> >>)
      BY <2>3 DEF SessionStopped, SessionErred
    <3> QED
      BY <1>2, <3>1, SingleBlock, DoubleBlock, TwoBlocks
  <2> QED
    BY <2>1, <2>2, <2>3
<1> QED
  BY <1>1, <1>3, LaunchKeeps DEF IInv, Quiet

(* Two calls begin: one stores the replacement, one the end of s.          *)
LEMMA ReplacedKeeps ==
  ASSUME IInv, NEW s, SessionReplaced(s) PROVE Quiet
<1>1. PICK r \in Unused, c \in Calls, d \in Calls :
        /\ tasks' \subseteq tasks \cup {r}
        /\ Least(c, FreeCalls) /\ Least(d, FreeCalls \ {c})
        /\ Become(Begin(Begin(Now, c, Persist(r, nodeOf[s])), d,
                        << <<AppendEvent \o AppendEvent \o SyncLater(s)>> >>))
  BY DEF SessionReplaced
<1>2. c \in FreeCalls /\ d \in FreeCalls /\ d # c
  BY <1>1 DEF Least
<1>3. PICK blocks, st : /\ blocks = << <<AppendEvent \o AppendEvent \o SyncLater(s)>> >>
                        /\ st = Begin(Now, c, Persist(r, nodeOf[s]))
  OBVIOUS
<1>4. PlainBlocks(blocks)
  <2>1. Plain(AppendEvent \o AppendEvent)
    BY PlainStatements, PlainJoined
  <2>2. Plain(AppendEvent \o AppendEvent \o SyncLater(s))
    BY <2>1, PlainSession, PlainJoined
  <2> QED
    BY <1>3, <2>2, SingleBlock, OneBlock
<1>5. /\ Began(call, queue, c, Begun(Persist(r, nodeOf[s])), st)
      /\ \A v, a : Verification(call, v, a) => Verification(st.call, v, a)
  BY <1>2, <1>3, PersistPlain, BeginNew DEF IInv
<1>6. PICK f, q : f = st.call /\ q = st.queue
  OBVIOUS
<1>7. /\ Sound(f) /\ Queued(q, f) /\ st = [call |-> f, queue |-> q] /\ f[d] = call[d]
  BY <1>2, <1>5, <1>6 DEF Began, FreeCalls
<1>8. Idle(f, d) /\ d \in Calls
  BY <1>2, <1>7 DEF FreeCalls, Free, Idle
<1>9. \A k \in DOMAIN q : q[k][1] # d
  BY <1>7, <1>8, IdleUnqueued
<1>10. PICK nd : nd = Begin(st, d, blocks)
  OBVIOUS
<1>11. /\ Began(f, q, d, Begun(blocks), nd)
       /\ \A i \in DOMAIN Begun(blocks).par : Plain(Begun(blocks).par[i])
  BY <1>4, <1>7, <1>8, <1>9, <1>10, BeginSound
<1>12. call' = nd.call /\ queue' = nd.queue
  BY <1>1, <1>3, <1>10 DEF Become
<1>13. ASSUME NEW v, NEW a, Verification(call, v, a) PROVE Verification(call', v, a)
  <2>1. Verification(f, v, a)
    BY <1>5, <1>6, <1>13
  <2> QED
    BY <1>8, <1>11, <1>12, <2>1, BeganKeeps
<1>14. UNCHANGED <<verifying, db>> /\ tasks' \subseteq Sessions
  BY <1>1 DEF SessionReplaced, Unused, IInv
<1> QED
  BY <1>11, <1>12, <1>13, <1>14 DEF IInv, Quiet, Calm, Began

LEMMA RegisterTaskKeeps ==
  ASSUME IInv, NEW s, RegisterTask(s) PROVE Quiet
<1>1. /\ UNCHANGED <<verifying, db>> /\ tasks' \subseteq tasks \cup {s} /\ s \in Sessions
      /\ Launch(Persist(s, s))
  BY RegistryAssumption DEF RegisterTask, Register
<1> QED
  BY <1>1, PersistPlain, LaunchKeeps DEF IInv, Quiet

(* The user.                                                               *)
LEMMA UserSteps ==
  ASSUME IInv,
         \/ \E what \in {"pause", "stop"} : PauseThread(what)
         \/ ResumeThread \/ Archive \/ Reopen
  PROVE  Quiet
<1>1. UNCHANGED <<verifying, tasks, db>>
  BY DEF PauseThread, ResumeThread, Archive, Reopen, memory
<1>2. PICK p : Plain(p) /\ Launch(<< <<p>> >>)
  <2>1. CASE \E what \in {"pause", "stop"} : PauseThread(what)
    <3>1. PICK control : Launch(<< <<GetThread \o One("findLive", None, control)>> >>)
      BY <2>1 DEF PauseThread
    <3>2. Plain(One("findLive", None, control))
      BY PlainOne DEF Marks
    <3> QED
      BY <3>1, <3>2, PlainStatements, PlainJoined
  <2>2. CASE ResumeThread
    <3>1. Plain(One("findResumable", None, None))
      BY PlainOne DEF Marks
    <3>2. Plain(GetThread \o One("findResumable", None, None))
      BY <3>1, PlainStatements, PlainJoined
    <3> QED
      BY <2>2, <3>2 DEF ResumeThread
  <2>3. CASE Archive
    <3>1. Plain(One("archive", None, None))
      BY PlainOne DEF Marks
    <3>2. Plain(One("archive", None, None) \o AppendEvent)
      BY <3>1, PlainStatements, PlainJoined
    <3> QED
      BY <2>3, <3>2 DEF Archive
  <2>4. CASE Reopen
    <3>1. Plain(One("reopen", None, None))
      BY PlainOne DEF Marks
    <3>2. Plain(One("reopen", None, None) \o AppendEvent)
      BY <3>1, PlainStatements, PlainJoined
    <3>3. Plain(One("reopen", None, None) \o AppendEvent \o RecomputeThread)
      BY <3>2, PlainStatements, PlainJoined
    <3> QED
      BY <2>4, <3>3 DEF Reopen
  <2> QED
    BY <2>1, <2>2, <2>3, <2>4
<1> QED
  BY <1>1, <1>2, LaunchOne DEF IInv, Quiet

(* The process.                                                            *)
LEMMA ShutdownKeeps == ASSUME IInv, Shutdown PROVE Quiet
<1>1. PICK L : L = {s \in tasks : mem[s] \in Live}
  OBVIOUS
<1>2. PICK h : h = [k \in 1 .. Cardinality(L) |->
                      UpdateSession(SetToSortSeq(L, <)[k], "interrupted") \o AppendEvent]
  OBVIOUS
<1>3. UNCHANGED <<verifying, tasks, db>> /\ Launch(<< h, << One("clear", None, None) >> >>)
  BY <1>1, <1>2 DEF Shutdown
<1>4. Cardinality(L) \in Nat
  BY <1>1, RegistryAssumption, FS_Subset, FS_CardinalityType DEF IInv
<1>5. PlainBlock(h)
  <2>1. ASSUME NEW s PROVE Plain(UpdateSession(s, "interrupted") \o AppendEvent)
    BY PlainSession, PlainStatements, PlainJoined
  <2>2. DOMAIN h \subseteq Nat
    BY <1>2, <1>4
  <2>3. \A k \in DOMAIN h : Plain(h[k])
    BY <1>2, <2>1
  <2> QED
    BY <2>2, <2>3 DEF PlainBlock
<1>6. PlainBlock(<< One("clear", None, None) >>)
  BY SingleBlock, PlainOne DEF Marks
<1> QED
  BY <1>3, <1>5, <1>6, TwoBlocks, LaunchKeeps DEF IInv, Quiet

LEMMA StartUpKeeps == ASSUME IInv, StartUp PROVE Quiet
<1>1. Plain(One("findInterrupted", None, None))
  BY PlainOne DEF Marks
<1>2. UNCHANGED <<verifying, tasks, db>>
      /\ Launch(<< <<One("findInterrupted", None, None)>> >>)
  BY DEF StartUp, memory
<1> QED
  BY <1>1, <1>2, LaunchOne DEF IInv, Quiet

(* Calls that are free have no statement left.                             *)
LEMMA FreshCalls ==
  ASSUME NEW f, f = [c \in Calls |-> Free]
  PROVE  Calm(f, <<>>) /\ AllPlain(f)
<1>1. CallSound(Free) /\ DOMAIN Free.par = {}
  <2>1. PlainBlocks(<<>>) /\ DOMAIN <<>> = {}
    BY PlainNone DEF PlainBlocks, Plain
  <2> QED
    BY <2>1 DEF CallSound, Free
<1>2. Sound(f) /\ AllPlain(f)
  BY <1>1 DEF Sound, AllPlain
<1>3. IsProgram(<<>>) /\ DOMAIN <<>> = {}
  BY PlainNone DEF Plain
<1> QED
  BY <1>2, <1>3 DEF Calm, Queued

LEMMA EndKeeps == ASSUME IInv, ProcessEnds PROVE IInv' /\ Proceeds
<1>1. /\ verifying' = FALSE /\ tasks' = {} /\ db' = db /\ phase' = "down"
      /\ call' = [c \in Calls |-> Free] /\ queue' = <<>>
  BY DEF ProcessEnds, Forget
<1>2. Calm(call', queue') /\ AllPlain(call')
  BY <1>1, FreshCalls
<1> QED
  BY <1>1, <1>2 DEF IInv, Proceeds, Verification

LEMMA NoneRuns ==
  ASSUME IInv, FreeCalls = Calls PROVE AllPlain(call) /\ ~verifying
<1>1. \A c \in Calls : DOMAIN call[c].par = {}
  BY DEF FreeCalls, Free
<1>2. AllPlain(call)
  BY <1>1 DEF AllPlain
<1>3. ~ \E m \in Marks : Alone(call, m)
  BY <1>1 DEF Alone
<1> QED
  BY <1>2, <1>3 DEF IInv, Verification

(* The plan expects an acceptance where there is a repository.             *)
LEMMA PlanMarked ==
  ASSUME NEW p, p = CreateThread \o GetThreadSummary \o PlanGraph
  PROVE  (Repo => Marked(p, "expect")) /\ (~Repo => Plain(p))
<1>1. PICK W : W = Workers
  OBVIOUS
<1>2. PICK a, x, b, u :
        /\ a = GetThreadRecord \o CreateNode(Goal, "planned")
        /\ x = IF Repo THEN ExpectAcceptance ELSE <<>>
        /\ b = One("planNodes", W, None) /\ u = UpdateThread("keep", "planned")
  OBVIOUS
<1>3. Plain(a) /\ Plain(b) /\ Plain(u)
  BY <1>2, PlainStatements, PlainNode, PlainThread, PlainJoined, PlainOne DEF Marks
<1>4. Repo => Marked(x, "expect")
  <2>1. Marked(One("expect", None, None), "expect")
    BY MarkedOne
  <2>2. Marked(ExpectAcceptance, "expect")
    BY <2>1, PlainStatements, MarkedJoined DEF ExpectAcceptance
  <2> QED
    BY <1>2, <2>2
<1>5. ~Repo => Plain(x)
  BY <1>2, PlainNone
<1>6. PlanGraph = a \o x \o b \o u
  BY <1>1, <1>2 DEF PlanGraph
<1>7. Repo => Marked(a \o x \o b \o u, "expect")
  <2>1. Repo => Marked(a \o x, "expect")
    BY <1>3, <1>4, MarkedJoined
  <2>2. Repo => Marked(a \o x \o b, "expect")
    BY <1>3, <2>1, MarkedJoined
  <2> QED
    BY <1>3, <2>2, MarkedJoined
<1>8. ~Repo => Plain(a \o x \o b \o u)
  <2>1. ~Repo => Plain(a \o x)
    BY <1>3, <1>5, PlainJoined
  <2>2. ~Repo => Plain(a \o x \o b)
    BY <1>3, <2>1, PlainJoined
  <2> QED
    BY <1>3, <2>2, PlainJoined
<1>9. PICK g : g = PlanGraph
  OBVIOUS
<1>10. Plain(CreateThread \o GetThreadSummary)
  BY PlainThread, PlainStatements, PlainJoined
<1>11. Repo => Marked(CreateThread \o GetThreadSummary \o g, "expect")
  BY <1>6, <1>7, <1>9, <1>10, MarkedJoined
<1>12. ~Repo => Plain(CreateThread \o GetThreadSummary \o g)
  BY <1>6, <1>8, <1>9, <1>10, PlainJoined
<1> QED
  BY <1>9, <1>11, <1>12

LEMMA BegunMarked ==
  ASSUME NEW p, NEW m \in Marks, Marked(p, m)
  PROVE  /\ CallSound(Begun(<< <<p>> >>)) /\ DOMAIN Begun(<< <<p>> >>).par = {1}
         /\ Marked(Begun(<< <<p>> >>).par[1], m)
<1>1. PICK b : b = <<p>>
  OBVIOUS
<1>2. DOMAIN b = {1} /\ b[1] = p
  BY <1>1
<1>3. PICK blocks : blocks = <<b>>
  OBVIOUS
<1>4. DOMAIN blocks = {1} /\ blocks[1] = b /\ Len(blocks) = 1 /\ blocks \in Seq({b})
  BY <1>3
<1>5. PICK r : r = Issue(p)
  OBVIOUS
<1>6. Marked(r, m) /\ r # <<>> /\ IsProgram(r)
  <2>1. Marked(r, m)
    BY <1>5, IssueKeeps
  <2> QED
    BY <2>1, MarkedTail DEF Marked
<1> DEFINE Start(k) == [i \in DOMAIN blocks[k] |-> Issue(blocks[k][i])]
           busy == {k \in DOMAIN blocks : \E i \in DOMAIN blocks[k] : Start(k)[i] # <<>>}
<1>7. Start(1) = [i \in {1} |-> r]
  BY <1>2, <1>4, <1>5
<1>8. busy = {1}
  BY <1>2, <1>4, <1>6, <1>7
<1>9. Min(busy) = 1
  <2>1. PICK B : B = {1}
    OBVIOUS
  <2>2. Min(B) \in B
    BY <2>1, MinIn
  <2> QED
    BY <1>8, <2>1, <2>2
<1>10. PICK rest : rest = SubSeq(blocks, 1 + 1, Len(blocks))
  OBVIOUS
<1>11. rest = <<>>
  BY <1>4, <1>10
<1>12. PICK v : v = [par |-> [i \in {1} |-> r], next |-> rest]
  OBVIOUS
<1>13. Begun(blocks) = v
  BY <1>7, <1>8, <1>9, <1>10, <1>12 DEF Begun
<1>14. v.par = [i \in {1} |-> r] /\ v.next = <<>> /\ v = [par |-> v.par, next |-> v.next]
  BY <1>11, <1>12
<1>15. PlainBlocks(<<>>)
  BY PlainNone DEF PlainBlocks, Plain
<1>16. CallSound(v) /\ DOMAIN v.par = {1} /\ Marked(v.par[1], m)
  BY <1>6, <1>14, <1>15 DEF CallSound
<1> QED
  BY <1>1, <1>3, <1>13, <1>16

LEMMA PlanKeeps == ASSUME IInv, PlanThread PROVE IInv' /\ Proceeds
<1>1. PICK p : p = CreateThread \o GetThreadSummary \o PlanGraph
  OBVIOUS
<1>2. UNCHANGED <<verifying, tasks, db>> /\ Launch(<< <<p>> >>)
  BY <1>1 DEF PlanThread, memory
<1>3. CASE ~Repo
  <2>1. Plain(p)
    BY <1>1, <1>3, PlanMarked
  <2>2. Quiet
    BY <1>2, <2>1, LaunchOne DEF IInv, Quiet
  <2> QED
    BY <2>2, QuietKeeps
<1>4. CASE Repo
  <2>1. Marked(p, "expect") /\ "expect" \in Marks
    BY <1>1, <1>4, PlanMarked DEF Marks
  <2>2. AllPlain(call) /\ ~verifying /\ db.acceptance = "none"
    BY NoneRuns DEF PlanThread, EmptyTables
  <2>3. PICK c \in FreeCalls : Become(Begin(Now, c, << <<p>> >>))
    BY <1>2 DEF Launch, Least
  <2>4. PICK st, w : st = Begin(Now, c, << <<p>> >>) /\ w = Begun(<< <<p>> >>)
    OBVIOUS
  <2>5. CallSound(w) /\ DOMAIN w.par = {1} /\ Marked(w.par[1], "expect")
    BY <2>1, <2>4, BegunMarked
  <2>6. c \in Calls /\ Idle(call, c)
    BY DEF FreeCalls, Free, Idle
  <2>7. \A k \in DOMAIN queue : queue[k][1] # c
    BY <2>6, IdleUnqueued DEF IInv, Calm
  <2>8. Began(call, queue, c, w, st)
    BY <2>4, <2>5, <2>6, <2>7, BeginAny DEF IInv, Calm, Now
  <2>9. call' = st.call /\ queue' = st.queue
    BY <2>3, <2>4 DEF Become
  <2>10. Calm(call', queue')
    BY <2>8, <2>9 DEF Began, Calm
  <2>11. call'[c] = w /\ \A d \in Calls : d # c => call'[d] = call[d]
    BY <2>8, <2>9 DEF Began
  <2>12. Alone(call', "expect")
    <3>1. Others(call', c, 1)
      BY <2>2, <2>5, <2>11 DEF Others, AllPlain
    <3> QED
      BY <2>5, <2>6, <2>11, <3>1 DEF Alone
  <2>13. Verification(call', verifying', db'.acceptance)
    BY <1>2, <2>1, <2>2, <2>12 DEF Verification, Fits
  <2> QED
    BY <1>2, <2>10, <2>13 DEF IInv, Proceeds
<1> QED
  BY <1>3, <1>4

LEMMA StutterKeeps == ASSUME IInv, UNCHANGED vars PROVE IInv' /\ Proceeds
<1>1. UNCHANGED <<call, queue, verifying, db, tasks>>
  BY DEF vars, memory
<1> QED
  BY <1>1 DEF IInv, Proceeds, Calm, Sound, Queued, Verification, AllPlain, Alone, Others, Asking

LEMMA InitInv == Init => IInv
<1> SUFFICES ASSUME Init PROVE IInv
  OBVIOUS
<1>1. /\ verifying = FALSE /\ tasks = {} /\ "acceptance" \in DOMAIN db
      /\ call = [c \in Calls |-> Free] /\ queue = <<>>
  BY DEF Init, EmptyTables
<1>2. Calm(call, queue) /\ AllPlain(call)
  BY <1>1, FreshCalls
<1> QED
  BY <1>1, <1>2 DEF IInv, Verification

-----------------------------------------------------------------------------
LEMMA ServeKeeps == IInv /\ Serve => IInv' /\ Proceeds
<1> SUFFICES ASSUME IInv, Serve PROVE IInv' /\ Proceeds
  OBVIOUS
<1>1. CASE \/ ServeOther \/ FindRow \/ SetRow \/ ReadRows \/ ThreadControl
           \/ FindInterrupted \/ InterruptRows \/ Started
  BY <1>1, SessionStatements, QuietKeeps
<1>2. CASE \/ AddThread \/ ReadThread \/ SetThread \/ ArchiveThread \/ ReopenThread
           \/ SetThreadStatus
  BY <1>2, ThreadStatements, QuietKeeps
<1>3. CASE FindNode \/ SetNode \/ AddDependency \/ ReadGraph
  BY <1>3, GraphStatements, QuietKeeps
<1>4. CASE AddClaim \/ FindClaim \/ EndClaim \/ SetJob \/ AddEvidence
  BY <1>4, ClaimStatements, QuietKeeps
<1>5. CASE FinishCheck \/ FindLive \/ FindResumable
  BY <1>5, CoordinatorStatements, QuietKeeps
<1>6. CASE ServeExpect \/ ReadyVerifiers \/ BeginRun \/ Evaluate \/ Decide \/ Release
  BY <1>6, ServeExpectKeeps, ReadyVerifiersKeeps, BeginRunKeeps, EvaluateKeeps,
     DecideKeeps, ReleaseKeeps
<1> QED
  BY <1>1, <1>2, <1>3, <1>4, <1>5, <1>6 DEF Serve

LEMMA NextKeeps == IInv /\ [Next]_vars => IInv' /\ Proceeds
<1> SUFFICES ASSUME IInv, [Next]_vars PROVE IInv' /\ Proceeds
  OBVIOUS
<1>1. ASSUME NEW c \in Calls, Answered(c) PROVE IInv' /\ Proceeds
  <2>1. PICK i \in DOMAIN call[c].par :
          \/ Reported(c, i) \/ Validated(c, i) \/ FollowedUp(c, i) \/ Halted(c, i)
          \/ Prompted(c, i) \/ Respawned(c, i) \/ Cleared(c, i)
    BY <1>1 DEF Answered
  <2>2. CASE Reported(c, i)
    BY <2>2, ReportedKeeps
  <2>3. CASE Validated(c, i) \/ FollowedUp(c, i)
    BY <2>3, VerdictsKeep, QuietKeeps
  <2>4. CASE Halted(c, i) \/ Prompted(c, i) \/ Cleared(c, i)
    BY <2>4, ControlKeeps, QuietKeeps
  <2>5. CASE Respawned(c, i)
    BY <2>5, RespawnedKeeps, QuietKeeps
  <2> QED
    BY <2>1, <2>2, <2>3, <2>4, <2>5
<1>2. ASSUME NEW s \in Sessions, RegisterTask(s) \/ Befall(s) PROVE IInv' /\ Proceeds
  <2>1. CASE RegisterTask(s)
    BY <2>1, RegisterTaskKeeps, QuietKeeps
  <2>2. CASE Befall(s)
    BY <2>2, SessionSteps, ReplacedKeeps, QuietKeeps DEF Befall
  <2> QED
    BY <1>2, <2>1, <2>2
<1>3. CASE User
  BY <1>3, UserSteps, ShutdownKeeps, QuietKeeps DEF User
<1>4. CASE StartUp
  BY <1>4, StartUpKeeps, QuietKeeps
<1> QED
  BY <1>1, <1>2, <1>3, <1>4, ServeKeeps, PlanKeeps, EndKeeps, StutterKeeps DEF Next

(* The requests the database has are of programs that wait for it, each in *)
(* one batch; at most one program has a statement on the acceptance left,  *)
(* which one tells how far the verification is, and activeVerifierRuns     *)
(* holds the job exactly from runReadyTaskVerifiers to its finally block.  *)
THEOREM RegistryInvariant == Spec => []IInv
<1>1. Init => IInv
  BY InitInv
<1>2. IInv /\ [Next]_vars => IInv'
  BY NextKeeps
<1> QED
  BY <1>1, <1>2, PTL DEF Spec

(* The acceptance of a thread is decided once: none of the checks that run *)
(* at once, of the runs that end late and of the restarts takes it back or *)
(* decides it again.                                                       *)
THEOREM AcceptanceOnceHolds == Spec => AcceptanceOnce
<1>1. IInv /\ [Next]_vars => [Proceeds]_db
  BY NextKeeps
<1>2. [Proceeds]_db =>
        [db'.acceptance # db.acceptance =>
           <<db.acceptance, db'.acceptance>> \in
             {<<"none", "pending">>, <<"pending", "running">>,
              <<"running", "passed">>, <<"running", "failed">>}]_db
  BY DEF Proceeds
<1>3. Spec => [][Proceeds]_db
  BY <1>1, RegistryInvariant, PTL DEF Spec
<1> QED
  BY <1>2, <1>3, PTL DEF AcceptanceOnce

(* A job that is being verified is held in activeVerifierRuns until it is  *)
(* decided, whatever checks run at once and however the run ends; only the *)
(* end of the process leaves it running with nobody to decide it.          *)
THEOREM RunningIsHeldHolds == Spec => RunningIsHeld
<1>1. IInv /\ [Next]_vars => [Proceeds]_vars
  BY NextKeeps
<1>2. [Proceeds]_vars =>
        [(db.acceptance = "running" => verifying) =>
           \/ db'.acceptance = "running" => verifying'
           \/ phase' = "down"]_vars
  BY DEF Proceeds
<1>3. Spec => [][Proceeds]_vars
  BY <1>1, RegistryInvariant, PTL DEF Spec
<1> QED
  BY <1>2, <1>3, PTL DEF RunningIsHeld
-----------------------------------------------------------------------------
(* What a restart finds and leaves.  No call of the coordinator runs beside*)
(* the recovery, so that what it interrupts does not come back to life.    *)

NobodyLives(row) == \A s \in Sessions : row[s] \notin Live

(* When start() is over no session is believed to live: all that the       *)
(* process before it had were interrupted (task-registry.ts:1618-1658).    *)
RecoveryEnds == phase = "starting" /\ phase' = "up" => NobodyLives(db'.row)

Finds == {"findInterrupted", "interruptRows"}
Recovery == Finds \cup {"other", "threadControl", "readRows", "setStatus", "started"}
Recovering(p) == IsProgram(p) /\ \A k \in DOMAIN p : p[k][1] \in Recovery
(* While a session seems to live the program has still to interrupt it.    *)
Recovers(p, row) ==
  Recovering(p) /\ (p = <<>> \/ Head(p)[1] \in Finds \/ NobodyLives(row))
Starting(f, row) ==
  \A c \in Calls : /\ f[c].next = <<>>
                  /\ \A i \in DOMAIN f[c].par : Recovers(f[c].par[i], row)
RecoveryInv ==
  /\ "row" \in DOMAIN db
  /\ phase = "down" => call = [c \in Calls |-> Free]
  /\ phase = "starting" => Starting(call, db.row)

LEMMA RecoveringOne ==
  ASSUME NEW op \in Recovery, NEW x, NEW v
  PROVE  Recovering(One(op, x, v)) /\ Head(One(op, x, v))[1] = op
<1>1. PICK s : s = <<op, x, v>>
  OBVIOUS
<1>2. <<s>> \in Seq({s}) /\ DOMAIN <<s>> = {1} /\ <<s>>[1] = s /\ Head(<<s>>) = s
  OBVIOUS
<1>3. IsProgram(<<s>>)
  BY <1>2, ProgramIn
<1>4. s[1] = op
  BY <1>1
<1> QED
  BY <1>1, <1>2, <1>3, <1>4 DEF Recovering, One

LEMMA RecoveringJoined ==
  ASSUME NEW p, NEW q, Recovering(p), Recovering(q)
  PROVE  /\ Recovering(p \o q)
         /\ p # <<>> => p \o q # <<>> /\ Head(p \o q) = Head(p)
<1>1. IsProgram(p) /\ IsProgram(q)
  BY DEF Recovering
<1>2. PICK r : r = p \o q
  OBVIOUS
<1>3. /\ IsProgram(r) /\ DOMAIN p = 1 .. Len(p) /\ DOMAIN q = 1 .. Len(q)
      /\ Len(p) \in Nat /\ Len(q) \in Nat
      /\ DOMAIN r = 1 .. Len(p) + Len(q)
      /\ \A i \in 1 .. Len(p) + Len(q) :
           r[i] = IF i <= Len(p) THEN p[i] ELSE q[i - Len(p)]
  BY <1>1, <1>2, JoinedPrograms
<1>4. ASSUME NEW k \in DOMAIN r PROVE r[k][1] \in Recovery
  <2>1. CASE k <= Len(p)
    BY <1>3, <2>1 DEF Recovering
  <2>2. CASE ~(k <= Len(p))
    <3>1. k - Len(p) \in DOMAIN q
      BY <1>3, <2>2
    <3> QED
      BY <1>3, <2>2, <3>1 DEF Recovering
  <2> QED
    BY <2>1, <2>2
<1>5. ASSUME p # <<>> PROVE r # <<>> /\ Head(r) = Head(p)
  <2>1. 1 \in DOMAIN p /\ Head(p) = p[1]
    BY <1>1, <1>5, TailProgram
  <2>2. 1 \in DOMAIN r /\ r[1] = p[1]
    BY <1>3, <2>1
  <2>3. r # <<>>
    BY <2>2
  <2> QED
    BY <1>3, <2>1, <2>2, <2>3, TailProgram
<1> QED
  BY <1>2, <1>3, <1>4, <1>5 DEF Recovering

LEMMA RecoveringTail ==
  ASSUME NEW p, Recovering(p), p # <<>>
  PROVE  Recovering(Tail(p)) /\ Head(p)[1] \in Recovery
  BY TailProgram DEF Recovering

LEMMA RecoveringIssue == ASSUME NEW p, Recovering(p) PROVE Issue(p) = p
<1>1. p # <<>> => Head(p)[1] \notin Pending
  BY RecoveringTail DEF Recovery, Finds, Pending
<1> QED
  BY <1>1 DEF Issue

LEMMA NoneBegun == Begun(<<>>) = Free
<1>1. PICK blocks : blocks = <<>>
  OBVIOUS
<1> DEFINE Start(k) == [i \in DOMAIN blocks[k] |-> Issue(blocks[k][i])]
           busy == {k \in DOMAIN blocks : \E i \in DOMAIN blocks[k] : Start(k)[i] # <<>>}
<1>2. DOMAIN blocks = {}
  BY <1>1
<1>3. busy = {}
  BY <1>2
<1>4. Begun(blocks) = Free
  BY <1>3 DEF Begun
<1> QED
  BY <1>1, <1>4

(* A call with one block left goes on with p, or is over.                  *)
LEMMA AdvanceRecovering ==
  ASSUME NEW f, NEW q, NEW c \in Calls, NEW i \in DOMAIN f[c].par, NEW p,
         Sound(f), f[c].next = <<>>, Recovering(p),
         NEW st, st = Advance([call |-> f, queue |-> q], c, i, p)
  PROVE  /\ \A d \in Calls : d # c => st.call[d] = f[d]
         /\ st.call[c].next = <<>>
         /\ \A j \in DOMAIN st.call[c].par :
              /\ j \in DOMAIN f[c].par
              /\ st.call[c].par[j] = IF j = i THEN p ELSE f[c].par[j]
<1>1. PICK v, par : v = f[c] /\ par = [v.par EXCEPT ![i] = p]
  OBVIOUS
<1>2. v = [par |-> v.par, next |-> <<>>] /\ DOMAIN f = Calls
  BY <1>1 DEF Sound, CallSound
<1>3. Issue(p) = p
  BY RecoveringIssue
<1>4. CASE \E k \in DOMAIN par : par[k] # <<>>
  <2>1. st.call = [f EXCEPT ![c] = [v EXCEPT !.par = par]]
    BY <1>1, <1>3, <1>4 DEF Advance
  <2>2. PICK w : w = [v EXCEPT !.par = par]
    OBVIOUS
  <2>3. w = [par |-> par, next |-> <<>>]
    BY <1>2, <2>2
  <2>4. st.call[c] = w /\ \A d \in Calls : d # c => st.call[d] = f[d]
    BY <1>2, <2>1, <2>2
  <2> QED
    BY <1>1, <2>3, <2>4
<1>5. CASE ~ \E k \in DOMAIN par : par[k] # <<>>
  <2>1. st = Begin([call |-> f, queue |-> q], c, <<>>)
    BY <1>1, <1>3, <1>5 DEF Advance
  <2>2. Begun(<<>>) = Free
    BY NoneBegun
  <2>3. st.call = [f EXCEPT ![c] = Free]
    <3>1. PICK w : w = Begun(<<>>)
      OBVIOUS
    <3>2. PICK g, S : g = [f EXCEPT ![c] = w] /\ S = Asking(w.par)
      OBVIOUS
    <3>3. st = [call |-> g, queue |-> Enqueue(q, c, S)]
      BY <2>1, <3>1, <3>2 DEF Begin
    <3>4. st.call = g
      BY <3>3
    <3> QED
      BY <2>2, <3>1, <3>2, <3>4
  <2>4. st.call[c] = Free /\ \A d \in Calls : d # c => st.call[d] = f[d]
    BY <1>2, <2>3
  <2>5. st.call[c].next = <<>> /\ DOMAIN st.call[c].par = {}
    BY <2>4 DEF Free
  <2> QED
    BY <2>4, <2>5
<1> QED
  BY <1>4, <1>5

(* A statement of the recovery is served.                                  *)
LEMMA RecoveryAnswer ==
  ASSUME IInv, RecoveryInv, phase = "starting", queue # <<>>,
         NEW push, Recovering(push), Answer(push),
         NEW row, NobodyLives(db.row) => NobodyLives(row),
         \/ push # <<>> /\ Head(push)[1] \in Finds
         \/ Statement[1] \in Finds => NobodyLives(row)
  PROVE  Starting(call', row)
<1>1. PICK c, i : c = Turn[1] /\ i = Turn[2]
  OBVIOUS
<1>2. /\ c \in Calls /\ i \in DOMAIN call[c].par /\ call[c].par[i] # <<>>
      /\ Sound(call)
  BY <1>1, TurnSound DEF IInv, Calm
<1>3. call[c].next = <<>> /\ Recovers(call[c].par[i], db.row)
  BY <1>2 DEF RecoveryInv, Starting
<1>4. PICK p : p = push \o Rest
  OBVIOUS
<1>5. Recovering(p) /\ (push # <<>> => p # <<>> /\ Head(p) = Head(push))
  <2>1. Recovering(Tail(call[c].par[i]))
    BY <1>2, <1>3, RecoveringTail DEF Recovers
  <2> QED
    BY <1>1, <1>4, <2>1, RecoveringJoined DEF Rest
<1>6. Recovers(p, row)
  BY <1>1, <1>2, <1>3, <1>5 DEF Recovers, Statement
<1>7. PICK st : st = Advance([call |-> call, queue |-> Served], c, i, p)
  OBVIOUS
<1>8. call' = st.call
  BY <1>1, <1>4, <1>7 DEF Answer, Become, Now
<1>9. /\ \A d \in Calls : d # c => st.call[d] = call[d]
      /\ st.call[c].next = <<>>
      /\ \A j \in DOMAIN st.call[c].par :
           /\ j \in DOMAIN call[c].par
           /\ st.call[c].par[j] = IF j = i THEN p ELSE call[c].par[j]
  BY <1>2, <1>3, <1>5, <1>7, AdvanceRecovering
<1>10. ASSUME NEW r, Recovers(r, db.row) PROVE Recovers(r, row)
  BY <1>10 DEF Recovers
<1>11. ASSUME NEW d \in Calls
      PROVE /\ call'[d].next = <<>>
            /\ \A j \in DOMAIN call'[d].par : Recovers(call'[d].par[j], row)
  <2>1. /\ call[d].next = <<>>
        /\ \A j \in DOMAIN call[d].par : Recovers(call[d].par[j], row)
    BY <1>10 DEF RecoveryInv, Starting
  <2> QED
    BY <1>6, <1>8, <1>9, <2>1
<1> QED
  BY <1>11 DEF Starting
LEMMA ServeAsked == Serve => queue # <<>>
  BY DEF Serve, ServeOther, FindRow, SetRow, AddThread, ReadThread, SetThread,
         ArchiveThread, ReopenThread, ThreadControl, ReadRows, SetThreadStatus,
         FindNode, SetNode, AddDependency, ReadGraph, AddClaim, FindClaim, EndClaim,
         SetJob, ServeExpect, AddEvidence, ReadyVerifiers, BeginRun, Evaluate, Decide,
         Release, FinishCheck, FindLive, FindResumable, FindInterrupted,
         InterruptRows, Started, Serving

(* The statements of the recovery.                                         *)
LEMMA RecoveryServes ==
  ASSUME IInv, RecoveryInv, phase = "starting", Serve
  PROVE  /\ Starting(call', db'.row) /\ phase' \in {"starting", "up"}
         /\ phase' = "up" => NobodyLives(db'.row)
<1>1. queue # <<>>
  BY ServeAsked
<1>2. Statement[1] \in Recovery /\ (Statement[1] \in Finds \/ NobodyLives(db.row))
  <2>1. PICK c, i : c = Turn[1] /\ i = Turn[2]
    OBVIOUS
  <2>2. c \in Calls /\ i \in DOMAIN call[c].par /\ call[c].par[i] # <<>>
    BY <1>1, <2>1, TurnSound DEF IInv, Calm
  <2>3. Recovers(call[c].par[i], db.row)
    BY <2>2 DEF RecoveryInv, Starting
  <2> QED
    BY <2>1, <2>2, <2>3, RecoveringTail DEF Recovers, Statement
<1>3. \/ ServeOther \/ ThreadControl \/ ReadRows \/ SetThreadStatus
      \/ FindInterrupted \/ InterruptRows \/ Started
  BY <1>2 DEF Serve, FindRow, SetRow, AddThread, ReadThread, SetThread,
         ArchiveThread, ReopenThread,
         FindNode, SetNode, AddDependency, ReadGraph, AddClaim, FindClaim, EndClaim,
         SetJob, ServeExpect, AddEvidence, ReadyVerifiers, BeginRun, Evaluate, Decide,
         Release, FinishCheck, FindLive, FindResumable, Serving, Recovery, Finds
<1>4. Recovering(<<>>)
  BY PlainNone DEF Recovering, Plain
<1>5. CASE ServeOther \/ ThreadControl \/ ReadRows
  <2>1. PICK push : Recovering(push) /\ Reads(push)
    <3>1. CASE ServeOther
      BY <1>4, <3>1 DEF ServeOther
    <3>2. CASE ThreadControl
      <4>1. Recovering(One("readRows", None, db.thread.control))
        BY RecoveringOne DEF Recovery
      <4> QED
        BY <1>4, <3>2, <4>1 DEF ThreadControl
    <3>3. CASE ReadRows
      <4>1. Recovering(One("setStatus", None, ThreadStatus(db.row, Value)))
        BY RecoveringOne DEF Recovery
      <4> QED
        BY <3>3, <4>1 DEF ReadRows
    <3> QED
      BY <1>5, <3>1, <3>2, <3>3
  <2>2. UNCHANGED <<phase, db>> /\ Answer(push)
    BY <2>1 DEF Reads
  <2>3. Statement[1] \notin Finds
    BY <1>5 DEF ServeOther, ThreadControl, ReadRows, Serving, Finds
  <2>4. Starting(call', db.row)
    BY <1>1, <2>1, <2>2, <2>3, RecoveryAnswer
  <2> QED
    BY <2>2, <2>4
<1>6. CASE SetThreadStatus
  <2>1. PICK rows : rows = [db EXCEPT !.thread.status = Value]
    OBVIOUS
  <2>2. rows.row = db.row
    BY <2>1 DEF RecoveryInv
  <2>3. db' = rows /\ phase' = phase /\ Answer(<<>>) /\ Statement[1] \notin Finds
    BY <1>6, <2>1 DEF SetThreadStatus, Writes, Serving, Finds
  <2>4. Starting(call', db.row)
    BY <1>1, <1>4, <2>3, RecoveryAnswer
  <2> QED
    BY <2>2, <2>3, <2>4
<1>7. CASE FindInterrupted
  <2> DEFINE lives == {s \in Sessions : db.row[s] \in Live}
             found == IF Cardinality(lives) = 0 THEN <<>>
                      ELSE One("interruptRows", None, None) \o Other \o RecomputeThread
  <2>1. PICK push : push = found \o One("started", None, None)
    OBVIOUS
  <2>2. UNCHANGED <<phase, db>> /\ Answer(push)
    BY <1>7, <2>1 DEF FindInterrupted, Reads
  <2>3. /\ Recovering(One("started", None, None)) /\ Recovering(Other)
        /\ Recovering(RecomputeThread) /\ Recovering(One("interruptRows", None, None))
        /\ Head(One("interruptRows", None, None))[1] = "interruptRows"
        /\ One("interruptRows", None, None) # <<>>
    BY RecoveringOne DEF Recovery, Finds, Other, RecomputeThread, One
  <2>4. CASE Cardinality(lives) = 0
    <3>1. IsFiniteSet(lives)
      BY RegistryAssumption, FS_Subset
    <3>2. lives = {}
      BY <2>4, <3>1, FS_EmptySet
    <3>3. NobodyLives(db.row)
      BY <3>2 DEF NobodyLives
    <3>4. Recovering(push)
      BY <1>4, <2>1, <2>3, <2>4, RecoveringJoined
    <3>5. Starting(call', db.row)
      BY <1>1, <2>2, <3>3, <3>4, RecoveryAnswer
    <3> QED
      BY <2>2, <3>5
  <2>5. CASE Cardinality(lives) # 0
    <3>1. PICK p, q : p = One("interruptRows", None, None) /\ q = p \o Other
      OBVIOUS
    <3>2. Recovering(q) /\ q # <<>> /\ Head(q)[1] = "interruptRows"
      BY <2>3, <3>1, RecoveringJoined
    <3>3. PICK r : r = q \o RecomputeThread
      OBVIOUS
    <3>4. Recovering(r) /\ r # <<>> /\ Head(r)[1] = "interruptRows"
      BY <2>3, <3>2, <3>3, RecoveringJoined
    <3>5. push = r \o One("started", None, None)
      BY <2>1, <2>5, <3>1, <3>3
    <3>6. Recovering(push) /\ push # <<>> /\ Head(push)[1] = "interruptRows"
      BY <2>3, <3>4, <3>5, RecoveringJoined
    <3>7. Starting(call', db.row)
      BY <1>1, <2>2, <3>6, RecoveryAnswer DEF Finds
    <3> QED
      BY <2>2, <3>7
  <2> QED
    BY <2>4, <2>5
<1>8. CASE InterruptRows
  <2>1. PICK rows : rows = [db EXCEPT !.row = [s \in Sessions |->
                                 IF @[s] \in Live THEN "interrupted" ELSE @[s]]]
    OBVIOUS
  <2>2. NobodyLives(rows.row)
    BY <2>1 DEF RecoveryInv, NobodyLives, Live
  <2>3. db' = rows /\ phase' = phase /\ Answer(<<>>)
    BY <1>8, <2>1 DEF InterruptRows, Writes
  <2>4. Starting(call', rows.row)
    BY <1>1, <1>4, <2>2, <2>3, RecoveryAnswer
  <2> QED
    BY <2>3, <2>4
<1>9. CASE Started
  <2>1. db' = db /\ phase' = "up" /\ Answer(<<>>) /\ Statement[1] \notin Finds
    BY <1>9 DEF Started, Serving, Finds
  <2>2. Starting(call', db.row)
    BY <1>1, <1>4, <2>1, RecoveryAnswer
  <2> QED
    BY <1>2, <2>1, <2>2
<1> QED
  BY <1>3, <1>5, <1>6, <1>7, <1>8, <1>9
LEMMA StartUpRecovers ==
  ASSUME IInv, RecoveryInv, StartUp PROVE RecoveryInv'
<1>1. /\ call = [c \in Calls |-> Free] /\ db' = db /\ phase' = "starting"
      /\ Launch(<< <<One("findInterrupted", None, None)>> >>)
  BY DEF StartUp, RecoveryInv
<1>2. PICK p, b : p = One("findInterrupted", None, None) /\ b = <<p>>
  OBVIOUS
<1>3. Recovering(p) /\ Head(p)[1] = "findInterrupted"
  BY <1>2, RecoveringOne DEF Recovery, Finds
<1>4. PICK v : v = Begun(<<b>>)
  OBVIOUS
<1>5. v.next = <<>> /\ \A i \in DOMAIN v.par : v.par[i] = p
  <2>1. PICK blocks : blocks = <<b>>
    OBVIOUS
  <2> DEFINE Start(k) == [i \in DOMAIN blocks[k] |-> Issue(blocks[k][i])]
             busy == {k \in DOMAIN blocks :
                        \E i \in DOMAIN blocks[k] : Start(k)[i] # <<>>}
  <2>2. DOMAIN blocks = {1} /\ blocks[1] = b /\ DOMAIN b = {1} /\ b[1] = p /\ Len(blocks) = 1
    BY <1>2, <2>1
  <2>3. Issue(p) = p
    BY <1>3, RecoveringIssue
  <2>4. p # <<>>
    BY <1>2 DEF One
  <2>5. Start(1) = [i \in {1} |-> p]
    BY <2>2, <2>3
  <2>6. busy = {1}
    BY <2>2, <2>4, <2>5
  <2>7. PICK m, n : m = Min(busy) /\ n = Len(blocks)
    OBVIOUS
  <2>8. m = 1
    <3>1. Min({1}) \in {1}
      BY MinIn
    <3> QED
      BY <2>6, <2>7, <3>1
  <2>9. busy # {}
    BY <2>6
  <2>10. v = [par |-> Start(m), next |-> SubSeq(blocks, m + 1, n)]
    <3>1. v = Begun(blocks)
      BY <1>4, <2>1
    <3>2. Begun(blocks) = [par |-> Start(m), next |-> SubSeq(blocks, m + 1, n)]
      BY <2>7, <2>9 DEF Begun
    <3> QED
      BY <3>1, <3>2
  <2>11. SubSeq(blocks, m + 1, n) = <<>>
    <3>1. SubSeq(<<b>>, 2, 1) = <<>>
      OBVIOUS
    <3>2. m + 1 = 2 /\ n = 1
      BY <2>2, <2>7, <2>8
    <3> QED
      BY <2>1, <3>1, <3>2, Zenon
  <2> QED
    BY <2>5, <2>8, <2>10, <2>11
<1>6. PICK c \in Calls : Become(Begin(Now, c, <<b>>))
  BY <1>1, <1>2 DEF Launch, Least, FreeCalls
<1>7. call' = [call EXCEPT ![c] = v]
  <2>1. PICK g, S : g = [call EXCEPT ![c] = v] /\ S = Asking(v.par)
    OBVIOUS
  <2>2. PICK st : st = Begin(Now, c, <<b>>)
    OBVIOUS
  <2>3. st = [call |-> g, queue |-> Enqueue(queue, c, S)]
    BY <1>4, <2>1, <2>2 DEF Begin, Now
  <2>4. st.call = g
    BY <2>3
  <2> QED
    BY <1>6, <2>1, <2>2, <2>4 DEF Become
<1>8. ASSUME NEW d \in Calls
      PROVE /\ call'[d].next = <<>>
            /\ \A i \in DOMAIN call'[d].par : Recovers(call'[d].par[i], db'.row)
  <2>1. CASE d = c
    BY <1>1, <1>3, <1>5, <1>7, <2>1 DEF Recovers, Finds
  <2>2. CASE d # c
    <3>1. call'[d] = Free
      BY <1>1, <1>7, <2>2
    <3> QED
      BY <3>1 DEF Free
  <2> QED
    BY <2>1, <2>2
<1> QED
  BY <1>1, <1>8 DEF RecoveryInv, Starting

(* No other step begins or joins the recovery.                             *)
LEMMA RowsStay == [Next]_vars /\ "row" \in DOMAIN db => "row" \in DOMAIN db'
<1> SUFFICES ASSUME [Next]_vars, "row" \in DOMAIN db PROVE "row" \in DOMAIN db'
  OBVIOUS
<1>1. CASE Serve
  BY <1>1
  DEF Serve, ServeOther, FindRow, SetRow, AddThread, ReadThread, SetThread,
      ArchiveThread, ReopenThread, ThreadControl, ReadRows, SetThreadStatus,
      FindNode, SetNode, AddDependency, ReadGraph, AddClaim, FindClaim, EndClaim,
      SetJob, ServeExpect, AddEvidence, ReadyVerifiers, BeginRun, Evaluate, Decide,
      Release, FinishCheck, FindLive, FindResumable, FindInterrupted,
      InterruptRows, Started, Reads, Writes, Accepts, InMemory
<1>2. ASSUME NEW c \in Calls, Answered(c) PROVE db' = db
  BY <1>2 DEF Answered, Reported, Validated, FollowedUp, Halted, Prompted, Respawned,
              Cleared, InMemory, Register
<1>3. ASSUME NEW s \in Sessions, RegisterTask(s) \/ Befall(s) PROVE db' = db
  BY <1>3 DEF RegisterTask, Befall, Touched, Complete, SessionStopped, SessionErred,
              SessionReplaced, Register
<1>4. CASE User \/ PlanThread \/ ProcessEnds \/ StartUp
  BY <1>4 DEF User, PauseThread, ResumeThread, Archive, Reopen, Shutdown, PlanThread,
              ProcessEnds, StartUp
<1>5. CASE UNCHANGED vars
  BY <1>5 DEF vars
<1> QED
  BY <1>1, <1>2, <1>3, <1>4, <1>5 DEF Next

LEMMA RecoveryAlone ==
  ASSUME IInv, RecoveryInv, Next, ~Serve, ~StartUp, ~ProcessEnds
  PROVE  phase \notin {"down", "starting"} /\ phase' \notin {"down", "starting"}
<1>1. ASSUME NEW c \in Calls, Answered(c)
      PROVE  phase \notin {"down", "starting"} /\ phase' \notin {"down", "starting"}
  <2>1. PICK i \in DOMAIN call[c].par :
          call[c].par[i] # <<>> /\ Head(call[c].par[i])[1] \in Outside
    <3>1. PICK i \in DOMAIN call[c].par :
            \/ Reported(c, i) \/ Validated(c, i) \/ FollowedUp(c, i) \/ Halted(c, i)
            \/ Prompted(c, i) \/ Respawned(c, i) \/ Cleared(c, i)
      BY <1>1 DEF Answered
    <3>2. call[c].par[i] # <<>> /\ Head(call[c].par[i])[1] \in Outside
      BY <3>1 DEF Reported, Validated, FollowedUp, Halted, Prompted, Respawned,
                  Cleared, Waits, Outside
    <3> QED
      BY <3>2
  <2>2. phase # "down"
    BY <2>1 DEF RecoveryInv, Free
  <2>3. phase # "starting"
    <3>1. SUFFICES ASSUME phase = "starting" PROVE FALSE
      OBVIOUS
    <3>2. /\ Recovers(call[c].par[i], db.row) /\ call[c].par[i] # <<>>
          /\ Head(call[c].par[i])[1] \in Outside
      BY <2>1, <3>1 DEF RecoveryInv, Starting
    <3> QED
      BY <3>2, RecoveringTail DEF Recovers, Recovery, Finds, Outside
  <2>4. phase' \in {phase, "stopped"}
    BY <1>1 DEF Answered, Reported, Validated, FollowedUp, Halted, Prompted, Respawned,
                Cleared, InMemory, Register
  <2> QED
    BY <2>2, <2>3, <2>4
<1>2. ASSUME NEW s \in Sessions, RegisterTask(s) \/ Befall(s)
      PROVE  phase \notin {"down", "starting"} /\ phase' = phase
  BY <1>2 DEF RegisterTask, Befall, Touched, Complete, SessionStopped, SessionErred,
              SessionReplaced, Register, Befalls, Listening
<1>3. CASE User \/ PlanThread
  BY <1>3 DEF User, PauseThread, ResumeThread, Archive, Reopen, Shutdown, PlanThread, Act
<1> QED
  BY <1>1, <1>2, <1>3 DEF Next

LEMMA RecoveryKeeps == IInv /\ RecoveryInv /\ [Next]_vars => RecoveryInv' /\ RecoveryEnds
<1> SUFFICES ASSUME IInv, RecoveryInv, [Next]_vars PROVE RecoveryInv' /\ RecoveryEnds
  OBVIOUS
<1>1. "row" \in DOMAIN db'
  BY RowsStay DEF RecoveryInv
<1>2. CASE Serve
  <2>1. CASE phase = "starting"
    BY <1>1, <1>2, <2>1, RecoveryServes DEF RecoveryInv, RecoveryEnds
  <2>2. CASE phase # "starting"
    <3>1. phase' \in {phase, "up"}
      BY <1>2
      DEF Serve, ServeOther, FindRow, SetRow, AddThread, ReadThread, SetThread,
          ArchiveThread, ReopenThread, ThreadControl, ReadRows, SetThreadStatus,
          FindNode, SetNode, AddDependency, ReadGraph, AddClaim, FindClaim, EndClaim,
          SetJob, ServeExpect, AddEvidence, ReadyVerifiers, BeginRun, Evaluate, Decide,
          Release, FinishCheck, FindLive, FindResumable, FindInterrupted,
          InterruptRows, Started, Reads, Writes, Accepts, InMemory
    <3>2. phase # "down"
      <4>1. SUFFICES ASSUME phase = "down" PROVE FALSE
        OBVIOUS
      <4>2. Turn[1] \in Calls /\ Turn[2] \in DOMAIN call[Turn[1]].par
        <5>1. queue # <<>>
          BY <1>2, ServeAsked
        <5> QED
          BY <5>1, TurnSound DEF IInv, Calm
      <4> QED
        BY <4>1, <4>2 DEF RecoveryInv, Free
    <3> QED
      BY <1>1, <2>2, <3>1, <3>2 DEF RecoveryInv, RecoveryEnds
  <2> QED
    BY <2>1, <2>2
<1>3. CASE StartUp
  BY <1>3, StartUpRecovers DEF StartUp, RecoveryEnds
<1>4. CASE ProcessEnds
  BY <1>1, <1>4 DEF ProcessEnds, RecoveryInv, RecoveryEnds
<1>5. CASE Next /\ ~Serve /\ ~StartUp /\ ~ProcessEnds
  BY <1>1, <1>5, RecoveryAlone DEF RecoveryInv, RecoveryEnds
<1>6. CASE UNCHANGED vars
  BY <1>1, <1>6 DEF vars, RecoveryInv, RecoveryEnds
<1> QED
  BY <1>2, <1>3, <1>4, <1>5, <1>6

(* From the end of a start on, no session that lived before it is believed *)
(* to live: recoverInterruptedTasks is over when start() is, and no call of*)
(* the process that ended writes a row any more.                           *)
THEOREM RecoveryInterruptsAll == Spec => [][RecoveryEnds]_vars
<1>1. Init => RecoveryInv
  BY DEF Init, EmptyTables, RecoveryInv
<1>2. IInv /\ RecoveryInv /\ [Next]_vars => RecoveryInv' /\ [RecoveryEnds]_vars
  BY RecoveryKeeps
<1> QED
  BY <1>1, <1>2, RegistryInvariant, PTL DEF Spec
=============================================================================
