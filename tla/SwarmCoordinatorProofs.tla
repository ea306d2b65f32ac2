------------------------ MODULE SwarmCoordinatorProofs ------------------------
(***************************************************************************)
(* Proofs about SwarmCoordinator, for every set of prompts and settings.   *)
(* The first invariant says who holds the lock of a session, and that who  *)
(* holds it will drain both of its buffers unless it checks the session for*)
(* being idle; the second who stops a task that was completed; the third   *)
(* which prompts wait where.  What they are for is that nothing put off is *)
(* left to nobody, and that the end of a swarm is followed up.             *)
(***************************************************************************)
EXTENDS SwarmCoordinator, FiniteSetTheorems, TLAPS

Buffers == {"blocked", "turn"}
Has(q, w) == \E i \in DOMAIN q : q[i] = w

IsJob(r) ==
  r = [pc |-> r.pc, s |-> r.s, kind |-> r.kind, lock |-> r.lock,
       after |-> r.after, prompt |-> r.prompt, act |-> r.act, ref |-> r.ref,
       n |-> r.n]

(* What an activation is at each of its awaits: one that decides holds the *)
(* lock, one that holds it attends to both buffers, and one that has to do *)
(* with a replacement, a login or an idle session has none to drain yet.   *)
Sound(r) ==
  /\ IsJob(r) /\ r.lock \in BOOLEAN /\ r.after \in Seq(Buffers)
  /\ r.lock => \A w \in Buffers : Attends(r, w)
  /\ r.pc = "assess" => r.lock
  /\ r.pc \in {"drain", "route"} => ~r.lock
  /\ r.pc \in {"free", "recover", "register", "replaced", "login", "idleProbe"} =>
       ~r.lock /\ r.after = <<>>
  /\ r.pc = "drain" => r.after # <<>>
JobsSound == DOMAIN job = Jobs /\ \A j \in Jobs : Sound(job[j])

Holds(j, s) == job[j].lock /\ job[j].s = s
LockHeld == \A s \in inFlight : \E j \in Jobs : Holds(j, s)

(* What is said of the sessions of C, whoever they are: none or one.       *)
BufferedOf(C) == \A s \in C : PutOffIsAttended(s)
Kept(C) == \A s \in C : ~IdleCheckEnds(s)
DrainInv(C) ==
  /\ JobsSound /\ LockHeld
  /\ DOMAIN pendingBlocked = Sessions /\ BufferedOf(C)

(* The activation j changes, and no other.                                 *)
Only(j) == DOMAIN job' = Jobs /\ \A k \in Jobs \ {j} : job'[k] = job[k]

(* A step that changes activations leaves them sound and their locks held, *)
(* and leaves no buffer that one of them attended to to nobody.            *)
Carried(C) ==
  /\ JobsSound' /\ LockHeld'
  /\ \A s \in C, w \in Buffers : Attended(s, w) => Attended(s, w)'

(* Two drains are a drain of either.                                       *)
LEMMA BothDrained ==
  /\ <<"blocked", "turn">> \in Seq(Buffers) /\ <<"turn", "blocked">> \in Seq(Buffers)
  /\ \A w \in Buffers : /\ Has(<<"blocked", "turn">>, w)
                        /\ Has(<<"turn", "blocked">>, w)
<1>1. /\ <<"blocked", "turn">> \in Seq(Buffers)
      /\ <<"turn", "blocked">> \in Seq(Buffers)
  BY DEF Buffers
<1>2. ASSUME NEW a, NEW b PROVE Has(<<a, b>>, a) /\ Has(<<a, b>>, b)
  <2>1. 1 \in DOMAIN <<a, b>> /\ 2 \in DOMAIN <<a, b>>
        /\ <<a, b>>[1] = a /\ <<a, b>>[2] = b
    OBVIOUS
  <2> QED
    BY <2>1 DEF Has
<1> QED
  BY <1>1, <1>2 DEF Buffers

(* What is not the first drain is one of the rest.                         *)
LEMMA RestDrained ==
  ASSUME NEW q \in Seq(Buffers), q # <<>>
  PROVE  /\ Head(q) \in Buffers /\ Tail(q) \in Seq(Buffers)
         /\ \A w \in Buffers : Has(q, w) => w = Head(q) \/ Has(Tail(q), w)
<1>1. Head(q) \in Buffers /\ Tail(q) \in Seq(Buffers)
  OBVIOUS
<1>2. ASSUME NEW w \in Buffers, Has(q, w), w # Head(q) PROVE Has(Tail(q), w)
  <2>1. PICK i \in 1 .. Len(q) : q[i] = w
    BY <1>2 DEF Has
  <2>2. i # 1 /\ i - 1 \in 1 .. Len(Tail(q)) /\ Tail(q)[i - 1] = q[i]
    BY <1>2, <2>1
  <2>3. DOMAIN Tail(q) = 1 .. Len(Tail(q))
    BY <1>1
  <2> QED
    BY <2>1, <2>2, <2>3 DEF Has
<1> QED
  BY <1>1, <1>2

(* An activation that is free has nothing to drain.                        *)
LEMMA FreeSound == Sound(Free) /\ \A w : ~Has(<<>>, w)
  BY DEF Sound, Free, Activation, IsJob, Has

(* Without the lock an activation attends to what it has to drain.         *)
LEMMA AttendsUnlocked ==
  ASSUME NEW r, ~r.lock PROVE \A w : Attends(r, w) <=> Has(r.after, w)
  BY DEF Attends, Has

(* One that has to drain a buffer attends to it.                           *)
LEMMA DrainAttends == \A r, w : Has(r.after, w) => Attends(r, w)
  BY DEF Attends, Has

(* There is an activation for who needs one.                               *)
LEMMA NewIsFree ==
  ASSUME Room(1) PROVE NewJob \in Jobs /\ job[NewJob].pc = "free"
<1>1. FreeJobs # {}
  BY FS_EmptySet DEF Room
<1>2. NewJob \in FreeJobs
  BY <1>1 DEF NewJob
<1> QED
  BY <1>2 DEF FreeJobs

(* It holds no lock and has nothing to drain.                              *)
LEMMA RoomForOne ==
  ASSUME JobsSound, Room(1)
  PROVE  /\ NewJob \in Jobs /\ ~job[NewJob].lock /\ job[NewJob].after = <<>>
  BY NewIsFree DEF JobsSound, Sound

(* A change of one activation that keeps its lock or gives it up with its  *)
(* session, or takes one: only what that activation had to drain can be    *)
(* forgotten.                                                              *)
LEMMA JobMoves ==
  ASSUME JobsSound, LockHeld, NEW j \in Jobs, Only(j), Sound(job'[j]),
         \A s \in inFlight' : \/ s \in inFlight /\ ~Holds(j, s)
                              \/ Holds(j, s)'
  PROVE  /\ JobsSound' /\ LockHeld'
         /\ \A s \in Sessions, w \in Buffers :
              /\ Attended(s, w)
              /\ Attends(job[j], w) => job[j].s # s \/ (/\ job'[j].s = job[j].s
                                                       /\ Attends(job'[j], w))
              => Attended(s, w)'
<1>1. JobsSound'
  BY DEF JobsSound, Only
<1>2. ASSUME NEW s \in inFlight' PROVE \E k \in Jobs : Holds(k, s)'
  <2>1. CASE Holds(j, s)'
    BY <2>1
  <2>2. CASE s \in inFlight /\ ~Holds(j, s)
    <3>1. PICK k \in Jobs : Holds(k, s)
      BY <2>2 DEF LockHeld
    <3> QED
      BY <2>2, <3>1 DEF Only, Holds
  <2> QED
    BY <2>1, <2>2
<1>3. ASSUME NEW s \in Sessions, NEW w \in Buffers, Attended(s, w),
             Attends(job[j], w) => job[j].s # s \/ (/\ job'[j].s = job[j].s
                                                   /\ Attends(job'[j], w))
      PROVE  Attended(s, w)'
  <2>1. PICK k \in Jobs : job[k].s = s /\ Attends(job[k], w)
    BY <1>3 DEF Attended
  <2>2. job'[k].s = s /\ Attends(job'[k], w)
    BY <1>3, <2>1 DEF Only
  <2> QED
    BY <2>2 DEF Attended, Attends
<1> QED
  BY <1>1, <1>2, <1>3 DEF LockHeld

(* Nothing is forgotten if the activation still attends to what it did.    *)
LEMMA JobChanges ==
  ASSUME NEW C \in SUBSET Sessions, JobsSound, LockHeld, NEW j \in Jobs,
         Only(j), Sound(job'[j]),
         \A w \in Buffers : Attends(job[j], w) =>
           \/ job[j].s \notin C
           \/ job'[j].s = job[j].s /\ Attends(job'[j], w),
         \A s \in inFlight' : \/ s \in inFlight /\ ~Holds(j, s)
                              \/ Holds(j, s)'
  PROVE  Carried(C)
  BY JobMoves DEF Carried

(* The activation goes on to another await, with what it had to drain.     *)
LEMMA GoesOn ==
  ASSUME NEW C \in SUBSET Sessions, JobsSound, LockHeld, NEW j \in Jobs,
         Only(j), IsJob(job'[j]), job'[j].kind = job[j].kind \/ ~job[j].lock,
         job'[j].lock = job[j].lock, job'[j].after = job[j].after,
         job'[j].s = job[j].s, UNCHANGED inFlight,
         \/ job'[j].pc \in {"sending", "summarize", "validate", "retrySend",
                            "followUp", "unproven", "closing"}
         \/ /\ job[j].pc \in {"recover", "register", "login"}
            /\ job'[j].pc \in {"recover", "register", "replaced"}
  PROVE  Carried(C)
<1>1. Sound(job[j])
  BY DEF JobsSound
<1>2. \A w : Attends(job[j], w) => Attends(job'[j], w)
  BY DEF Attends
<1>3. Sound(job'[j])
  BY <1>1, <1>2 DEF Sound
<1>4. \A s : Holds(j, s) => Holds(j, s)'
  BY DEF Holds
<1> QED
  BY <1>2, <1>3, <1>4, JobChanges

(* What is left of an activation that has only to drain.                   *)
LEMMA Rest ==
  ASSUME NEW s, NEW rest \in Seq(Buffers)
  PROVE  /\ Sound(After(s, rest)) /\ ~After(s, rest).lock
         /\ \A w : Has(rest, w) => After(s, rest).s = s /\ Has(After(s, rest).after, w)
<1>1. CASE rest = <<>>
  BY <1>1, FreeSound DEF After, Free, Activation
<1>2. CASE rest # <<>>
  <2>1. After(s, rest) = [pc |-> "drain", s |-> s, kind |-> "none", lock |-> FALSE,
                          after |-> rest, prompt |-> None, act |-> "ignore",
                          ref |-> {}, n |-> 0]
    BY <1>2 DEF After, Free, Activation
  <2>2. Sound(After(s, rest))
    BY <1>2, <2>1 DEF Sound, IsJob
  <2> QED
    BY <2>1, <2>2
<1> QED
  BY <1>1, <1>2

(* A decision just begun holds the lock and will drain both buffers.       *)
LEMMA Begun ==
  ASSUME NEW s, NEW kind, NEW p,
         NEW rest \in {<<"blocked", "turn">>, <<"turn", "blocked">>}
  PROVE  /\ Sound(Locked(s, kind, p, rest))
         /\ Locked(s, kind, p, rest).lock /\ Locked(s, kind, p, rest).s = s
         /\ \A w \in Buffers : Has(Locked(s, kind, p, rest).after, w)
<1>1. rest \in Seq(Buffers) /\ \A w \in Buffers : Has(rest, w)
  BY BothDrained
<1>2. \A w \in Buffers : Has(Locked(s, kind, p, rest).after, w)
  BY <1>1 DEF Locked
<1> QED
  BY <1>1, <1>2, DrainAttends DEF Locked, Sound, IsJob

(* A decision that ends lets go of its session and drains what it has to.  *)
LEMMA Ends ==
  ASSUME NEW C \in SUBSET Sessions, Kept(C), JobsSound, LockHeld,
         NEW j \in Jobs, Finally(j)
  PROVE  /\ Carried(C) /\ Only(j)
         /\ \A w : Has(job[j].after, w) =>
              job'[j].s = job[j].s /\ Has(job'[j].after, w)
<1>1. job[j].after \in Seq(Buffers)
  BY DEF JobsSound, Sound
<1>2. Only(j) /\ job'[j] = After(job[j].s, job[j].after)
  BY DEF Finally, JobsSound, Only
<1>3. \A s \in inFlight' : s \in inFlight /\ ~Holds(j, s)
  BY DEF Finally, Holds
<1>4. /\ Sound(job'[j])
      /\ \A w : Has(job[j].after, w) =>
           job'[j].s = job[j].s /\ Has(job'[j].after, w)
  BY <1>1, <1>2, Rest
<1>5. ~job'[j].lock
  BY <1>1, <1>2, Rest
<1>6. job[j].kind = "idle" /\ job[j].lock => job[j].s \notin C
  BY <1>5 DEF Kept, IdleCheckEnds
<1>7. ASSUME NEW w \in Buffers, Attends(job[j], w), job[j].s \in C
      PROVE  job'[j].s = job[j].s /\ Attends(job'[j], w)
  <2>1. Has(job[j].after, w)
    BY <1>6, <1>7 DEF Attends, Has
  <2> QED
    BY <1>4, <2>1, DrainAttends
<1> QED
  BY <1>2, <1>3, <1>4, <1>7, JobChanges

(* The buffers of a step that leaves them alone are still to be drained.   *)
LEMMA StillDrained ==
  ASSUME NEW C \in SUBSET Sessions, DrainInv(C), Carried(C),
         UNCHANGED <<pendingTurn, pendingBlocked, deferred>>
  PROVE  DrainInv(C)'
<1>1. BufferedOf(C)'
  BY DEF DrainInv, Carried, BufferedOf, PutOffIsAttended, Buffers
<1> QED
  BY <1>1 DEF DrainInv, Carried

(* So are those of a step that leaves the activations alone too, and may   *)
(* let go of a session.                                                    *)
LEMMA Untouched ==
  ASSUME NEW C \in SUBSET Sessions, DrainInv(C),
         UNCHANGED <<job, pendingTurn, pendingBlocked, deferred>>,
         inFlight' \subseteq inFlight
  PROVE  DrainInv(C)'
<1>1. JobsSound' /\ LockHeld'
  BY DEF DrainInv, JobsSound, LockHeld, Holds
<1>2. Carried(C)
  BY <1>1 DEF Carried, Attended, Attends
<1> QED
  BY <1>2, StillDrained

(* An activation that begins with nothing to drain.                        *)
LEMMA Starts ==
  ASSUME NEW C \in SUBSET Sessions, DrainInv(C), NEW j \in Jobs, Only(j),
         ~job[j].lock, job[j].after = <<>>, Sound(job'[j]),
         UNCHANGED <<inFlight, pendingTurn, pendingBlocked, deferred>>
  PROVE  DrainInv(C)'
<1>1. \A w : ~Attends(job[j], w)
  BY FreeSound, AttendsUnlocked
<1>2. \A s : ~Holds(j, s)
  BY DEF Holds
<1>3. Carried(C)
  BY <1>1, <1>2, JobChanges DEF DrainInv
<1> QED
  BY <1>3, StillDrained

(* Of the buffered prompts only that of s changes, while s is decided about.*)
PutsOff(s, buffered) ==
  \A x \in Sessions : \/ pendingBlocked'[x] = buffered[x]
                      \/ x = s /\ s \in inFlight

(* handleBlocked of a session that is being decided about puts the prompt  *)
(* off only where somebody will take it.                                   *)
LEMMA BlockedEffect ==
  ASSUME JobsSound, NEW j \in Jobs, NEW s, NEW p, NEW t,
         NEW rest \in Seq(Buffers), NEW buffered, DOMAIN buffered = Sessions,
         HandleBlocked(j, s, p, rest, t, buffered)
  PROVE  /\ Only(j) /\ Sound(job'[j]) /\ UNCHANGED inFlight
         /\ \A w : Has(rest, w) => job'[j].s = s /\ Has(job'[j].after, w)
         /\ DOMAIN pendingBlocked' = Sessions
         /\ PutsOff(s, buffered)
<1>1. CASE HandleKnown(j, s, p, rest, t) /\ pendingBlocked' = buffered
  <2>1. Only(j) /\ job'[j] = After(s, rest)
    BY <1>1 DEF HandleKnown, End, JobsSound, Only
  <2> QED
    BY <1>1, <2>1, Rest DEF HandleKnown, PutsOff
<1>2. CASE HandleRoutine(j, s, p, rest, t) /\ pendingBlocked' = buffered
  <2>1. /\ Only(j)
        /\ job'[j] = [pc |-> "answer", s |-> s, kind |-> "fast", lock |-> FALSE,
                      after |-> rest, prompt |-> None, act |-> "respond",
                      ref |-> {}, n |-> 0]
    BY <1>2 DEF HandleRoutine, JobsSound, Only, Free, Activation
  <2>2. Sound(job'[j])
    BY <2>1 DEF Sound, IsJob
  <2> QED
    BY <1>2, <2>1, <2>2 DEF HandleRoutine, PutsOff
<1>3. CASE HandleUndecided(j, s, p, rest, t, buffered)
  <2>1. CASE s \in inFlight
    <3>1. Only(j) /\ job'[j] = After(s, rest)
      BY <1>3, <2>1 DEF HandleUndecided, End, JobsSound, Only
    <3> QED
      BY <1>3, <2>1, <3>1, Rest DEF HandleUndecided, PutsOff
  <2>2. CASE s \notin inFlight
    <3>1. /\ Only(j)
          /\ job'[j] = [pc |-> "route", s |-> s, kind |-> "none", lock |-> FALSE,
                        after |-> rest, prompt |-> p, act |-> "ignore",
                        ref |-> {}, n |-> 0]
      BY <1>3, <2>2 DEF HandleUndecided, JobsSound, Only, Free, Activation
    <3>2. Sound(job'[j])
      BY <3>1 DEF Sound, IsJob
    <3> QED
      BY <1>3, <2>2, <3>1, <3>2 DEF HandleUndecided, PutsOff
  <2> QED
    BY <2>1, <2>2
<1> QED
  BY <1>1, <1>2, <1>3 DEF HandleBlocked

(* handleTurnComplete puts a turn off only where a timer or somebody who   *)
(* decides will take it, or decides itself.                                *)
LEMMA TurnEffect ==
  ASSUME JobsSound, NEW j \in Jobs, NEW s,
         NEW rest \in Seq(Buffers), HandleTurnComplete(j, s, rest)
  PROVE  /\ Only(j) /\ Sound(job'[j])
         /\ \A w \in Buffers : Has(rest, w) => job'[j].s = s /\ Has(job'[j].after, w)
         /\ \A x \in inFlight' : x \in inFlight \/ Holds(j, x)'
         /\ s \in pendingTurn' => s \in deferred' \/ s \in inFlight
         /\ \A x \in Sessions \ {s} :
              /\ x \in pendingTurn' <=> x \in pendingTurn
              /\ x \in deferred' <=> x \in deferred
<1>1. CASE s \in inFlight \/ task[s].cooldown
  <2>1. Only(j) /\ job'[j] = After(s, rest)
    BY <1>1 DEF HandleTurnComplete, End, JobsSound, Only
  <2> QED
    BY <1>1, <2>1, Rest DEF HandleTurnComplete
<1>2. CASE s \notin inFlight /\ ~task[s].cooldown
  <2>1. Only(j) /\ job'[j] = Locked(s, "turn", None, <<"blocked", "turn">>)
    BY <1>2 DEF HandleTurnComplete, JobsSound, Only
  <2> QED
    BY <1>2, <2>1, Begun DEF HandleTurnComplete, Holds
<1> QED
  BY <1>1, <1>2

(* Whoever holds the lock of a session drains its buffers, and goes on to  *)
(* do so when another activation takes a step.                             *)
LEMMA HolderDrains ==
  ASSUME JobsSound, LockHeld, NEW s \in inFlight, NEW w \in Buffers
  PROVE  /\ Attended(s, w)
         /\ \A j \in Jobs : Only(j) /\ ~job[j].lock => Attended(s, w)'
<1>1. PICK k \in Jobs : Holds(k, s)
  BY DEF LockHeld
<1>2. Attends(job[k], w)
  BY <1>1 DEF JobsSound, Sound, Holds
<1>3. ASSUME NEW j \in Jobs, Only(j), ~job[j].lock PROVE Attended(s, w)'
  <2>1. job'[k] = job[k]
    BY <1>1, <1>3 DEF Only, Holds
  <2> QED
    BY <1>1, <1>2, <2>1 DEF Attended, Attends, Holds
<1> QED
  BY <1>1, <1>2, <1>3 DEF Attended, Holds

(* Of the activation that drains a buffer only that buffer needs another   *)
(* to take care of it.                                                     *)
LEMMA Takes ==
  ASSUME JobsSound, LockHeld, NEW j \in Jobs, job[j].pc = "drain",
         Only(j), Sound(job'[j]),
         \A w \in Buffers : Has(Tail(job[j].after), w) =>
           job'[j].s = job[j].s /\ Has(job'[j].after, w),
         \A s \in inFlight' : s \in inFlight \/ Holds(j, s)'
  PROVE  /\ JobsSound' /\ LockHeld'
         /\ \A s \in Sessions, w \in Buffers :
              Attended(s, w) => \/ Attended(s, w)'
                                \/ s = job[j].s /\ w = Head(job[j].after)
         /\ \A s \in inFlight, w \in Buffers : Attended(s, w)'
<1>1. /\ ~job[j].lock /\ job[j].after \in Seq(Buffers) /\ job[j].after # <<>>
  BY DEF JobsSound, Sound
<1>2. \A w \in Buffers :
        Has(job[j].after, w) => w = Head(job[j].after) \/ Has(Tail(job[j].after), w)
  BY <1>1, RestDrained
<1>3. \A s : ~Holds(j, s)
  BY <1>1 DEF Holds
<1>4. \A s \in inFlight, w \in Buffers : Attended(s, w)'
  BY <1>1, HolderDrains
<1>5. \A w \in Buffers : Attends(job[j], w) =>
        w = Head(job[j].after) \/ (job'[j].s = job[j].s /\ Attends(job'[j], w))
  BY <1>1, <1>2, AttendsUnlocked, DrainAttends
<1>6. \A s \in inFlight' : (s \in inFlight /\ ~Holds(j, s)) \/ Holds(j, s)'
  BY <1>3
<1>7. /\ JobsSound' /\ LockHeld'
      /\ \A s \in Sessions, w \in Buffers :
           /\ Attended(s, w)
           /\ Attends(job[j], w) => job[j].s # s \/ (/\ job'[j].s = job[j].s
                                                    /\ Attends(job'[j], w))
           => Attended(s, w)'
  BY <1>6, JobMoves
<1> QED
  BY <1>4, <1>5, <1>7

(* Executing a decision: the activation waits for what it did, or is over. *)
LEMMA Executes ==
  ASSUME NEW C \in SUBSET Sessions, Kept(C), JobsSound, LockHeld,
         NEW j \in Jobs, NEW d, NEW t, Execute(j, d, t)
  PROVE  Carried(C)
<1>1. CASE d \in {"escalate", "ignore"} /\ Done(j, d, pty)
  BY <1>1, Ends DEF Done
<1>2. ASSUME NEW pc \in {"sending", "summarize"}, UNCHANGED inFlight,
             job' = [job EXCEPT ![j].pc = pc, ![j].act = d,
                                ![j].ref = tasks \cap {job[j].s}]
      PROVE  Carried(C)
  <2>1. /\ Only(j)
        /\ job'[j] = [job[j] EXCEPT !.pc = pc, !.act = d,
                                    !.ref = tasks \cap {job[j].s}]
    BY <1>2 DEF JobsSound, Only
  <2>2. IsJob(job[j])
    BY DEF JobsSound, Sound
  <2>3. /\ IsJob(job'[j]) /\ job'[j].pc = pc /\ job'[j].lock = job[j].lock
        /\ job'[j].kind = job[j].kind /\ job'[j].after = job[j].after /\ job'[j].s = job[j].s
    BY <2>1, <2>2 DEF IsJob
  <2> QED
    BY <1>2, <2>1, <2>3, GoesOn
<1> QED
  BY <1>1, <1>2 DEF Execute

(* The activation goes on, with another note of what it is about, and the  *)
(* buffers stay.                                                           *)
LEMMA Rewritten ==
  ASSUME NEW C \in SUBSET Sessions, DrainInv(C), NEW j \in Jobs, Only(j),
         NEW pc, NEW n, NEW kind, NEW ref,
         \/ job'[j] = [job[j] EXCEPT !.pc = pc]
         \/ job'[j] = [job[j] EXCEPT !.pc = pc, !.n = n]
         \/ job'[j] = [job[j] EXCEPT !.pc = pc, !.kind = kind] /\ ~job[j].lock
         \/ job'[j] = [job[j] EXCEPT !.pc = pc, !.ref = ref],
         UNCHANGED <<inFlight, pendingTurn, pendingBlocked, deferred>>,
         \/ pc \in {"sending", "summarize", "validate", "retrySend",
                    "followUp", "unproven", "closing"}
         \/ /\ job[j].pc \in {"recover", "register", "login"}
            /\ pc \in {"recover", "register", "replaced"}
  PROVE  DrainInv(C)'
<1>1. IsJob(job[j])
  BY DEF DrainInv, JobsSound, Sound
<1>2. /\ IsJob(job'[j]) /\ job'[j].pc = pc /\ job'[j].lock = job[j].lock
      /\ job'[j].kind = job[j].kind \/ ~job[j].lock
      /\ job'[j].after = job[j].after /\ job'[j].s = job[j].s
  BY <1>1 DEF IsJob
<1>3. Carried(C)
  BY <1>2, GoesOn DEF DrainInv
<1> QED
  BY <1>3, StillDrained

(* It only goes on to another await.                                       *)
LEMMA Moves ==
  ASSUME NEW C \in SUBSET Sessions, DrainInv(C), NEW j \in Jobs, NEW pc, Goto(j, pc),
         UNCHANGED <<inFlight, pendingTurn, pendingBlocked, deferred>>,
         \/ pc \in {"sending", "summarize", "validate", "retrySend",
                    "followUp", "unproven", "closing"}
         \/ /\ job[j].pc \in {"recover", "register", "login"}
            /\ pc \in {"recover", "register", "replaced"}
  PROVE  DrainInv(C)'
<1>1. Only(j) /\ job'[j] = [job[j] EXCEPT !.pc = pc]
  BY DEF DrainInv, JobsSound, Only, Goto
<1> QED
  BY <1>1, Rewritten

(* An activation without drains is over.                                   *)
LEMMA LetsGo ==
  ASSUME NEW C \in SUBSET Sessions, DrainInv(C), NEW j \in Jobs,
         job[j].pc \in {"recover", "replaced", "login", "idleProbe"},
         job' = [job EXCEPT ![j] = Free],
         UNCHANGED <<inFlight, pendingTurn, pendingBlocked, deferred>>
  PROVE  DrainInv(C)'
<1>1. Sound(job[j])
  BY DEF DrainInv, JobsSound
<1>2. /\ job[j].after = <<>> /\ ~job[j].lock
  BY <1>1 DEF Sound
<1>3. Only(j) /\ job'[j] = Free
  BY DEF DrainInv, JobsSound, Only
<1> QED
  BY <1>2, <1>3, FreeSound, Starts

(* A finally block drains one of its buffers.                              *)
LEMMA DrainDrains ==
  ASSUME NEW C \in SUBSET Sessions, DrainInv(C), NEW j \in Jobs, Drain(j)
  PROVE  DrainInv(C)'
<1>1. /\ JobsSound /\ LockHeld /\ job[j].pc = "drain"
      /\ DOMAIN pendingBlocked = Sessions /\ BufferedOf(C)
  BY DEF DrainInv, Drain
<1>2. PICK s, rest, what, p, t, buffered :
        /\ s = job[j].s /\ rest = Tail(job[j].after) /\ what = Head(job[j].after)
        /\ p = pendingBlocked[s] /\ t = task
        /\ buffered = [pendingBlocked EXCEPT ![s] = None]
  OBVIOUS
<1> rest \in Seq(Buffers)
  BY <1>1, <1>2, RestDrained DEF JobsSound, Sound
<1>3. ASSUME End(j, s, rest), UNCHANGED inFlight
      PROVE  /\ Only(j) /\ Sound(job'[j])
             /\ \A w \in Buffers : Has(rest, w) => job'[j].s = s /\ Has(job'[j].after, w)
             /\ \A x \in inFlight' : x \in inFlight \/ Holds(j, x)'
  <2>1. Only(j) /\ job'[j] = After(s, rest)
    BY <1>1, <1>3 DEF End, JobsSound, Only
  <2> QED
    BY <1>3, <2>1, Rest
<1>4. CASE what = "blocked" /\ UNCHANGED <<pendingTurn, deferred>>
  <2>1. DOMAIN buffered = Sessions /\ \A x \in Sessions :
          buffered[x] = IF x = s THEN None ELSE pendingBlocked[x]
    BY <1>1, <1>2
  <2>2. /\ Only(j) /\ Sound(job'[j])
        /\ \A w \in Buffers : Has(rest, w) => job'[j].s = s /\ Has(job'[j].after, w)
        /\ \A x \in inFlight' : x \in inFlight \/ Holds(j, x)'
        /\ DOMAIN pendingBlocked' = Sessions
        /\ PutsOff(s, buffered)
    <3>1. CASE HandleBlocked(j, s, p, rest, t, buffered)
      <4>1. /\ Only(j) /\ Sound(job'[j]) /\ UNCHANGED inFlight
            /\ DOMAIN pendingBlocked' = Sessions
        BY <1>1, <2>1, <3>1, BlockedEffect
      <4>2. \A w : Has(rest, w) => job'[j].s = s /\ Has(job'[j].after, w)
        BY <1>1, <2>1, <3>1, BlockedEffect
      <4>3. PutsOff(s, buffered)
        BY <1>1, <2>1, <3>1, BlockedEffect
      <4> QED
        BY <4>1, <4>2, <4>3
    <3>2. CASE /\ pendingBlocked' = buffered /\ End(j, s, rest)
               /\ UNCHANGED inFlight
      BY <1>3, <2>1, <3>2 DEF PutsOff
    <3> QED
      BY <1>2, <1>4, <3>1, <3>2 DEF Drain
  <2>3. /\ JobsSound' /\ LockHeld'
        /\ \A x \in Sessions, w \in Buffers :
             Attended(x, w) => Attended(x, w)' \/ (x = s /\ w = what)
        /\ \A x \in inFlight, w \in Buffers : Attended(x, w)'
    BY <1>1, <1>2, <2>2, Takes
  <2>4. "blocked" \in Buffers /\ "turn" \in Buffers /\ what # "turn"
    BY <1>4 DEF Buffers
  <2>5. ASSUME NEW x \in C, pendingBlocked'[x] # None
        PROVE  Attended(x, "blocked")'
    <3>1. CASE x = s
      BY <2>1, <2>2, <2>3, <2>4, <2>5, <3>1 DEF PutsOff
    <3>2. CASE x # s
      BY <1>1, <2>1, <2>2, <2>3, <2>4, <2>5, <3>2 DEF BufferedOf, PutOffIsAttended, PutsOff
    <3> QED
      BY <3>1, <3>2
  <2>6. \A x \in C : x \in pendingTurn' => x \in deferred' \/ Attended(x, "turn")'
    BY <1>1, <1>4, <2>3, <2>4 DEF BufferedOf, PutOffIsAttended
  <2> QED
    BY <2>2, <2>3, <2>5, <2>6 DEF DrainInv, BufferedOf, PutOffIsAttended
<1>5. CASE what = "turn" /\ UNCHANGED pendingBlocked
  <2>1. /\ Only(j) /\ Sound(job'[j])
        /\ \A w \in Buffers : Has(rest, w) => job'[j].s = s /\ Has(job'[j].after, w)
        /\ \A x \in inFlight' : x \in inFlight \/ Holds(j, x)'
        /\ s \in pendingTurn' => s \in deferred' \/ s \in inFlight
        /\ \A x \in Sessions \ {s} : /\ x \in pendingTurn' <=> x \in pendingTurn
                                     /\ x \in deferred' <=> x \in deferred
    <3>1. CASE HandleTurnComplete(j, s, rest)
      BY <1>1, <3>1, TurnEffect
    <3>2. CASE /\ pendingTurn' = pendingTurn \ {s} /\ End(j, s, rest)
               /\ UNCHANGED <<inFlight, deferred>>
      BY <1>3, <3>2
    <3> QED
      BY <1>2, <1>5, <3>1, <3>2 DEF Drain
  <2>2. /\ JobsSound' /\ LockHeld'
        /\ \A x \in Sessions, w \in Buffers :
             Attended(x, w) => Attended(x, w)' \/ (x = s /\ w = what)
        /\ \A x \in inFlight, w \in Buffers : Attended(x, w)'
    BY <1>1, <1>2, <2>1, Takes
  <2>3. "blocked" \in Buffers /\ "turn" \in Buffers /\ what # "blocked"
    BY <1>5 DEF Buffers
  <2>4. \A x \in C : pendingBlocked'[x] # None => Attended(x, "blocked")'
    BY <1>1, <1>5, <2>2, <2>3 DEF BufferedOf, PutOffIsAttended
  <2>5. ASSUME NEW x \in C, x \in pendingTurn'
        PROVE  x \in deferred' \/ Attended(x, "turn")'
    <3>1. CASE x = s
      BY <2>1, <2>2, <2>3, <2>5, <3>1
    <3>2. CASE x # s
      BY <1>1, <2>1, <2>2, <2>3, <2>5, <3>2 DEF BufferedOf, PutOffIsAttended
    <3> QED
      BY <3>1, <3>2
  <2> QED
    BY <1>1, <1>5, <2>2, <2>4, <2>5 DEF DrainInv, BufferedOf, PutOffIsAttended
<1> QED
  BY <1>2, <1>4, <1>5 DEF Drain

(* A timer of a session fires: the turn is decided about, or put off again *)
(* where somebody will take it.                                            *)
LEMMA TimerDrains ==
  ASSUME NEW C \in SUBSET Sessions, DrainInv(C), NEW s \in Sessions, TurnTimerFires(s)
  PROVE  DrainInv(C)'
<1>1. /\ JobsSound /\ LockHeld /\ UNCHANGED pendingBlocked
      /\ DOMAIN pendingBlocked = Sessions /\ BufferedOf(C)
  BY DEF DrainInv, TurnTimerFires
<1>2. PICK j \in Jobs : j = NewJob /\ ~job[j].lock /\ \A w : ~Attends(job[j], w)
  BY <1>1, RoomForOne, FreeSound, AttendsUnlocked DEF TurnTimerFires
<1>3. ASSUME NEW none \in Seq(Buffers), HandleTurnComplete(j, s, none)
      PROVE  DrainInv(C)'
  <2>1. /\ Only(j) /\ Sound(job'[j])
        /\ \A x \in inFlight' : x \in inFlight \/ Holds(j, x)'
        /\ s \in pendingTurn' => s \in deferred' \/ s \in inFlight
        /\ \A x \in Sessions \ {s} : /\ x \in pendingTurn' <=> x \in pendingTurn
                                     /\ x \in deferred' <=> x \in deferred
    BY <1>1, <1>2, <1>3, TurnEffect
  <2>2. Carried(C)
    <3>1. \A x : ~Holds(j, x)
      BY <1>2 DEF Holds
    <3> QED
      BY <1>1, <1>2, <2>1, <3>1, JobChanges
  <2>3. \A x \in inFlight, w \in Buffers : Attended(x, w)'
    BY <1>1, <1>2, <2>1, HolderDrains
  <2>4. "blocked" \in Buffers /\ "turn" \in Buffers
    BY DEF Buffers
  <2>5. \A x \in C : pendingBlocked'[x] # None => Attended(x, "blocked")'
    BY <1>1, <2>2, <2>4 DEF Carried, BufferedOf, PutOffIsAttended
  <2>6. ASSUME NEW x \in C, x \in pendingTurn'
        PROVE  x \in deferred' \/ Attended(x, "turn")'
    <3>1. CASE x = s
      BY <2>1, <2>3, <2>4, <2>6, <3>1
    <3>2. CASE x # s
      BY <1>1, <2>1, <2>2, <2>4, <2>6, <3>2 DEF Carried, BufferedOf, PutOffIsAttended
    <3> QED
      BY <3>1, <3>2
  <2> QED
    BY <1>1, <2>2, <2>5, <2>6 DEF Carried, DrainInv, BufferedOf, PutOffIsAttended
<1>4. CASE UNCHANGED <<pendingTurn, deferred, inFlight, job>>
  BY <1>1, <1>4, Untouched
<1>5. ASSUME deferred' = deferred \ {s}, UNCHANGED <<inFlight, job>>,
             \/ s \in inFlight /\ UNCHANGED pendingTurn
             \/ pendingTurn' = pendingTurn \ {s}
      PROVE  DrainInv(C)'
  <2>1. JobsSound' /\ LockHeld' /\ \A x, w : Attended(x, w)' <=> Attended(x, w)
    BY <1>1, <1>5 DEF JobsSound, LockHeld, Holds, Attended, Attends
  <2>2. s \in pendingTurn' => Attended(s, "turn")
    BY <1>1, <1>5, HolderDrains DEF Buffers
  <2>3. BufferedOf(C)'
    BY <1>1, <1>5, <2>1, <2>2 DEF BufferedOf, PutOffIsAttended
  <2> QED
    BY <1>1, <2>1, <2>3 DEF DrainInv
<1>6. <<>> \in Seq(Buffers)
  OBVIOUS
<1> QED
  BY <1>2, <1>3, <1>4, <1>5, <1>6 DEF TurnTimerFires

(* An activation begins that has nothing to drain: of an error, of a login,*)
(* of an answer of the human or of a look at an idle session.              *)
LEMMA Begins ==
  ASSUME NEW C \in SUBSET Sessions, DrainInv(C), Room(1), NEW s, NEW kind, NEW act,
         NEW pc \in {"recover", "login", "answer", "idleProbe"},
         job' = [job EXCEPT ![NewJob] = Activation(pc, s, kind, act)],
         UNCHANGED <<inFlight, pendingTurn, pendingBlocked, deferred>>
  PROVE  DrainInv(C)'
<1>1. PICK j \in Jobs : j = NewJob /\ ~job[j].lock /\ job[j].after = <<>>
  BY RoomForOne DEF DrainInv
<1>2. Only(j) /\ job'[j] = Activation(pc, s, kind, act)
  BY <1>1 DEF DrainInv, JobsSound, Only
<1>3. Sound(Activation(pc, s, kind, act))
  BY DEF Activation, Sound, IsJob
<1> QED
  BY <1>1, <1>2, <1>3, Starts

(* The event of a prompt: nothing is pending for an activation that just   *)
(* begins, and a prompt is only put off while somebody decides.            *)
LEMMA BlockedDrains ==
  ASSUME NEW C \in SUBSET Sessions, DrainInv(C), HandleBlockedEvent
  PROVE  DrainInv(C)'
<1>1. /\ JobsSound /\ LockHeld /\ DOMAIN pendingBlocked = Sessions
      /\ BufferedOf(C) /\ UNCHANGED <<pendingTurn, deferred>>
  BY DEF DrainInv, HandleBlockedEvent, buffers, timers
<1>2. PICK j \in Jobs : j = NewJob /\ ~job[j].lock /\ job[j].after = <<>>
  BY <1>1, RoomForOne DEF HandleBlockedEvent
<1>0. PICK s, p, t, none, buffered :
        /\ s = Event.s /\ p = Event.prompt /\ t = Touched /\ none = <<>>
        /\ buffered = pendingBlocked
  OBVIOUS
<1>3. CASE HandleBlocked(j, s, p, none, t, buffered)
  <2>1. /\ JobsSound /\ j \in Jobs /\ none \in Seq(Buffers)
        /\ DOMAIN buffered = Sessions
    BY <1>0, <1>1, <1>2
  <2>2. /\ Only(j) /\ Sound(job'[j]) /\ UNCHANGED inFlight
        /\ \A w : Has(none, w) => job'[j].s = s /\ Has(job'[j].after, w)
        /\ DOMAIN pendingBlocked' = Sessions
        /\ PutsOff(s, buffered)
    <3>1. Only(j) /\ Sound(job'[j])
      BY <1>3, <2>1, BlockedEffect
    <3>2. UNCHANGED inFlight /\ DOMAIN pendingBlocked' = Sessions
      BY <1>3, <2>1, BlockedEffect
    <3>3. \A w : Has(none, w) => job'[j].s = s /\ Has(job'[j].after, w)
      BY <1>3, <2>1, BlockedEffect
    <3>4. PutsOff(s, buffered)
      BY <1>3, <2>1, BlockedEffect
    <3> QED
      BY <3>1, <3>2, <3>3, <3>4
  <2>3. \A x : ~Holds(j, x)
    BY <1>2 DEF Holds
  <2>4. \A w : ~Attends(job[j], w)
    BY <1>2, FreeSound, AttendsUnlocked
  <2>5. Carried(C)
    BY <1>1, <2>2, <2>3, <2>4, JobChanges
  <2>6. \A x \in inFlight, w \in Buffers : Attended(x, w)'
    BY <1>1, <1>2, <2>2, HolderDrains
  <2>7. BufferedOf(C)'
    BY <1>0, <1>1, <1>2, <2>2, <2>5, <2>6 DEF Carried, Buffers, BufferedOf, PutOffIsAttended, PutsOff
  <2> QED
    BY <2>2, <2>5, <2>7 DEF Carried, DrainInv
<1>4. CASE Start("depleted", "recover") /\ UNCHANGED <<inFlight, buffers>>
  <2>1. PICK e : e = Event.s
    OBVIOUS
  <2> QED
    BY <1>1, <1>4, <2>1, Begins DEF HandleBlockedEvent, Start, buffers
<1> QED
  BY <1>0, <1>2, <1>3, <1>4 DEF HandleBlockedEvent

(* A prompt is routed: dropped by a finally block that drains what it has  *)
(* to, or decided about under the lock.                                    *)
LEMMA RouteDrains ==
  ASSUME NEW C \in SUBSET Sessions, DrainInv(C), NEW j \in Jobs, Route(j)
  PROVE  DrainInv(C)'
<1>1. /\ JobsSound /\ LockHeld /\ job[j].pc = "route"
      /\ UNCHANGED <<pendingTurn, pendingBlocked, deferred>>
  BY DEF DrainInv, Route, At, buffers, timers
<1>2. PICK s, after, p : s = job[j].s /\ after = job[j].after /\ p = job[j].prompt
  OBVIOUS
<1>3. after \in Seq(Buffers) /\ ~job[j].lock
  BY <1>1, <1>2 DEF JobsSound, Sound
<1>4. CASE job' = [job EXCEPT ![j] = After(s, after)] /\ UNCHANGED inFlight
  <2>1. Only(j) /\ job'[j] = After(s, after)
    BY <1>1, <1>4 DEF JobsSound, Only
  <2>2. \A x : ~Holds(j, x)
    BY <1>3 DEF Holds
  <2>3. /\ Sound(job'[j])
        /\ \A w \in Buffers : Has(job[j].after, w) =>
             job'[j].s = job[j].s /\ Has(job'[j].after, w)
    BY <1>2, <1>3, <2>1, Rest
  <2>4. \A w \in Buffers : Attends(job[j], w) =>
          job'[j].s = job[j].s /\ Attends(job'[j], w)
    BY <1>3, <2>3, AttendsUnlocked, DrainAttends
  <2>5. Carried(C)
    BY <1>1, <1>4, <2>1, <2>2, <2>3, <2>4, JobChanges
  <2> QED
    BY <1>1, <2>5, StillDrained
<1>5. ASSUME NEW kind, NEW rest \in {<<"blocked", "turn">>, <<"turn", "blocked">>},
             inFlight' = inFlight \cup {s},
             job' = [job EXCEPT ![j] = Locked(s, kind, p, rest)]
      PROVE  DrainInv(C)'
  <2>1. Only(j) /\ job'[j] = Locked(s, kind, p, rest)
    BY <1>1, <1>5 DEF JobsSound, Only
  <2>2. /\ Sound(job'[j]) /\ job'[j].lock /\ job'[j].s = s
        /\ \A w \in Buffers : Has(job'[j].after, w)
    BY <2>1, Begun
  <2>3. \A x \in inFlight' : (x \in inFlight /\ ~Holds(j, x)) \/ Holds(j, x)'
    BY <1>3, <1>5, <2>2 DEF Holds
  <2>4. Carried(C)
    BY <1>1, <1>2, <2>1, <2>2, <2>3, DrainAttends, JobChanges
  <2> QED
    BY <1>1, <2>4, StillDrained
<1> QED
  BY <1>1, <1>2, <1>4, <1>5 DEF Route, End

(* A turn that is over while a prompt is pending is put off, by an         *)
(* activation whose finally block drains it.                               *)
LEMMA AssessDrains ==
  ASSUME NEW C \in SUBSET Sessions, Kept(C), DrainInv(C), NEW j \in Jobs,
         AssessTurn(j)
  PROVE  DrainInv(C)'
<1>1. /\ JobsSound /\ LockHeld /\ job[j].pc = "assess" /\ BufferedOf(C)
      /\ DOMAIN pendingBlocked = Sessions /\ UNCHANGED <<pendingBlocked, deferred>>
  BY DEF DrainInv, AssessTurn, Assessing, At, timers
<1>2. CASE pendingTurn' = pendingTurn \cup {job[j].s} /\ Fail(j)
  <2>1. /\ Carried(C)
        /\ \A w : Has(job[j].after, w) => job'[j].s = job[j].s /\ Has(job'[j].after, w)
    BY <1>1, <1>2, Ends DEF Fail
  <2>2. "turn" \in Buffers /\ "blocked" \in Buffers
    BY DEF Buffers
  <2>3. Has(job[j].after, "turn")
    BY <1>1, <2>2 DEF JobsSound, Sound, AssessTurn, Assessing, Attends, Has
  <2>4. PICK s : s = job[j].s
    OBVIOUS
  <2>5. job'[j].s = s /\ Has(job'[j].after, "turn")
    BY <2>1, <2>3, <2>4
  <2>6. Attended(s, "turn")'
    BY <2>5 DEF Attended, Attends, Has
  <2>7. BufferedOf(C)'
    BY <1>1, <1>2, <2>1, <2>2, <2>4, <2>6 DEF Carried, BufferedOf, PutOffIsAttended
  <2> QED
    BY <1>1, <2>1, <2>7 DEF Carried, DrainInv
<1>3. CASE UNCHANGED pendingTurn /\ \E d \in Decisions : Execute(j, d, task)
  <2>1. PICK d, t : t = task /\ Execute(j, d, t)
    BY <1>3
  <2>2. Carried(C)
    BY <1>1, <2>1, Executes
  <2> QED
    BY <1>1, <1>3, <2>2, StillDrained
<1> QED
  BY <1>2, <1>3 DEF AssessTurn

(* A step that executes a decision, ends or goes on.                       *)
LEMMA DecisionDrains ==
  ASSUME NEW C \in SUBSET Sessions, Kept(C), DrainInv(C), NEW j \in Jobs,
         UNCHANGED <<pendingTurn, pendingBlocked, deferred>>,
         \/ \E d, t : Execute(j, d, t)
         \/ Finally(j)
  PROVE  DrainInv(C)'
<1>1. Carried(C)
  BY Executes, Ends DEF DrainInv
<1> QED
  BY <1>1, StillDrained

(* The look at an idle session: nothing, a session that is given up, or a  *)
(* decision about it.                                                      *)
LEMMA ProbeDrains ==
  ASSUME NEW C \in SUBSET Sessions, DrainInv(C), NEW j \in Jobs, IdleProbe(j)
  PROVE  DrainInv(C)'
<1>1. /\ job[j].pc = "idleProbe" /\ JobsSound /\ LockHeld
      /\ UNCHANGED <<pendingTurn, pendingBlocked, deferred>>
  BY DEF DrainInv, IdleProbe, At, buffers, timers
<1>2. /\ ~job[j].lock /\ job[j].after = <<>>
  BY <1>1 DEF JobsSound, Sound
<1>3. CASE job' = [job EXCEPT ![j] = Free] /\ UNCHANGED inFlight
  BY <1>1, <1>3, LetsGo
<1>4. CASE /\ job' = [job EXCEPT ![j].pc = "closing", ![j].kind = "stale"]
           /\ UNCHANGED inFlight
  <2>1. Only(j) /\ job'[j] = [job[j] EXCEPT !.pc = "closing", !.kind = "stale"]
    BY <1>1, <1>4 DEF JobsSound, Only
  <2> QED
    BY <1>1, <1>2, <1>4, <2>1, Rewritten
<1>5. CASE /\ job' = [job EXCEPT ![j] = Locked(job[j].s, "idle", None, <<>>)]
           /\ inFlight' = inFlight \cup {job[j].s}
  <2>1. /\ Only(j)
        /\ job'[j] = [pc |-> "assess", s |-> job[j].s, kind |-> "idle",
                      lock |-> TRUE, after |-> <<>>, prompt |-> None,
                      act |-> "ignore", ref |-> {}, n |-> 0]
    BY <1>1, <1>5 DEF JobsSound, Only, Locked
  <2>2. Sound(job'[j])
    BY <2>1 DEF Sound, IsJob, Attends
  <2>3. \A w : ~Attends(job[j], w)
    BY <1>2, FreeSound, AttendsUnlocked
  <2>4. \A s \in inFlight' : (s \in inFlight /\ ~Holds(j, s)) \/ Holds(j, s)'
    BY <1>2, <1>5, <2>1 DEF Holds
  <2>5. Carried(C)
    BY <1>1, <2>1, <2>2, <2>3, <2>4, JobChanges
  <2> QED
    BY <1>1, <2>5, StillDrained
<1> QED
  BY <1>3, <1>4, <1>5 DEF IdleProbe

(* Every step of an activation keeps the invariant.                        *)
LEMMA StepDrains ==
  ASSUME NEW C \in SUBSET Sessions, Kept(C), DrainInv(C), NEW j \in Jobs, Step(j)
  PROVE  DrainInv(C)'
<1> USE DEF buffers, timers, At
<1>1. CASE Route(j)
  BY <1>1, RouteDrains
<1>2. CASE AssessTurn(j)
  BY <1>2, AssessDrains
<1>3. CASE AssessBlocked(j)
  <2>1. UNCHANGED <<pendingTurn, pendingBlocked, deferred>>
    BY <1>3 DEF AssessBlocked, Assessing
  <2>2. \/ Finally(j)
        \/ \E d \in Parsed : Execute(j, d, [task EXCEPT ![job[j].s].auto = 0])
    BY <1>3 DEF AssessBlocked, Fail
  <2>3. PICK t : t = [task EXCEPT ![job[j].s].auto = 0]
    OBVIOUS
  <2> QED
    BY <2>1, <2>2, <2>3, DecisionDrains
<1>4. CASE AssessIdle(j)
  <2>1. UNCHANGED <<pendingTurn, pendingBlocked, deferred>>
    BY <1>4 DEF AssessIdle, Assessing
  <2>2. \/ Finally(j)
        \/ \E d \in Parsed : Execute(j, d, task)
    BY <1>4 DEF AssessIdle, Fail
  <2> QED
    BY <2>1, <2>2, DecisionDrains
<1>5. CASE AssessConfirm(j)
  BY <1>5, DecisionDrains DEF AssessConfirm, Assessing
<1>6. CASE Answer(j)
  BY <1>6, DecisionDrains DEF Answer
<1>7. CASE Sent(j)
  BY <1>7, DecisionDrains DEF Sent, Done, Fail
<1>8. CASE Summarized(j)
  <2>1. UNCHANGED <<pendingTurn, pendingBlocked, deferred>>
    BY <1>8 DEF Summarized
  <2>2. Finally(j) \/ (Goto(j, "validate") /\ UNCHANGED inFlight)
    BY <1>8 DEF Summarized, Done
  <2> QED
    BY <2>1, <2>2, DecisionDrains, Moves
<1>9. CASE ValidateCustom(j)
  <2>1. UNCHANGED <<inFlight, pendingTurn, pendingBlocked, deferred>>
    BY <1>9 DEF ValidateCustom, Validating
  <2>2. \/ Goto(j, "closing")
        \/ \E n : job' = [job EXCEPT ![j].pc = "retrySend", ![j].n = n]
    BY <1>9 DEF ValidateCustom, Judged
  <2>3. ASSUME NEW n, job' = [job EXCEPT ![j].pc = "retrySend", ![j].n = n]
        PROVE  DrainInv(C)'
    <3>1. job'[j] = [job[j] EXCEPT !.pc = "retrySend", !.n = n] /\ Only(j)
      BY <2>3 DEF DrainInv, JobsSound, Only
    <3> QED
      BY <2>1, <3>1, Rewritten
  <2> QED
    BY <2>1, <2>2, <2>3, Moves
<1>10. CASE ValidateCompletion(j)
  <2>1. UNCHANGED <<inFlight, pendingTurn, pendingBlocked, deferred>>
    BY <1>10 DEF ValidateCompletion, Validating
  <2>2. \E pc \in {"closing", "followUp", "unproven"} : Goto(j, pc)
    BY <1>10 DEF ValidateCompletion, Judged
  <2> QED
    BY <2>1, <2>2, Moves
<1>11. CASE RetrySent(j)
  BY <1>11, DecisionDrains DEF RetrySent, Done, Fail
<1>12. CASE FollowUp(j)
  <2>1. UNCHANGED <<pendingTurn, pendingBlocked, deferred>>
    BY <1>12 DEF FollowUp
  <2>2. Finally(j) \/ (Goto(j, "closing") /\ UNCHANGED inFlight)
    BY <1>12 DEF FollowUp, Fail, Judged
  <2> QED
    BY <2>1, <2>2, DecisionDrains, Moves
<1>13. CASE Closing(j)
  BY <1>13, DecisionDrains DEF Closing, Done
<1>14. CASE Drain(j)
  BY <1>14, DrainDrains
<1>15. CASE RegisterReplacement(j)
  BY <1>15, Moves DEF RegisterReplacement
<1>16. CASE ErrorHandled(j) \/ DepletionHandled(j) \/ AuthReplaced(j)
  BY <1>16, LetsGo DEF ErrorHandled, DepletionHandled, AuthReplaced, Superseded
<1>17. CASE LoginResumed(j) \/ LoginLeft(j)
  BY <1>17, LetsGo DEF LoginResumed, LoginLeft, LoginAnswered
<1>18. CASE LoginReplaces(j)
  <2>1. UNCHANGED <<inFlight, pendingTurn, pendingBlocked, deferred>>
        /\ job[j].pc = "login"
    BY <1>18 DEF LoginReplaces, LoginAnswered
  <2>2. job'[j] = [job[j] EXCEPT !.pc = "recover", !.kind = "auth"] /\ Only(j)
    BY <1>18 DEF LoginReplaces, DrainInv, JobsSound, Only
  <2>3. ~job[j].lock
    BY <2>1 DEF DrainInv, JobsSound, Sound
  <2> QED
    BY <2>1, <2>2, <2>3, Rewritten
<1>19. CASE IdleProbe(j)
  BY <1>19, ProbeDrains
<1>20. ASSUME NEW r \in Sessions, Failover(j, r) \/ Recover(j, r)
       PROVE  DrainInv(C)'
  <2>1. UNCHANGED <<inFlight, pendingTurn, pendingBlocked, deferred>>
        /\ job[j].pc = "recover"
    BY <1>20 DEF Failover, Recover, Spawned
  <2>2. job'[j] = [job[j] EXCEPT !.pc = "register", !.ref = {r}] /\ Only(j)
    BY <1>20 DEF Failover, Recover, Spawned, DrainInv, JobsSound, Only
  <2> QED
    BY <2>1, <2>2, Rewritten
<1> QED
  BY <1>1, <1>2, <1>3, <1>4, <1>5, <1>6, <1>7, <1>8, <1>9, <1>10, <1>11, <1>12,
     <1>13, <1>14, <1>15, <1>16, <1>17, <1>18, <1>19, <1>20 DEF Step

(* The events, the timers, the watchdog, the sessions and the user keep it *)
(* too, as long as no idle check of a session of C ends.                   *)
LEMMA NextDrains ==
  ASSUME NEW C \in SUBSET Sessions, Kept(C), DrainInv(C), [Next]_vars
  PROVE  DrainInv(C)'
<1> USE DEF buffers, timers
<1>1. CASE HandleEvent
  <2>1. CASE HandleUnregistered \/ HandlePutOff \/ HandleTaskComplete
             \/ HandleStopped \/ HandleProgress
    BY <2>1, Untouched DEF HandleUnregistered, HandlePutOff, HandleTaskComplete,
                           HandleStopped, HandleProgress
  <2>2. CASE HandleBlockedEvent
    BY <2>2, BlockedDrains
  <2>3. CASE HandleError \/ HandleLoginRequired
    <3>1. PICK s : s = Event.s
      OBVIOUS
    <3>2. Room(1) /\ UNCHANGED <<inFlight, pendingTurn, pendingBlocked, deferred>>
      BY <2>3 DEF HandleError, HandleLoginRequired
    <3>3. \E pc \in {"recover", "login"} : \E kind :
            job' = [job EXCEPT ![NewJob] = Activation(pc, s, kind, "ignore")]
      BY <2>3, <3>1 DEF HandleError, HandleLoginRequired, Start
    <3> QED
      BY <3>2, <3>3, Begins
  <2> QED
    BY <1>1, <2>1, <2>2, <2>3 DEF HandleEvent
<1>2. CASE Checks \/ Pause \/ Resume
  BY <1>2, Untouched DEF Checks, FinishCheck, Pause, Resume
<1>3. ASSUME NEW j \in Jobs, Step(j) PROVE DrainInv(C)'
  BY <1>3, StepDrains
<1>4. ASSUME NEW s \in Sessions, Environment(s) \/ Timers(s) \/ Watchdog(s)
      PROVE  DrainInv(C)'
  <2>1. CASE TurnTimerFires(s)
    BY <2>1, TimerDrains
  <2>2. ASSUME NEW d, Confirm(s, d) PROVE DrainInv(C)'
    BY <2>2, Begins DEF Confirm
  <2>3. CASE SpawnSession(s) \/ RegisterTask(s) \/ DiscardUnregistered(s) \/ Reject(s)
    BY <2>3, Untouched DEF SpawnSession, RegisterTask, DiscardUnregistered, Reject
  <2>4. CASE CooldownEnds(s) \/ RecoveryWindowEnds(s) \/ ScanFindsGone(s)
    BY <2>4, Untouched DEF CooldownEnds, RecoveryWindowEnds, ScanFindsGone
  <2>5. ASSUME NEW name, NEW p, AgentEmits(s, name, p) PROVE DrainInv(C)'
    BY <2>5, Untouched DEF AgentEmits
  <2>6. ASSUME NEW silent, SessionEnds(s, silent) PROVE DrainInv(C)'
    BY <2>6, Untouched DEF SessionEnds
  <2>7. CASE ScanFindsIdle(s)
    BY <2>7, Begins DEF ScanFindsIdle
  <2> QED
    BY <1>4, <2>1, <2>2, <2>3, <2>4, <2>5, <2>6, <2>7
       DEF Environment, Timers, Watchdog
<1>5. ASSUME NEW level, SetSupervisionLevel(level) PROVE DrainInv(C)'
  BY <1>5, Untouched DEF SetSupervisionLevel
<1>6. CASE UNCHANGED vars
  BY <1>6, Untouched DEF vars
<1> QED
  BY <1>1, <1>2, <1>3, <1>4, <1>5, <1>6 DEF Next

(* The coordinator starts with no decision and nothing put off.            *)
LEMMA InitDrains == Init => DrainInv({})
<1> SUFFICES ASSUME Init PROVE DrainInv({})
  OBVIOUS
<1>1. JobsSound
  BY FreeSound DEF Init, JobsSound
<1> QED
  BY <1>1 DEF Init, DrainInv, LockHeld, BufferedOf, PutOffIsAttended

(* A turn-complete or a prompt that the decision loop put off, because it  *)
(* was deciding about the session or the agent had just been answered, is  *)
(* looked at: whatever else happens, a finally block or the deferred timer *)
(* has yet to come, and only the end of an idle check leaves it to nobody. *)
THEOREM BufferedIsAttendedHolds == Spec => BufferedIsAttended
<1>1. DrainInv({}) /\ [Next]_vars => DrainInv({})'
  BY NextDrains DEF Kept
<1>2. ASSUME DrainInv({}), [Next]_vars, NEW s \in Sessions, PutOffIsAttended(s),
             ~IdleCheckEnds(s)
      PROVE  PutOffIsAttended(s)'
  <2>1. DrainInv({s}) /\ Kept({s})
    BY <1>2 DEF DrainInv, BufferedOf, Kept
  <2>2. DrainInv({s})'
    BY <1>2, <2>1, NextDrains
  <2> QED
    BY <2>2 DEF DrainInv, BufferedOf
<1>3. DrainInv({}) /\ [Next]_vars =>
        [\A s \in Sessions :
           PutOffIsAttended(s) => PutOffIsAttended(s)' \/ IdleCheckEnds(s)]_vars
  BY <1>2
<1> QED
  BY InitDrains, <1>1, <1>3, PTL DEF Spec, BufferedIsAttended
-----------------------------------------------------------------------------
(* The second invariant: of a completed task either the process is no      *)
(* longer wanted or a handler is about to stop it.  It needs the shape of  *)
(* the contexts and activations, and that only sessions that were spawned  *)
(* are registered.                                                         *)
IsTask(c) ==
  c = [status |-> c.status, recent |-> c.recent, cooldown |-> c.cooldown,
       auto |-> c.auto, idle |-> c.idle, retries |-> c.retries,
       ordinal |-> c.ordinal]
Shaped(t) == DOMAIN t = Sessions /\ \A s \in Sessions : IsTask(t[s])

RegisterKnown(j) ==
  /\ job[j].pc = "register" =>
       \A r \in job[j].ref : r \in Sessions /\ pty[r] # "unspawned"
  /\ job[j].pc \in {"register", "replaced"} => Sessions \ Clients # {}
ReleaseInv ==
  /\ DOMAIN job = Jobs /\ \A j \in Jobs : IsJob(job[j]) /\ RegisterKnown(j)
  /\ Shaped(task) /\ DOMAIN pty = Sessions
  /\ \A s \in tasks : s \in Sessions /\ pty[s] # "unspawned"
  /\ CompletedReleasesSession

(* No context of u is completed that is not in t.                          *)
Calm(t, u) ==
  Shaped(u) /\ \A s \in Sessions :
                u[s].status = "completed" => t[s].status = "completed"
(* Processes are only spawned once.                                        *)
PtyMoves ==
  /\ DOMAIN pty' = Sessions
  /\ \A s \in Sessions : \/ pty'[s] = pty[s]
                         \/ pty[s] = "unspawned" /\ pty'[s] = "running"
                         \/ pty'[s] \in {"stopping", "gone"}
(* Who closes goes on to, and who registers still knows the session.       *)
JobsKept ==
  /\ DOMAIN job' = Jobs
  /\ \A j \in Jobs :
       /\ IsJob(job'[j]) /\ RegisterKnown(j)'
       /\ job[j].pc = "closing" => job'[j].pc = "closing" /\ job'[j].s = job[j].s

(* A context of which one field or another is written.                     *)
LEMMA StatusShape ==
  ASSUME NEW t, NEW s, NEW st, Shaped(t)
  PROVE  /\ Shaped(SetStatus(t, s, st))
         /\ \A x \in Sessions :
              SetStatus(t, s, st)[x].status = IF x = s THEN st ELSE t[x].status
<1>1. PICK u : u = SetStatus(t, s, st)
  OBVIOUS
<1>2. DOMAIN u = Sessions /\ \A x \in Sessions :
        u[x] = IF x = s THEN [t[x] EXCEPT !.status = st] ELSE t[x]
  BY <1>1 DEF Shaped, SetStatus
<1>3. ASSUME NEW x \in Sessions
      PROVE  IsTask(u[x]) /\ u[x].status = IF x = s THEN st ELSE t[x].status
  <2>1. IsTask(t[x])
    BY DEF Shaped
  <2> QED
    BY <1>2, <2>1 DEF IsTask
<1> QED
  BY <1>1, <1>2, <1>3 DEF Shaped

(* Writes that complete no task: counters, flags, and other statuses.      *)
LEMMA CalmWrite ==
  ASSUME NEW t, NEW s, NEW u, Shaped(t),
         \/ \E v : \/ u = [t EXCEPT ![s].auto = v] \/ u = [t EXCEPT ![s].idle = v]
                  \/ u = [t EXCEPT ![s].recent = v] \/ u = [t EXCEPT ![s].cooldown = v]
                  \/ u = [t EXCEPT ![s].ordinal = v]
         \/ u = [t EXCEPT ![s].status = "stopped", ![s].recent = TRUE]
         \/ u = [t EXCEPT ![s].status = "error", ![s].recent = TRUE]
         \/ u = [t EXCEPT ![s].status = "active", ![s].auto = 0]
         \/ u = [t EXCEPT ![s].status = "active", ![s].recent = FALSE, ![s].idle = 0]
         \/ \E v : u = [t EXCEPT ![s].cooldown = TRUE, ![s].retries = v]
  PROVE  Calm(t, u)
<1>1. ASSUME NEW x \in Sessions
      PROVE  IsTask(u[x]) /\ (u[x].status = "completed" => t[x].status = "completed")
  <2>1. IsTask(t[x])
    BY DEF Shaped
  <2>2. CASE x # s
    <3>1. u[x] = t[x]
      BY <2>2 DEF Shaped
    <3> QED
      BY <2>1, <3>1
  <2>3. CASE x = s
    <3>1. \/ \E v : \/ u[x] = [t[x] EXCEPT !.auto = v]
                   \/ u[x] = [t[x] EXCEPT !.idle = v]
                   \/ u[x] = [t[x] EXCEPT !.recent = v]
                   \/ u[x] = [t[x] EXCEPT !.cooldown = v]
                   \/ u[x] = [t[x] EXCEPT !.ordinal = v]
          \/ u[x] = [t[x] EXCEPT !.status = "stopped", !.recent = TRUE]
          \/ u[x] = [t[x] EXCEPT !.status = "error", !.recent = TRUE]
          \/ u[x] = [t[x] EXCEPT !.status = "active", !.auto = 0]
          \/ u[x] = [t[x] EXCEPT !.status = "active", !.recent = FALSE, !.idle = 0]
          \/ \E v : u[x] = [t[x] EXCEPT !.cooldown = TRUE, !.retries = v]
      BY <2>3 DEF Shaped
    <3> QED
      BY <2>1, <3>1 DEF IsTask
  <2> QED
    BY <2>2, <2>3
<1>2. DOMAIN u = Sessions
  BY DEF Shaped
<1> QED
  BY <1>1, <1>2 DEF Calm, Shaped

(* Each of them.                                                          *)
LEMMA CalmWrites ==
  ASSUME NEW t, NEW s, Shaped(t)
  PROVE  /\ \A v : Calm(t, [t EXCEPT ![s].auto = v])
         /\ \A v : Calm(t, [t EXCEPT ![s].idle = v])
         /\ \A v : Calm(t, [t EXCEPT ![s].recent = v])
         /\ \A v : Calm(t, [t EXCEPT ![s].cooldown = v])
         /\ \A v : Calm(t, [t EXCEPT ![s].ordinal = v])
         /\ Calm(t, [t EXCEPT ![s].status = "stopped", ![s].recent = TRUE])
         /\ Calm(t, [t EXCEPT ![s].status = "error", ![s].recent = TRUE])
         /\ Calm(t, [t EXCEPT ![s].status = "active", ![s].auto = 0])
         /\ Calm(t, [t EXCEPT ![s].status = "active", ![s].recent = FALSE, ![s].idle = 0])
         /\ \A v : Calm(t, [t EXCEPT ![s].cooldown = TRUE, ![s].retries = v])
<1>1. ASSUME NEW v PROVE Calm(t, [t EXCEPT ![s].auto = v])
  <2>1. PICK u : u = [t EXCEPT ![s].auto = v]
    OBVIOUS
  <2> QED
    BY <2>1, CalmWrite
<1>2. ASSUME NEW v PROVE Calm(t, [t EXCEPT ![s].idle = v])
  <2>1. PICK u : u = [t EXCEPT ![s].idle = v]
    OBVIOUS
  <2> QED
    BY <2>1, CalmWrite
<1>3. ASSUME NEW v PROVE Calm(t, [t EXCEPT ![s].recent = v])
  <2>1. PICK u : u = [t EXCEPT ![s].recent = v]
    OBVIOUS
  <2> QED
    BY <2>1, CalmWrite
<1>4. ASSUME NEW v PROVE Calm(t, [t EXCEPT ![s].cooldown = v])
  <2>1. PICK u : u = [t EXCEPT ![s].cooldown = v]
    OBVIOUS
  <2> QED
    BY <2>1, CalmWrite
<1>5. ASSUME NEW v PROVE Calm(t, [t EXCEPT ![s].ordinal = v])
  <2>1. PICK u : u = [t EXCEPT ![s].ordinal = v]
    OBVIOUS
  <2> QED
    BY <2>1, CalmWrite
<1>6. Calm(t, [t EXCEPT ![s].status = "stopped", ![s].recent = TRUE])
  <2>1. PICK u : u = [t EXCEPT ![s].status = "stopped", ![s].recent = TRUE]
    OBVIOUS
  <2> QED
    BY <2>1, CalmWrite
<1>7. Calm(t, [t EXCEPT ![s].status = "error", ![s].recent = TRUE])
  <2>1. PICK u : u = [t EXCEPT ![s].status = "error", ![s].recent = TRUE]
    OBVIOUS
  <2> QED
    BY <2>1, CalmWrite
<1>8. Calm(t, [t EXCEPT ![s].status = "active", ![s].auto = 0])
  <2>1. PICK u : u = [t EXCEPT ![s].status = "active", ![s].auto = 0]
    OBVIOUS
  <2> QED
    BY <2>1, CalmWrite
<1>9. Calm(t, [t EXCEPT ![s].status = "active", ![s].recent = FALSE, ![s].idle = 0])
  <2>1. PICK u : u = [t EXCEPT ![s].status = "active", ![s].recent = FALSE, ![s].idle = 0]
    OBVIOUS
  <2> QED
    BY <2>1, CalmWrite
<1>10. ASSUME NEW v PROVE Calm(t, [t EXCEPT ![s].cooldown = TRUE, ![s].retries = v])
  <2>1. PICK u : u = [t EXCEPT ![s].cooldown = TRUE, ![s].retries = v]
    OBVIOUS
  <2> QED
    BY <2>1, CalmWrite
<1> QED
  BY <1>1, <1>2, <1>3, <1>4, <1>5, <1>6, <1>7, <1>8, <1>9, <1>10

(* Nothing, two calm writes, another status, and the end without an answer.*)
LEMMA CalmSteps ==
  ASSUME NEW t, Shaped(t)
  PROVE  /\ Calm(t, t)
         /\ \A u, v : Calm(t, u) /\ Calm(u, v) => Calm(t, v)
         /\ \A s, st : st # "completed" => Calm(t, SetStatus(t, s, st))
         /\ \A s : Calm(t, Stopped(t, s))
<1>1. ASSUME NEW s, NEW st, st # "completed" PROVE Calm(t, SetStatus(t, s, st))
  BY <1>1, StatusShape DEF Calm
<1>2. \A s : Calm(t, Stopped(t, s))
  BY CalmWrites DEF Stopped
<1> QED
  BY <1>1, <1>2 DEF Calm

(* What an event does to the context in any case.                          *)
LEMMA TouchedCalm ==
  ASSUME Shaped(task) PROVE Calm(task, Touched)
<1>1. PICK s, u, revives : s = Event.s /\ u = Touched /\ revives = Revives
  OBVIOUS
<1>2. DOMAIN u = Sessions
  BY <1>1 DEF Touched, Shaped
<1>3. ASSUME NEW x \in Sessions
      PROVE  IsTask(u[x]) /\ (u[x].status = "completed" => task[x].status = "completed")
  <2>1. IsTask(task[x])
    BY DEF Shaped
  <2>2. CASE x # s
    <3>1. u[x] = task[x]
      BY <1>1, <2>2 DEF Touched, Shaped
    <3> QED
      BY <2>1, <3>1
  <2>3. CASE x = s /\ revives
    <3>1. u[x] = [task[x] EXCEPT !.idle = 0, !.status = "active", !.recent = FALSE]
      BY <1>1, <2>3 DEF Touched, Shaped
    <3> QED
      BY <2>1, <3>1 DEF IsTask
  <2>4. CASE x = s /\ ~revives
    <3>1. u[x] = [task[x] EXCEPT !.idle = 0, !.status = task[x].status,
                                 !.recent = task[x].recent]
      BY <1>1, <2>4 DEF Touched, Shaped
    <3> QED
      BY <2>1, <3>1 DEF IsTask
  <2> QED
    BY <2>2, <2>3, <2>4
<1> QED
  BY <1>1, <1>2, <1>3 DEF Calm, Shaped

(* Every activation the handlers make has the fields of one.               *)
LEMMA JobShapes ==
  ASSUME NEW s, NEW rest, NEW kind, NEW p, NEW pc, NEW act
  PROVE  /\ IsJob(Free) /\ IsJob(After(s, rest)) /\ IsJob(Activation(pc, s, kind, act))
         /\ IsJob(Locked(s, kind, p, rest))
         /\ Free.pc = "free" /\ After(s, rest).pc \in {"free", "drain"}
         /\ Activation(pc, s, kind, act).pc = pc /\ Locked(s, kind, p, rest).pc = "assess"
<1>1. IsJob(Free) /\ Free.pc = "free"
  BY DEF IsJob, Free, Activation
<1>2. CASE rest = <<>>
  BY <1>1, <1>2 DEF IsJob, After, Activation, Locked
<1>3. CASE rest # <<>>
  <2>1. After(s, rest) = [pc |-> "drain", s |-> s, kind |-> "none", lock |-> FALSE,
                          after |-> rest, prompt |-> None, act |-> "ignore",
                          ref |-> {}, n |-> 0]
    BY <1>3 DEF After, Free, Activation
  <2> QED
    BY <1>1, <2>1 DEF IsJob, Activation, Locked
<1> QED
  BY <1>2, <1>3

(* One activation, not one that closes, goes on but not to register.       *)
LEMMA OneKept ==
  ASSUME ReleaseInv, PtyMoves, NEW j \in Jobs, Only(j), job[j].pc # "closing",
         IsJob(job'[j]), job'[j].pc # "register",
         job'[j].pc = "replaced" => job[j].pc = "register"
  PROVE  JobsKept
<1>1. ASSUME NEW k \in Jobs
      PROVE  /\ IsJob(job'[k]) /\ RegisterKnown(k)'
             /\ job[k].pc = "closing" => job'[k].pc = "closing" /\ job'[k].s = job[k].s
  <2>1. CASE k = j
    BY <2>1 DEF ReleaseInv, RegisterKnown
  <2>2. CASE k # j
    BY <2>2 DEF ReleaseInv, PtyMoves, RegisterKnown, Only
  <2> QED
    BY <2>1, <2>2
<1> QED
  BY <1>1 DEF JobsKept, Only

(* None does.                                                              *)
LEMMA NoneKept ==
  ASSUME ReleaseInv, PtyMoves, UNCHANGED job
  PROVE  JobsKept
  BY DEF ReleaseInv, PtyMoves, RegisterKnown, JobsKept

(* A step that completes no task, registers none and closes none.          *)
LEMMA StillReleased ==
  ASSUME ReleaseInv, PtyMoves, JobsKept, Calm(task, task'), UNCHANGED tasks
  PROVE  ReleaseInv'
<1>1. \A s \in tasks' : s \in Sessions /\ pty'[s] # "unspawned"
  BY DEF ReleaseInv, PtyMoves
<1>2. CompletedReleasesSession'
  BY <1>1 DEF ReleaseInv, PtyMoves, JobsKept, Calm, CompletedReleasesSession
<1> QED
  BY <1>1, <1>2 DEF ReleaseInv, PtyMoves, JobsKept, Calm

(* A task is completed by a handler that will close it.                    *)
LEMMA Completes ==
  ASSUME ReleaseInv, NEW j \in Jobs, Goto(j, "closing"), UNCHANGED <<tasks, pty>>,
         Shaped(task'),
         \A s \in Sessions : s # job[j].s /\ task'[s].status = "completed" =>
                            task[s].status = "completed"
  PROVE  ReleaseInv'
<1>1. /\ DOMAIN job' = Jobs /\ job'[j].pc = "closing" /\ job'[j].s = job[j].s
      /\ IsJob(job'[j]) /\ \A k \in Jobs \ {j} : job'[k] = job[k]
  <2>1. IsJob(job[j])
    BY DEF ReleaseInv
  <2>2. DOMAIN job' = Jobs /\ job'[j] = [job[j] EXCEPT !.pc = "closing"]
        /\ \A k \in Jobs \ {j} : job'[k] = job[k]
    BY DEF ReleaseInv, Goto
  <2> QED
    BY <2>1, <2>2 DEF IsJob
<1>2. \A k \in Jobs : /\ IsJob(job'[k]) /\ RegisterKnown(k)'
                      /\ job[k].pc = "closing" =>
                           job'[k].pc = "closing" /\ job'[k].s = job[k].s
  BY <1>1 DEF ReleaseInv, RegisterKnown
<1>3. CompletedReleasesSession'
  BY <1>1, <1>2 DEF ReleaseInv, CompletedReleasesSession
<1> QED
  BY <1>1, <1>2, <1>3 DEF ReleaseInv

(* A session that was spawned is registered as a task that runs.           *)
LEMMA Registers ==
  ASSUME ReleaseInv, NEW s \in Sessions, NEW n, pty[s] # "unspawned", Register(s, n),
         UNCHANGED pty, JobsKept
  PROVE  ReleaseInv'
<1>1. /\ \A x \in tasks' : x \in tasks \/ x = s
      /\ task' = [task EXCEPT ![s] = [NewTask EXCEPT !.ordinal = n]]
  BY DEF Register
<1>2. /\ DOMAIN task' = Sessions /\ task'[s] = [NewTask EXCEPT !.ordinal = n]
      /\ \A x \in Sessions \ {s} : task'[x] = task[x]
  BY <1>1 DEF ReleaseInv, Shaped
<1>3. IsTask(task'[s]) /\ task'[s].status = "active"
  BY <1>2 DEF IsTask, NewTask
<1>4. Shaped(task')
  BY <1>2, <1>3 DEF ReleaseInv, Shaped
<1>5. CompletedReleasesSession'
  BY <1>1, <1>2, <1>3 DEF ReleaseInv, JobsKept, CompletedReleasesSession
<1> QED
  BY <1>1, <1>4, <1>5 DEF ReleaseInv, JobsKept

(* Asking a process to stop.                                               *)
LEMMA StoppingMoves ==
  ASSUME ReleaseInv, NEW s, pty' = Stopping(s) \/ UNCHANGED pty
  PROVE  PtyMoves
  BY DEF ReleaseInv, PtyMoves, Stopping

(* What a decision that ends does.                                         *)
LEMMA EndKept ==
  ASSUME ReleaseInv, PtyMoves, NEW j \in Jobs, job[j].pc # "closing", Finally(j)
  PROVE  JobsKept
<1>1. PICK s, rest : s = job[j].s /\ rest = job[j].after
  OBVIOUS
<1>2. Only(j) /\ job'[j] = After(s, rest)
  BY <1>1 DEF Finally, ReleaseInv, Only
<1> QED
  BY <1>2, JobShapes, OneKept

(* What a decision that is executed does.                                  *)
LEMMA ExecuteKept ==
  ASSUME ReleaseInv, NEW j \in Jobs, job[j].pc # "closing", NEW d, NEW t,
         Execute(j, d, t), Calm(task, t)
  PROVE  JobsKept /\ PtyMoves /\ Calm(task, task')
<1>1. PICK s, known : s = job[j].s /\ known = tasks \cap {s}
  OBVIOUS
<1>2. CASE d \in {"escalate", "ignore"} /\ task' = t /\ Done(j, d, pty)
  <2>1. PtyMoves
    BY <1>1, <1>2, StoppingMoves DEF Done
  <2> QED
    BY <1>2, <2>1, EndKept DEF Done
<1>3. ASSUME NEW pc \in {"sending", "summarize"}, UNCHANGED pty,
             job' = [job EXCEPT ![j].pc = pc, ![j].act = d, ![j].ref = known],
             task' = t \/ task' = SetStatus(t, s, "active")
      PROVE  JobsKept /\ PtyMoves /\ Calm(task, task')
  <2>1. Calm(task, task')
    BY <1>3, CalmSteps DEF ReleaseInv, Calm
  <2>2. PtyMoves
    BY <1>3, StoppingMoves
  <2>3. Only(j) /\ job'[j] = [job[j] EXCEPT !.pc = pc, !.act = d, !.ref = known]
    BY <1>3 DEF ReleaseInv, Only
  <2>4. IsJob(job[j])
    BY DEF ReleaseInv
  <2>5. IsJob(job'[j]) /\ job'[j].pc = pc
    BY <2>3, <2>4 DEF IsJob
  <2> QED
    BY <2>1, <2>2, <2>3, <2>5, OneKept
<1> QED
  BY <1>1, <1>2, <1>3 DEF Execute

(* The activation goes on to another await than those two.                 *)
LEMMA GotoKept ==
  ASSUME ReleaseInv, PtyMoves, NEW j \in Jobs, job[j].pc # "closing",
         NEW pc, NEW n, NEW kind, pc # "register", pc # "replaced",
         \/ Goto(j, pc)
         \/ job' = [job EXCEPT ![j].pc = pc, ![j].n = n]
         \/ job' = [job EXCEPT ![j].pc = pc, ![j].kind = kind]
  PROVE  JobsKept
<1>1. IsJob(job[j])
  BY DEF ReleaseInv
<1>2. /\ Only(j)
      /\ \/ job'[j] = [job[j] EXCEPT !.pc = pc]
         \/ job'[j] = [job[j] EXCEPT !.pc = pc, !.n = n]
         \/ job'[j] = [job[j] EXCEPT !.pc = pc, !.kind = kind]
  BY DEF ReleaseInv, Only, Goto
<1>3. IsJob(job'[j]) /\ job'[j].pc = pc
  BY <1>1, <1>2 DEF IsJob
<1> QED
  BY <1>2, <1>3, OneKept

(* handleBlocked, of the context t.                                        *)
LEMMA BlockedKept ==
  ASSUME ReleaseInv, NEW j \in Jobs, job[j].pc # "closing", NEW s, NEW p, NEW rest,
         NEW t, NEW buffered, Calm(task, t), HandleBlocked(j, s, p, rest, t, buffered)
  PROVE  JobsKept /\ PtyMoves /\ Calm(task, task')
<1>1. Shaped(task) /\ Shaped(t)
  BY DEF ReleaseInv, Calm
<1>2. PICK auto : auto = t[s].auto + 1
  OBVIOUS
<1>3. CASE HandleKnown(j, s, p, rest, t)
  <2>1. Only(j) /\ job'[j] = After(s, rest)
    BY <1>3 DEF HandleKnown, End, ReleaseInv, Only
  <2>2. PtyMoves
    BY <1>3, StoppingMoves DEF HandleKnown
  <2>3. \/ task' = SetStatus(t, s, "blocked") \/ task' = SetStatus(t, s, "error")
        \/ task' = [t EXCEPT ![s].auto = @ + 1]
    BY <1>3 DEF HandleKnown
  <2>4. Calm(t, task')
    <3>1. CASE task' = [t EXCEPT ![s].auto = @ + 1]
      <4>1. task' = [t EXCEPT ![s].auto = auto]
        BY <1>2, <3>1
      <4> QED
        BY <1>1, <4>1, CalmWrites
    <3> QED
      BY <1>1, <2>3, <3>1, CalmSteps
  <2>5. Calm(task, task')
    BY <1>1, <2>4, CalmSteps
  <2> QED
    BY <2>1, <2>2, <2>5, JobShapes, OneKept
<1>4. CASE HandleRoutine(j, s, p, rest, t)
  <2>1. /\ Only(j)
        /\ job'[j] = [pc |-> "answer", s |-> s, kind |-> "fast", lock |-> FALSE,
                      after |-> rest, prompt |-> None, act |-> "respond",
                      ref |-> {}, n |-> 0]
    BY <1>4 DEF HandleRoutine, ReleaseInv, Only, Free, Activation
  <2>2. IsJob(job'[j]) /\ job'[j].pc = "answer"
    BY <2>1 DEF IsJob
  <2>3. PtyMoves
    BY <1>4, StoppingMoves DEF HandleRoutine
  <2>4. task' = [t EXCEPT ![s].auto = auto]
    BY <1>2, <1>4 DEF HandleRoutine, Shaped
  <2>5. Calm(t, task')
    BY <1>1, <2>4, CalmWrites
  <2>6. Calm(task, task')
    BY <1>1, <2>5, CalmSteps
  <2> QED
    BY <2>1, <2>2, <2>3, <2>6, OneKept
<1>5. CASE HandleUndecided(j, s, p, rest, t, buffered)
  <2>1. PtyMoves
    BY <1>5, StoppingMoves DEF HandleUndecided
  <2>2. CASE s \in inFlight
    <3>1. Only(j) /\ job'[j] = After(s, rest) /\ task' = t
      BY <1>5, <2>2 DEF HandleUndecided, End, ReleaseInv, Only
    <3> QED
      BY <2>1, <3>1, JobShapes, OneKept
  <2>3. CASE s \notin inFlight
    <3>1. /\ Only(j) /\ task' = SetStatus(t, s, "blocked")
          /\ job'[j] = [pc |-> "route", s |-> s, kind |-> "none", lock |-> FALSE,
                        after |-> rest, prompt |-> p, act |-> "ignore",
                        ref |-> {}, n |-> 0]
      BY <1>5, <2>3 DEF HandleUndecided, ReleaseInv, Only, Free, Activation
    <3>2. IsJob(job'[j]) /\ job'[j].pc = "route"
      BY <3>1 DEF IsJob
    <3>3. Calm(t, task')
      BY <1>1, <3>1, CalmSteps
    <3>4. Calm(task, task')
      BY <1>1, <3>3, CalmSteps
    <3> QED
      BY <2>1, <3>1, <3>2, <3>4, OneKept
  <2> QED
    BY <2>2, <2>3
<1> QED
  BY <1>3, <1>4, <1>5 DEF HandleBlocked

(* handleTurnComplete.                                                     *)
LEMMA TurnKept ==
  ASSUME ReleaseInv, PtyMoves, NEW j \in Jobs, job[j].pc # "closing", NEW s, NEW rest,
         HandleTurnComplete(j, s, rest)
  PROVE  JobsKept
<1>1. PICK q : q = <<"blocked", "turn">>
  OBVIOUS
<1>2. /\ Only(j)
      /\ job'[j] = After(s, rest) \/ job'[j] = Locked(s, "turn", None, q)
  BY <1>1 DEF HandleTurnComplete, End, ReleaseInv, Only
<1> QED
  BY <1>2, JobShapes, OneKept

(* A new activation.                                                       *)
LEMMA NewKept ==
  ASSUME ReleaseInv, PtyMoves, Room(1), NEW pc, NEW s, NEW kind, NEW act,
         pc # "register", pc # "replaced", job' = [job EXCEPT ![NewJob] = Activation(pc, s, kind, act)]
  PROVE  JobsKept
<1>1. PICK j \in Jobs : j = NewJob /\ job[j].pc = "free"
  BY NewIsFree
<1>2. Only(j) /\ job'[j] = Activation(pc, s, kind, act)
  BY <1>1 DEF ReleaseInv, Only
<1> QED
  BY <1>1, <1>2, JobShapes, OneKept

(* A step of an activation that only writes contexts calmly and ends, or   *)
(* asks its process to stop and ends.                                      *)
LEMMA EndReleases ==
  ASSUME ReleaseInv, NEW j \in Jobs, job[j].pc # "closing", UNCHANGED tasks,
         Finally(j), Calm(task, task'),
         \E s : pty' = Stopping(s) \/ UNCHANGED pty
  PROVE  ReleaseInv'
<1>1. PtyMoves
  BY StoppingMoves
<1>2. JobsKept
  BY <1>1, EndKept
<1> QED
  BY <1>1, <1>2, StillReleased

(* One that goes on and writes contexts calmly.                            *)
LEMMA GoesOnReleases ==
  ASSUME ReleaseInv, NEW j \in Jobs, job[j].pc # "closing", UNCHANGED <<tasks, pty>>,
         NEW pc, pc # "register", pc # "replaced", Goto(j, pc), Calm(task, task')
  PROVE  ReleaseInv'
<1>1. PtyMoves
  BY StoppingMoves
<1>2. JobsKept
  BY <1>1, GotoKept
<1> QED
  BY <1>1, <1>2, StillReleased

(* One that executes a decision.                                           *)
LEMMA ExecuteReleases ==
  ASSUME ReleaseInv, NEW j \in Jobs, job[j].pc # "closing", UNCHANGED tasks,
         NEW d, NEW t, Execute(j, d, t), Calm(task, t)
  PROVE  ReleaseInv'
<1>1. JobsKept /\ PtyMoves /\ Calm(task, task')
  BY ExecuteKept
<1> QED
  BY <1>1, StillReleased

(* The activation closes: the process is asked to stop unless it is kept.  *)
LEMMA ClosingReleases ==
  ASSUME ReleaseInv, NEW j \in Jobs, Closing(j)
  PROVE  ReleaseInv'
<1>1. PICK s, rest : s = job[j].s /\ rest = job[j].after
  OBVIOUS
<1>2. /\ tasks' = tasks /\ task' = task
      /\ pty' = Stopping(s) \/ UNCHANGED pty
      /\ s \notin KeepAlive \ Validated => pty' = Stopping(s)
  BY <1>1 DEF Closing, Done, taskVars
<1>3. PtyMoves
  BY <1>2, StoppingMoves
<1>4. Only(j) /\ job'[j] = After(s, rest)
  BY <1>1 DEF Closing, Done, Finally, ReleaseInv, Only
<1>5. IsJob(job'[j]) /\ job'[j].pc \notin {"register", "replaced"}
  BY <1>4, JobShapes
<1>6. \A k \in Jobs : IsJob(job'[k]) /\ RegisterKnown(k)'
  <2>1. RegisterKnown(j)'
    BY <1>5 DEF RegisterKnown
  <2>2. ASSUME NEW k \in Jobs \ {j} PROVE RegisterKnown(k)'
    BY <1>3, <1>4 DEF ReleaseInv, PtyMoves, RegisterKnown, Only
  <2> QED
    BY <1>4, <1>5, <2>1, <2>2 DEF ReleaseInv, Only
<1>7. ASSUME NEW x \in tasks PROVE x \in Sessions /\ pty'[x] # "unspawned"
  BY <1>3 DEF ReleaseInv, PtyMoves
<1>8. ASSUME NEW x \in tasks \ (KeepAlive \ Validated), task[x].status = "completed"
      PROVE  pty'[x] # "running" \/ \E k \in Jobs : job'[k].pc = "closing" /\ job'[k].s = x
  <2>1. CASE x = s
    <3>1. pty' = Stopping(s) /\ s \in Sessions
      BY <1>2, <1>7, <1>8, <2>1
    <3> QED
      BY <2>1, <3>1 DEF ReleaseInv, Stopping
  <2>2. CASE x # s
    <3>1. x \in Sessions /\ pty[x] # "unspawned"
      BY <1>8 DEF ReleaseInv
    <3>2. \/ pty[x] # "running"
          \/ \E k \in Jobs : job[k].pc = "closing" /\ job[k].s = x
      BY <1>8 DEF ReleaseInv, CompletedReleasesSession
    <3> QED
      BY <1>1, <1>3, <1>4, <2>2, <3>1, <3>2 DEF PtyMoves, Only
  <2> QED
    BY <2>1, <2>2
<1>9. CompletedReleasesSession'
  BY <1>2, <1>8 DEF CompletedReleasesSession
<1> QED
  BY <1>2, <1>3, <1>4, <1>6, <1>7, <1>9 DEF ReleaseInv, PtyMoves, Only

(* A replacement is spawned.                                               *)
LEMMA SpawnedReleases ==
  ASSUME ReleaseInv, NEW j \in Jobs, NEW r \in Sessions, NEW n, Spawned(j, r, n)
  PROVE  ReleaseInv'
<1>1. /\ job[j].pc = "recover" /\ pty[r] = "unspawned" /\ UNCHANGED tasks
      /\ Sessions \ Clients # {}
      /\ pty' = [pty EXCEPT ![r] = "running"] /\ task' = [task EXCEPT ![r].ordinal = n]
      /\ job' = [job EXCEPT ![j].pc = "register", ![j].ref = {r}]
  BY DEF Spawned, At
<1>2. PtyMoves /\ pty'[r] = "running"
  BY <1>1 DEF ReleaseInv, PtyMoves
<1>3. Calm(task, task')
  BY <1>1, CalmWrites DEF ReleaseInv
<1>4. /\ DOMAIN job' = Jobs /\ job'[j] = [job[j] EXCEPT !.pc = "register", !.ref = {r}]
      /\ \A k \in Jobs \ {j} : job'[k] = job[k]
  BY <1>1 DEF ReleaseInv
<1>5. IsJob(job'[j]) /\ job'[j].ref = {r}
  BY <1>4 DEF ReleaseInv, IsJob
<1>6. RegisterKnown(j)'
  BY <1>1, <1>2, <1>5 DEF RegisterKnown
<1>7. \A k \in Jobs \ {j} : RegisterKnown(k)'
  BY <1>2, <1>4 DEF ReleaseInv, PtyMoves, RegisterKnown
<1>8. JobsKept
  BY <1>1, <1>4, <1>5, <1>6, <1>7 DEF ReleaseInv, JobsKept
<1> QED
  BY <1>1, <1>2, <1>3, <1>8, StillReleased

(* It is registered with the session it was spawned as.                    *)
LEMMA ReplacementReleases ==
  ASSUME ReleaseInv, NEW j \in Jobs, RegisterReplacement(j)
  PROVE  ReleaseInv'
<1>1. PtyMoves /\ job[j].pc = "register" /\ UNCHANGED pty
  BY StoppingMoves DEF RegisterReplacement, At
<1>2. PICK r, n : r \in job[j].ref /\ n = task[r].ordinal /\ Register(r, n)
  BY DEF RegisterReplacement
<1>3. r \in Sessions /\ pty[r] # "unspawned"
  BY <1>1, <1>2 DEF ReleaseInv, RegisterKnown
<1>4. IsJob(job[j]) /\ Only(j) /\ job'[j] = [job[j] EXCEPT !.pc = "replaced"]
  BY DEF RegisterReplacement, Goto, ReleaseInv, Only
<1>5. IsJob(job'[j]) /\ job'[j].pc = "replaced"
  BY <1>4 DEF IsJob
<1>6. JobsKept
  BY <1>1, <1>4, <1>5, OneKept
<1> QED
  BY <1>1, <1>2, <1>3, <1>6, Registers

(* A finally block drains one of its buffers.                              *)
LEMMA DrainReleases ==
  ASSUME ReleaseInv, NEW j \in Jobs, Drain(j)
  PROVE  ReleaseInv'
<1>1. job[j].pc = "drain" /\ UNCHANGED tasks
  BY DEF Drain
<1>2. PICK s, rest, p, t, buffered :
        /\ s = job[j].s /\ rest = Tail(job[j].after) /\ p = pendingBlocked[s]
        /\ t = task /\ buffered = [pendingBlocked EXCEPT ![s] = None]
  OBVIOUS
<1>3. Calm(task, task) /\ Calm(task, t)
  BY <1>2, CalmSteps DEF ReleaseInv
<1>4. CASE HandleBlocked(j, s, p, rest, t, buffered)
  BY <1>1, <1>3, <1>4, BlockedKept, StillReleased
<1>5. ASSUME UNCHANGED <<task, pty>>, HandleTurnComplete(j, s, rest) PROVE ReleaseInv'
  BY <1>1, <1>3, <1>5, StoppingMoves, TurnKept, StillReleased
<1>6. ASSUME UNCHANGED <<task, pty>>, End(j, s, rest) PROVE ReleaseInv'
  <2>1. Only(j) /\ job'[j] = After(s, rest)
    BY <1>6 DEF End, ReleaseInv, Only
  <2> QED
    BY <1>1, <1>3, <1>6, <2>1, StoppingMoves, JobShapes, OneKept, StillReleased
<1> QED
  BY <1>2, <1>4, <1>5, <1>6 DEF Drain

(* The verdict about a completed task.                                     *)
LEMMA JudgedReleases ==
  ASSUME ReleaseInv, NEW j \in Jobs, job[j].pc # "closing", UNCHANGED <<tasks, pty>>,
         NEW st, NEW pc, pc # "register", pc # "replaced",
         st = "completed" => pc = "closing",
         Judged(j, st, pc)
  PROVE  ReleaseInv'
<1>1. PICK s : s = job[j].s
  OBVIOUS
<1>2. task' = SetStatus(task, s, st) /\ Goto(j, pc) /\ Shaped(task)
  BY <1>1 DEF Judged, ReleaseInv
<1>3. CASE st # "completed"
  BY <1>2, <1>3, CalmSteps, GoesOnReleases
<1>4. CASE st = "completed"
  BY <1>1, <1>2, <1>4, StatusShape, Completes
<1> QED
  BY <1>3, <1>4

(* Every step of an activation keeps the invariant.                        *)
LEMMA StepReleases ==
  ASSUME ReleaseInv, NEW j \in Jobs, Step(j)
  PROVE  ReleaseInv'
<1> USE DEF At, taskVars
<1> PICK s, rest : s = job[j].s /\ rest = job[j].after
  OBVIOUS
<1>0. Shaped(task) /\ Calm(task, task)
  BY CalmSteps DEF ReleaseInv
<1>1. CASE Route(j)
  <2>1. UNCHANGED <<tasks, task, pty>> /\ job[j].pc = "route"
    BY <1>1 DEF Route
  <2>2. \E r : \/ job' = [job EXCEPT ![j] = After(s, rest)]
              \/ \E kind, p : job' = [job EXCEPT ![j] = Locked(s, kind, p, r)]
    BY <1>1 DEF Route, End
  <2>3. PICK r, kind, p : \/ job' = [job EXCEPT ![j] = After(s, rest)]
                          \/ job' = [job EXCEPT ![j] = Locked(s, kind, p, r)]
    BY <2>2
  <2>4. Only(j) /\ (job'[j] = After(s, rest) \/ job'[j] = Locked(s, kind, p, r))
    BY <2>3 DEF ReleaseInv, Only
  <2> QED
    BY <1>0, <2>1, <2>4, StoppingMoves, JobShapes, OneKept, StillReleased
<1>2. CASE AssessTurn(j)
  <2>1. UNCHANGED tasks /\ job[j].pc = "assess"
    BY <1>2 DEF AssessTurn, Assessing
  <2>2. CASE Fail(j) /\ UNCHANGED <<task, pty>>
    BY <1>0, <2>1, <2>2, EndReleases DEF Fail
  <2>3. CASE \E d \in Decisions : Execute(j, d, task)
    <3>1. PICK d, t : t = task /\ Execute(j, d, t)
      BY <2>3
    <3> QED
      BY <1>0, <2>1, <3>1, ExecuteReleases
  <2> QED
    BY <1>2, <2>2, <2>3 DEF AssessTurn
<1>3. CASE AssessBlocked(j)
  <2>1. UNCHANGED tasks /\ job[j].pc = "assess"
    BY <1>3 DEF AssessBlocked, Assessing
  <2>2. CASE Fail(j) /\ UNCHANGED <<task, pty>>
    BY <1>0, <2>1, <2>2, EndReleases DEF Fail
  <2>3. PICK t : t = [task EXCEPT ![s].auto = 0]
    OBVIOUS
  <2>4. Calm(task, t)
    BY <1>0, <2>3, CalmWrites
  <2>5. CASE \E d \in Parsed : Execute(j, d, t)
    BY <2>1, <2>4, <2>5, ExecuteReleases
  <2> QED
    BY <1>3, <2>2, <2>3, <2>5 DEF AssessBlocked
<1>4. CASE AssessIdle(j)
  <2>1. UNCHANGED tasks /\ job[j].pc = "assess"
    BY <1>4 DEF AssessIdle, Assessing
  <2>2. CASE Fail(j) /\ UNCHANGED <<task, pty>>
    BY <1>0, <2>1, <2>2, EndReleases DEF Fail
  <2>3. CASE \E d \in Parsed : Execute(j, d, task)
    <3>1. PICK d, t : t = task /\ Execute(j, d, t)
      BY <2>3
    <3> QED
      BY <1>0, <2>1, <3>1, ExecuteReleases
  <2> QED
    BY <1>4, <2>2, <2>3 DEF AssessIdle
<1>5. CASE AssessConfirm(j)
  <2>1. /\ UNCHANGED <<tasks, pty>> /\ job[j].pc = "assess" /\ Finally(j)
        /\ task' = SetStatus(task, s, "blocked")
    BY <1>5 DEF AssessConfirm, Assessing
  <2> QED
    BY <1>0, <2>1, CalmSteps, EndReleases
<1>6. CASE Answer(j)
  <2>1. PICK d, t : t = task /\ d = job[j].act /\ Execute(j, d, t)
    BY <1>6 DEF Answer
  <2>2. UNCHANGED tasks /\ job[j].pc = "answer"
    BY <1>6 DEF Answer
  <2> QED
    BY <1>0, <2>1, <2>2, ExecuteReleases
<1>7. CASE Sent(j)
  <2>1. /\ UNCHANGED tasks /\ job[j].pc = "sending" /\ Finally(j) /\ UNCHANGED pty
    BY <1>7 DEF Sent, Done, Fail
  <2>2. \/ UNCHANGED task
        \/ \E v : task' = [task EXCEPT ![s].cooldown = v]
    BY <1>7 DEF Sent
  <2>3. \A v : Calm(task, [task EXCEPT ![s].cooldown = v])
    BY <1>0, CalmWrites, Zenon
  <2>4. Calm(task, task')
    BY <1>0, <2>2, <2>3
  <2> QED
    BY <2>1, <2>4, EndReleases
<1>8. CASE Summarized(j)
  <2>1. UNCHANGED tasks /\ job[j].pc = "summarize"
    BY <1>8 DEF Summarized
  <2>2. CASE Done(j, "complete", Stopping(job[j].s)) /\ UNCHANGED task
    BY <1>0, <2>1, <2>2, EndReleases DEF Done
  <2>3. CASE /\ Goto(j, "validate") /\ UNCHANGED pty
             /\ task' = SetStatus(task, s, "tool_running")
    BY <1>0, <2>1, <2>3, CalmSteps, GoesOnReleases
  <2> QED
    BY <1>8, <2>2, <2>3 DEF Summarized
<1>9. CASE ValidateCustom(j)
  <2>1. UNCHANGED <<tasks, pty>> /\ job[j].pc = "validate"
    BY <1>9 DEF ValidateCustom, Validating
  <2>2. CASE Judged(j, "completed", "closing") \/ Judged(j, "error", "closing")
    BY <2>1, <2>2, JudgedReleases
  <2>3. ASSUME NEW n, task' = SetStatus(task, s, "active"),
               job' = [job EXCEPT ![j].pc = "retrySend", ![j].n = n]
        PROVE  ReleaseInv'
    <3>1. PtyMoves
      BY <2>1, StoppingMoves
    <3>2. JobsKept
      BY <2>1, <2>3, <3>1, GotoKept
    <3> QED
      BY <1>0, <2>1, <2>3, <3>1, <3>2, CalmSteps, StillReleased
  <2> QED
    BY <1>9, <2>2, <2>3 DEF ValidateCustom
<1>10. CASE ValidateCompletion(j)
  <2>1. UNCHANGED <<tasks, pty>> /\ job[j].pc = "validate"
    BY <1>10 DEF ValidateCompletion, Validating
  <2>2. \/ Judged(j, "completed", "closing") \/ Judged(j, "active", "followUp")
        \/ Judged(j, "blocked", "unproven")
    BY <1>10 DEF ValidateCompletion
  <2> QED
    BY <2>1, <2>2, JudgedReleases
<1>11. CASE RetrySent(j)
  <2>1. /\ UNCHANGED <<tasks, pty>> /\ job[j].pc = "retrySend" /\ Finally(j)
    BY <1>11 DEF RetrySent, Done, Fail
  <2>2. PICK v, t, u : /\ t = task /\ u = task' /\ v = job[j].n
    OBVIOUS
  <2>3. u = t \/ u = [t EXCEPT ![s].cooldown = TRUE, ![s].retries = v]
    BY <1>11, <2>2 DEF RetrySent
  <2>4. CASE u = [t EXCEPT ![s].cooldown = TRUE, ![s].retries = v]
    <3>1. Shaped(t)
      BY <1>0, <2>2
    <3>2. Calm(t, u)
      BY <2>4, <3>1, CalmWrite
    <3> QED
      BY <2>1, <2>2, <3>2, EndReleases
  <2>5. CASE u = t
    BY <1>0, <2>1, <2>2, <2>5, EndReleases
  <2> QED
    BY <2>3, <2>4, <2>5
<1>12. CASE FollowUp(j)
  <2>1. UNCHANGED <<tasks, pty>> /\ job[j].pc \in {"followUp", "unproven"}
    BY <1>12 DEF FollowUp
  <2>2. CASE Fail(j) /\ UNCHANGED task
    BY <1>0, <2>1, <2>2, EndReleases DEF Fail
  <2>3. CASE Judged(j, "completed", "closing")
    BY <2>1, <2>3, JudgedReleases
  <2>4. CASE /\ task' = [task EXCEPT ![s].cooldown = TRUE, ![s].status = "completed"]
             /\ Goto(j, "closing")
    <3>1. /\ DOMAIN task' = Sessions
          /\ \A x \in Sessions : task'[x] =
               IF x = s THEN [task[x] EXCEPT !.cooldown = TRUE, !.status = "completed"]
               ELSE task[x]
      BY <1>0, <2>4 DEF Shaped
    <3>2. ASSUME NEW x \in Sessions PROVE IsTask(task'[x])
      BY <1>0, <3>1 DEF Shaped, IsTask
    <3> QED
      BY <2>1, <2>4, <3>1, <3>2, Completes DEF Shaped
  <2> QED
    BY <1>12, <2>2, <2>3, <2>4 DEF FollowUp
<1>13. CASE Closing(j)
  BY <1>13, ClosingReleases
<1>14. CASE Drain(j)
  BY <1>14, DrainReleases
<1>15. CASE RegisterReplacement(j)
  BY <1>15, ReplacementReleases
<1>16. CASE ErrorHandled(j) \/ DepletionHandled(j) \/ AuthReplaced(j)
            \/ LoginResumed(j) \/ LoginLeft(j)
  <2>1. /\ UNCHANGED tasks /\ job[j].pc # "closing" /\ job' = [job EXCEPT ![j] = Free]
        /\ pty' = Stopping(s) \/ UNCHANGED pty
    BY <1>16 DEF ErrorHandled, DepletionHandled, AuthReplaced, LoginResumed, LoginLeft,
                 Superseded, LoginAnswered
  <2>2. \/ \E st \in {"error", "stopped", "blocked"} : task' = SetStatus(task, s, st)
        \/ task' = [task EXCEPT ![s].status = "error", ![s].recent = TRUE]
        \/ task' = [task EXCEPT ![s].status = "active", ![s].recent = FALSE, ![s].idle = 0]
        \/ task' = task
    BY <1>16 DEF ErrorHandled, DepletionHandled, AuthReplaced, LoginResumed, LoginLeft
  <2>3. Calm(task, task')
    <3>1. PICK t, u : t = task /\ u = task'
      OBVIOUS
    <3>2. CASE \/ u = [t EXCEPT ![s].status = "error", ![s].recent = TRUE]
               \/ u = [t EXCEPT ![s].status = "active", ![s].recent = FALSE, ![s].idle = 0]
      BY <1>0, <3>1, <3>2, CalmWrite
    <3> QED
      BY <1>0, <2>2, <3>1, <3>2, CalmSteps
  <2>4. PtyMoves
    BY <2>1, StoppingMoves
  <2>5. Only(j) /\ job'[j] = Free
    BY <2>1 DEF ReleaseInv, Only
  <2>6. JobsKept
    BY <2>1, <2>4, <2>5, JobShapes, OneKept
  <2> QED
    BY <2>1, <2>3, <2>4, <2>6, StillReleased
<1>17. CASE LoginReplaces(j)
  <2>1. /\ UNCHANGED <<tasks, task, pty>> /\ job[j].pc = "login"
        /\ job' = [job EXCEPT ![j].pc = "recover", ![j].kind = "auth"]
    BY <1>17 DEF LoginReplaces, LoginAnswered
  <2>2. PtyMoves
    BY <2>1, StoppingMoves
  <2>3. JobsKept
    BY <2>1, <2>2, GotoKept
  <2> QED
    BY <1>0, <2>1, <2>2, <2>3, StillReleased
<1>18. CASE IdleProbe(j)
  <2>1. UNCHANGED <<tasks, pty>> /\ job[j].pc = "idleProbe"
    BY <1>18 DEF IdleProbe
  <2>2. PtyMoves
    BY <2>1, StoppingMoves
  <2>3. PICK idle, none : idle = task[s].idle + 1 /\ none = <<>>
    OBVIOUS
  <2>4. /\ \/ \E v : task' = [task EXCEPT ![s].idle = v]
           \/ task' = [Stopped(task, s) EXCEPT ![s].idle = idle]
        /\ \/ job' = [job EXCEPT ![j] = Free]
           \/ job' = [job EXCEPT ![j].pc = "closing", ![j].kind = "stale"]
           \/ job' = [job EXCEPT ![j] = Locked(s, "idle", None, none)]
    BY <1>18, <2>3 DEF IdleProbe
  <2>5. Calm(task, task')
    <3>1. PICK t : t = Stopped(task, s)
      OBVIOUS
    <3>2. Calm(task, t)
      BY <1>0, <3>1, CalmSteps
    <3>3. CASE task' = [t EXCEPT ![s].idle = idle]
      <4>1. PICK u : u = task'
        OBVIOUS
      <4>2. Shaped(t) /\ u = [t EXCEPT ![s].idle = idle]
        BY <3>2, <3>3, <4>1 DEF Calm
      <4>3. Calm(t, u)
        BY <4>2, CalmWrites, Zenon
      <4> QED
        BY <1>0, <3>2, <4>1, <4>3, CalmSteps
    <3>4. \A v : Calm(task, [task EXCEPT ![s].idle = v])
      BY <1>0, CalmWrites, Zenon
    <3>5. \/ \E v : task' = [task EXCEPT ![s].idle = v]
          \/ task' = [t EXCEPT ![s].idle = idle]
      BY <2>4, <3>1
    <3>6. ASSUME NEW v, task' = [task EXCEPT ![s].idle = v]
          PROVE  Calm(task, task')
      BY <3>4, <3>6, Zenon
    <3> QED
      BY <3>3, <3>5, <3>6
  <2>6. CASE job' = [job EXCEPT ![j].pc = "closing", ![j].kind = "stale"]
    BY <2>1, <2>2, <2>5, <2>6, GotoKept, StillReleased
  <2>7. ASSUME NEW r, IsJob(r), r.pc # "register", r.pc # "replaced",
               job' = [job EXCEPT ![j] = r]
        PROVE  ReleaseInv'
    <3>1. Only(j) /\ job'[j] = r
      BY <2>7 DEF ReleaseInv, Only
    <3> QED
      BY <2>1, <2>2, <2>5, <2>7, <3>1, OneKept, StillReleased
  <2> QED
    BY <2>4, <2>6, <2>7, JobShapes
<1>19. ASSUME NEW r \in Sessions, Failover(j, r) \/ Recover(j, r)
       PROVE  ReleaseInv'
  <2>1. PICK n : Spawned(j, r, n)
    BY <1>19 DEF Failover, Recover
  <2> QED
    BY <2>1, SpawnedReleases
<1> QED
  BY <1>1, <1>2, <1>3, <1>4, <1>5, <1>6, <1>7, <1>8, <1>9, <1>10, <1>11, <1>12,
     <1>13, <1>14, <1>15, <1>16, <1>17, <1>18, <1>19 DEF Step

(* An event, whatever it is, completes no task and registers none.         *)
LEMMA EventReleases ==
  ASSUME ReleaseInv, HandleEvent
  PROVE  ReleaseInv'
<1> USE DEF taskVars
<1>1. PICK s, t : s = Event.s /\ t = Touched
  OBVIOUS
<1>2. /\ Shaped(task) /\ Shaped(t) /\ Calm(task, task) /\ Calm(task, t)
  BY <1>1, TouchedCalm, CalmSteps DEF ReleaseInv, Calm
<1>3. CASE HandleBlockedEvent
  <2>1. UNCHANGED tasks /\ Room(1)
    BY <1>3 DEF HandleBlockedEvent
  <2>2. CASE Start("depleted", "recover") /\ task' = t /\ UNCHANGED pty
    <3>1. PtyMoves
      BY <2>2, StoppingMoves
    <3>2. JobsKept
      BY <1>1, <2>1, <2>2, <3>1, NewKept DEF Start
    <3> QED
      BY <1>2, <2>1, <2>2, <3>1, <3>2, StillReleased
  <2>3. PICK j \in Jobs : j = NewJob /\ job[j].pc = "free"
    BY <2>1, NewIsFree
  <2>4. PICK p, none, buffered :
          p = Event.prompt /\ none = <<>> /\ buffered = pendingBlocked
    OBVIOUS
  <2>5. CASE HandleBlocked(j, s, p, none, t, buffered)
    <3>1. JobsKept /\ PtyMoves /\ Calm(task, task')
      BY <1>2, <2>3, <2>5, BlockedKept
    <3> QED
      BY <2>1, <3>1, StillReleased
  <2> QED
    BY <1>1, <1>3, <2>2, <2>3, <2>4, <2>5 DEF HandleBlockedEvent
<1>4. CASE HandleError \/ HandleLoginRequired
  <2>1. /\ Room(1) /\ UNCHANGED <<tasks, pty>> /\ task' = t
        /\ \E pc \in {"recover", "login"} : \E kind :
             job' = [job EXCEPT ![NewJob] = Activation(pc, s, kind, "ignore")]
    BY <1>1, <1>4 DEF HandleError, HandleLoginRequired, Start
  <2>2. PtyMoves
    BY <2>1, StoppingMoves
  <2>3. JobsKept
    BY <2>1, <2>2, NewKept
  <2> QED
    BY <1>2, <2>1, <2>2, <2>3, StillReleased
<1>5. ASSUME UNCHANGED <<tasks, job, pty>>, Calm(task, task') PROVE ReleaseInv'
  BY <1>5, StoppingMoves, NoneKept, StillReleased
<1>6. CASE HandleUnregistered
  BY <1>2, <1>5, <1>6 DEF HandleUnregistered
<1>7. CASE HandlePutOff \/ HandleTaskComplete
  BY <1>1, <1>2, <1>5, <1>7 DEF HandlePutOff, HandleTaskComplete
<1>8. CASE HandleStopped
  <2>1. UNCHANGED <<tasks, job, pty>> /\ (task' = t \/ task' = Stopped(t, s))
    BY <1>1, <1>8 DEF HandleStopped
  <2> QED
    BY <1>2, <1>5, <2>1, CalmSteps
<1>9. CASE HandleProgress
  <2>1. /\ UNCHANGED <<tasks, job, pty>>
        /\ \E st \in {"active", "tool_running"} : task' = SetStatus(t, s, st)
    BY <1>1, <1>9 DEF HandleProgress
  <2> QED
    BY <1>2, <1>5, <2>1, CalmSteps
<1> QED
  BY <1>3, <1>4, <1>6, <1>7, <1>8, <1>9 DEF HandleEvent

(* Neither do the timers, the sessions, the watchdog and the user, but for *)
(* a client that registers the session it spawned.                         *)
LEMMA NextReleases ==
  ASSUME ReleaseInv, [Next]_vars
  PROVE  ReleaseInv'
<1> USE DEF taskVars
<1>1. Shaped(task) /\ Calm(task, task)
  BY CalmSteps DEF ReleaseInv
<1>2. ASSUME UNCHANGED <<tasks, job>>, PtyMoves, Calm(task, task') PROVE ReleaseInv'
  BY <1>2, NoneKept, StillReleased
<1>3. CASE Checks \/ Pause \/ Resume \/ UNCHANGED vars
            \/ \E level : SetSupervisionLevel(level)
  <2>1. UNCHANGED <<tasks, task, job, pty>>
    BY <1>3 DEF Checks, FinishCheck, Pause, Resume, SetSupervisionLevel, vars
  <2> QED
    BY <1>1, <1>2, <2>1, StoppingMoves
<1>4. ASSUME NEW s \in Sessions, Environment(s) PROVE ReleaseInv'
  <2>1. CASE SpawnSession(s) \/ \E silent : SessionEnds(s, silent)
    <3>1. /\ UNCHANGED <<tasks, task, job>>
          /\ \/ pty[s] = "unspawned" /\ pty' = [pty EXCEPT ![s] = "running"]
             \/ pty' = [pty EXCEPT ![s] = "gone"]
      BY <2>1 DEF SpawnSession, SessionEnds
    <3>2. PtyMoves
      BY <3>1 DEF ReleaseInv, PtyMoves
    <3> QED
      BY <1>1, <1>2, <3>1, <3>2
  <2>2. CASE RegisterTask(s)
    <3>1. UNCHANGED <<job, pty>> /\ pty[s] # "unspawned" /\ Register(s, 0)
      BY <2>2 DEF RegisterTask
    <3> QED
      BY <3>1, StoppingMoves, NoneKept, Registers
  <2>3. CASE DiscardUnregistered(s) \/ \E name, p : AgentEmits(s, name, p)
    <3>1. UNCHANGED <<tasks, task, job, pty>>
      BY <2>3 DEF DiscardUnregistered, AgentEmits
    <3> QED
      BY <1>1, <1>2, <3>1, StoppingMoves
  <2>4. ASSUME NEW d, Confirm(s, d) PROVE ReleaseInv'
    <3>1. /\ Room(1) /\ UNCHANGED <<tasks, pty>>
          /\ job' = [job EXCEPT ![NewJob] = Activation("answer", s, "human", d)]
          /\ \/ task' = [task EXCEPT ![s].status = "active", ![s].auto = 0]
             \/ task' = task
      BY <2>4 DEF Confirm
    <3>2. Calm(task, [task EXCEPT ![s].status = "active", ![s].auto = 0])
      BY <1>1, CalmWrites, Zenon
    <3>3. Calm(task, task')
      BY <1>1, <3>1, <3>2
    <3>4. PtyMoves
      BY <3>1, StoppingMoves
    <3>5. JobsKept
      BY <3>1, <3>4, NewKept
    <3> QED
      BY <3>1, <3>3, <3>4, <3>5, StillReleased
  <2>5. CASE Reject(s)
    <3>1. /\ UNCHANGED <<tasks, job, pty>>
          /\ task' = SetStatus(task, s, "blocked") \/ task' = task
      BY <2>5 DEF Reject
    <3> QED
      BY <1>1, <1>2, <3>1, StoppingMoves, CalmSteps
  <2> QED
    BY <1>4, <2>1, <2>2, <2>3, <2>4, <2>5 DEF Environment
<1>5. ASSUME NEW s \in Sessions, Timers(s) PROVE ReleaseInv'
  <2>1. CASE TurnTimerFires(s)
    <3>1. PICK none : none = <<>>
      OBVIOUS
    <3>2. Room(1) /\ UNCHANGED <<tasks, task, pty>>
      BY <2>1 DEF TurnTimerFires
    <3>3. PICK j \in Jobs : j = NewJob /\ job[j].pc = "free"
      BY <3>2, NewIsFree
    <3>4. UNCHANGED job \/ HandleTurnComplete(j, s, none)
      BY <2>1, <3>1, <3>3 DEF TurnTimerFires
    <3>5. PtyMoves
      BY <3>2, StoppingMoves
    <3>6. JobsKept
      BY <3>3, <3>4, <3>5, NoneKept, TurnKept
    <3> QED
      BY <1>1, <3>2, <3>5, <3>6, StillReleased
  <2>2. CASE CooldownEnds(s) \/ RecoveryWindowEnds(s)
    <3>1. /\ UNCHANGED <<tasks, job, pty>>
          /\ \/ task' = [task EXCEPT ![s].cooldown = FALSE]
             \/ task' = [task EXCEPT ![s].recent = FALSE]
      BY <2>2 DEF CooldownEnds, RecoveryWindowEnds
    <3>2. /\ \A v : Calm(task, [task EXCEPT ![s].cooldown = v])
          /\ \A v : Calm(task, [task EXCEPT ![s].recent = v])
      BY <1>1, CalmWrites, Zenon
    <3>3. Calm(task, task')
      BY <3>1, <3>2, Zenon
    <3> QED
      BY <1>2, <3>1, <3>3, StoppingMoves
  <2> QED
    BY <1>5, <2>1, <2>2 DEF Timers
<1>6. ASSUME NEW s \in Sessions, Watchdog(s) PROVE ReleaseInv'
  <2>1. CASE ScanFindsGone(s)
    <3>1. UNCHANGED <<tasks, job, pty>> /\ task' = Stopped(task, s)
      BY <2>1 DEF ScanFindsGone
    <3> QED
      BY <1>1, <1>2, <3>1, StoppingMoves, CalmSteps
  <2>2. CASE ScanFindsIdle(s)
    <3>1. /\ Room(1) /\ UNCHANGED <<tasks, task, pty>>
          /\ job' = [job EXCEPT ![NewJob] = Activation("idleProbe", s, "idle", "ignore")]
      BY <2>2 DEF ScanFindsIdle
    <3>2. PtyMoves
      BY <3>1, StoppingMoves
    <3>3. JobsKept
      BY <3>1, <3>2, NewKept
    <3> QED
      BY <1>1, <3>1, <3>2, <3>3, StillReleased
  <2> QED
    BY <1>6, <2>1, <2>2 DEF Watchdog
<1> QED
  BY <1>3, <1>4, <1>5, <1>6, EventReleases, StepReleases DEF Next

(* The coordinator starts without a task.                                  *)
LEMMA InitReleases == Init => ReleaseInv
<1> SUFFICES ASSUME Init PROVE ReleaseInv
  OBVIOUS
<1>1. \A j \in Jobs : IsJob(job[j]) /\ RegisterKnown(j)
  BY JobShapes DEF Init, RegisterKnown
<1>2. Shaped(task)
  BY DEF Init, Shaped, IsTask, NewTask
<1> QED
  BY <1>1, <1>2 DEF Init, ReleaseInv, CompletedReleasesSession

(* A task reported as completed does not keep its process: whoever wrote   *)
(* the status goes on to stop it, whatever events, timers, recoveries and  *)
(* answers of the user come between.                                       *)
THEOREM CompletedReleasesSessionHolds == Spec => []CompletedReleasesSession
<1>1. ReleaseInv => CompletedReleasesSession
  BY DEF ReleaseInv
<1>2. ReleaseInv /\ [Next]_vars => ReleaseInv'
  BY NextReleases
<1> QED
  BY InitReleases, <1>1, <1>2, PTL DEF Spec
-----------------------------------------------------------------------------
(* The third: every prompt that waits somewhere is one of the prompts, and *)
(* none that is out of scope is put off.                                   *)
PromptEvents == {e \in Events : e.name = "blocked" => e.prompt \in Prompts}
Held == {p \in Prompts : KindOf[p] # "unsafe"} \cup {None}
PromptsKnown ==
  /\ inbox \in Seq(PromptEvents) /\ pauseBuffer \in Seq(PromptEvents)
  /\ unregistered \in [Sessions -> Seq(PromptEvents)]
  /\ pendingBlocked \in [Sessions -> Held]

(* The prompt of an event that is handled is one of the prompts.           *)
LEMMA EventKnown ==
  ASSUME PromptsKnown, inbox # <<>>
  PROVE  Event \in PromptEvents /\ Tail(inbox) \in Seq(PromptEvents)
  BY DEF PromptsKnown, Event

(* Sequences of events, one event longer.                                  *)
LEMMA Longer ==
  ASSUME NEW S, NEW q \in Seq(S), NEW e \in S
  PROVE  Append(q, e) \in Seq(S) /\ <<e>> \in Seq(S) /\ <<>> \in Seq(S)
  OBVIOUS

(* handleBlocked puts off no other prompt than its own.                    *)
LEMMA BlockedKnown ==
  ASSUME NEW j, NEW s, NEW p \in Prompts, NEW rest, NEW t,
         NEW buffered \in [Sessions -> Held],
         HandleBlocked(j, s, p, rest, t, buffered)
  PROVE  pendingBlocked' \in [Sessions -> Held]
<1>1. \/ pendingBlocked' = buffered
      \/ p \in Held /\ pendingBlocked' = [buffered EXCEPT ![s] = p]
  BY DEF HandleBlocked, HandleUndecided, Held
<1> QED
  BY <1>1

(* A step of an activation.                                               *)
LEMMA StepKnows ==
  ASSUME ReleaseInv, PromptsKnown, NEW j \in Jobs, Step(j)
  PROVE  PromptsKnown'
<1> USE DEF buffers, pauseVars
<1>1. ASSUME UNCHANGED <<inbox, pauseBuffer, unregistered, pendingBlocked>>
      PROVE  PromptsKnown'
  BY <1>1 DEF PromptsKnown
<1>2. CASE Route(j) \/ AssessTurn(j) \/ AssessBlocked(j) \/ AssessIdle(j)
           \/ AssessConfirm(j)
  BY <1>1, <1>2 DEF Route, AssessTurn, AssessBlocked, AssessIdle, AssessConfirm, Assessing
<1>3. CASE Answer(j) \/ Sent(j) \/ Summarized(j) \/ RetrySent(j) \/ FollowUp(j)
           \/ Closing(j)
  BY <1>1, <1>3 DEF Answer, Sent, Summarized, RetrySent, FollowUp, Closing
<1>4. CASE ValidateCustom(j) \/ ValidateCompletion(j)
  BY <1>1, <1>4 DEF ValidateCustom, ValidateCompletion, Validating
<1>5. CASE ErrorHandled(j) \/ DepletionHandled(j) \/ AuthReplaced(j)
  BY <1>1, <1>5 DEF ErrorHandled, DepletionHandled, AuthReplaced, Superseded
<1>6. CASE LoginResumed(j) \/ LoginReplaces(j) \/ LoginLeft(j) \/ IdleProbe(j)
  BY <1>1, <1>6 DEF LoginResumed, LoginReplaces, LoginLeft, LoginAnswered, IdleProbe
<1>7. CASE \E r \in Sessions : Failover(j, r) \/ Recover(j, r)
  BY <1>1, <1>7 DEF Failover, Recover, Spawned
<1>8. CASE RegisterReplacement(j)
  <2>1. PICK r, n : r \in job[j].ref /\ Register(r, n)
    BY <1>8 DEF RegisterReplacement
  <2>2. r \in Sessions /\ UNCHANGED <<pauseBuffer, pendingBlocked>>
    BY <1>8, <2>1 DEF RegisterReplacement, At, ReleaseInv, RegisterKnown
  <2>3. inbox' = unregistered[r] /\ unregistered' = [unregistered EXCEPT ![r] = <<>>]
    BY <2>1 DEF Register
  <2> QED
    BY <2>2, <2>3 DEF PromptsKnown
<1>9. CASE Drain(j)
  <2>1. UNCHANGED <<inbox, pauseBuffer, unregistered>>
    BY <1>9 DEF Drain
  <2>2. PICK s, rest, p, t, buffered :
          /\ s = job[j].s /\ rest = Tail(job[j].after) /\ p = pendingBlocked[s]
          /\ t = task /\ buffered = [pendingBlocked EXCEPT ![s] = None]
    OBVIOUS
  <2>3. buffered \in [Sessions -> Held]
    BY <2>2 DEF PromptsKnown, Held
  <2>4. \/ s \in tasks /\ p # None /\ HandleBlocked(j, s, p, rest, t, buffered)
        \/ pendingBlocked' = buffered \/ UNCHANGED pendingBlocked
    BY <1>9, <2>2 DEF Drain
  <2>5. CASE s \in tasks /\ p # None /\ HandleBlocked(j, s, p, rest, t, buffered)
    <3>1. p \in Prompts
      BY <2>2, <2>5 DEF PromptsKnown, ReleaseInv, Held
    <3>2. pendingBlocked' \in [Sessions -> Held]
      BY <2>3, <2>5, <3>1, BlockedKnown
    <3> QED
      BY <2>1, <3>2 DEF PromptsKnown
  <2> QED
    BY <2>1, <2>3, <2>4, <2>5 DEF PromptsKnown
<1> QED
  BY <1>2, <1>3, <1>4, <1>5, <1>6, <1>7, <1>8, <1>9 DEF Step

(* Any step.                                                               *)
LEMMA NextKnows ==
  ASSUME ReleaseInv, PromptsKnown, [Next]_vars
  PROVE  PromptsKnown'
<1> USE DEF buffers, pauseVars
<1>1. ASSUME UNCHANGED <<inbox, pauseBuffer, unregistered, pendingBlocked>>
      PROVE  PromptsKnown'
  BY <1>1 DEF PromptsKnown
<1>2. CASE HandleEvent
  <2>1. /\ inbox # <<>> /\ inbox' = Tail(inbox)
    BY <1>2 DEF HandleEvent, HandleUnregistered, HandlePutOff, HandleBlockedEvent,
         HandleTaskComplete, HandleStopped, HandleProgress, HandleError,
         HandleLoginRequired, Taken
  <2>2. PICK e : e = Event
    OBVIOUS
  <2>3. e \in PromptEvents /\ inbox' \in Seq(PromptEvents)
    BY <2>1, <2>2, EventKnown
  <2>4. CASE HandleUnregistered
    <3>1. /\ UNCHANGED <<pauseBuffer, pendingBlocked>>
          /\ unregistered' = [unregistered EXCEPT ![e.s] = Append(@, e)]
             \/ UNCHANGED unregistered
      BY <2>2, <2>4 DEF HandleUnregistered
    <3>2. PICK q : q = Append(unregistered[e.s], e)
      OBVIOUS
    <3>3. unregistered[e.s] \in Seq(PromptEvents)
      BY <2>3 DEF PromptsKnown, PromptEvents, Events
    <3>4. q \in Seq(PromptEvents)
      BY <2>3, <3>2, <3>3, Longer
    <3>5. unregistered' = [unregistered EXCEPT ![e.s] = q] \/ UNCHANGED unregistered
      BY <3>1, <3>2
    <3>6. unregistered' \in [Sessions -> Seq(PromptEvents)]
      BY <3>4, <3>5 DEF PromptsKnown
    <3> QED
      BY <2>3, <3>1, <3>6 DEF PromptsKnown
  <2>5. CASE HandlePutOff
    <3>1. /\ UNCHANGED <<unregistered, pendingBlocked>>
          /\ pauseBuffer' = Append(pauseBuffer, e) \/ UNCHANGED pauseBuffer
      BY <2>2, <2>5 DEF HandlePutOff
    <3>2. pauseBuffer' \in Seq(PromptEvents)
      BY <2>3, <3>1, Longer DEF PromptsKnown
    <3> QED
      BY <2>3, <3>1, <3>2 DEF PromptsKnown
  <2>6. CASE HandleBlockedEvent
    <3>1. UNCHANGED <<unregistered, pauseBuffer>>
      BY <2>6 DEF HandleBlockedEvent
    <3>2. PICK s, p, none, t, buffered : s = e.s /\ p = e.prompt /\ none = <<>>
                        /\ t = Touched /\ buffered = pendingBlocked
      OBVIOUS
    <3>3. p \in Prompts
      BY <2>2, <2>3, <2>6, <3>2 DEF HandleBlockedEvent, Taken, PromptEvents
    <3>4. UNCHANGED pendingBlocked \/ HandleBlocked(NewJob, s, p, none, t, buffered)
      BY <2>2, <2>6, <3>2 DEF HandleBlockedEvent
    <3>5. pendingBlocked' \in [Sessions -> Held]
      BY <3>2, <3>3, <3>4, BlockedKnown DEF PromptsKnown
    <3> QED
      BY <2>3, <3>1, <3>5 DEF PromptsKnown
  <2>7. CASE HandleTaskComplete \/ HandleStopped \/ HandleProgress \/ HandleError
             \/ HandleLoginRequired
    <3>1. UNCHANGED <<unregistered, pauseBuffer, pendingBlocked>>
      BY <2>7 DEF HandleTaskComplete, HandleStopped, HandleProgress, HandleError,
         HandleLoginRequired
    <3> QED
      BY <2>3, <3>1 DEF PromptsKnown
  <2> QED
    BY <1>2, <2>4, <2>5, <2>6, <2>7 DEF HandleEvent
<1>3. CASE Checks \/ Pause \/ UNCHANGED vars \/ \E level : SetSupervisionLevel(level)
  BY <1>1, <1>3 DEF Checks, FinishCheck, Pause, SetSupervisionLevel, vars
<1>4. CASE Resume
  BY <1>4 DEF Resume, PromptsKnown
<1>5. ASSUME NEW s \in Sessions, Environment(s) PROVE PromptsKnown'
  <2>1. CASE SpawnSession(s) \/ Reject(s) \/ \E d \in Decisions : Confirm(s, d)
    BY <1>1, <2>1 DEF SpawnSession, Confirm, Reject
  <2>2. CASE RegisterTask(s)
    BY <2>2 DEF RegisterTask, Register, PromptsKnown
  <2>3. CASE DiscardUnregistered(s)
    BY <2>3 DEF DiscardUnregistered, PromptsKnown
  <2>4. ASSUME NEW name \in EventNames, NEW p \in Prompts \cup {None},
               AgentEmits(s, name, p)
        PROVE  PromptsKnown'
    <3>1. PICK e : e = [name |-> name, s |-> s, prompt |-> p]
      OBVIOUS
    <3>2. e \in PromptEvents
      BY <2>4, <3>1 DEF AgentEmits, PromptEvents, Events
    <3>3. inbox' = <<e>> /\ UNCHANGED <<pauseBuffer, unregistered, pendingBlocked>>
      BY <2>4, <3>1 DEF AgentEmits
    <3> QED
      BY <3>2, <3>3 DEF PromptsKnown
  <2>5. ASSUME NEW silent, SessionEnds(s, silent) PROVE PromptsKnown'
    <3>1. PICK e : e = [name |-> "stopped", s |-> s, prompt |-> None]
      OBVIOUS
    <3>2. e \in PromptEvents
      BY <3>1 DEF PromptEvents, Events, EventNames
    <3>3. /\ inbox' = <<e>> \/ inbox' = <<>>
          /\ UNCHANGED <<pauseBuffer, unregistered, pendingBlocked>>
      BY <2>5, <3>1 DEF SessionEnds
    <3>4. inbox' \in Seq(PromptEvents)
      BY <3>2, <3>3, Longer DEF PromptsKnown
    <3> QED
      BY <3>3, <3>4 DEF PromptsKnown
  <2> QED
    BY <1>5, <2>1, <2>2, <2>3, <2>4, <2>5 DEF Environment
<1>6. ASSUME NEW s \in Sessions, Timers(s) \/ Watchdog(s) PROVE PromptsKnown'
  BY <1>1, <1>6 DEF Timers, Watchdog, TurnTimerFires, CooldownEnds, RecoveryWindowEnds,
     ScanFindsGone, ScanFindsIdle
<1> QED
  BY <1>2, <1>3, <1>4, <1>5, <1>6, StepKnows DEF Next

(* At first nothing waits.                                                 *)
LEMMA InitKnows == Init => PromptsKnown
  BY DEF Init, PromptsKnown, Held
-----------------------------------------------------------------------------
(* How the end of a swarm is followed up: a step that ends no task and does *)
(* not close leaves it as it is, and one that ends a task looks at them all *)
(* or is about to.                                                         *)

(* No context of u has ended that has not in t.                            *)
NoneEnds(t, u) ==
  Calm(t, u) /\ \A s \in Sessions : Ended(u, s) => Ended(t, s)

(* Writes that end no task: counters, flags, and the status "active".      *)
LEMMA NoneEndsWrite ==
  ASSUME NEW t, NEW s, NEW u, Shaped(t),
         \/ \E v : \/ u = [t EXCEPT ![s].auto = v] \/ u = [t EXCEPT ![s].idle = v]
                  \/ u = [t EXCEPT ![s].recent = v] \/ u = [t EXCEPT ![s].cooldown = v]
         \/ u = [t EXCEPT ![s].status = "active", ![s].auto = 0]
         \/ u = [t EXCEPT ![s].status = "active", ![s].recent = FALSE, ![s].idle = 0]
         \/ \E v : u = [t EXCEPT ![s].cooldown = TRUE, ![s].retries = v]
  PROVE  NoneEnds(t, u)
<1>1. ASSUME NEW x \in Sessions, u[x].status \in Terminal PROVE t[x].status \in Terminal
  <2>1. IsTask(t[x])
    BY DEF Shaped
  <2>2. CASE x # s
    <3>1. u[x] = t[x]
      BY <2>2 DEF Shaped
    <3> QED
      BY <1>1, <3>1
  <2>3. CASE x = s
    <3>1. \/ \E v : \/ u[x] = [t[x] EXCEPT !.auto = v]
                   \/ u[x] = [t[x] EXCEPT !.idle = v]
                   \/ u[x] = [t[x] EXCEPT !.recent = v]
                   \/ u[x] = [t[x] EXCEPT !.cooldown = v]
          \/ u[x] = [t[x] EXCEPT !.status = "active", !.auto = 0]
          \/ u[x] = [t[x] EXCEPT !.status = "active", !.recent = FALSE, !.idle = 0]
          \/ \E v : u[x] = [t[x] EXCEPT !.cooldown = TRUE, !.retries = v]
      BY <2>3 DEF Shaped
    <3>2. u[x].status = t[x].status \/ u[x].status = "active"
      BY <2>1, <3>1 DEF IsTask
    <3> QED
      BY <1>1, <3>2 DEF Terminal
  <2> QED
    BY <2>2, <2>3
<1>2. Calm(t, u)
  BY CalmWrite
<1> QED
  BY <1>1, <1>2 DEF NoneEnds, Ended

(* Each of those that are made with any value.                             *)
LEMMA NoneEndsWrites ==
  ASSUME NEW t, NEW s, Shaped(t)
  PROVE  /\ \A v : NoneEnds(t, [t EXCEPT ![s].auto = v])
         /\ \A v : NoneEnds(t, [t EXCEPT ![s].idle = v])
         /\ \A v : NoneEnds(t, [t EXCEPT ![s].recent = v])
         /\ \A v : NoneEnds(t, [t EXCEPT ![s].cooldown = v])
<1>1. ASSUME NEW v PROVE NoneEnds(t, [t EXCEPT ![s].auto = v])
  <2>1. PICK u : u = [t EXCEPT ![s].auto = v]
    OBVIOUS
  <2> QED
    BY <2>1, NoneEndsWrite
<1>2. ASSUME NEW v PROVE NoneEnds(t, [t EXCEPT ![s].idle = v])
  <2>1. PICK u : u = [t EXCEPT ![s].idle = v]
    OBVIOUS
  <2> QED
    BY <2>1, NoneEndsWrite
<1>3. ASSUME NEW v PROVE NoneEnds(t, [t EXCEPT ![s].recent = v])
  <2>1. PICK u : u = [t EXCEPT ![s].recent = v]
    OBVIOUS
  <2> QED
    BY <2>1, NoneEndsWrite
<1>4. ASSUME NEW v PROVE NoneEnds(t, [t EXCEPT ![s].cooldown = v])
  <2>1. PICK u : u = [t EXCEPT ![s].cooldown = v]
    OBVIOUS
  <2> QED
    BY <2>1, NoneEndsWrite
<1> QED
  BY <1>1, <1>2, <1>3, <1>4

(* Nothing, two such writes, and a status of a task that goes on.          *)
LEMMA NoneEndsSteps ==
  ASSUME NEW t, Shaped(t)
  PROVE  /\ NoneEnds(t, t)
         /\ \A u, v : NoneEnds(t, u) /\ NoneEnds(u, v) => NoneEnds(t, v)
         /\ \A s, st : st \notin Terminal => NoneEnds(t, SetStatus(t, s, st))
<1>1. ASSUME NEW s, NEW st, st \notin Terminal PROVE NoneEnds(t, SetStatus(t, s, st))
  <2>1. PICK u : u = SetStatus(t, s, st)
    OBVIOUS
  <2>2. Calm(t, u)
    BY <1>1, <2>1, CalmSteps DEF Terminal
  <2>3. \A x \in Sessions : u[x].status = IF x = s THEN st ELSE t[x].status
    BY <2>1, StatusShape
  <2> QED
    BY <1>1, <2>1, <2>2, <2>3 DEF NoneEnds, Ended
<1>2. Calm(t, t) /\ \A u, v : Calm(t, u) /\ Calm(u, v) => Calm(t, v)
  BY CalmSteps
<1> QED
  BY <1>1, <1>2 DEF NoneEnds

(* What an event does to the context in any case.                          *)
LEMMA TouchedAwake ==
  ASSUME Shaped(task) PROVE NoneEnds(task, Touched)
<1>1. PICK s, u, revives : s = Event.s /\ u = Touched /\ revives = Revives
  OBVIOUS
<1>2. ASSUME NEW x \in Sessions, u[x].status \in Terminal
      PROVE  task[x].status \in Terminal
  <2>1. IsTask(task[x])
    BY DEF Shaped
  <2>2. CASE x # s
    <3>1. u[x] = task[x]
      BY <1>1, <2>2 DEF Touched, Shaped
    <3> QED
      BY <1>2, <3>1
  <2>3. CASE x = s
    <3>1. \/ u[x] = [task[x] EXCEPT !.idle = 0, !.status = "active", !.recent = FALSE]
          \/ u[x] = [task[x] EXCEPT !.idle = 0, !.status = task[x].status,
                                    !.recent = task[x].recent]
      BY <1>1, <2>3 DEF Touched, Shaped
    <3>2. u[x].status = task[x].status \/ u[x].status = "active"
      BY <2>1, <3>1 DEF IsTask
    <3> QED
      BY <1>2, <3>2 DEF Terminal
  <2> QED
    BY <2>2, <2>3
<1>3. Calm(task, u)
  BY <1>1, TouchedCalm
<1> QED
  BY <1>1, <1>2, <1>3 DEF NoneEnds, Ended
(* One check more, or one less.                                            *)
LEMMA BagAdds ==
  ASSUME NEW B, NEW e
  PROVE  /\ BagToSet(B (+) SetToBag({e})) = BagToSet(B) \cup {e}
         /\ BagToSet(B (-) SetToBag({e})) \subseteq BagToSet(B)
  BY DEF BagToSet, SetToBag, (+), (-)

(* Who is about to close still is.                                         *)
Closers == \A j \in Jobs : job[j].pc = "closing" => job'[j].pc = "closing"

(* A step that ends no task and closes none.                               *)
LEMMA StillConcludes ==
  ASSUME ReleaseInv, FollowedUp, UNCHANGED <<tasks, notified, checks>>, Closers,
         NoneEnds(task, task')
  PROVE  FollowedUp'
<1>1. AllEnded' => AllEnded
  BY DEF AllEnded, ReleaseInv, NoneEnds, Ended
<1> QED
  BY <1>1 DEF FollowedUp, Closers

(* A step that looks whether all tasks have ended.                         *)
LEMMA ChecksConclude ==
  ASSUME UNCHANGED tasks, checks' = CheckAll(task')
  PROVE  FollowedUp'
<1>1. CASE AllEnded'
  <2>1. checks' = checks (+) SetToBag({tasks})
    BY <1>1 DEF CheckAll, AllEnded, Ended
  <2>2. PICK B, e : B = checks /\ e = tasks
    OBVIOUS
  <2>3. checks' = B (+) SetToBag({e})
    BY <2>1, <2>2
  <2>4. BagToSet(B (+) SetToBag({e})) = BagToSet(B) \cup {e}
    BY BagAdds, Zenon
  <2>5. tasks \in BagToSet(checks')
    BY <2>2, <2>3, <2>4
  <2> QED
    BY <2>5 DEF FollowedUp
<1> QED
  BY <1>1 DEF FollowedUp

(* A handler writes its own activation and no other.                       *)
LEMMA ExecuteOnly ==
  ASSUME ReleaseInv, NEW j \in Jobs, NEW d, NEW t, Execute(j, d, t)
  PROVE  Only(j)
  BY DEF Execute, Done, Finally, ReleaseInv, Only

(* So does handleBlocked.                                                  *)
LEMMA BlockedOnly ==
  ASSUME ReleaseInv, NEW j \in Jobs, NEW s, NEW p, NEW rest, NEW t, NEW buffered,
         HandleBlocked(j, s, p, rest, t, buffered)
  PROVE  Only(j)
  BY DEF HandleBlocked, HandleKnown, HandleRoutine, HandleUndecided, End, ReleaseInv, Only

(* So does handleTurnComplete.                                             *)
LEMMA TurnOnly ==
  ASSUME ReleaseInv, NEW j \in Jobs, NEW s, NEW rest, HandleTurnComplete(j, s, rest)
  PROVE  Only(j)
<1>1. PICK q : q = <<"blocked", "turn">>
  OBVIOUS
<1> QED
  BY <1>1 DEF HandleTurnComplete, End, ReleaseInv, Only

(* So does every step of an activation.                                    *)
LEMMA StepOnly ==
  ASSUME ReleaseInv, NEW j \in Jobs, Step(j)
  PROVE  Only(j)
<1> USE DEF Only, ReleaseInv
<1>1. CASE Route(j)
  <2>1. PICK a, b : a = <<"blocked", "turn">> /\ b = <<"turn", "blocked">>
    OBVIOUS
  <2> QED
    BY <1>1, <2>1 DEF Route, End
<1>2. CASE AssessTurn(j) \/ AssessBlocked(j) \/ AssessIdle(j)
  <2>1. (\E d, t : Execute(j, d, t)) \/ Fail(j)
    BY <1>2 DEF AssessTurn, AssessBlocked, AssessIdle
  <2> QED
    BY <2>1, ExecuteOnly DEF Fail, Finally
<1>3. CASE AssessConfirm(j) \/ Sent(j) \/ RetrySent(j) \/ Closing(j)
  <2>1. Finally(j)
    BY <1>3 DEF AssessConfirm, Sent, RetrySent, Closing, Done, Fail
  <2> QED
    BY <2>1 DEF Finally
<1>4. CASE Answer(j)
  BY <1>4, ExecuteOnly DEF Answer
<1>5. CASE Summarized(j) \/ FollowUp(j)
  <2>1. Finally(j) \/ \E pc : Goto(j, pc)
    BY <1>5 DEF Summarized, FollowUp, Done, Fail, Judged
  <2> QED
    BY <2>1 DEF Finally, Goto
<1>6. CASE ValidateCustom(j) \/ ValidateCompletion(j)
  BY <1>6 DEF ValidateCustom, ValidateCompletion, Judged, Goto
<1>7. CASE Drain(j)
  <2>1. \/ \E s, p, rest, t, buffered : HandleBlocked(j, s, p, rest, t, buffered)
        \/ \E s, rest : HandleTurnComplete(j, s, rest) \/ End(j, s, rest)
    BY <1>7 DEF Drain
  <2> QED
    BY <2>1, BlockedOnly, TurnOnly DEF End
<1>8. CASE RegisterReplacement(j)
  BY <1>8 DEF RegisterReplacement, Goto
<1>9. CASE ErrorHandled(j) \/ DepletionHandled(j) \/ AuthReplaced(j)
  BY <1>9 DEF ErrorHandled, DepletionHandled, AuthReplaced, Superseded
<1>10. CASE LoginResumed(j) \/ LoginReplaces(j) \/ LoginLeft(j)
  BY <1>10 DEF LoginResumed, LoginReplaces, LoginLeft
<1>11. CASE IdleProbe(j)
  <2>1. PICK none : none = <<>>
    OBVIOUS
  <2> QED
    BY <1>11, <2>1 DEF IdleProbe
<1>12. CASE \E r \in Sessions : Failover(j, r) \/ Recover(j, r)
  BY <1>12 DEF Failover, Recover, Spawned
<1> QED
  BY <1>1, <1>2, <1>3, <1>4, <1>5, <1>6, <1>7, <1>8, <1>9, <1>10, <1>11, <1>12 DEF Step

(* A step of an activation that ends no task.                              *)
LEMMA GoesOnConcludes ==
  ASSUME ReleaseInv, FollowedUp, NEW j \in Jobs, job[j].pc # "closing", Only(j),
         UNCHANGED <<tasks, notified, checks>>, NoneEnds(task, task')
  PROVE  FollowedUp'
<1>1. Closers
  BY DEF Closers, Only
<1> QED
  BY <1>1, StillConcludes

(* One after which the activation is about to close.                       *)
LEMMA ClosesNext ==
  ASSUME ReleaseInv, NEW j \in Jobs,
         \/ Goto(j, "closing")
         \/ \E kind : job' = [job EXCEPT ![j].pc = "closing", ![j].kind = kind]
  PROVE  FollowedUp'
<1>1. job'[j].pc = "closing"
  <2>1. IsJob(job[j])
    BY DEF ReleaseInv
  <2>2. \/ job'[j] = [job[j] EXCEPT !.pc = "closing"]
        \/ \E kind : job'[j] = [job[j] EXCEPT !.pc = "closing", !.kind = kind]
    BY DEF ReleaseInv, Goto
  <2> QED
    BY <2>1, <2>2 DEF IsJob
<1> QED
  BY <1>1 DEF FollowedUp

(* A decision that is executed ends no task before it closes.              *)
LEMMA ExecuteAwake ==
  ASSUME NEW j, NEW d, NEW t, Shaped(task), NoneEnds(task, t), Execute(j, d, t)
  PROVE  NoneEnds(task, task')
<1>1. PICK s : s = job[j].s
  OBVIOUS
<1>2. Shaped(t) /\ "active" \notin Terminal
  BY DEF NoneEnds, Calm, Terminal
<1>3. task' = t \/ task' = SetStatus(t, s, "active")
  BY <1>1 DEF Execute
<1>4. NoneEnds(t, task')
  BY <1>2, <1>3, NoneEndsSteps
<1> QED
  BY <1>4, NoneEndsSteps

(* A prompt that was not answered out of scope ends no task.               *)
LEMMA BlockedAwake ==
  ASSUME NEW j, NEW s, NEW p, NEW rest, NEW t, NEW buffered, KindOf[p] # "unsafe",
         Shaped(task), NoneEnds(task, t), HandleBlocked(j, s, p, rest, t, buffered)
  PROVE  NoneEnds(task, task')
<1>1. Shaped(t) /\ "blocked" \notin Terminal
  BY DEF NoneEnds, Calm, Terminal
<1>2. PICK auto : auto = t[s].auto + 1
  OBVIOUS
<1>3. \/ task' = t \/ task' = SetStatus(t, s, "blocked")
      \/ task' = [t EXCEPT ![s].auto = auto]
  BY <1>2 DEF HandleBlocked, HandleKnown, HandleRoutine, HandleUndecided
<1>4. NoneEnds(t, task')
  <2>1. \A v : NoneEnds(t, [t EXCEPT ![s].auto = v])
    BY <1>1, NoneEndsWrites, Zenon
  <2> QED
    BY <1>1, <1>3, <2>1, NoneEndsSteps
<1> QED
  BY <1>4, NoneEndsSteps

(* A session that is registered is a task that has not ended.              *)
LEMMA RegisterConcludes ==
  ASSUME ReleaseInv, NEW s \in Sessions, NEW n, Register(s, n)
  PROVE  FollowedUp'
<1>1. s \in tasks' /\ task'[s].status = "active"
  BY DEF Register, ReleaseInv, Shaped, NewTask
<1> QED
  BY <1>1 DEF FollowedUp, AllEnded, Ended, Terminal

(* A replacement that is spawned ends no task.                             *)
LEMMA SpawnedConcludes ==
  ASSUME ReleaseInv, FollowedUp, NEW j \in Jobs, NEW r \in Sessions, NEW n,
         Spawned(j, r, n)
  PROVE  FollowedUp'
<1>1. /\ UNCHANGED <<tasks, notified, checks>> /\ job[j].pc = "recover"
      /\ task' = [task EXCEPT ![r].ordinal = n]
      /\ job' = [job EXCEPT ![j].pc = "register", ![j].ref = {r}]
  BY DEF Spawned, At, swarm
<1>2. \A x \in Sessions : task'[x].status = task[x].status
  <2>1. ASSUME NEW x \in Sessions PROVE task'[x].status = task[x].status
    <3>1. IsTask(task[x]) /\ DOMAIN task = Sessions
      BY DEF ReleaseInv, Shaped
    <3> QED
      BY <1>1, <3>1 DEF IsTask
  <2> QED
    BY <2>1
<1>3. AllEnded' => AllEnded
  BY <1>1, <1>2 DEF AllEnded, ReleaseInv, Ended
<1>4. Only(j)
  BY <1>1 DEF ReleaseInv, Only
<1>5. Closers
  BY <1>1, <1>4 DEF Closers, Only
<1> QED
  BY <1>1, <1>3, <1>5 DEF FollowedUp, Closers

(* Every step of an activation follows the end up, or leaves it.           *)
LEMMA StepConcludes ==
  ASSUME ~Leaves, ReleaseInv, PromptsKnown, FollowedUp, NEW j \in Jobs, Step(j)
  PROVE  FollowedUp'
<1> USE DEF At, taskVars, swarm
<1> PICK s, rest : s = job[j].s /\ rest = job[j].after
  OBVIOUS
<1>0. /\ Shaped(task) /\ NoneEnds(task, task) /\ Only(j)
      /\ {"active", "blocked", "tool_running"} \cap Terminal = {}
  BY NoneEndsSteps, StepOnly DEF ReleaseInv, Terminal
<1>1. CASE Closing(j)
  BY <1>1, ChecksConclude DEF Closing
<1>2. ASSUME job[j].pc # "closing", UNCHANGED <<tasks, notified, checks>>,
             NoneEnds(task, task')
      PROVE  FollowedUp'
  BY <1>0, <1>2, GoesOnConcludes
<1>3. ASSUME NEW st, st \notin Terminal, task' = SetStatus(task, s, st)
      PROVE  NoneEnds(task, task')
  BY <1>0, <1>3, NoneEndsSteps
<1>4. CASE Route(j)
  BY <1>0, <1>2, <1>4 DEF Route
<1>5. CASE AssessTurn(j) \/ AssessBlocked(j) \/ AssessIdle(j) \/ Answer(j)
  <2>1. UNCHANGED <<tasks, notified, checks>> /\ job[j].pc # "closing"
    BY <1>5 DEF AssessTurn, AssessBlocked, AssessIdle, Answer, Assessing
  <2>2. PICK t, u : t = task /\ u = [task EXCEPT ![s].auto = 0]
    OBVIOUS
  <2>3. NoneEnds(task, t) /\ NoneEnds(task, u)
    BY <1>0, <2>2, NoneEndsWrite
  <2>4. task' = task \/ \E d : Execute(j, d, t) \/ Execute(j, d, u)
    BY <1>5, <2>2 DEF AssessTurn, AssessBlocked, AssessIdle, Answer
  <2>5. NoneEnds(task, task')
    BY <1>0, <2>3, <2>4, ExecuteAwake
  <2> QED
    BY <1>2, <2>1, <2>5
<1>6. CASE AssessConfirm(j)
  <2>1. UNCHANGED <<tasks, notified, checks>> /\ job[j].pc # "closing"
        /\ task' = SetStatus(task, s, "blocked")
    BY <1>6 DEF AssessConfirm, Assessing
  <2> QED
    BY <1>0, <1>2, <1>3, <2>1
<1>7. CASE Sent(j) \/ RetrySent(j)
  <2>1. UNCHANGED <<tasks, notified, checks>> /\ job[j].pc # "closing"
    BY <1>7 DEF Sent, RetrySent
  <2>2. PICK t, u, n : t = task /\ u = task' /\ n = job[j].n
    OBVIOUS
  <2>3. \/ u = t \/ \E v : u = [t EXCEPT ![s].cooldown = v]
        \/ u = [t EXCEPT ![s].cooldown = TRUE, ![s].retries = n]
    BY <1>7, <2>2 DEF Sent, RetrySent
  <2>4. Shaped(t)
    BY <1>0, <2>2
  <2>5. \A v : NoneEnds(t, [t EXCEPT ![s].cooldown = v])
    BY <2>4, NoneEndsWrites, Zenon
  <2>6. ASSUME u = [t EXCEPT ![s].cooldown = TRUE, ![s].retries = n]
        PROVE  NoneEnds(t, u)
    BY <2>4, <2>6, NoneEndsWrite
  <2>7. NoneEnds(t, t)
    BY <2>4, NoneEndsSteps
  <2>8. ASSUME NEW v, u = [t EXCEPT ![s].cooldown = v] PROVE NoneEnds(t, u)
    BY <2>5, <2>8, Zenon
  <2>9. NoneEnds(t, u)
    BY <2>3, <2>6, <2>7, <2>8
  <2> QED
    BY <1>2, <2>1, <2>2, <2>9
<1>8. CASE Summarized(j)
  <2>1. /\ UNCHANGED <<tasks, notified, checks>> /\ job[j].pc # "closing"
        /\ task' = task \/ task' = SetStatus(task, s, "tool_running")
    BY <1>8 DEF Summarized
  <2> QED
    BY <1>0, <1>2, <1>3, <2>1
<1>9. CASE ValidateCustom(j) \/ ValidateCompletion(j) \/ FollowUp(j)
  <2>1. UNCHANGED <<tasks, notified, checks>> /\ job[j].pc # "closing"
    BY <1>9 DEF ValidateCustom, ValidateCompletion, Validating, FollowUp
  <2>2. \/ task' = task \/ Goto(j, "closing")
        \/ \E st \in {"active", "blocked"} : task' = SetStatus(task, s, st)
    BY <1>9 DEF ValidateCustom, ValidateCompletion, FollowUp, Judged
  <2> QED
    BY <1>0, <1>2, <1>3, <2>1, <2>2, ClosesNext
<1>10. CASE Drain(j)
  <2>1. UNCHANGED <<tasks, notified, checks>> /\ job[j].pc # "closing"
    BY <1>10 DEF Drain
  <2>2. PICK p, t, none, buffered :
          /\ p = pendingBlocked[s] /\ t = task /\ none = Tail(rest)
          /\ buffered = [pendingBlocked EXCEPT ![s] = None]
    OBVIOUS
  <2>3. \/ task' = task
        \/ s \in tasks /\ p # None /\ HandleBlocked(j, s, p, none, t, buffered)
    BY <1>10, <2>2 DEF Drain
  <2>4. CASE s \in tasks /\ p # None /\ HandleBlocked(j, s, p, none, t, buffered)
    <3>1. p \in Prompts /\ KindOf[p] # "unsafe"
      BY <2>2, <2>4 DEF PromptsKnown, ReleaseInv, Held
    <3>2. NoneEnds(task, task')
      BY <1>0, <2>2, <2>4, <3>1, BlockedAwake
    <3> QED
      BY <1>2, <2>1, <3>2
  <2> QED
    BY <1>0, <1>2, <2>1, <2>3, <2>4
<1>11. CASE RegisterReplacement(j)
  <2>1. PICK r, n : r \in job[j].ref /\ Register(r, n)
    BY <1>11 DEF RegisterReplacement
  <2>2. r \in Sessions
    BY <1>11, <2>1 DEF RegisterReplacement, ReleaseInv, RegisterKnown
  <2> QED
    BY <2>1, <2>2, RegisterConcludes
<1>12. CASE ErrorHandled(j) \/ DepletionHandled(j) \/ AuthReplaced(j)
  <2>1. UNCHANGED tasks /\ job' = [job EXCEPT ![j] = Free]
    BY <1>12 DEF ErrorHandled, DepletionHandled, AuthReplaced, Superseded
  <2>2. job'[j].pc = "free"
    BY <2>1 DEF ReleaseInv, Free, Activation
  <2>3. job[j].pc # "replaced"
    BY <2>2 DEF Leaves
  <2>4. CASE ErrorHandled(j) \/ DepletionHandled(j)
    <3>1. checks' = CheckAll(task')
      BY <2>3, <2>4 DEF ErrorHandled, DepletionHandled, CheckUnlessReplaced
    <3> QED
      BY <2>1, <3>1, ChecksConclude
  <2>5. CASE AuthReplaced(j)
    <3>1. /\ UNCHANGED <<tasks, notified, checks>> /\ job[j].pc # "closing"
          /\ task' = SetStatus(task, s, "blocked")
      BY <2>3, <2>5 DEF AuthReplaced, Superseded
    <3> QED
      BY <1>0, <1>2, <1>3, <3>1
  <2> QED
    BY <1>12, <2>4, <2>5
<1>13. CASE LoginResumed(j) \/ LoginReplaces(j) \/ LoginLeft(j)
  <2>1. UNCHANGED <<tasks, notified, checks>> /\ job[j].pc # "closing"
    BY <1>13 DEF LoginResumed, LoginReplaces, LoginLeft, LoginAnswered
  <2>2. PICK t, u : t = task /\ u = task'
    OBVIOUS
  <2>3. \/ u = t \/ u = SetStatus(t, s, "blocked")
        \/ u = [t EXCEPT ![s].status = "active", ![s].recent = FALSE, ![s].idle = 0]
    BY <1>13, <2>2 DEF LoginResumed, LoginReplaces, LoginLeft
  <2>4. Shaped(t)
    BY <1>0, <2>2
  <2>5. ASSUME u = [t EXCEPT ![s].status = "active", ![s].recent = FALSE, ![s].idle = 0]
        PROVE  NoneEnds(t, u)
    BY <2>4, <2>5, NoneEndsWrite
  <2>6. NoneEnds(t, t)
    BY <2>4, NoneEndsSteps
  <2>7. ASSUME u = SetStatus(t, s, "blocked") PROVE NoneEnds(t, u)
    BY <1>0, <1>3, <2>2, <2>7
  <2>8. NoneEnds(t, u)
    BY <2>3, <2>5, <2>6, <2>7, Zenon
  <2> QED
    BY <1>2, <2>1, <2>2, <2>8
<1>14. CASE IdleProbe(j)
  <2>1. UNCHANGED <<tasks, notified, checks>> /\ job[j].pc # "closing"
    BY <1>14 DEF IdleProbe
  <2>2. PICK t, u, idle : t = task /\ u = task' /\ idle = task[s].idle + 1
    OBVIOUS
  <2>3. \/ \E v : u = [t EXCEPT ![s].idle = v]
        \/ job' = [job EXCEPT ![j].pc = "closing", ![j].kind = "stale"]
    BY <1>14, <2>2 DEF IdleProbe
  <2>4. Shaped(t)
    BY <1>0, <2>2
  <2>5. CASE \E v : u = [t EXCEPT ![s].idle = v]
    <3>1. \A v : NoneEnds(t, [t EXCEPT ![s].idle = v])
      BY <2>4, NoneEndsWrites, Zenon
    <3>2. NoneEnds(t, u)
      BY <2>5, <3>1
    <3> QED
      BY <1>2, <2>1, <2>2, <3>2
  <2>6. CASE job' = [job EXCEPT ![j].pc = "closing", ![j].kind = "stale"]
    BY <2>6, ClosesNext
  <2> QED
    BY <2>3, <2>5, <2>6
<1>15. ASSUME NEW r \in Sessions, Failover(j, r) \/ Recover(j, r) PROVE FollowedUp'
  BY <1>15, SpawnedConcludes DEF Failover, Recover
<1> QED
  BY <1>1, <1>4, <1>5, <1>6, <1>7, <1>8, <1>9, <1>10, <1>11, <1>12, <1>13, <1>14,
     <1>15 DEF Step

(* A new activation is not one that closes.                                *)
LEMMA NewConcludes ==
  ASSUME ReleaseInv, FollowedUp, Room(1), Only(NewJob), NoneEnds(task, task'),
         UNCHANGED <<tasks, notified, checks>>
  PROVE  FollowedUp'
<1>1. PICK j \in Jobs : j = NewJob /\ job[j].pc = "free"
  BY NewIsFree
<1> QED
  BY <1>1, GoesOnConcludes

(* An event ends a task together with a look at all of them, unless it is  *)
(* of a prompt that is out of scope.                                       *)
LEMMA EventConcludes ==
  ASSUME ~Leaves, ReleaseInv, PromptsKnown, FollowedUp, HandleEvent
  PROVE  FollowedUp'
<1> USE DEF taskVars, swarm
<1>1. PICK s, t : s = Event.s /\ t = Touched
  OBVIOUS
<1>2. NoneEnds(task, task) /\ NoneEnds(task, t) /\ Shaped(task) /\ Shaped(t)
  BY <1>1, TouchedAwake, NoneEndsSteps DEF ReleaseInv, NoneEnds, Calm
<1>3. ASSUME UNCHANGED <<tasks, notified, checks, job>>, NoneEnds(task, task')
      PROVE  FollowedUp'
  BY <1>3, StillConcludes DEF Closers
<1>4. CASE HandleUnregistered \/ HandlePutOff \/ HandleTaskComplete
  <2>1. /\ UNCHANGED <<tasks, notified, checks, job>>
        /\ task' = task \/ task' = t
    BY <1>1, <1>4 DEF HandleUnregistered, HandlePutOff, HandleTaskComplete
  <2> QED
    BY <1>2, <1>3, <2>1
<1>5. CASE HandleBlockedEvent
  <2>1. /\ Room(1) /\ UNCHANGED <<tasks, notified, checks>> /\ inbox # <<>>
        /\ Event.name = "blocked"
    BY <1>5 DEF HandleBlockedEvent, Taken
  <2>2. PICK p, none, buffered :
          p = Event.prompt /\ none = <<>> /\ buffered = pendingBlocked
    OBVIOUS
  <2>3. KindOf[p] # "unsafe"
    BY <1>5, <2>1, <2>2 DEF Leaves
  <2>4. PICK j \in Jobs : j = NewJob /\ job[j].pc = "free"
    BY <2>1, NewIsFree
  <2>5. \/ task' = t /\ Start("depleted", "recover")
        \/ HandleBlocked(j, s, p, none, t, buffered)
    BY <1>1, <1>5, <2>2, <2>4 DEF HandleBlockedEvent
  <2>6. CASE task' = t /\ Start("depleted", "recover")
    <3>1. Only(j)
      BY <2>4, <2>6 DEF Start, ReleaseInv, Only
    <3> QED
      BY <1>2, <2>1, <2>4, <2>6, <3>1, NewConcludes
  <2>7. CASE HandleBlocked(j, s, p, none, t, buffered)
    <3>1. Only(j)
      BY <2>7, BlockedOnly
    <3>2. NoneEnds(task, task')
      BY <1>2, <2>3, <2>7, BlockedAwake
    <3> QED
      BY <2>1, <2>4, <3>1, <3>2, NewConcludes
  <2> QED
    BY <2>5, <2>6, <2>7
<1>6. CASE HandleStopped
  BY <1>6, ChecksConclude DEF HandleStopped
<1>7. CASE HandleProgress
  <2>1. /\ UNCHANGED <<tasks, notified, checks, job>>
        /\ \E st \in {"active", "tool_running"} : task' = SetStatus(t, s, st)
    BY <1>1, <1>7 DEF HandleProgress
  <2>2. NoneEnds(t, task')
    BY <1>2, <2>1, NoneEndsSteps DEF Terminal
  <2>3. NoneEnds(task, task')
    BY <1>2, <2>2, NoneEndsSteps
  <2> QED
    BY <1>3, <2>1, <2>3
<1>8. CASE HandleError \/ HandleLoginRequired
  <2>1. /\ Room(1) /\ UNCHANGED <<tasks, notified, checks>> /\ task' = t
        /\ \E kind, pc : Start(kind, pc)
    BY <1>1, <1>8 DEF HandleError, HandleLoginRequired
  <2>2. PICK j \in Jobs : j = NewJob
    BY <2>1, NewIsFree
  <2>3. Only(j)
    BY <2>1, <2>2 DEF Start, ReleaseInv, Only
  <2> QED
    BY <1>2, <2>1, <2>2, <2>3, NewConcludes
<1> QED
  BY <1>4, <1>5, <1>6, <1>7, <1>8 DEF HandleEvent

(* No other step ends a task unseen, and a check that decides notifies.    *)
LEMMA NextConcludes ==
  ASSUME ~Leaves, ReleaseInv, PromptsKnown, FollowedUp, [Next]_vars
  PROVE  FollowedUp'
<1> USE DEF taskVars, swarm
<1>1. Shaped(task) /\ NoneEnds(task, task)
  BY NoneEndsSteps DEF ReleaseInv
<1>2. ASSUME UNCHANGED <<tasks, notified, checks, job>>, NoneEnds(task, task')
      PROVE  FollowedUp'
  BY <1>2, StillConcludes DEF Closers
<1>3. CASE Checks
  <2>1. PICK S \in BagToSet(checks), outcome \in Acceptances,
             m \in BOOLEAN : FinishCheck(S, outcome, m)
    BY <1>3 DEF Checks
  <2>2. outcome # "pending"
    BY <2>1 DEF Leaves
  <2>3. notified'
    BY <2>1, <2>2 DEF FinishCheck
  <2> QED
    BY <2>3 DEF FollowedUp
<1>4. CASE Pause \/ Resume \/ UNCHANGED vars \/ \E level : SetSupervisionLevel(level)
  <2>1. UNCHANGED <<tasks, notified, checks, job, task>>
    BY <1>4 DEF Pause, Resume, SetSupervisionLevel, vars
  <2> QED
    BY <1>1, <1>2, <2>1
<1>5. ASSUME NEW s \in Sessions, Environment(s) PROVE FollowedUp'
  <2>1. CASE RegisterTask(s)
    BY <2>1, RegisterConcludes DEF RegisterTask
  <2>2. CASE \/ SpawnSession(s) \/ DiscardUnregistered(s)
             \/ \E name, p : AgentEmits(s, name, p)
             \/ \E silent : SessionEnds(s, silent)
    <3>1. UNCHANGED <<tasks, notified, checks, job, task>>
      BY <2>2 DEF SpawnSession, DiscardUnregistered, AgentEmits, SessionEnds
    <3> QED
      BY <1>1, <1>2, <3>1
  <2>3. ASSUME NEW d, Confirm(s, d) PROVE FollowedUp'
    <3>1. PICK t, u : t = task /\ u = task'
      OBVIOUS
    <3>2. /\ Room(1) /\ UNCHANGED <<tasks, notified, checks>>
          /\ u = t \/ u = [t EXCEPT ![s].status = "active", ![s].auto = 0]
          /\ job' = [job EXCEPT ![NewJob] = Activation("answer", s, "human", d)]
      BY <2>3, <3>1 DEF Confirm
    <3>3. Only(NewJob)
      BY <3>2, NewIsFree DEF ReleaseInv, Only
    <3>4. ASSUME u = [t EXCEPT ![s].status = "active", ![s].auto = 0]
          PROVE  NoneEnds(t, u)
      BY <1>1, <3>1, <3>4, NoneEndsWrite
    <3>5. NoneEnds(task, task')
      BY <1>1, <3>1, <3>2, <3>4, Zenon
    <3> QED
      BY <3>2, <3>3, <3>5, NewConcludes
  <2>4. CASE Reject(s)
    <3>1. /\ UNCHANGED <<tasks, notified, checks, job>>
          /\ task' = task \/ task' = SetStatus(task, s, "blocked")
      BY <2>4 DEF Reject
    <3>2. NoneEnds(task, task')
      BY <1>1, <3>1, NoneEndsSteps DEF Terminal
    <3> QED
      BY <1>2, <3>1, <3>2
  <2> QED
    BY <1>5, <2>1, <2>2, <2>3, <2>4 DEF Environment
<1>6. ASSUME NEW s \in Sessions, Timers(s) PROVE FollowedUp'
  <2>1. CASE TurnTimerFires(s)
    <3>1. PICK none : none = <<>>
      OBVIOUS
    <3>2. Room(1) /\ UNCHANGED <<tasks, task, notified, checks>>
      BY <2>1 DEF TurnTimerFires
    <3>3. UNCHANGED job \/ HandleTurnComplete(NewJob, s, none)
      BY <2>1, <3>1 DEF TurnTimerFires
    <3>4. CASE HandleTurnComplete(NewJob, s, none)
      <4>1. Only(NewJob)
        BY <3>2, <3>4, NewIsFree, TurnOnly
      <4> QED
        BY <1>1, <3>2, <4>1, NewConcludes
    <3> QED
      BY <1>1, <1>2, <3>2, <3>3, <3>4
  <2>2. CASE CooldownEnds(s) \/ RecoveryWindowEnds(s)
    <3>1. PICK t, u : t = task /\ u = task'
      OBVIOUS
    <3>2. /\ UNCHANGED <<tasks, notified, checks, job>>
          /\ \/ u = [t EXCEPT ![s].cooldown = FALSE]
             \/ u = [t EXCEPT ![s].recent = FALSE]
      BY <2>2, <3>1 DEF CooldownEnds, RecoveryWindowEnds
    <3>3. /\ \A v : NoneEnds(t, [t EXCEPT ![s].cooldown = v])
          /\ \A v : NoneEnds(t, [t EXCEPT ![s].recent = v])
      BY <1>1, <3>1, NoneEndsWrites, Zenon
    <3>4. NoneEnds(t, u)
      BY <3>2, <3>3, Zenon
    <3> QED
      BY <1>2, <3>1, <3>2, <3>4
  <2> QED
    BY <1>6, <2>1, <2>2 DEF Timers
<1>7. ASSUME NEW s \in Sessions, Watchdog(s) PROVE FollowedUp'
  <2>1. CASE ScanFindsGone(s)
    BY <2>1, ChecksConclude DEF ScanFindsGone
  <2>2. CASE ScanFindsIdle(s)
    <3>1. /\ Room(1) /\ UNCHANGED <<tasks, task, notified, checks>>
          /\ job' = [job EXCEPT ![NewJob] = Activation("idleProbe", s, "idle", "ignore")]
      BY <2>2 DEF ScanFindsIdle
    <3>2. Only(NewJob)
      BY <3>1, NewIsFree DEF ReleaseInv, Only
    <3> QED
      BY <1>1, <3>1, <3>2, NewConcludes
  <2> QED
    BY <1>7, <2>1, <2>2 DEF Watchdog
<1> QED
  BY <1>3, <1>4, <1>5, <1>6, <1>7, EventConcludes, StepConcludes DEF Next

(* However large the swarm, whichever of its tasks ends last and whatever  *)
(* is heard, decided, answered or found out meanwhile, only the three steps *)
(* of Leaves leave the end of a swarm to what others do.                   *)
THEOREM EndIsFollowedUpHolds == Spec => EndIsFollowedUp
<1>1. Init => ReleaseInv /\ PromptsKnown
  BY InitReleases, InitKnows
<1>2. ReleaseInv /\ PromptsKnown /\ [Next]_vars => (ReleaseInv /\ PromptsKnown)'
  BY NextReleases, NextKnows
<1>3. ReleaseInv /\ PromptsKnown /\ [Next]_vars =>
        [FollowedUp => FollowedUp' \/ Leaves]_vars
  BY NextConcludes
<1> QED
  BY <1>1, <1>2, <1>3, PTL DEF Spec, EndIsFollowedUp
===============================================================================
