--------------------------- MODULE PtyServiceProofs ---------------------------
(***************************************************************************)
(* Proofs about PtyService, for every set of sessions and workdirs and     *)
(* every limit.  The inductive invariant IInv adds to the checked ones     *)
(* what a spawn has prepared at each of its awaits (Seeding, Prepares),    *)
(* and how far a spawn is when its session can be stopped (Stoppable).     *)
(***************************************************************************)
EXTENDS PtyService, TLAPS

Phases == {"none", "seeding", "settings", "ignoring", "reading", "appending",
           "spawning", "rules", "done", "failed"}
Ignored == {"spawning", "rules", "done", "failed"}
Statuses == {"none", "starting", "ready", "busy", "auth", "gone"}

Entry ==
  [workdir : BOOLEAN, meta : BOOLEAN, buffer : BOOLEAN, output : BOOLEAN,
   transcript : BOOLEAN, reconcile : BOOLEAN, since : BOOLEAN,
   terminal : Ends \cup {"none"}, autoStop : BOOLEAN, recovery : BOOLEAN]
Empty(r) == \A f \in Flags \ {"autoStop", "recovery"} : ~r[f]
Awaited == [send : Nat, kill : Nat, clean : Nat]
Ignore == [lock : Sessions \cup {None}, sections : Nat,
           await : [Sessions -> Sessions \cup {None}]]

SessionsOK ==
  /\ proc \in [Sessions -> Statuses]
  /\ svc \in [Sessions -> Entry]
  /\ calls \in [Sessions -> Awaited]
  /\ told \subseteq Sessions /\ fed \subseteq Sessions
  /\ stopped \subseteq Sessions /\ assessing \subseteq Sessions

FilesOK ==
  /\ spawn \in [Sessions -> Phases]
  /\ cwd \in [Sessions -> Dirs \cup {None}]
  /\ seeds.queue \in Seq(Sessions)
  /\ seeds = [queue |-> seeds.queue, read |-> seeds.read,
              trusted |-> seeds.trusted]
  /\ DOMAIN seeds.read = Sessions
  /\ gitignore \in [Dirs -> Ignore]

TypeOK == SessionsOK /\ FilesOK

(* The spawns in the queue are those that seed, and what the first of them *)
(* has read is still what the file holds.                                  *)
Seeding ==
  /\ \A i \in 1 .. Len(seeds.queue) : spawn[seeds.queue[i]] = "seeding"
  /\ \A i, j \in 1 .. Len(seeds.queue) :
       seeds.queue[i] = seeds.queue[j] => i = j
  /\ \A s \in Sessions : seeds.read[s] # None =>
       SeedTurn(s) /\ seeds.read[s] = seeds.trusted

(* What a spawn has prepared of its workdir, by the await it has come to.  *)
Prepares ==
  \A s \in Sessions :
    /\ spawn[s] # "none" => cwd[s] \in Dirs
    /\ spawn[s] \notin {"none", "seeding"} => cwd[s] \in seeds.trusted
    /\ spawn[s] \in Ignored => gitignore[cwd[s]].sections > 0
    /\ proc[s] # "none" => spawn[s] \in Ignored

(* Ends are noted when they are told, and every spawn has an entry in the  *)
(* map of workdirs until its session is stopped.                           *)
Noted ==
  \A s \in Sessions :
    /\ svc[s].terminal # "none" => s \in told
    /\ spawn[s] # "none" => svc[s].workdir \/ s \in stopped

(* Only a session whose spawn was answered is ever stopped.                *)
Stoppable(s) ==
  \/ s \in stopped \cup assessing \/ svc[s].autoStop
  \/ calls[s].kill > 0 \/ calls[s].clean > 0
Stops ==
  \A s \in Sessions :
    /\ Stoppable(s) => spawn[s] \in {"rules", "done"}
    /\ calls[s].clean > 0 => ~svc[s].output

(* Of a stopped session only a timer can be left.                          *)
MapsEmpty ==
  \A s \in stopped : \A f \in Flags \ {"autoStop", "recovery"} : ~svc[s][f]

IInv ==
  /\ TypeOK /\ Seeding /\ Prepares /\ Noted /\ Stops
  /\ MapsEmpty /\ EndIsTold /\ FedIsKept

-----------------------------------------------------------------------------
(* A service just started satisfies the inductive invariant.               *)
LEMMA InitInv == Init => IInv
<1> SUFFICES ASSUME Init PROVE IInv
  OBVIOUS
<1>1. Fresh \in Entry
  BY DEF Fresh, Entry, Ends
<1>2. TypeOK
  BY <1>1, PtyAssumption
     DEF Init, TypeOK, SessionsOK, FilesOK, Statuses, Phases, Awaited, Ignore
<1>3. Seeding /\ Prepares /\ Noted /\ Stops
  BY DEF Init, Seeding, Prepares, Ignored, Noted, Stops, Stoppable, Fresh
<1>4. MapsEmpty /\ EndIsTold /\ FedIsKept
  BY DEF Init, MapsEmpty, EndIsTold, FedIsKept
<1> QED
  BY <1>2, <1>3, <1>4 DEF IInv

(* What an event does to the entry of its session: it clears timers and    *)
(* notes an end.                                                           *)
LEMMA Emits ==
  ASSUME NEW s \in Sessions, NEW r \in Entry, NEW event \in Quiets
  PROVE  LET q == EmitEvent(s, r, event)
         IN /\ q \in Entry
            /\ q.workdir = r.workdir /\ q.meta = r.meta
            /\ q.buffer = r.buffer /\ q.output = r.output
            /\ q.transcript = r.transcript
            /\ ~q.reconcile /\ ~q.since
            /\ q.autoStop => r.autoStop
            /\ q.terminal = IF event \in Ends THEN event ELSE r.terminal
  BY DEF EmitEvent, Entry, Quiets, Ends, ClearCompletionReconcile,
         CancelTaskCompleteAutoStop

(* What sendToSession does: it cancels the auto-stop and counts a call.    *)
LEMMA Sends ==
  ASSUME SessionsOK, NEW s \in Sessions, SendToSession(s)
  PROVE  /\ svc' = [svc EXCEPT ![s].autoStop = FALSE]
         /\ svc' \in [Sessions -> Entry] /\ calls' \in [Sessions -> Awaited]
         /\ fed' = fed \cup {s}
         /\ \A x \in Sessions : /\ calls'[x].kill = calls[x].kill
                               /\ calls'[x].clean = calls[x].clean
<1>1. svc' = [svc EXCEPT ![s].autoStop = FALSE] /\ fed' = fed \cup {s}
  BY DEF SendToSession, CancelTaskCompleteAutoStop
<1>2. svc' \in [Sessions -> Entry]
  BY <1>1 DEF SessionsOK, Entry
<1>3. calls' = [calls EXCEPT ![s].send = @ + 1] \/ calls' = calls
  BY DEF SendToSession
<1>4. calls' \in [Sessions -> Awaited]
  BY <1>3 DEF SessionsOK, Awaited
<1>5. \A x \in Sessions : /\ calls'[x].kill = calls[x].kill
                        /\ calls'[x].clean = calls[x].clean
  BY <1>3 DEF SessionsOK, Awaited
<1> QED
  BY <1>1, <1>2, <1>4, <1>5

(* What becomes of an entry that is forgotten.                             *)
LEMMA Forgets ==
  ASSUME NEW r \in Entry, ~r.output
  PROVE  LET q == Forgotten(r)
         IN q \in Entry /\ Empty(q) /\ q.autoStop = r.autoStop
            /\ q.terminal = r.terminal
  BY DEF Forgotten, ClearCompletionReconcile, Entry, Empty, Flags

(* The maps of which an empty entry has nothing.                           *)
LEMMA EmptyMeans ==
  ASSUME NEW r \in Entry, Empty(r)
  PROVE  /\ ~r.workdir /\ ~r.meta /\ ~r.buffer /\ ~r.output
         /\ ~r.transcript /\ ~r.reconcile /\ ~r.since
<1>1. {"workdir", "meta", "buffer", "output", "transcript", "reconcile",
       "since"} \subseteq Flags \ {"autoStop", "recovery"}
  BY DEF Flags
<1> QED
  BY <1>1 DEF Empty

(* What remains of a stop when it no longer waits for the kill.            *)
LEMMA Finishes ==
  ASSUME SessionsOK, NEW s \in Sessions, NEW r \in Entry, Finally(s, r)
  PROVE  \E q \in Entry :
           /\ svc' = [svc EXCEPT ![s] = q]
           /\ ~q.output /\ q.terminal = r.terminal
           /\ q.autoStop = r.autoStop /\ q.workdir = r.workdir
           /\ IF r.workdir THEN stopped' = stopped
              ELSE stopped' = stopped \cup {s} /\ Empty(q)
<1> DEFINE quiet == [r EXCEPT !.output = FALSE]
<1>1. /\ quiet \in Entry /\ ~quiet.output /\ quiet.workdir = r.workdir
      /\ quiet.terminal = r.terminal /\ quiet.autoStop = r.autoStop
  BY DEF Entry
<1>2. CASE r.workdir
  <2>1. svc' = [svc EXCEPT ![s] = quiet] /\ stopped' = stopped
    BY <1>2 DEF Finally
  <2> QED
    BY <1>1, <1>2, <2>1
<1>3. CASE ~r.workdir
  <2>1. svc' = [svc EXCEPT ![s] = Forgotten(quiet)]
        /\ stopped' = stopped \cup {s}
    BY <1>3 DEF Finally
  <2> HIDE DEF quiet
  <2>2. /\ Forgotten(quiet) \in Entry /\ Empty(Forgotten(quiet))
        /\ Forgotten(quiet).terminal = quiet.terminal
        /\ Forgotten(quiet).autoStop = quiet.autoStop
    BY <1>1, Forgets
  <2>3. ~Forgotten(quiet).output /\ ~Forgotten(quiet).workdir
    BY <2>2, EmptyMeans
  <2>4. Forgotten(quiet).workdir = r.workdir
    BY <1>3, <2>2, <2>3 DEF Entry
  <2>5. /\ Forgotten(quiet) \in Entry /\ Empty(Forgotten(quiet))
        /\ Forgotten(quiet).terminal = r.terminal
        /\ Forgotten(quiet).autoStop = r.autoStop
    BY <1>1, <2>2
  <2> QED
    BY <1>3, <2>1, <2>3, <2>4, <2>5
<1> QED
  BY <1>2, <1>3

(* What stopSession does at once: it cancels the auto-stop, and calls for  *)
(* a kill or, if nothing runs any more, goes on to forget the session.     *)
LEMMA StopsAt ==
  ASSUME SessionsOK, NEW s \in Sessions, StopSession(s)
  PROVE  \E q \in Entry :
           /\ svc' = [svc EXCEPT ![s] = q]
           /\ ~q.autoStop /\ q.terminal = svc[s].terminal
           /\ q.workdir = svc[s].workdir
           /\ \/ /\ q = [svc[s] EXCEPT !.autoStop = FALSE]
                 /\ stopped' = stopped
                 /\ calls' = [calls EXCEPT ![s].kill = @ + 1]
              \/ /\ ~q.output
                 /\ IF svc[s].workdir
                    THEN /\ stopped' = stopped
                         /\ calls' = [calls EXCEPT ![s].clean = @ + 1]
                    ELSE /\ stopped' = stopped \cup {s} /\ Empty(q)
                         /\ calls' = [calls EXCEPT ![s].clean = @ + 0]
<1> DEFINE r == CancelTaskCompleteAutoStop(svc[s])
<1>1. /\ r \in Entry /\ ~r.autoStop /\ r.terminal = svc[s].terminal
      /\ r.workdir = svc[s].workdir /\ r = [svc[s] EXCEPT !.autoStop = FALSE]
  BY DEF CancelTaskCompleteAutoStop, SessionsOK, Entry
<1>2. CASE Live(s)
  <2>1. /\ svc' = [svc EXCEPT ![s] = r] /\ stopped' = stopped
        /\ calls' = [calls EXCEPT ![s].kill = @ + 1]
    BY <1>2 DEF StopSession
  <2> QED
    BY <1>1, <2>1
<1>3. CASE ~Live(s)
  <2>1. /\ Finally(s, r)
        /\ calls' = [calls EXCEPT ![s].clean = @ + Cleaning(s)]
    BY <1>3 DEF StopSession
  <2> HIDE DEF r
  <2>2. PICK q \in Entry :
          /\ svc' = [svc EXCEPT ![s] = q]
          /\ ~q.output /\ q.terminal = r.terminal
          /\ q.autoStop = r.autoStop /\ q.workdir = r.workdir
          /\ IF r.workdir THEN stopped' = stopped
             ELSE stopped' = stopped \cup {s} /\ Empty(q)
    BY <1>1, <2>1, Finishes
  <2>3. Cleaning(s) = IF r.workdir THEN 1 ELSE 0
    BY <1>1 DEF Cleaning
  <2> QED
    BY <1>1, <2>1, <2>2, <2>3
<1> QED
  BY <1>2, <1>3

-----------------------------------------------------------------------------
(***************************************************************************)
(* The steps by what they do to a session, whatever action they are of.    *)
(***************************************************************************)
(* An event is emitted, and leaves entry q.                                *)
Emission(s, event, q) ==
  /\ svc' = [svc EXCEPT ![s] = q]
  /\ q.workdir = svc[s].workdir /\ q.meta = svc[s].meta
  /\ q.buffer = svc[s].buffer /\ q.output = svc[s].output
  /\ q.transcript = svc[s].transcript
  /\ ~q.reconcile /\ ~q.since
  /\ q.autoStop => \/ svc[s].autoStop
                   \/ spawn[s] \in {"rules", "done"} /\ event = "task_complete"
  /\ q.terminal = IF event \in Ends THEN event ELSE svc[s].terminal
  /\ Heard({s}, event)
  /\ \/ UNCHANGED proc
     \/ proc[s] # "none" /\ proc' = [proc EXCEPT ![s] = "ready"]
     \/ Live(s) /\ event \in Ends /\ proc' = [proc EXCEPT ![s] = "gone"]
  /\ Unspawned /\ UNCHANGED <<calls, stopped>>
Emitting(s) == \E event \in Quiets, q \in Entry : Emission(s, event, q)

(* An input is sent, or a stop begins.                                     *)
Sending(s) ==
  /\ SendToSession(s) /\ assessing' \subseteq assessing
  /\ Unspawned /\ UNCHANGED <<proc, told, stopped>>
Stopping(s) ==
  /\ StopSession(s) /\ spawn[s] \in {"rules", "done"}
  /\ assessing' \subseteq assessing
  /\ Unspawned /\ UNCHANGED <<proc, told, fed>>

(* The timer of the reconciliation is set, ticks or is cleared.            *)
Reconciliation(s, q) ==
  /\ svc' = [svc EXCEPT ![s] = q]
  /\ q.workdir = svc[s].workdir /\ q.meta = svc[s].meta
  /\ q.buffer = svc[s].buffer /\ q.output = svc[s].output
  /\ q.transcript = svc[s].transcript
  /\ q.autoStop = svc[s].autoStop /\ q.terminal = svc[s].terminal
  /\ q = svc[s] \/ q.meta \/ (~q.reconcile /\ ~q.since)
  /\ UNCHANGED proc \/ (Live(s) /\ proc' = [proc EXCEPT ![s] = "busy"])
  /\ calls' \in [Sessions -> Awaited]
  /\ \A x \in Sessions : /\ calls'[x].kill = calls[x].kill
                        /\ calls'[x].clean = calls[x].clean
  /\ Unspawned /\ UNCHANGED <<heard, stopped>>
Reconciling(s) == \E q \in Entry : Reconciliation(s, q)

(* Only the login, its watcher or what waits for it moves on.              *)
Waiting(s) ==
  /\ \E b \in BOOLEAN : svc' = [svc EXCEPT ![s].recovery = b]
  /\ UNCHANGED proc \/ (Live(s) /\ proc' = [proc EXCEPT ![s] = "auth"])
  /\ assessing' \subseteq assessing
  /\ Unspawned /\ UNCHANGED <<calls, told, fed, stopped>>

StepOf(s) ==
  \/ SpawnContinues(s) \/ \E d \in Dirs : SpawnSession(s, d)
  \/ Emitting(s) \/ Sending(s) \/ Stopping(s) \/ Reconciling(s)
  \/ Waiting(s) \/ KillAnswered(s) \/ HooksCleaned(s)

(* Emitting an event, with or without a move of the terminal.              *)
LEMMA Emitted ==
  ASSUME SessionsOK, NEW s \in Sessions, NEW event \in Quiets,
         svc' = [svc EXCEPT ![s] = EmitEvent(s, @, event)], Heard({s}, event),
         \/ UNCHANGED proc
         \/ proc[s] # "none" /\ proc' = [proc EXCEPT ![s] = "ready"]
         \/ /\ Live(s) /\ event \in Ends
            /\ proc' = [proc EXCEPT ![s] = "gone"],
         Unspawned, UNCHANGED <<calls, stopped>>
  PROVE  Emitting(s)
<1> DEFINE q == EmitEvent(s, svc[s], event)
<1>1. svc[s] \in Entry /\ svc' = [svc EXCEPT ![s] = q]
  BY DEF SessionsOK
<1>2. /\ q \in Entry
      /\ q.workdir = svc[s].workdir /\ q.meta = svc[s].meta
      /\ q.buffer = svc[s].buffer /\ q.output = svc[s].output
      /\ q.transcript = svc[s].transcript
      /\ ~q.reconcile /\ ~q.since
      /\ q.autoStop => svc[s].autoStop
      /\ q.terminal = IF event \in Ends THEN event ELSE svc[s].terminal
  BY <1>1, Emits
<1> HIDE DEF q
<1> SUFFICES Emission(s, event, q)
  BY <1>2 DEF Emitting
<1> QED
  BY <1>1, <1>2 DEF Emission

(* Where an event is emitted.                                              *)
LEMMA Emitters ==
  ASSUME IInv, NEW s \in Sessions,
         \/ ReconcileCompletes(s) \/ HookTaskComplete(s) \/ HookSessionEnd(s)
         \/ SessionReady(s) \/ TaskComplete(s)
         \/ \E e \in Ends : SessionEnds(s, e)
  PROVE  Emitting(s)
<1>1. svc[s] \in Entry /\ SessionsOK
  BY DEF IInv, TypeOK, SessionsOK
<1>2. /\ "task_complete" \in Quiets \ Ends /\ "ready" \in Quiets \ Ends
      /\ Ends \subseteq Quiets /\ "stopped" \in Ends
  BY DEF Quiets, Ends
<1>3. CASE ReconcileCompletes(s) \/ TaskComplete(s)
  BY <1>1, <1>2, <1>3, Emitted
     DEF ReconcileCompletes, TaskComplete, NothingToReconcile
<1>4. CASE HookTaskComplete(s)
  <2> DEFINE r == EmitEvent(s, svc[s], "task_complete")
             q == [CancelTaskCompleteAutoStop(r) EXCEPT !.autoStop = TRUE]
  <2>1. r \in Entry
    BY <1>1, <1>2, Emits
  <2>2. /\ q \in Entry /\ q.workdir = r.workdir /\ q.meta = r.meta
        /\ q.buffer = r.buffer /\ q.output = r.output
        /\ q.transcript = r.transcript /\ q.reconcile = r.reconcile
        /\ q.since = r.since /\ q.terminal = r.terminal
    <3> HIDE DEF r
    <3> QED
      BY <2>1 DEF Entry, CancelTaskCompleteAutoStop
  <2>3. /\ svc' = [svc EXCEPT ![s] = q] /\ Heard({s}, "task_complete")
        /\ Unspawned /\ UNCHANGED <<proc, calls, stopped>>
        /\ spawn[s] \in {"rules", "done"}
    BY <1>4 DEF HookTaskComplete, Hooked
  <2>4. /\ r.workdir = svc[s].workdir /\ r.meta = svc[s].meta
        /\ r.buffer = svc[s].buffer /\ r.output = svc[s].output
        /\ r.transcript = svc[s].transcript /\ ~r.reconcile /\ ~r.since
        /\ r.terminal = svc[s].terminal
    <3>1. "task_complete" \in Quiets /\ "task_complete" \notin Ends
      BY <1>2
    <3> QED
      BY <1>1, <3>1, Emits
  <2> HIDE DEF q, r
  <2>5. Emission(s, "task_complete", q)
    BY <1>2, <2>2, <2>3, <2>4 DEF Emission
  <2> QED
    BY <1>2, <2>2, <2>5 DEF Emitting
<1>5. CASE HookSessionEnd(s)
  BY <1>1, <1>2, <1>5, Emitted DEF HookSessionEnd
<1>6. CASE SessionReady(s)
  BY <1>1, <1>2, <1>6, Emitted DEF SessionReady, Forwards
<1>7. ASSUME NEW e \in Ends, SessionEnds(s, e) PROVE Emitting(s)
  BY <1>1, <1>2, <1>7, Emitted DEF SessionEnds, Forwards
<1> QED
  BY <1>3, <1>4, <1>5, <1>6, <1>7

(* Where the reconciliation goes on.                                       *)
LEMMA Reconcilers ==
  ASSUME IInv, NEW s \in Sessions,
         \/ \E ok, shown \in BOOLEAN : SendAnswered(s, ok, shown)
         \/ \E shown \in BOOLEAN : ReconcileTick(s, shown)
  PROVE  Reconciling(s)
<1>1. svc[s] \in Entry /\ SessionsOK /\ svc = [svc EXCEPT ![s] = svc[s]]
  BY DEF IInv, TypeOK, SessionsOK
<1>2. ASSUME NEW r \in Entry, NEW status, NEW shown \in BOOLEAN,
             NEW q, q = Reconciled(status, r, shown)
      PROVE  /\ q \in Entry
             /\ q.workdir = r.workdir /\ q.meta = r.meta
             /\ q.buffer = r.buffer /\ q.output = r.output
             /\ q.transcript = r.transcript
             /\ q.autoStop = r.autoStop /\ q.terminal = r.terminal
             /\ q.meta \/ (~q.reconcile /\ ~q.since)
  <2>1. CASE NothingToReconcile(status, r)
    BY <1>2, <2>1 DEF Reconciled, ClearCompletionReconcile, Entry
  <2>2. CASE ~NothingToReconcile(status, r)
    BY <1>2, <2>2 DEF Reconciled, NothingToReconcile, Entry
  <2> QED
    BY <2>1, <2>2
<1>3. ASSUME NEW shown \in BOOLEAN, ReconcileTick(s, shown)
      PROVE  Reconciling(s)
  <2>1. /\ svc' = [svc EXCEPT ![s] = Reconciled(proc[s], svc[s], shown)]
        /\ Unspawned /\ UNCHANGED <<proc, calls, heard, stopped>>
    BY <1>3 DEF ReconcileTick
  <2> DEFINE q == Reconciled(proc[s], svc[s], shown)
  <2>2. /\ q \in Entry
        /\ q.workdir = svc[s].workdir /\ q.meta = svc[s].meta
        /\ q.buffer = svc[s].buffer /\ q.output = svc[s].output
        /\ q.transcript = svc[s].transcript
        /\ q.autoStop = svc[s].autoStop /\ q.terminal = svc[s].terminal
        /\ q.meta \/ (~q.reconcile /\ ~q.since)
    BY <1>1, <1>2
  <2> HIDE DEF q
  <2>3. Reconciliation(s, q)
    BY <1>1, <2>1, <2>2 DEF SessionsOK, q, Reconciliation
  <2> QED
    BY <2>2, <2>3 DEF Reconciling
<1>4. ASSUME NEW ok \in BOOLEAN, NEW shown \in BOOLEAN,
             SendAnswered(s, ok, shown)
      PROVE  Reconciling(s)
  <2> DEFINE status == IF Live(s) THEN "busy" ELSE proc[s]
             r == [ClearCompletionReconcile(svc[s]) EXCEPT !.reconcile = TRUE]
  <2>1. /\ calls' = [calls EXCEPT ![s].send = @ - 1] /\ calls[s].send > 0
        /\ Unspawned /\ UNCHANGED <<heard, stopped>>
    BY <1>4 DEF SendAnswered
  <2>2. /\ calls' \in [Sessions -> Awaited]
        /\ \A x \in Sessions : /\ calls'[x].kill = calls[x].kill
                              /\ calls'[x].clean = calls[x].clean
    BY <1>1, <2>1 DEF SessionsOK, Awaited
  <2>3. CASE UNCHANGED <<proc, svc>>
    BY <1>1, <2>1, <2>2, <2>3 DEF Reconciling, Reconciliation
  <2>4. CASE /\ proc' = [proc EXCEPT ![s] = status]
             /\ svc' = [svc EXCEPT ![s] = Reconciled(status, r, shown)]
    <3>1. /\ r \in Entry
          /\ r.workdir = svc[s].workdir /\ r.meta = svc[s].meta
          /\ r.buffer = svc[s].buffer /\ r.output = svc[s].output
          /\ r.transcript = svc[s].transcript
          /\ r.autoStop = svc[s].autoStop /\ r.terminal = svc[s].terminal
      BY <1>1 DEF Entry, ClearCompletionReconcile
    <3>2. UNCHANGED proc \/ (Live(s) /\ proc' = [proc EXCEPT ![s] = "busy"])
      BY <1>1, <2>4 DEF SessionsOK
    <3> DEFINE q == Reconciled(status, r, shown)
    <3> HIDE DEF r, status
    <3>3. /\ q \in Entry
          /\ q.workdir = r.workdir /\ q.meta = r.meta
          /\ q.buffer = r.buffer /\ q.output = r.output
          /\ q.transcript = r.transcript
          /\ q.autoStop = r.autoStop /\ q.terminal = r.terminal
          /\ q.meta \/ (~q.reconcile /\ ~q.since)
      BY <1>2, <3>1
    <3>4. svc' = [svc EXCEPT ![s] = q]
      BY <2>4
    <3> HIDE DEF q
    <3>5. Reconciliation(s, q)
      BY <2>1, <2>2, <3>1, <3>2, <3>3, <3>4 DEF Reconciliation
    <3> QED
      BY <3>3, <3>5 DEF Reconciling
  <2> QED
    BY <1>4, <2>3, <2>4 DEF SendAnswered
<1> QED
  BY <1>3, <1>4

(* Where only the login moves on, a task is delivered or left, or the      *)
(* coordinator has nothing to say.                                         *)
LEMMA Waiters ==
  ASSUME IInv, NEW s \in Sessions,
         \/ StartProbed(s) \/ LoginLaunched(s) \/ TickProbed(s) \/ Nudged(s)
         \/ ReadyTimeout(s) \/ TaskAccepted(s) \/ RecoveryTick(s)
         \/ AuthRequired(s)
  PROVE  Waiting(s)
<1>1. /\ svc[s] \in Entry /\ svc[s].recovery \in BOOLEAN
      /\ svc = [svc EXCEPT ![s].recovery = @]
  BY DEF IInv, TypeOK, SessionsOK, Entry
<1>2. CASE AuthRequired(s)
  BY <1>1, <1>2 DEF AuthRequired, Waiting, Live, heard
<1>3. CASE ReadyTimeout(s) \/ TaskAccepted(s)
  BY <1>1, <1>3 DEF ReadyTimeout, TaskAccepted, Waiting, heard
<1>4. CASE StartProbed(s) \/ Nudged(s)
  BY <1>1, <1>4
     DEF StartProbed, Nudged, AuthUnchanged, Unwatched, Waiting, heard
<1>5. CASE LoginLaunched(s)
  BY <1>1, <1>5 DEF LoginLaunched, Unwatched, Waiting, heard
<1>6. CASE RecoveryTick(s)
  BY <1>1, <1>6 DEF RecoveryTick, AuthUnchanged, Unwatched, Waiting, heard
<1>7. CASE TickProbed(s)
  BY <1>1, <1>7 DEF TickProbed, AuthUnchanged, Unwatched, Waiting, heard
<1> QED
  BY <1>2, <1>3, <1>4, <1>5, <1>6, <1>7

(* Every step is a stop of the worker or one of a session.                 *)
Core == <<proc, spawn, cwd, svc, calls, seeds, gitignore, assessing, told, fed,
          stopped>>
LEMMA Kinds ==
  ASSUME IInv, [Next]_vars
  PROVE  \/ UNCHANGED Core \/ HandleWorkerExit
         \/ \E s \in Sessions : StepOf(s)
<1>1. CASE UNCHANGED vars \/ LoginGiven
  BY <1>1 DEF vars, LoginGiven, AuthUnchanged, Unwatched, Unspawned, files,
              heard, Core
<1>2. ASSUME NEW s \in Sessions, Continues(s) PROVE StepOf(s) \/ UNCHANGED Core
  <2>1. CASE Assessed(s)
    <3>1. /\ assessing' \subseteq assessing /\ spawn[s] \in {"rules", "done"}
          /\ Unspawned /\ UNCHANGED proc
      BY <2>1 DEF Assessed, IInv, Stops, Stoppable
    <3>2. CASE SendToSession(s) /\ UNCHANGED <<told, stopped>>
      BY <3>1, <3>2 DEF Sending, StepOf
    <3>3. CASE StopSession(s) /\ UNCHANGED <<told, fed>>
      BY <3>1, <3>3 DEF Stopping, StepOf
    <3>4. CASE UNCHANGED <<svc, calls, told, fed, stopped>>
      <4>1. /\ svc[s].recovery \in BOOLEAN
            /\ svc = [svc EXCEPT ![s].recovery = @]
        BY DEF IInv, TypeOK, SessionsOK, Entry
      <4> QED
        BY <3>1, <3>4, <4>1 DEF Waiting, StepOf
    <3> QED
      BY <2>1, <3>2, <3>3, <3>4 DEF Assessed
  <2>2. CASE KillAnswered(s) \/ HooksCleaned(s)
    BY <2>2 DEF StepOf
  <2>3. CASE \E ok, shown \in BOOLEAN : SendAnswered(s, ok, shown)
    BY <2>3, Reconcilers DEF StepOf
  <2>4. CASE StartProbed(s) \/ LoginLaunched(s) \/ TickProbed(s) \/ Nudged(s)
    BY <2>4, Waiters DEF StepOf
  <2> QED
    BY <1>2, <2>1, <2>2, <2>3, <2>4 DEF Continues
<1>3. ASSUME NEW s \in Sessions, Timer(s) PROVE StepOf(s)
  <2>1. CASE ReadyTimeout(s) \/ TaskAccepted(s) \/ RecoveryTick(s)
    BY <2>1, Waiters DEF StepOf
  <2>2. CASE SendTaskWithRetry(s)
    BY <2>2 DEF SendTaskWithRetry, Sending, StepOf
  <2>3. CASE \E shown \in BOOLEAN : ReconcileTick(s, shown)
    BY <2>3, Reconcilers DEF StepOf
  <2>4. CASE ReconcileCompletes(s)
    BY <2>4, Emitters DEF StepOf
  <2>5. CASE AutoStop(s)
    BY <2>5 DEF AutoStop, heard, Stopping, StepOf, IInv, Stops, Stoppable
  <2> QED
    BY <1>3, <2>1, <2>2, <2>3, <2>4, <2>5 DEF Timer
<1>4. ASSUME NEW s \in Sessions, Event(s) PROVE StepOf(s)
  <2>1. CASE \/ HookTaskComplete(s) \/ HookSessionEnd(s) \/ SessionReady(s)
             \/ TaskComplete(s) \/ \E e \in Ends : SessionEnds(s, e)
    BY <2>1, Emitters DEF StepOf
  <2>2. CASE AuthRequired(s)
    BY <2>2, Waiters DEF StepOf
  <2>3. CASE UserSends(s)
    BY <2>3 DEF UserSends, Sending, StepOf
  <2>4. CASE UserStops(s)
    BY <2>4 DEF UserStops, heard, Stopping, StepOf
  <2>5. CASE \E d \in Dirs : SpawnSession(s, d)
    BY <2>5 DEF StepOf
  <2> QED
    BY <1>4, <2>1, <2>2, <2>3, <2>4, <2>5 DEF Event
<1> QED
  BY <1>1, <1>2, <1>3, <1>4 DEF Next, StepOf

(* A step of a session that is none of its spawn leaves spawns and files   *)
(* as they are, and starts no terminal.                                    *)
LEMMA LeavesFiles ==
  ASSUME SessionsOK, NEW s \in Sessions,
         \/ Emitting(s) \/ Sending(s) \/ Stopping(s) \/ Reconciling(s)
         \/ Waiting(s) \/ KillAnswered(s) \/ HooksCleaned(s)
  PROVE  /\ UNCHANGED <<spawn, cwd, seeds, gitignore>>
         /\ proc' \in [Sessions -> Statuses]
         /\ \A x \in Sessions : proc'[x] # "none" <=> proc[x] # "none"
  BY DEF SessionsOK, Statuses, Emitting, Emission, Sending, Stopping,
         Reconciling, Reconciliation, Waiting, KillAnswered, HooksCleaned,
         Unspawned, files, Live

(* The steps of a spawn that change neither terminals nor the service's    *)
(* maps leave what was prepared, and add to it.                            *)
LEMMA SpawnPrepares ==
  ASSUME TypeOK, Seeding, Prepares, NEW s \in Sessions,
         SpawnContinues(s) \/ \E d \in Dirs : SpawnSession(s, d)
  PROVE  FilesOK' /\ Seeding' /\ Prepares'
<1>1. ASSUME NEW d \in Dirs, SpawnSession(s, d)
      PROVE  FilesOK' /\ Seeding' /\ Prepares'
  <2>1. /\ spawn[s] = "none" /\ spawn' = [spawn EXCEPT ![s] = "seeding"]
        /\ cwd' = [cwd EXCEPT ![s] = d]
        /\ seeds' = [seeds EXCEPT !.queue = Append(@, s)]
        /\ UNCHANGED <<proc, gitignore>>
    BY <1>1 DEF SpawnSession, Goto
  <2>2. /\ seeds'.queue = Append(seeds.queue, s) /\ seeds'.read = seeds.read
        /\ seeds'.trusted = seeds.trusted
    BY <2>1 DEF TypeOK, FilesOK
  <2>3. FilesOK'
    <3>1. /\ spawn' \in [Sessions -> Phases]
          /\ cwd' \in [Sessions -> Dirs \cup {None}]
          /\ gitignore' \in [Dirs -> Ignore]
      BY <2>1 DEF TypeOK, FilesOK, Phases
    <3>2. seeds'.queue \in Seq(Sessions) /\ DOMAIN seeds'.read = Sessions
      BY <2>2 DEF TypeOK, FilesOK
    <3>3. seeds' = [queue |-> seeds'.queue, read |-> seeds'.read,
                    trusted |-> seeds'.trusted]
      BY <2>1 DEF TypeOK, FilesOK
    <3> QED
      BY <3>1, <3>2, <3>3 DEF FilesOK
  <2>4. \A i \in 1 .. Len(seeds.queue) : seeds.queue[i] # s
    BY <2>1 DEF Seeding
  <2>5. Seeding'
    <3>1. \A i \in 1 .. Len(seeds'.queue) :
            \/ i \in 1 .. Len(seeds.queue) /\ seeds'.queue[i] = seeds.queue[i]
            \/ i = Len(seeds.queue) + 1 /\ seeds'.queue[i] = s
      BY <2>2 DEF TypeOK, FilesOK
    <3>2. \A i \in 1 .. Len(seeds'.queue) : spawn'[seeds'.queue[i]] = "seeding"
      BY <2>1, <3>1 DEF TypeOK, FilesOK, Seeding
    <3>3. \A i, j \in 1 .. Len(seeds'.queue) :
            seeds'.queue[i] = seeds'.queue[j] => i = j
      BY <2>4, <3>1 DEF Seeding
    <3>4. \A x \in Sessions : SeedTurn(x) => SeedTurn(x)'
      BY <2>2 DEF SeedTurn, TypeOK, FilesOK
    <3> QED
      BY <2>2, <3>2, <3>3, <3>4 DEF Seeding
  <2>6. Prepares'
    BY <2>1, <2>2 DEF Prepares, TypeOK, FilesOK, Ignored
  <2> QED
    BY <2>3, <2>5, <2>6
<1>2. CASE SeedReads(s)
  <2>1. /\ SeedTurn(s) /\ seeds' = [seeds EXCEPT !.read[s] = seeds.trusted]
        /\ UNCHANGED <<proc, spawn, cwd, gitignore>>
    BY <1>2 DEF SeedReads
  <2>2. /\ seeds'.queue = seeds.queue /\ seeds'.trusted = seeds.trusted
        /\ seeds'.read = [seeds.read EXCEPT ![s] = seeds.trusted]
        /\ seeds' = [queue |-> seeds'.queue, read |-> seeds'.read,
                     trusted |-> seeds'.trusted]
    BY <2>1 DEF TypeOK, FilesOK
  <2>3. \A x \in Sessions : SeedTurn(x)' <=> SeedTurn(x)
    BY <2>2 DEF SeedTurn
  <2> QED
    BY <2>1, <2>2, <2>3 DEF TypeOK, FilesOK, Seeding, Prepares
<1>3. CASE SeedWrites(s)
  <2>1. /\ SeedTurn(s) /\ spawn' = [spawn EXCEPT ![s] = "settings"]
        /\ seeds' = [queue |-> Tail(seeds.queue),
                     read |-> [seeds.read EXCEPT ![s] = None],
                     trusted |-> seeds.read[s] \cup {cwd[s]}]
        /\ seeds.read[s] # None /\ UNCHANGED <<proc, cwd, gitignore>>
    BY <1>3 DEF SeedWrites, Goto
  <2>2. /\ seeds.read[s] = seeds.trusted /\ spawn[s] = "seeding"
        /\ 1 \in 1 .. Len(seeds.queue) /\ seeds.queue[1] = s
    <3>1. 1 \in 1 .. Len(seeds.queue) /\ seeds.queue[1] = s
      BY <2>1 DEF SeedTurn, TypeOK, FilesOK
    <3> QED
      BY <2>1, <3>1 DEF Seeding
  <2>3. /\ Len(seeds'.queue) = Len(seeds.queue) - 1
        /\ seeds'.queue \in Seq(Sessions)
        /\ \A i \in 1 .. Len(seeds'.queue) :
             /\ i + 1 \in 1 .. Len(seeds.queue)
             /\ seeds'.queue[i] = seeds.queue[i + 1]
    BY <2>1, <2>2 DEF TypeOK, FilesOK
  <2>4. FilesOK'
    BY <2>1, <2>3 DEF TypeOK, FilesOK, Phases
  <2>5. Seeding'
    <3>1. \A i \in 1 .. Len(seeds'.queue) : seeds'.queue[i] # s
      <4> SUFFICES ASSUME NEW i \in 1 .. Len(seeds'.queue), seeds'.queue[i] = s
                   PROVE  FALSE
        OBVIOUS
      <4>1. i + 1 \in 1 .. Len(seeds.queue) /\ seeds.queue[i + 1] = s
        BY <2>3
      <4>2. i + 1 = 1
        BY <2>2, <4>1 DEF Seeding
      <4> QED
        BY <4>2
    <3>2. \A i \in 1 .. Len(seeds'.queue) : spawn'[seeds'.queue[i]] = "seeding"
      BY <2>1, <2>3, <3>1 DEF Seeding, TypeOK, FilesOK
    <3>3. \A i, j \in 1 .. Len(seeds'.queue) :
            seeds'.queue[i] = seeds'.queue[j] => i = j
      <4> SUFFICES ASSUME NEW i \in 1 .. Len(seeds'.queue),
                          NEW j \in 1 .. Len(seeds'.queue),
                          seeds'.queue[i] = seeds'.queue[j]
                   PROVE  i = j
        OBVIOUS
      <4>1. /\ i + 1 \in 1 .. Len(seeds.queue) /\ j + 1 \in 1 .. Len(seeds.queue)
            /\ seeds.queue[i + 1] = seeds.queue[j + 1]
        BY <2>3
      <4>2. i + 1 = j + 1
        BY <4>1 DEF Seeding
      <4> QED
        BY <4>2
    <3>4. \A x \in Sessions : seeds'.read[x] = None
      <4>1. \A x \in Sessions \ {s} : seeds.read[x] = None
        BY <2>1 DEF Seeding, SeedTurn
      <4>2. DOMAIN seeds.read = Sessions
            /\ seeds'.read = [seeds.read EXCEPT ![s] = None]
        BY <2>1 DEF TypeOK, FilesOK
      <4> QED
        BY <4>1, <4>2
    <3> QED
      BY <3>2, <3>3, <3>4 DEF Seeding
  <2>6. Prepares'
    BY <2>1, <2>2 DEF Prepares, TypeOK, FilesOK, Ignored
  <2> QED
    BY <2>4, <2>5, <2>6
<1>4. CASE \/ WritesSettings(s) \/ RulesPushed(s) \/ SpawnAnswered(s)
           \/ SpawnFails(s) \/ WorkerSpawns(s)
  <2>1. /\ \/ spawn[s] = "settings" /\ spawn' = [spawn EXCEPT ![s] = "ignoring"]
           \/ spawn[s] = "rules" /\ spawn' = [spawn EXCEPT ![s] = "done"]
           \/ spawn[s] = "spawning" /\ spawn' = [spawn EXCEPT ![s] = "rules"]
           \/ spawn[s] = "spawning" /\ spawn' = [spawn EXCEPT ![s] = "failed"]
           \/ spawn[s] = "spawning" /\ spawn' = spawn
        /\ UNCHANGED <<cwd, seeds, gitignore>>
        /\ \/ UNCHANGED proc
           \/ /\ proc' = [proc EXCEPT ![s] = "starting"]
              /\ spawn[s] = "spawning" /\ spawn' = spawn
    BY <1>4 DEF WritesSettings, RulesPushed, SpawnAnswered, SpawnFails,
                WorkerSpawns, Goto, files
  <2>2. FilesOK'
    BY <2>1 DEF TypeOK, FilesOK, Phases
  <2>3. Seeding'
    BY <2>1 DEF Seeding, SeedTurn, TypeOK, FilesOK
  <2>4. Prepares'
    BY <2>1 DEF Prepares, TypeOK, SessionsOK, FilesOK, Ignored
  <2> QED
    BY <2>2, <2>3, <2>4
<1>5. CASE EnsureGitignore(s) \/ ReadsGitignore(s) \/ AppendsGitignore(s)
  <2> DEFINE d == cwd[s]
             g == gitignore[d]
  <2>1. d \in Dirs /\ g \in Ignore /\ d \in seeds.trusted
    BY <1>5 DEF EnsureGitignore, ReadsGitignore, AppendsGitignore, Prepares,
                TypeOK, FilesOK
  <2>2. /\ UNCHANGED <<proc, cwd, seeds>>
        /\ spawn[s] \in {"ignoring", "reading", "appending"}
        /\ \E pc \in {"ignoring", "reading", "appending", "spawning"} :
             /\ spawn' = [spawn EXCEPT ![s] = pc]
             /\ \E h \in Ignore :
                  /\ gitignore' = [gitignore EXCEPT ![d] = h]
                  /\ h.sections >= g.sections
                  /\ pc = "spawning" => h.sections > 0
    <3>1. CASE EnsureGitignore(s)
      <4>1. \/ /\ spawn' = [spawn EXCEPT ![s] = "reading"]
              /\ gitignore' = [gitignore EXCEPT ![d] =
                   [g EXCEPT !.lock = s, !.await[s] = None]]
           \/ /\ spawn' = [spawn EXCEPT ![s] = "ignoring"]
              /\ gitignore' = [gitignore EXCEPT ![d] =
                   [g EXCEPT !.await[s] = g.lock]]
        BY <2>1, <3>1 DEF EnsureGitignore, Goto, TypeOK, FilesOK, Ignore
      <4>2. /\ [g EXCEPT !.lock = s, !.await[s] = None] \in Ignore
            /\ [g EXCEPT !.await[s] = g.lock] \in Ignore
        BY <2>1 DEF Ignore
      <4>3. /\ [g EXCEPT !.lock = s, !.await[s] = None].sections >= g.sections
            /\ [g EXCEPT !.await[s] = g.lock].sections >= g.sections
        BY <2>1 DEF Ignore
      <4> HIDE DEF g, d
      <4> QED
        BY <3>1, <4>1, <4>2, <4>3 DEF EnsureGitignore
    <3>2. CASE ReadsGitignore(s) \/ AppendsGitignore(s)
      <4> DEFINE u == Unlocked(g, s)
                 v == [u EXCEPT !.sections = @ + 1]
      <4>1. /\ u \in Ignore /\ u.sections = g.sections
            /\ v \in Ignore /\ v.sections = g.sections + 1
        <5>1. u = [g EXCEPT !.lock = None] \/ u = g
          BY <2>1 DEF Unlocked, Ignore
        <5>2. u \in Ignore /\ u.sections = g.sections /\ g.sections \in Nat
          BY <2>1, <5>1 DEF Ignore
        <5> HIDE DEF u, g
        <5> QED
          BY <5>2 DEF Ignore
      <4>2. \/ /\ g.sections > 0 /\ spawn' = [spawn EXCEPT ![s] = "spawning"]
              /\ gitignore' = [gitignore EXCEPT ![d] = u]
           \/ /\ spawn' = [spawn EXCEPT ![s] = "appending"]
              /\ gitignore' = [gitignore EXCEPT ![d] = g]
           \/ /\ spawn' = [spawn EXCEPT ![s] = "spawning"]
              /\ gitignore' = [gitignore EXCEPT ![d] = v]
        BY <3>2 DEF ReadsGitignore, AppendsGitignore, Goto, TypeOK, FilesOK
      <4>3. /\ UNCHANGED <<proc, cwd, seeds>>
            /\ spawn[s] \in {"ignoring", "reading", "appending"}
        BY <3>2 DEF ReadsGitignore, AppendsGitignore
      <4>4. g.sections \in Nat
        BY <2>1 DEF Ignore
      <4> HIDE DEF u, v, g, d
      <4> QED
        BY <2>1, <4>1, <4>2, <4>3, <4>4
    <3> QED
      BY <1>5, <3>1, <3>2
  <2>3. PICK pc \in {"ignoring", "reading", "appending", "spawning"},
             h \in Ignore :
          /\ spawn' = [spawn EXCEPT ![s] = pc]
          /\ gitignore' = [gitignore EXCEPT ![d] = h]
          /\ h.sections >= g.sections
          /\ pc = "spawning" => h.sections > 0
    BY <2>2
  <2>4. FilesOK'
    BY <2>1, <2>2, <2>3 DEF TypeOK, FilesOK, Phases
  <2>5. Seeding'
    BY <2>2, <2>3 DEF Seeding, SeedTurn, TypeOK, FilesOK
  <2>6. Prepares'
    <3>1. \A x \in Dirs : gitignore'[x].sections >= gitignore[x].sections
      BY <2>1, <2>3 DEF TypeOK, FilesOK, Ignore
    <3>2. \A x \in Dirs : gitignore[x].sections \in Nat /\ gitignore'[x].sections \in Nat
      BY <2>4 DEF TypeOK, FilesOK, Ignore
    <3> QED
      BY <2>1, <2>2, <2>3, <3>1, <3>2 DEF Prepares, TypeOK, FilesOK, Ignored
  <2> QED
    BY <2>4, <2>5, <2>6
<1> QED
  BY <1>1, <1>2, <1>3, <1>4, <1>5 DEF SpawnContinues

(* What the steps below keep besides the spawns and files.                 *)
Kept == Noted /\ Stops /\ MapsEmpty /\ EndIsTold /\ FedIsKept

(* What an event does to who is told, fed and assessed.                    *)
LEMMA Hears ==
  ASSUME SessionsOK, NEW s \in Sessions, NEW event, Heard({s}, event)
  PROVE  /\ told' = IF event \in Ends THEN told \cup {s} ELSE told
         /\ fed' = IF event = "task_complete" THEN fed \ {s} ELSE fed
         /\ assessing' \subseteq Sessions
         /\ \A x \in assessing' : x \in assessing \/ (x = s /\ spawn[s] = "done")
  BY DEF Heard, SessionsOK, Ends

(* Events.                                                                 *)
LEMMA EmittingKeeps ==
  ASSUME IInv, NEW s \in Sessions, Emitting(s)
  PROVE  SessionsOK' /\ Kept'
<1>1. PICK event \in Quiets, q \in Entry : Emission(s, event, q)
  BY DEF Emitting
<1>2. /\ svc' = [svc EXCEPT ![s] = q] /\ svc'[s] = q
      /\ \A x \in Sessions \ {s} : svc'[x] = svc[x]
      /\ q.workdir = svc[s].workdir /\ q.meta = svc[s].meta
      /\ q.buffer = svc[s].buffer /\ q.output = svc[s].output
      /\ q.transcript = svc[s].transcript /\ ~q.reconcile /\ ~q.since
      /\ q.autoStop => \/ svc[s].autoStop
                       \/ spawn[s] \in {"rules", "done"} /\ event = "task_complete"
      /\ q.terminal = IF event \in Ends THEN event ELSE svc[s].terminal
      /\ UNCHANGED <<calls, stopped, spawn>>
  BY <1>1 DEF Emission, Unspawned, IInv, TypeOK, SessionsOK
<1>3. /\ told' = IF event \in Ends THEN told \cup {s} ELSE told
      /\ fed' = IF event = "task_complete" THEN fed \ {s} ELSE fed
      /\ assessing' \subseteq Sessions
      /\ \A x \in assessing' : x \in assessing \/ (x = s /\ spawn[s] = "done")
  BY <1>1, Hears DEF Emission, IInv, TypeOK
<1>4. SessionsOK'
  BY <1>1, <1>2, <1>3, LeavesFiles DEF IInv, TypeOK, SessionsOK
<1>5. Noted'
  BY <1>2, <1>3 DEF IInv, Noted
<1>6. Stops'
  BY <1>2, <1>3 DEF IInv, TypeOK, SessionsOK, Stops, Stoppable
<1>7. MapsEmpty'
  <2> SUFFICES ASSUME NEW x \in stopped PROVE Empty(svc'[x])
    BY <1>2 DEF MapsEmpty, Empty
  <2>1. Empty(svc[x]) /\ x \in Sessions
    BY DEF IInv, MapsEmpty, Empty, TypeOK, SessionsOK
  <2>2. CASE x = s
    <3>1. /\ ~svc[s].workdir /\ ~svc[s].meta /\ ~svc[s].buffer
          /\ ~svc[s].output /\ ~svc[s].transcript
      BY <2>1, <2>2, EmptyMeans DEF IInv, TypeOK, SessionsOK
    <3> QED
      BY <1>2, <2>2, <3>1 DEF Empty, Flags
  <2>3. CASE x # s
    BY <1>2, <2>1, <2>3
  <2> QED
    BY <2>2, <2>3
<1>8. EndIsTold'
  BY <1>1, <1>2, <1>3 DEF Emission, IInv, TypeOK, SessionsOK, EndIsTold
<1>9. FedIsKept'
  BY <1>2, <1>3 DEF IInv, TypeOK, SessionsOK, FedIsKept
<1> QED
  BY <1>4, <1>5, <1>6, <1>7, <1>8, <1>9 DEF Kept

(* Inputs.                                                                 *)
LEMMA SendingKeeps ==
  ASSUME IInv, NEW s \in Sessions, Sending(s)
  PROVE  SessionsOK' /\ Kept'
<1>1. /\ SessionsOK /\ SendToSession(s) /\ assessing' \subseteq assessing
      /\ UNCHANGED <<spawn, proc, told, stopped>>
  BY DEF Sending, Unspawned, IInv, TypeOK
<1>2. /\ svc' = [svc EXCEPT ![s].autoStop = FALSE]
      /\ svc' \in [Sessions -> Entry] /\ calls' \in [Sessions -> Awaited]
      /\ fed' = fed \cup {s}
      /\ \A x \in Sessions : /\ calls'[x].kill = calls[x].kill
                            /\ calls'[x].clean = calls[x].clean
  BY <1>1, Sends
<1>3. SessionsOK'
  BY <1>1, <1>2 DEF SessionsOK
<1>4. /\ ~svc'[s].autoStop
      /\ \A x \in Sessions : /\ svc'[x].autoStop => svc[x].autoStop
                            /\ svc'[x].terminal = svc[x].terminal
                            /\ svc'[x].workdir = svc[x].workdir
                            /\ svc'[x].output = svc[x].output
  BY <1>1, <1>2 DEF SessionsOK, Entry
<1>5. Noted' /\ Stops' /\ EndIsTold'
  BY <1>1, <1>2, <1>4
     DEF IInv, Noted, Stops, Stoppable, EndIsTold
<1>6. MapsEmpty'
  <2>1. ASSUME NEW x \in Sessions, NEW f \in Flags \ {"autoStop", "recovery"}
        PROVE  svc'[x][f] = svc[x][f]
    BY <1>1, <1>2 DEF SessionsOK, Entry, Flags
  <2> QED
    BY <1>1, <2>1 DEF IInv, MapsEmpty, SessionsOK
<1>7. FedIsKept'
  BY <1>1, <1>2, <1>4 DEF IInv, FedIsKept, SessionsOK
<1> QED
  BY <1>3, <1>5, <1>6, <1>7 DEF Kept

(* The entry of a stopped session is empty, and so it stays as long as no  *)
(* step of another kind touches it.                                        *)
LEMMA Emptied ==
  ASSUME MapsEmpty, SessionsOK, NEW s \in Sessions, NEW q \in Entry,
         svc' = [svc EXCEPT ![s] = q], stopped' \subseteq stopped \cup {s},
         s \in stopped' => Empty(q)
  PROVE  MapsEmpty'
  BY DEF MapsEmpty, SessionsOK, Empty

(* A stop begins.                                                          *)
LEMMA StoppingKeeps ==
  ASSUME IInv, NEW s \in Sessions, Stopping(s)
  PROVE  SessionsOK' /\ Kept'
<1>1. /\ SessionsOK /\ StopSession(s) /\ spawn[s] \in {"rules", "done"}
      /\ assessing' \subseteq assessing /\ UNCHANGED <<spawn, proc, told, fed>>
  BY DEF Stopping, Unspawned, IInv, TypeOK
<1>2. PICK q \in Entry :
        /\ svc' = [svc EXCEPT ![s] = q]
        /\ ~q.autoStop /\ q.terminal = svc[s].terminal
        /\ q.workdir = svc[s].workdir
        /\ \/ /\ q = [svc[s] EXCEPT !.autoStop = FALSE]
              /\ stopped' = stopped
              /\ calls' = [calls EXCEPT ![s].kill = @ + 1]
           \/ /\ ~q.output
              /\ IF svc[s].workdir
                 THEN /\ stopped' = stopped
                      /\ calls' = [calls EXCEPT ![s].clean = @ + 1]
                 ELSE /\ stopped' = stopped \cup {s} /\ Empty(q)
                      /\ calls' = [calls EXCEPT ![s].clean = @ + 0]
  BY <1>1, StopsAt
<1>3. /\ svc' \in [Sessions -> Entry] /\ calls' \in [Sessions -> Awaited]
      /\ stopped \subseteq stopped' /\ stopped' \subseteq stopped \cup {s}
      /\ \A x \in Sessions \ {s} : svc'[x] = svc[x] /\ calls'[x] = calls[x]
      /\ svc'[s] = q
  BY <1>1, <1>2 DEF SessionsOK, Awaited
<1>4. SessionsOK'
  BY <1>1, <1>3 DEF SessionsOK
<1>5. Noted' /\ EndIsTold' /\ FedIsKept'
  BY <1>1, <1>2, <1>3 DEF IInv, Noted, EndIsTold, FedIsKept, SessionsOK
<1>6. Stops'
  <2>1. calls'[s].clean > 0 => ~q.output
    <3>1. CASE /\ q = [svc[s] EXCEPT !.autoStop = FALSE]
               /\ calls' = [calls EXCEPT ![s].kill = @ + 1]
      <4>1. calls'[s].clean = calls[s].clean /\ q.output = svc[s].output
        BY <1>1, <3>1 DEF SessionsOK, Awaited, Entry
      <4> QED
        BY <4>1 DEF IInv, Stops
    <3> QED
      BY <1>2, <3>1
  <2> QED
    BY <1>1, <1>3, <2>1 DEF IInv, Stops, Stoppable
<1>7. MapsEmpty'
  <2>1. s \in stopped' => Empty(q)
    <3>1. CASE /\ q = [svc[s] EXCEPT !.autoStop = FALSE] /\ stopped' = stopped
      <4>1. \A f \in Flags \ {"autoStop", "recovery"} : q[f] = svc[s][f]
        BY <1>1, <3>1 DEF SessionsOK, Entry, Flags
      <4> QED
        BY <3>1, <4>1 DEF IInv, MapsEmpty, Empty
    <3>2. CASE svc[s].workdir /\ stopped' = stopped
      <4>1. s \notin stopped
        <5>1. "workdir" \in Flags \ {"autoStop", "recovery"}
          BY DEF Flags
        <5> QED
          BY <3>2, <5>1 DEF IInv, MapsEmpty
      <4> QED
        BY <3>2, <4>1
    <3> QED
      BY <1>2, <3>1, <3>2
  <2> QED
    BY <1>1, <1>2, <1>3, <2>1, Emptied DEF IInv
<1> QED
  BY <1>4, <1>5, <1>6, <1>7 DEF Kept

(* The reconciliation of a busy session.                                   *)
LEMMA ReconcilingKeeps ==
  ASSUME IInv, NEW s \in Sessions, Reconciling(s)
  PROVE  SessionsOK' /\ Kept'
<1>1. PICK q \in Entry : Reconciliation(s, q)
  BY DEF Reconciling
<1>2. /\ SessionsOK /\ svc' = [svc EXCEPT ![s] = q]
      /\ svc' \in [Sessions -> Entry] /\ svc'[s] = q
      /\ \A x \in Sessions \ {s} : svc'[x] = svc[x]
      /\ UNCHANGED <<spawn, assessing, told, fed, stopped>>
      /\ q.workdir = svc[s].workdir /\ q.output = svc[s].output
      /\ q.autoStop = svc[s].autoStop /\ q.terminal = svc[s].terminal
      /\ calls' \in [Sessions -> Awaited]
      /\ \A x \in Sessions : /\ calls'[x].kill = calls[x].kill
                            /\ calls'[x].clean = calls[x].clean
  BY <1>1 DEF Reconciliation, Unspawned, heard, IInv, TypeOK, SessionsOK
<1>3. SessionsOK'
  BY <1>2, LeavesFiles DEF SessionsOK
<1>4. Noted' /\ Stops' /\ FedIsKept'
  BY <1>2 DEF IInv, Noted, Stops, Stoppable, FedIsKept, SessionsOK
<1>5. EndIsTold'
  BY <1>1, <1>2 DEF Reconciliation, IInv, EndIsTold, SessionsOK
<1>6. MapsEmpty'
  <2>1. s \in stopped' => Empty(q)
    <3> SUFFICES ASSUME s \in stopped PROVE Empty(q)
      BY <1>2
    <3>1. Empty(svc[s]) /\ svc[s] \in Entry
      BY <1>2 DEF IInv, MapsEmpty, Empty, SessionsOK
    <3>2. /\ ~svc[s].workdir /\ ~svc[s].meta /\ ~svc[s].buffer
          /\ ~svc[s].output /\ ~svc[s].transcript
      BY <3>1, EmptyMeans
    <3>3. CASE q = svc[s]
      BY <3>1, <3>3
    <3>4. CASE ~q.reconcile /\ ~q.since
      BY <1>1, <3>2, <3>4 DEF Reconciliation, Empty, Flags
    <3> QED
      BY <1>1, <3>2, <3>3, <3>4 DEF Reconciliation
  <2> QED
    BY <1>2, <2>1, Emptied DEF IInv
<1> QED
  BY <1>3, <1>4, <1>5, <1>6 DEF Kept

(* What waits moves on.                                                    *)
LEMMA WaitingKeeps ==
  ASSUME IInv, NEW s \in Sessions, Waiting(s)
  PROVE  SessionsOK' /\ Kept'
<1>1. PICK b \in BOOLEAN : svc' = [svc EXCEPT ![s].recovery = b]
  BY DEF Waiting
<1>2. /\ SessionsOK /\ assessing' \subseteq assessing
      /\ UNCHANGED <<spawn, calls, told, fed, stopped>>
  BY DEF Waiting, Unspawned, IInv, TypeOK
<1>3. /\ svc' \in [Sessions -> Entry]
      /\ \A x \in Sessions :
           /\ svc'[x].terminal = svc[x].terminal
           /\ svc'[x].autoStop = svc[x].autoStop
           /\ \A f \in Flags \ {"autoStop", "recovery"} : svc'[x][f] = svc[x][f]
  BY <1>1, <1>2 DEF SessionsOK, Entry, Flags
<1>4. \A x \in Sessions : /\ svc'[x].workdir = svc[x].workdir
                        /\ svc'[x].output = svc[x].output
  BY <1>3 DEF Flags
<1>5. SessionsOK'
  BY <1>2, <1>3, LeavesFiles DEF SessionsOK
<1>6. Noted' /\ Stops' /\ FedIsKept' /\ MapsEmpty'
  BY <1>2, <1>3, <1>4
     DEF IInv, Noted, Stops, Stoppable, FedIsKept, MapsEmpty, SessionsOK
<1>7. EndIsTold'
  BY <1>2 DEF Waiting, IInv, EndIsTold, SessionsOK
<1> QED
  BY <1>5, <1>6, <1>7 DEF Kept

(* The kill is answered, and the stop goes on.                             *)
LEMMA KillKeeps ==
  ASSUME IInv, NEW s \in Sessions, KillAnswered(s)
  PROVE  SessionsOK' /\ Kept'
<1>1. /\ SessionsOK /\ Finally(s, svc[s]) /\ svc[s] \in Entry
      /\ calls[s].kill > 0
      /\ calls' = [calls EXCEPT ![s].kill = @ - 1, ![s].clean = @ + Cleaning(s)]
      /\ UNCHANGED <<spawn, proc, assessing, told, fed>>
  BY DEF KillAnswered, Unspawned, heard, IInv, TypeOK, SessionsOK
<1>2. PICK q \in Entry :
        /\ svc' = [svc EXCEPT ![s] = q]
        /\ ~q.output /\ q.terminal = svc[s].terminal
        /\ q.autoStop = svc[s].autoStop /\ q.workdir = svc[s].workdir
        /\ IF svc[s].workdir THEN stopped' = stopped
           ELSE stopped' = stopped \cup {s} /\ Empty(q)
  BY <1>1, Finishes
<1>3. spawn[s] \in {"rules", "done"}
  BY <1>1 DEF IInv, Stops, Stoppable
<1>4. /\ calls' \in [Sessions -> Awaited]
      /\ \A x \in Sessions \ {s} : calls'[x] = calls[x]
  <2>1. calls[s] \in Awaited /\ Cleaning(s) \in Nat
    BY <1>1 DEF SessionsOK, Cleaning
  <2> DEFINE killed == [calls EXCEPT ![s].kill = @ - 1]
  <2>2. killed \in [Sessions -> Awaited]
    BY <1>1, <2>1 DEF SessionsOK, Awaited
  <2>3. calls' = [killed EXCEPT ![s].clean = @ + Cleaning(s)]
    BY <1>1, <2>1 DEF SessionsOK, Awaited
  <2>4. \A x \in Sessions \ {s} : killed[x] = calls[x]
    BY <1>1 DEF SessionsOK
  <2> HIDE DEF killed
  <2> QED
    BY <2>1, <2>2, <2>3, <2>4 DEF Awaited
<1>5. /\ svc' \in [Sessions -> Entry] /\ svc'[s] = q
      /\ \A x \in Sessions \ {s} : svc'[x] = svc[x]
      /\ stopped \subseteq stopped' /\ stopped' \subseteq stopped \cup {s}
  BY <1>1, <1>2 DEF SessionsOK
<1>6. SessionsOK'
  BY <1>1, <1>4, <1>5 DEF SessionsOK
<1>7. Noted' /\ Stops' /\ EndIsTold' /\ FedIsKept'
  BY <1>1, <1>2, <1>3, <1>4, <1>5
     DEF IInv, Noted, Stops, Stoppable, EndIsTold, FedIsKept, SessionsOK
<1>8. MapsEmpty'
  <2>1. s \in stopped' => Empty(q)
    <3>1. CASE svc[s].workdir
      <4>1. "workdir" \in Flags \ {"autoStop", "recovery"}
        BY DEF Flags
      <4>2. s \notin stopped
        BY <3>1, <4>1 DEF IInv, MapsEmpty
      <4> QED
        BY <1>2, <3>1, <4>2
    <3> QED
      BY <1>2, <3>1
  <2> QED
    BY <1>1, <1>2, <1>5, <2>1, Emptied DEF IInv
<1> QED
  BY <1>6, <1>7, <1>8 DEF Kept

(* The hooks are removed, and the session forgotten.                       *)
LEMMA HooksKeep ==
  ASSUME IInv, NEW s \in Sessions, HooksCleaned(s)
  PROVE  SessionsOK' /\ Kept'
<1>1. /\ SessionsOK /\ svc[s] \in Entry /\ calls[s].clean > 0
      /\ calls' = [calls EXCEPT ![s].clean = @ - 1]
      /\ svc' = [svc EXCEPT ![s] = Forgotten(svc[s])]
      /\ stopped' = stopped \cup {s}
      /\ UNCHANGED <<spawn, proc, assessing, told, fed>>
  BY DEF HooksCleaned, heard, IInv, TypeOK, SessionsOK
<1>2. spawn[s] \in {"rules", "done"} /\ ~svc[s].output
  BY <1>1 DEF IInv, Stops, Stoppable
<1> DEFINE q == Forgotten(svc[s])
<1>3. /\ q \in Entry /\ Empty(q) /\ q.autoStop = svc[s].autoStop
      /\ q.terminal = svc[s].terminal
  BY <1>1, <1>2, Forgets
<1>4. ~q.output
  BY <1>3, EmptyMeans
<1> HIDE DEF q
<1>5. /\ svc' = [svc EXCEPT ![s] = q]
      /\ svc' \in [Sessions -> Entry] /\ svc'[s] = q
      /\ \A x \in Sessions \ {s} : svc'[x] = svc[x]
  BY <1>1, <1>3 DEF SessionsOK, q
<1>6. /\ calls' \in [Sessions -> Awaited]
      /\ \A x \in Sessions \ {s} : calls'[x] = calls[x]
  BY <1>1 DEF SessionsOK, Awaited
<1>7. SessionsOK'
  BY <1>1, <1>5, <1>6 DEF SessionsOK
<1>8. Noted' /\ Stops' /\ EndIsTold' /\ FedIsKept'
  BY <1>1, <1>2, <1>3, <1>4, <1>5, <1>6
     DEF IInv, Noted, Stops, Stoppable, EndIsTold, FedIsKept, SessionsOK
<1>9. MapsEmpty'
  BY <1>1, <1>3, <1>5, Emptied DEF IInv
<1> QED
  BY <1>7, <1>8, <1>9 DEF Kept

(* The spawn goes on.                                                      *)
LEMMA SpawnKeeps ==
  ASSUME IInv, NEW s \in Sessions,
         SpawnContinues(s) \/ \E d \in Dirs : SpawnSession(s, d)
  PROVE  SessionsOK' /\ Kept'
<1>1. SessionsOK /\ FilesOK /\ svc[s] \in Entry
  BY DEF IInv, TypeOK, SessionsOK
<1>2. CASE \E d \in Dirs : SpawnSession(s, d)
  <2>1. /\ spawn[s] = "none" /\ spawn' = [spawn EXCEPT ![s] = "seeding"]
        /\ svc' = [svc EXCEPT ![s].workdir = TRUE]
        /\ UNCHANGED <<proc, calls, assessing, told, fed, stopped>>
    BY <1>2 DEF SpawnSession, SpawnUnchanged, Goto, heard
  <2>2. s \notin stopped
    BY <2>1 DEF IInv, Stops, Stoppable
  <2>3. /\ svc' \in [Sessions -> Entry] /\ svc'[s].workdir
        /\ svc'[s].terminal = svc[s].terminal
        /\ svc'[s].autoStop = svc[s].autoStop
        /\ svc'[s].output = svc[s].output
        /\ \A x \in Sessions \ {s} : svc'[x] = svc[x]
    BY <1>1, <2>1 DEF SessionsOK, Entry
  <2>4. SessionsOK'
    BY <1>1, <2>1, <2>3 DEF SessionsOK
  <2>5. Noted' /\ EndIsTold' /\ FedIsKept'
    BY <1>1, <2>1, <2>3
       DEF IInv, FilesOK, Noted, EndIsTold, FedIsKept, SessionsOK
  <2>6. Stops'
    BY <1>1, <2>1, <2>3 DEF IInv, FilesOK, Stops, Stoppable
  <2>7. MapsEmpty'
    BY <1>1, <2>1, <2>2, <2>3 DEF IInv, MapsEmpty, SessionsOK
  <2> QED
    BY <2>4, <2>5, <2>6, <2>7 DEF Kept
<1>3. CASE SpawnAnswered(s)
  <2> DEFINE q == [svc[s] EXCEPT !.terminal = "none", !.meta = TRUE,
                                 !.buffer = TRUE, !.output = TRUE,
                                 !.transcript = TRUE]
  <2>1. /\ spawn[s] = "spawning" /\ spawn' = [spawn EXCEPT ![s] = "rules"]
        /\ svc' = [svc EXCEPT ![s] = q]
        /\ UNCHANGED <<proc, calls, assessing, told, fed, stopped>>
    BY <1>3 DEF SpawnAnswered, SpawnUnchanged, Goto, heard
  <2>2. s \notin stopped /\ ~(calls[s].clean > 0)
    BY <2>1 DEF IInv, Stops, Stoppable
  <2>3. /\ q \in Entry /\ q.terminal = "none"
        /\ q.workdir = svc[s].workdir /\ q.autoStop = svc[s].autoStop
    BY <1>1 DEF Entry
  <2> HIDE DEF q
  <2>4. /\ svc' \in [Sessions -> Entry] /\ svc'[s] = q
        /\ \A x \in Sessions \ {s} : svc'[x] = svc[x]
    BY <1>1, <2>1, <2>3 DEF SessionsOK
  <2>5. SessionsOK'
    BY <1>1, <2>1, <2>4 DEF SessionsOK
  <2>6. Noted' /\ EndIsTold' /\ FedIsKept'
    BY <1>1, <2>1, <2>3, <2>4
       DEF IInv, FilesOK, Noted, EndIsTold, FedIsKept, SessionsOK
  <2>7. Stops'
    BY <1>1, <2>1, <2>2, <2>3, <2>4 DEF IInv, FilesOK, Stops, Stoppable
  <2>8. MapsEmpty'
    BY <1>1, <2>1, <2>2, <2>4 DEF IInv, MapsEmpty, SessionsOK
  <2> QED
    BY <2>5, <2>6, <2>7, <2>8 DEF Kept
<1>4. CASE WorkerSpawns(s)
  <2>1. /\ proc' = [proc EXCEPT ![s] = "starting"]
        /\ UNCHANGED <<spawn, svc, calls, assessing, told, fed, stopped>>
    BY <1>4 DEF WorkerSpawns, SpawnUnchanged, heard
  <2>2. SessionsOK'
    BY <1>1, <2>1 DEF SessionsOK, Statuses
  <2> QED
    BY <1>1, <2>1, <2>2 DEF IInv, Kept, Noted, Stops, Stoppable, MapsEmpty,
                            EndIsTold, FedIsKept, SessionsOK
<1>5. CASE \/ SeedReads(s) \/ SeedWrites(s) \/ WritesSettings(s)
           \/ EnsureGitignore(s) \/ ReadsGitignore(s) \/ AppendsGitignore(s)
           \/ SpawnFails(s) \/ RulesPushed(s)
  <2>1. /\ UNCHANGED <<proc, svc, calls, assessing, told, fed, stopped>>
        /\ spawn[s] # "none"
        /\ \/ spawn' = spawn
           \/ spawn[s] \notin {"rules", "done"}
              /\ \E pc \in Phases : spawn' = [spawn EXCEPT ![s] = pc]
           \/ spawn' = [spawn EXCEPT ![s] = "done"]
    <3>1. SeedTurn(s) => spawn[s] = "seeding"
      <4>1. SeedTurn(s) => 1 \in 1 .. Len(seeds.queue) /\ seeds.queue[1] = s
        BY <1>1 DEF SeedTurn, FilesOK
      <4> QED
        BY <4>1 DEF IInv, Seeding
    <3> QED
      BY <1>5, <3>1
         DEF SeedReads, SeedWrites, WritesSettings, EnsureGitignore,
             ReadsGitignore, AppendsGitignore, SpawnFails, RulesPushed, Goto,
             SpawnUnchanged, heard, Phases
  <2>2. SessionsOK' /\ MapsEmpty' /\ EndIsTold' /\ FedIsKept'
    BY <1>1, <2>1 DEF IInv, SessionsOK, MapsEmpty, EndIsTold, FedIsKept
  <2>3. Noted'
    BY <1>1, <2>1 DEF IInv, FilesOK, Noted
  <2>4. Stops'
    BY <1>1, <2>1 DEF IInv, FilesOK, Stops, Stoppable
  <2> QED
    BY <2>2, <2>3, <2>4 DEF Kept
<1> QED
  BY <1>2, <1>3, <1>4, <1>5 DEF SpawnContinues

(* The worker dies.                                                        *)
LEMMA WorkerKeeps ==
  ASSUME IInv, HandleWorkerExit
  PROVE  TypeOK' /\ Seeding' /\ Prepares' /\ Kept'
<1> DEFINE reported == {s \in Tracked : svc[s].terminal = "none"}
<1>1. /\ proc' = [s \in Sessions |-> IF Live(s) THEN "gone" ELSE proc[s]]
      /\ svc' = [s \in Sessions |-> IF s \in reported
                                       THEN EmitEvent(s, svc[s], "error")
                                       ELSE svc[s]]
      /\ Heard(reported, "error") /\ Unspawned /\ UNCHANGED <<calls, stopped>>
  BY DEF HandleWorkerExit
<1>2. /\ told' = told \cup reported /\ fed' = fed
      /\ assessing' \subseteq assessing
      /\ UNCHANGED <<spawn, cwd, seeds, gitignore>>
  BY <1>1 DEF Heard, Ends, Unspawned, files
<1>3. SessionsOK /\ FilesOK /\ "error" \in Quiets \cap Ends
  BY DEF IInv, TypeOK, Quiets, Ends
<1>4. ASSUME NEW s \in Sessions
      PROVE  /\ svc'[s] \in Entry
             /\ svc'[s].workdir = svc[s].workdir
             /\ svc'[s].output = svc[s].output
             /\ svc'[s].autoStop => svc[s].autoStop
             /\ svc'[s].terminal = IF s \in reported THEN "error"
                                   ELSE svc[s].terminal
             /\ Empty(svc[s]) => Empty(svc'[s])
  <2>1. svc[s] \in Entry
    BY <1>3 DEF SessionsOK
  <2>2. CASE s \notin reported
    BY <1>1, <2>1, <2>2
  <2>3. CASE s \in reported
    <3> DEFINE q == EmitEvent(s, svc[s], "error")
    <3>1. svc'[s] = q
      BY <1>1, <2>3
    <3>2. /\ q \in Entry
          /\ q.workdir = svc[s].workdir /\ q.meta = svc[s].meta
          /\ q.buffer = svc[s].buffer /\ q.output = svc[s].output
          /\ q.transcript = svc[s].transcript
          /\ ~q.reconcile /\ ~q.since
          /\ q.autoStop => svc[s].autoStop
          /\ q.terminal = IF "error" \in Ends THEN "error" ELSE svc[s].terminal
      BY <1>3, <2>1, Emits
    <3> HIDE DEF q
    <3>3. Empty(svc[s]) => Empty(q)
      <4> SUFFICES ASSUME Empty(svc[s]) PROVE Empty(q)
        OBVIOUS
      <4>1. /\ ~svc[s].workdir /\ ~svc[s].meta /\ ~svc[s].buffer
            /\ ~svc[s].output /\ ~svc[s].transcript
        BY <2>1, EmptyMeans
      <4> QED
        BY <3>2, <4>1 DEF Empty, Flags
    <3> QED
      BY <1>3, <2>3, <3>1, <3>2, <3>3
  <2> QED
    BY <2>2, <2>3
<1>5. SessionsOK'
  <2>1. reported \subseteq Sessions
    BY DEF Tracked
  <2>2. svc' \in [Sessions -> Entry]
    BY <1>1, <1>4
  <2>3. proc' \in [Sessions -> Statuses]
    BY <1>1, <1>3 DEF SessionsOK, Statuses
  <2> QED
    BY <1>1, <1>2, <1>3, <2>1, <2>2, <2>3 DEF SessionsOK
<1>6. FilesOK' /\ Seeding'
  BY <1>2, <1>3 DEF IInv, FilesOK, Seeding, SeedTurn
<1>7. Prepares'
  BY <1>1, <1>2 DEF IInv, Prepares, Live
<1>8. Noted' /\ Stops' /\ FedIsKept'
  BY <1>1, <1>2, <1>3, <1>4
     DEF IInv, Noted, Stops, Stoppable, FedIsKept, SessionsOK
<1>9. MapsEmpty'
  BY <1>1, <1>3, <1>4 DEF IInv, MapsEmpty, Empty, SessionsOK
<1>10. EndIsTold'
  <2>1. ASSUME NEW s \in Sessions, Live(s) PROVE s \in told' \cup stopped
    <3>1. spawn[s] # "none"
      BY <2>1 DEF IInv, Prepares, Ignored, Live
    <3>2. s \in stopped \/ s \in Tracked
      BY <3>1 DEF IInv, Noted, Tracked
    <3> QED
      BY <1>2, <3>2 DEF IInv, Noted
  <2> QED
    BY <1>1, <1>2, <2>1 DEF IInv, EndIsTold
<1> QED
  BY <1>5, <1>6, <1>7, <1>8, <1>9, <1>10 DEF TypeOK, Kept

(* A step that leaves what the invariant is about leaves the invariant.    *)
LEMMA Unmoved == IInv /\ UNCHANGED Core => IInv'
  BY DEF Core, IInv, TypeOK, SessionsOK, FilesOK, Seeding, SeedTurn, Prepares,
         Noted, Stops, Stoppable, MapsEmpty, EndIsTold, FedIsKept

(* Every step keeps the inductive invariant.                               *)
LEMMA StepInv == IInv /\ [Next]_vars => IInv'
<1> SUFFICES ASSUME IInv, [Next]_vars PROVE IInv'
  OBVIOUS
<1>1. CASE UNCHANGED Core
  BY <1>1, Unmoved
<1>2. CASE HandleWorkerExit
  BY <1>2, WorkerKeeps DEF IInv, Kept
<1>3. ASSUME NEW s \in Sessions,
             SpawnContinues(s) \/ \E d \in Dirs : SpawnSession(s, d)
      PROVE  IInv'
  BY <1>3, SpawnPrepares, SpawnKeeps DEF IInv, TypeOK, Kept
<1>4. ASSUME NEW s \in Sessions,
             \/ Emitting(s) \/ Sending(s) \/ Stopping(s) \/ Reconciling(s)
             \/ Waiting(s) \/ KillAnswered(s) \/ HooksCleaned(s)
      PROVE  IInv'
  <2>1. SessionsOK /\ FilesOK
    BY DEF IInv, TypeOK
  <2>2. SessionsOK' /\ Kept'
    BY <1>4, EmittingKeeps, SendingKeeps, StoppingKeeps, ReconcilingKeeps,
       WaitingKeeps, KillKeeps, HooksKeep
  <2>3. /\ UNCHANGED <<spawn, cwd, seeds, gitignore>>
        /\ \A x \in Sessions : proc'[x] # "none" <=> proc[x] # "none"
    BY <1>4, <2>1, LeavesFiles
  <2>4. FilesOK' /\ Seeding' /\ Prepares'
    BY <2>1, <2>3 DEF IInv, FilesOK, Seeding, SeedTurn, Prepares
  <2> QED
    BY <2>2, <2>4 DEF IInv, TypeOK, Kept
<1> QED
  BY <1>1, <1>2, <1>3, <1>4, Kinds DEF StepOf

(* The inductive invariant holds of every behaviour.                       *)
THEOREM PtyInvariant == Spec => []IInv
  BY InitInv, StepInv, PTL DEF Spec

(* No agent runs in a workdir that is not trusted or whose .gitignore does *)
(* not name the injected files, however spawns overlap (pty-service.ts:    *)
(* 398-443, 954-958, 2005-2028).                                           *)
THEOREM PreparedHolds == Spec => []Prepared
<1>1. IInv => Prepared
  BY DEF IInv, TypeOK, SessionsOK, Prepares, Prepared, Ignored, Live
<1> QED
  BY PtyInvariant, <1>1, PTL

(* A stop cancels the timer of a completion, and forgets the watcher of a  *)
(* login: only what armed a timer after the stop had begun leaves one.     *)
Silent ==
  \A s \in Sessions \ late :
    /\ Stopped(s) => ~svc[s].autoStop
    /\ s \in stopped => ~svc[s].recovery

(* A step that arms no timer and neither begins a stop nor ends one.       *)
Quietly ==
  /\ UNCHANGED late
  /\ \A x \in Sessions :
       /\ Stopped(x)' => Stopped(x)
       /\ svc'[x].autoStop => svc[x].autoStop
       /\ x \in stopped' => x \in stopped
       /\ svc'[x].recovery => svc[x].recovery
LEMMA QuietlySilent == Silent /\ Quietly => Silent'
  BY DEF Silent, Quietly

(* Emitting an event arms no timer.                                        *)
LEMMA EmitsQuietly ==
  ASSUME SessionsOK, NEW s \in Sessions, NEW event \in Quiets,
         svc' = [svc EXCEPT ![s] = EmitEvent(s, @, event)],
         UNCHANGED <<calls, stopped, late>>
  PROVE  Quietly
<1>1. /\ svc'[s] = EmitEvent(s, svc[s], event) /\ svc[s] \in Entry
      /\ \A x \in Sessions \ {s} : svc'[x] = svc[x]
  BY DEF SessionsOK
<1>2. /\ svc'[s].autoStop => svc[s].autoStop
      /\ svc'[s].recovery => svc[s].recovery
  BY <1>1 DEF EmitEvent, Entry, ClearCompletionReconcile,
              CancelTaskCompleteAutoStop
<1> QED
  BY <1>1, <1>2 DEF Quietly, Stopped

(* The spawns of sessions, inputs, ticks and answers arm no timer of these *)
(* kinds.                                                                  *)
LEMMA QuietSteps ==
  ASSUME IInv, NEW s \in Sessions,
         \/ SpawnContinues(s) \/ \E d \in Dirs : SpawnSession(s, d)
         \/ \E ok, shown \in BOOLEAN : SendAnswered(s, ok, shown)
         \/ StartProbed(s) \/ TickProbed(s) \/ Nudged(s)
         \/ ReadyTimeout(s) \/ SendTaskWithRetry(s) \/ TaskAccepted(s)
         \/ \E shown \in BOOLEAN : ReconcileTick(s, shown)
         \/ ReconcileCompletes(s) \/ RecoveryTick(s) \/ HookSessionEnd(s)
         \/ SessionReady(s) \/ TaskComplete(s)
         \/ \E e \in Ends : SessionEnds(s, e)
         \/ AuthRequired(s) \/ UserSends(s)
  PROVE  Quietly
<1>1. SessionsOK /\ svc[s] \in Entry /\ svc \in [Sessions -> Entry]
  BY DEF IInv, TypeOK, SessionsOK
<1>2. /\ "task_complete" \in Quiets /\ "ready" \in Quiets
      /\ Ends \subseteq Quiets /\ "stopped" \in Ends
  BY DEF Quiets, Ends
<1>3. CASE \/ ReconcileCompletes(s) \/ HookSessionEnd(s) \/ SessionReady(s)
           \/ TaskComplete(s) \/ \E e \in Ends : SessionEnds(s, e)
  BY <1>1, <1>2, <1>3, EmitsQuietly
     DEF ReconcileCompletes, HookSessionEnd, SessionReady, TaskComplete,
         SessionEnds, Forwards
<1>4. ASSUME SendToSession(s), UNCHANGED <<stopped, late>> PROVE Quietly
  <2>1. /\ svc' = [svc EXCEPT ![s].autoStop = FALSE]
        /\ \A x \in Sessions : /\ calls'[x].kill = calls[x].kill
                              /\ calls'[x].clean = calls[x].clean
    BY <1>1, <1>4, Sends
  <2> QED
    BY <1>1, <1>4, <2>1 DEF Quietly, Stopped, Entry
<1>5. CASE SendTaskWithRetry(s) \/ UserSends(s)
  BY <1>4, <1>5 DEF SendTaskWithRetry, UserSends
<1>6. CASE \/ \E ok, shown \in BOOLEAN : SendAnswered(s, ok, shown)
           \/ \E shown \in BOOLEAN : ReconcileTick(s, shown)
  <2>1. /\ UNCHANGED <<stopped, late>>
        /\ calls' = calls \/ calls' = [calls EXCEPT ![s].send = @ - 1]
    BY <1>6 DEF SendAnswered, ReconcileTick
  <2>2. \A x \in Sessions : /\ calls'[x].kill = calls[x].kill
                            /\ calls'[x].clean = calls[x].clean
    BY <1>1, <2>1 DEF SessionsOK, Awaited
  <2>3. ASSUME NEW r \in Entry, NEW status, NEW shown,
               svc' = [svc EXCEPT ![s] = Reconciled(status, r, shown)],
               r.autoStop = svc[s].autoStop, r.recovery = svc[s].recovery
        PROVE  \A x \in Sessions : /\ svc'[x].autoStop => svc[x].autoStop
                                   /\ svc'[x].recovery => svc[x].recovery
    <3>1. /\ Reconciled(status, r, shown).autoStop = r.autoStop
          /\ Reconciled(status, r, shown).recovery = r.recovery
      BY DEF Reconciled, ClearCompletionReconcile, Entry
    <3> QED
      BY <1>1, <2>3, <3>1
  <2>4. \A x \in Sessions : /\ svc'[x].autoStop => svc[x].autoStop
                            /\ svc'[x].recovery => svc[x].recovery
    <3> DEFINE r == [ClearCompletionReconcile(svc[s])
                       EXCEPT !.reconcile = TRUE]
    <3>1. /\ r \in Entry /\ r.autoStop = svc[s].autoStop
          /\ r.recovery = svc[s].recovery
      BY <1>1 DEF ClearCompletionReconcile, Entry
    <3> HIDE DEF r
    <3>2. \/ svc' = svc
          \/ \E status, shown :
               svc' = [svc EXCEPT ![s] = Reconciled(status, r, shown)]
          \/ \E status, shown :
               svc' = [svc EXCEPT ![s] = Reconciled(status, svc[s], shown)]
      BY <1>6 DEF SendAnswered, ReconcileTick, r
    <3> QED
      BY <1>1, <2>3, <3>1, <3>2
  <2> QED
    BY <2>1, <2>2, <2>4 DEF Quietly, Stopped
<1>7. CASE StartProbed(s) \/ Nudged(s) \/ TickProbed(s) \/ RecoveryTick(s)
  <2>1. /\ UNCHANGED <<calls, stopped, late>>
        /\ svc' = svc \/ \E b \in BOOLEAN :
             (b => svc[s].recovery) /\ svc' = [svc EXCEPT ![s].recovery = b]
    BY <1>1, <1>7 DEF StartProbed, Nudged, TickProbed, RecoveryTick,
                      AuthUnchanged, Unwatched, Entry
  <2> QED
    BY <1>1, <2>1 DEF Quietly, Stopped, Entry
<1>8. CASE ReadyTimeout(s) \/ TaskAccepted(s) \/ AuthRequired(s)
  BY <1>8 DEF ReadyTimeout, TaskAccepted, AuthRequired, Quietly, Stopped
<1>9. CASE SpawnContinues(s) \/ \E d \in Dirs : SpawnSession(s, d)
  <2>1. /\ UNCHANGED <<calls, stopped, late>>
        /\ \/ svc' = svc \/ svc' = [svc EXCEPT ![s].workdir = TRUE]
           \/ svc' = [svc EXCEPT ![s] =
                [@ EXCEPT !.terminal = "none", !.meta = TRUE, !.buffer = TRUE,
                          !.output = TRUE, !.transcript = TRUE]]
    BY <1>9 DEF SpawnContinues, SpawnSession, SeedReads, SeedWrites,
         WritesSettings, EnsureGitignore, ReadsGitignore, AppendsGitignore,
         WorkerSpawns, SpawnAnswered, SpawnFails, RulesPushed, SpawnUnchanged
  <2>2. \E r \in {svc[s], [svc[s] EXCEPT !.workdir = TRUE],
                  [svc[s] EXCEPT !.terminal = "none", !.meta = TRUE,
                     !.buffer = TRUE, !.output = TRUE, !.transcript = TRUE]} :
          /\ svc' = [svc EXCEPT ![s] = r]
          /\ r.autoStop = svc[s].autoStop /\ r.recovery = svc[s].recovery
    BY <1>1, <2>1 DEF Entry
  <2>3. \A x \in Sessions : /\ svc'[x].autoStop = svc[x].autoStop
                            /\ svc'[x].recovery = svc[x].recovery
    BY <1>1, <2>2
  <2> QED
    BY <2>1, <2>3 DEF Quietly, Stopped
<1> QED
  BY <1>3, <1>5, <1>6, <1>7, <1>8, <1>9

(* What a stop leaves of the timers when it no longer waits for the kill.  *)
LEMMA FinallyTimers ==
  ASSUME SessionsOK, NEW s \in Sessions, NEW r \in Entry, Finally(s, r)
  PROVE  /\ \A x \in Sessions \ {s} : svc'[x] = svc[x]
         /\ svc'[s].autoStop = r.autoStop
         /\ svc'[s].recovery => r.recovery
         /\ stopped' = stopped
            \/ (stopped' = stopped \cup {s} /\ ~svc'[s].recovery)
<1> DEFINE quiet == [r EXCEPT !.output = FALSE]
<1>1. /\ quiet \in Entry /\ quiet.autoStop = r.autoStop
      /\ quiet.recovery = r.recovery
  BY DEF Entry
<1>2. \/ svc' = [svc EXCEPT ![s] = quiet] /\ stopped' = stopped
      \/ /\ svc' = [svc EXCEPT ![s] = Forgotten(quiet)]
         /\ stopped' = stopped \cup {s}
  BY DEF Finally
<1> HIDE DEF quiet
<1>3. /\ Forgotten(quiet).autoStop = quiet.autoStop
      /\ ~Forgotten(quiet).recovery
  BY <1>1 DEF Forgotten, ClearCompletionReconcile, Entry
<1> QED
  BY <1>1, <1>2, <1>3 DEF SessionsOK

(* A stop that begins cancels the timer of a completion, and one that ends *)
(* at once the watcher too.                                                *)
LEMMA StopSilent ==
  ASSUME IInv, Silent, NEW s \in Sessions, StopSession(s), UNCHANGED late
  PROVE  Silent'
<1>1. SessionsOK /\ svc[s] \in Entry
  BY DEF IInv, TypeOK, SessionsOK
<1>2. /\ \A x \in Sessions \ {s} : svc'[x] = svc[x] /\ calls'[x] = calls[x]
      /\ \A x \in Sessions \ {s} : x \in stopped' => x \in stopped
      /\ ~svc'[s].autoStop
      /\ svc'[s].recovery => svc[s].recovery
      /\ s \in stopped' => s \in stopped \/ ~svc'[s].recovery
  <2> DEFINE r == CancelTaskCompleteAutoStop(svc[s])
  <2>1. /\ r \in Entry /\ ~r.autoStop /\ r.recovery = svc[s].recovery
    BY <1>1 DEF CancelTaskCompleteAutoStop, Entry
  <2>2. \A x \in Sessions \ {s} : calls'[x] = calls[x]
    BY <1>1 DEF StopSession, SessionsOK
  <2>3. CASE Live(s)
    <3>1. svc' = [svc EXCEPT ![s] = r] /\ stopped' = stopped
      BY <2>3 DEF StopSession
    <3> HIDE DEF r
    <3> QED
      BY <1>1, <2>1, <2>2, <3>1 DEF SessionsOK
  <2>4. CASE ~Live(s)
    <3>1. Finally(s, r)
      BY <2>4 DEF StopSession
    <3> HIDE DEF r
    <3> QED
      BY <1>1, <2>1, <2>2, <3>1, FinallyTimers
  <2> QED
    BY <2>3, <2>4
<1> QED
  BY <1>2 DEF Silent, Stopped

(* The kill is answered or the hooks removed, and the stop goes on.        *)
LEMMA EndSilent ==
  ASSUME IInv, Silent, NEW s \in Sessions, KillAnswered(s) \/ HooksCleaned(s)
  PROVE  Silent'
<1>1. SessionsOK /\ svc[s] \in Entry
  BY DEF IInv, TypeOK, SessionsOK
<1>2. UNCHANGED late /\ Stopped(s)
  BY DEF KillAnswered, HooksCleaned, Stopped
<1>3. /\ \A x \in Sessions \ {s} : svc'[x] = svc[x] /\ calls'[x] = calls[x]
      /\ \A x \in Sessions \ {s} : x \in stopped' => x \in stopped
      /\ svc'[s].autoStop => svc[s].autoStop
      /\ svc'[s].recovery => svc[s].recovery
      /\ s \in stopped' => s \in stopped \/ ~svc'[s].recovery
  <2>1. \A x \in Sessions \ {s} : calls'[x] = calls[x]
    BY <1>1 DEF KillAnswered, HooksCleaned, SessionsOK
  <2>2. CASE KillAnswered(s)
    BY <1>1, <2>1, <2>2, FinallyTimers DEF KillAnswered
  <2>3. CASE HooksCleaned(s)
    <3>1. /\ svc' = [svc EXCEPT ![s] = Forgotten(svc[s])]
          /\ stopped' = stopped \cup {s}
      BY <2>3 DEF HooksCleaned
    <3>2. /\ Forgotten(svc[s]).autoStop = svc[s].autoStop
          /\ ~Forgotten(svc[s]).recovery
      BY <1>1 DEF Forgotten, ClearCompletionReconcile, Entry
    <3> QED
      BY <1>1, <2>1, <3>1, <3>2 DEF SessionsOK
  <2> QED
    BY <2>2, <2>3
<1> QED
  BY <1>2, <1>3 DEF Silent, Stopped

(* The two that may arm a timer after a stop, and say so.                  *)
LEMMA ArmsSilent ==
  ASSUME IInv, Silent, NEW s \in Sessions,
         HookTaskComplete(s) \/ LoginLaunched(s)
  PROVE  Silent'
<1>1. SessionsOK /\ UNCHANGED <<calls, stopped>> /\ Arms(s)
  BY DEF IInv, TypeOK, HookTaskComplete, LoginLaunched, Unwatched
<1>2. \A x \in Sessions \ {s} : svc'[x] = svc[x]
  BY <1>1 DEF HookTaskComplete, LoginLaunched, SessionsOK
<1> QED
  BY <1>1, <1>2 DEF Silent, Stopped, Arms

LEMMA StepSilent == IInv /\ Silent /\ [Next]_vars => Silent'
<1> SUFFICES ASSUME IInv, Silent, [Next]_vars PROVE Silent'
  OBVIOUS
<1>1. CASE UNCHANGED vars \/ LoginGiven
  <2>1. UNCHANGED <<svc, calls, stopped, late>>
    BY <1>1 DEF vars, LoginGiven, AuthUnchanged, Unwatched
  <2> QED
    BY <2>1 DEF Silent, Stopped
<1>2. CASE HandleWorkerExit
  <2>1. ASSUME NEW s \in Sessions
        PROVE  /\ svc'[s].autoStop => svc[s].autoStop
               /\ svc'[s].recovery => svc[s].recovery
    <3>1. svc[s] \in Entry
      BY DEF IInv, TypeOK, SessionsOK
    <3>2. svc'[s] = svc[s] \/ svc'[s] = EmitEvent(s, svc[s], "error")
      BY <1>2 DEF HandleWorkerExit
    <3> QED
      BY <3>1, <3>2 DEF EmitEvent, Entry, ClearCompletionReconcile,
                        CancelTaskCompleteAutoStop
  <2> QED
    BY <1>2, <2>1, QuietlySilent DEF HandleWorkerExit, Quietly, Stopped
<1>3. ASSUME NEW s \in Sessions,
             SpawnContinues(s) \/ Continues(s) \/ Timer(s) \/ Event(s)
      PROVE  Silent'
  <2>1. CASE Assessed(s)
    <3>1. CASE StopSession(s)
      BY <2>1, <3>1, StopSilent DEF Assessed
    <3>2. CASE SendToSession(s) /\ UNCHANGED stopped
      <4>1. /\ svc' = [svc EXCEPT ![s].autoStop = FALSE]
            /\ \A x \in Sessions : /\ calls'[x].kill = calls[x].kill
                                  /\ calls'[x].clean = calls[x].clean
        BY <3>2, Sends DEF IInv, TypeOK
      <4>2. svc \in [Sessions -> Entry] /\ UNCHANGED late
        BY <2>1 DEF Assessed, IInv, TypeOK, SessionsOK
      <4> QED
        BY <3>2, <4>1, <4>2, QuietlySilent DEF Quietly, Stopped, Entry
    <3>3. CASE UNCHANGED <<svc, calls, stopped>>
      BY <2>1, <3>3 DEF Assessed, Silent, Stopped
    <3> QED
      BY <2>1, <3>1, <3>2, <3>3 DEF Assessed
  <2>2. CASE AutoStop(s) \/ UserStops(s)
    BY <2>2, StopSilent DEF AutoStop, UserStops
  <2>3. CASE KillAnswered(s) \/ HooksCleaned(s)
    BY <2>3, EndSilent
  <2>4. CASE HookTaskComplete(s) \/ LoginLaunched(s)
    BY <2>4, ArmsSilent
  <2> QED
    BY <1>3, <2>1, <2>2, <2>3, <2>4, QuietSteps, QuietlySilent
       DEF Continues, Timer, Event
<1> QED
  BY <1>1, <1>2, <1>3 DEF Next

(* A session that was stopped leaves nothing in the maps, whatever answers *)
(* and events come after, but for a timer that a Stop hook or a login has  *)
(* armed after the stop had begun (pty-session-io.ts:88-184,               *)
(* pty-service.ts:1111-1131, 2234).                                        *)
THEOREM NothingLeftHolds == Spec => []NothingLeft
<1>1. Init => Silent
  BY DEF Init, Silent, Stopped, Fresh
<1>2. IInv /\ Silent => NothingLeft
  BY DEF IInv, TypeOK, SessionsOK, MapsEmpty, Empty, Silent, Stopped,
         NothingLeft
<1> QED
  BY PtyInvariant, <1>1, <1>2, StepSilent, PTL DEF Spec

(* The end of every session is told, also of one that the worker takes     *)
(* with it (pty-service.ts:2119-2180, 2203-2223).                          *)
THEOREM EndIsToldHolds == Spec => []EndIsTold
  BY PtyInvariant, PTL DEF IInv

(* A session with input since it completed is not stopped for having       *)
(* completed (pty-service.ts:1111-1131, 1452-1511).                        *)
THEOREM FedIsKeptHolds == Spec => []FedIsKept
  BY PtyInvariant, PTL DEF IInv
=============================================================================
