--------------------------- MODULE AcpServiceProofs ---------------------------
(***************************************************************************)
(* Proofs about AcpService, for every set of calls, every choice of        *)
(* methods and every cap.  The inductive invariant is IInv: the safety     *)
(* invariants the runs check, strengthened by PhaseInv, which ties a       *)
(* call's await to the state of its child.                                 *)
(***************************************************************************)
EXTENDS AcpService, TLAPS

(* A call that has yet to launch has no child, a running child's call      *)
(* awaits it, a child that was never launched was never signalled, and     *)
(* only spawns create and replace sessions.                                *)
PhaseInv ==
    /\ \A c \in Calls :
          pc[c] \in {"idle", "lookup", "mkdir", "create", "launch", "wait"}
             => proc[c] = "none"
    /\ \A c \in Calls : proc[c] = "running" => pc[c] = "run"
    /\ \A c \in Calls : proc[c] = "none" => signal[c] = "none"
    /\ \A c \in Calls :
          pc[c] \in {"mkdir", "create", "replace"} => kind[c] \in Spawners

IInv == TypeOK /\ PhaseInv /\ TrackedAlive /\ EscalationArmed /\ Settled

(* A service just constructed satisfies the inductive invariant.           *)
LEMMA InitInv == Init => IInv
<1> SUFFICES ASSUME Init PROVE IInv
  OBVIOUS
<1>1. TypeOK
  <2>1. killTimer \in [Calls -> BOOLEAN] /\ deadline \in [Calls -> BOOLEAN]
    <3>1. /\ killTimer = [c \in Calls |-> FALSE]
          /\ deadline = [c \in Calls |-> FALSE]
      BY DEF Init
    <3> QED
      BY <3>1
  <2>2. started \in BOOLEAN
    BY DEF Init
  <2> QED
    BY <2>1, <2>2 DEF Init, TypeOK, AllMethods, Locations, Statuses
<1>2. PhaseInv /\ TrackedAlive
  BY DEF Init, PhaseInv, TrackedAlive
<1>3. EscalationArmed
  BY DEF Init, EscalationArmed
<1>4. Settled
  BY DEF Init, Settled, Working
<1> QED
  BY <1>1, <1>2, <1>3, <1>4 DEF IInv

(* Every step keeps the variables in their types.                          *)
LEMMA TypeStep ==
  ASSUME TypeOK, [Next]_vars
  PROVE  TypeOK'
<1> USE ServiceAssumption DEF TypeOK, AllMethods, Locations, Statuses, Spawners, callVars, childVars
<1>1. CASE UNCHANGED vars
  BY <1>1 DEF vars
<1>2. CASE Start
  BY <1>2 DEF Start
<1>3. ASSUME NEW c \in Calls, SpawnSession(c) PROVE TypeOK'
  BY <1>3 DEF SpawnSession, Invoke, Goto
<1>4. ASSUME NEW c \in Calls, Stop(c) PROVE TypeOK'
  BY <1>4 DEF Stop, Invoke, Goto, Terminate, SigTerm, Tracked
<1>5. ASSUME NEW c \in Calls, NEW s \in Calls, SendPrompt(c, s) PROVE TypeOK'
  BY <1>5 DEF SendPrompt, Invoke, Goto, Known
<1>6. ASSUME NEW c \in Calls, NEW k \in AllMethods, NEW s \in Calls, CallSession(c, k, s) PROVE TypeOK'
  BY <1>6 DEF CallSession, Invoke, Goto, Known
<1>7. ASSUME NEW c \in Calls, ReattachLookup(c) PROVE TypeOK'
  BY <1>7 DEF ReattachLookup, Goto
<1>8. ASSUME NEW c \in Calls, SpawnRejected(c) PROVE TypeOK'
  BY <1>8 DEF SpawnRejected, Goto
<1>9. ASSUME NEW c \in Calls, EnforceSessionLimit(c) PROVE TypeOK'
  BY <1>9 DEF EnforceSessionLimit, Goto, Create
<1>10. ASSUME NEW c \in Calls, StoreCreate(c) PROVE TypeOK'
  BY <1>10 DEF StoreCreate, Goto, Create
<1>11. ASSUME NEW c \in Calls, SpawnLaunch(c) PROVE TypeOK'
  BY <1>11 DEF SpawnLaunch, Goto, Launched, SpawnThrows
<1>12. ASSUME NEW c \in Calls, SpawnFailed(c) PROVE TypeOK'
  BY <1>12 DEF SpawnFailed, Goto, Write
<1>13. ASSUME NEW c \in Calls, SpawnReady(c) PROVE TypeOK'
  BY <1>13 DEF SpawnReady, Goto, Write, SpawnLoc
<1>14. ASSUME NEW c \in Calls, NEW d \in Calls, SpawnReadyWithTask(c, d) PROVE TypeOK'
  BY <1>14 DEF SpawnReadyWithTask, Goto, Write
<1>15. ASSUME NEW c \in Calls, ReattachReplace(c) PROVE TypeOK'
  BY <1>15 DEF ReattachReplace, Goto, Write
<1>16. ASSUME NEW c \in Calls, SendLookup(c) PROVE TypeOK'
  BY <1>16 DEF SendLookup, Goto, Write
<1>17. ASSUME NEW c \in Calls, SendLaunch(c) PROVE TypeOK'
  BY <1>17 DEF SendLaunch, Goto, Launched, SpawnThrows
<1>18. ASSUME NEW c \in Calls, PromptSettled(c) PROVE TypeOK'
  BY <1>18 DEF PromptSettled, Goto, Write
<1>19. ASSUME NEW c \in Calls, LookupFails(c) PROVE TypeOK'
  BY <1>19 DEF LookupFails, Goto
<1>20. ASSUME NEW c \in Calls, CancelTracked(c) PROVE TypeOK'
  BY <1>20 DEF CancelTracked, Goto, Write, Terminate, SigTerm, Tracked
<1>21. ASSUME NEW c \in Calls, CancelLaunch(c) PROVE TypeOK'
  BY <1>21 DEF CancelLaunch, Goto, Launched, SpawnThrows
<1>22. ASSUME NEW c \in Calls, CloseLookup(c) PROVE TypeOK'
  BY <1>22 DEF CloseLookup, Goto, Terminate, SigTerm, Tracked
<1>23. ASSUME NEW c \in Calls, CloseLaunch(c) PROVE TypeOK'
  BY <1>23 DEF CloseLaunch, Goto, Launched, SpawnThrows, WaitOver
<1>24. ASSUME NEW c \in Calls, CancelCloseSettled(c) PROVE TypeOK'
  BY <1>24 DEF CancelCloseSettled, Goto, Write
<1>25. ASSUME NEW c \in Calls, DeleteRemove(c) PROVE TypeOK'
  BY <1>25 DEF DeleteRemove, Goto
<1>26. ASSUME NEW c \in Calls, StopReturn(c) PROVE TypeOK'
  BY <1>26 DEF StopReturn, Goto, WaitOver
<1>27. ASSUME NEW c \in Calls, AgentStatus(c) PROVE TypeOK'
  BY <1>27 DEF AgentStatus, Write, SessionOf
<1>28. ASSUME NEW c \in Calls, ProcClose(c) PROVE TypeOK'
  BY <1>28 DEF ProcClose, Untrack, SessionOf
<1>29. ASSUME NEW c \in Calls, KillTimerFires(c) PROVE TypeOK'
  BY <1>29 DEF KillTimerFires
<1>30. ASSUME NEW c \in Calls, TimeoutFires(c) PROVE TypeOK'
  BY <1>30 DEF TimeoutFires, Terminate, SigTerm
<1> QED
  BY <1>1, <1>2, <1>3, <1>4, <1>5, <1>6, <1>7, <1>8, <1>9, <1>10, <1>11,
     <1>12, <1>13, <1>14, <1>15, <1>16, <1>17, <1>18, <1>19, <1>20, <1>21,
     <1>22, <1>23, <1>24, <1>25, <1>26, <1>27, <1>28, <1>29, <1>30 DEF Next,
     Continue

(* Every step keeps the tie between calls and children.                    *)
LEMMA PhaseStep ==
  ASSUME TypeOK, PhaseInv, [Next]_vars
  PROVE  PhaseInv'
<1> USE ServiceAssumption DEF TypeOK, AllMethods, Locations, Statuses, Spawners, callVars, childVars, PhaseInv
<1>1. CASE UNCHANGED vars
  BY <1>1 DEF vars
<1>2. CASE Start
  BY <1>2 DEF Start
<1>3. ASSUME NEW c \in Calls, SpawnSession(c) PROVE PhaseInv'
  BY <1>3 DEF SpawnSession, Invoke, Goto
<1>4. ASSUME NEW c \in Calls, Stop(c) PROVE PhaseInv'
  BY <1>4 DEF Stop, Invoke, Goto, Terminate, SigTerm, Tracked
<1>5. ASSUME NEW c \in Calls, NEW s \in Calls, SendPrompt(c, s) PROVE PhaseInv'
  BY <1>5 DEF SendPrompt, Invoke, Goto, Known
<1>6. ASSUME NEW c \in Calls, NEW k \in AllMethods, NEW s \in Calls, CallSession(c, k, s) PROVE PhaseInv'
  BY <1>6 DEF CallSession, Invoke, Goto, Known
<1>7. ASSUME NEW c \in Calls, ReattachLookup(c) PROVE PhaseInv'
  BY <1>7 DEF ReattachLookup, Goto
<1>8. ASSUME NEW c \in Calls, SpawnRejected(c) PROVE PhaseInv'
  BY <1>8 DEF SpawnRejected, Goto
<1>9. ASSUME NEW c \in Calls, EnforceSessionLimit(c) PROVE PhaseInv'
  BY <1>9 DEF EnforceSessionLimit, Goto, Create
<1>10. ASSUME NEW c \in Calls, StoreCreate(c) PROVE PhaseInv'
  BY <1>10 DEF StoreCreate, Goto, Create
<1>11. ASSUME NEW c \in Calls, SpawnLaunch(c) PROVE PhaseInv'
  BY <1>11 DEF SpawnLaunch, Goto, Launched, SpawnThrows
<1>12. ASSUME NEW c \in Calls, SpawnFailed(c) PROVE PhaseInv'
  BY <1>12 DEF SpawnFailed, Goto, Write
<1>13. ASSUME NEW c \in Calls, SpawnReady(c) PROVE PhaseInv'
  BY <1>13 DEF SpawnReady, Goto, Write, SpawnLoc
<1>14. ASSUME NEW c \in Calls, NEW d \in Calls, SpawnReadyWithTask(c, d) PROVE PhaseInv'
  BY <1>14 DEF SpawnReadyWithTask, Goto, Write
<1>15. ASSUME NEW c \in Calls, ReattachReplace(c) PROVE PhaseInv'
  BY <1>15 DEF ReattachReplace, Goto, Write
<1>16. ASSUME NEW c \in Calls, SendLookup(c) PROVE PhaseInv'
  BY <1>16 DEF SendLookup, Goto, Write
<1>17. ASSUME NEW c \in Calls, SendLaunch(c) PROVE PhaseInv'
  BY <1>17 DEF SendLaunch, Goto, Launched, SpawnThrows
<1>18. ASSUME NEW c \in Calls, PromptSettled(c) PROVE PhaseInv'
  BY <1>18 DEF PromptSettled, Goto, Write
<1>19. ASSUME NEW c \in Calls, LookupFails(c) PROVE PhaseInv'
  BY <1>19 DEF LookupFails, Goto
<1>20. ASSUME NEW c \in Calls, CancelTracked(c) PROVE PhaseInv'
  BY <1>20 DEF CancelTracked, Goto, Write, Terminate, SigTerm, Tracked
<1>21. ASSUME NEW c \in Calls, CancelLaunch(c) PROVE PhaseInv'
  BY <1>21 DEF CancelLaunch, Goto, Launched, SpawnThrows
<1>22. ASSUME NEW c \in Calls, CloseLookup(c) PROVE PhaseInv'
  BY <1>22 DEF CloseLookup, Goto, Terminate, SigTerm, Tracked
<1>23. ASSUME NEW c \in Calls, CloseLaunch(c) PROVE PhaseInv'
  BY <1>23 DEF CloseLaunch, Goto, Launched, SpawnThrows, WaitOver
<1>24. ASSUME NEW c \in Calls, CancelCloseSettled(c) PROVE PhaseInv'
  BY <1>24 DEF CancelCloseSettled, Goto, Write
<1>25. ASSUME NEW c \in Calls, DeleteRemove(c) PROVE PhaseInv'
  BY <1>25 DEF DeleteRemove, Goto
<1>26. ASSUME NEW c \in Calls, StopReturn(c) PROVE PhaseInv'
  BY <1>26 DEF StopReturn, Goto, WaitOver
<1>27. ASSUME NEW c \in Calls, AgentStatus(c) PROVE PhaseInv'
  BY <1>27 DEF AgentStatus, Write, SessionOf
<1>28. ASSUME NEW c \in Calls, ProcClose(c) PROVE PhaseInv'
  BY <1>28 DEF ProcClose, Untrack, SessionOf
<1>29. ASSUME NEW c \in Calls, KillTimerFires(c) PROVE PhaseInv'
  BY <1>29 DEF KillTimerFires
<1>30. ASSUME NEW c \in Calls, TimeoutFires(c) PROVE PhaseInv'
  BY <1>30 DEF TimeoutFires, Terminate, SigTerm
<1> QED
  BY <1>1, <1>2, <1>3, <1>4, <1>5, <1>6, <1>7, <1>8, <1>9, <1>10, <1>11,
     <1>12, <1>13, <1>14, <1>15, <1>16, <1>17, <1>18, <1>19, <1>20, <1>21,
     <1>22, <1>23, <1>24, <1>25, <1>26, <1>27, <1>28, <1>29, <1>30 DEF Next,
     Continue

(* Every step keeps activeProcesses to live prompts of their session; the  *)
(* close handler's identity check is used in ProcClose.                    *)
LEMMA TrackedStep ==
  ASSUME TypeOK, PhaseInv, TrackedAlive, [Next]_vars
  PROVE  TrackedAlive'
<1> USE ServiceAssumption DEF TypeOK, AllMethods, Locations, Statuses, Spawners, callVars, childVars, PhaseInv, TrackedAlive
<1>1. CASE UNCHANGED vars
  BY <1>1 DEF vars
<1>2. CASE Start
  BY <1>2 DEF Start
<1>3. ASSUME NEW c \in Calls, SpawnSession(c) PROVE TrackedAlive'
  BY <1>3 DEF SpawnSession, Invoke, Goto
<1>4. ASSUME NEW c \in Calls, Stop(c) PROVE TrackedAlive'
  BY <1>4 DEF Stop, Invoke, Goto, Terminate, SigTerm, Tracked
<1>5. ASSUME NEW c \in Calls, NEW s \in Calls, SendPrompt(c, s) PROVE TrackedAlive'
  BY <1>5 DEF SendPrompt, Invoke, Goto, Known
<1>6. ASSUME NEW c \in Calls, NEW k \in AllMethods, NEW s \in Calls, CallSession(c, k, s) PROVE TrackedAlive'
  BY <1>6 DEF CallSession, Invoke, Goto, Known
<1>7. ASSUME NEW c \in Calls, ReattachLookup(c) PROVE TrackedAlive'
  BY <1>7 DEF ReattachLookup, Goto
<1>8. ASSUME NEW c \in Calls, SpawnRejected(c) PROVE TrackedAlive'
  BY <1>8 DEF SpawnRejected, Goto
<1>9. ASSUME NEW c \in Calls, EnforceSessionLimit(c) PROVE TrackedAlive'
  BY <1>9 DEF EnforceSessionLimit, Goto, Create
<1>10. ASSUME NEW c \in Calls, StoreCreate(c) PROVE TrackedAlive'
  BY <1>10 DEF StoreCreate, Goto, Create
<1>11. ASSUME NEW c \in Calls, SpawnLaunch(c) PROVE TrackedAlive'
  BY <1>11 DEF SpawnLaunch, Goto, Launched, SpawnThrows
<1>12. ASSUME NEW c \in Calls, SpawnFailed(c) PROVE TrackedAlive'
  BY <1>12 DEF SpawnFailed, Goto, Write
<1>13. ASSUME NEW c \in Calls, SpawnReady(c) PROVE TrackedAlive'
  BY <1>13 DEF SpawnReady, Goto, Write, SpawnLoc
<1>14. ASSUME NEW c \in Calls, NEW d \in Calls, SpawnReadyWithTask(c, d) PROVE TrackedAlive'
  BY <1>14 DEF SpawnReadyWithTask, Goto, Write
<1>15. ASSUME NEW c \in Calls, ReattachReplace(c) PROVE TrackedAlive'
  BY <1>15 DEF ReattachReplace, Goto, Write
<1>16. ASSUME NEW c \in Calls, SendLookup(c) PROVE TrackedAlive'
  BY <1>16 DEF SendLookup, Goto, Write
<1>17. ASSUME NEW c \in Calls, SendLaunch(c) PROVE TrackedAlive'
  BY <1>17 DEF SendLaunch, Goto, Launched, SpawnThrows
<1>18. ASSUME NEW c \in Calls, PromptSettled(c) PROVE TrackedAlive'
  BY <1>18 DEF PromptSettled, Goto, Write
<1>19. ASSUME NEW c \in Calls, LookupFails(c) PROVE TrackedAlive'
  BY <1>19 DEF LookupFails, Goto
<1>20. ASSUME NEW c \in Calls, CancelTracked(c) PROVE TrackedAlive'
  BY <1>20 DEF CancelTracked, Goto, Write, Terminate, SigTerm, Tracked
<1>21. ASSUME NEW c \in Calls, CancelLaunch(c) PROVE TrackedAlive'
  BY <1>21 DEF CancelLaunch, Goto, Launched, SpawnThrows
<1>22. ASSUME NEW c \in Calls, CloseLookup(c) PROVE TrackedAlive'
  BY <1>22 DEF CloseLookup, Goto, Terminate, SigTerm, Tracked
<1>23. ASSUME NEW c \in Calls, CloseLaunch(c) PROVE TrackedAlive'
  BY <1>23 DEF CloseLaunch, Goto, Launched, SpawnThrows, WaitOver
<1>24. ASSUME NEW c \in Calls, CancelCloseSettled(c) PROVE TrackedAlive'
  BY <1>24 DEF CancelCloseSettled, Goto, Write
<1>25. ASSUME NEW c \in Calls, DeleteRemove(c) PROVE TrackedAlive'
  BY <1>25 DEF DeleteRemove, Goto
<1>26. ASSUME NEW c \in Calls, StopReturn(c) PROVE TrackedAlive'
  BY <1>26 DEF StopReturn, Goto, WaitOver
<1>27. ASSUME NEW c \in Calls, AgentStatus(c) PROVE TrackedAlive'
  BY <1>27 DEF AgentStatus, Write, SessionOf
<1>28. ASSUME NEW c \in Calls, ProcClose(c) PROVE TrackedAlive'
  BY <1>28 DEF ProcClose, Untrack, SessionOf
<1>29. ASSUME NEW c \in Calls, KillTimerFires(c) PROVE TrackedAlive'
  BY <1>29 DEF KillTimerFires
<1>30. ASSUME NEW c \in Calls, TimeoutFires(c) PROVE TrackedAlive'
  BY <1>30 DEF TimeoutFires, Terminate, SigTerm
<1> QED
  BY <1>1, <1>2, <1>3, <1>4, <1>5, <1>6, <1>7, <1>8, <1>9, <1>10, <1>11,
     <1>12, <1>13, <1>14, <1>15, <1>16, <1>17, <1>18, <1>19, <1>20, <1>21,
     <1>22, <1>23, <1>24, <1>25, <1>26, <1>27, <1>28, <1>29, <1>30 DEF Next,
     Continue

(* Every step keeps signalled and awaited children on their way out; stops *)
(* signal what they wait for because what is tracked is running.           *)
LEMMA EscalationStep ==
  ASSUME TypeOK, PhaseInv, TrackedAlive, EscalationArmed, [Next]_vars
  PROVE  EscalationArmed'
<1> USE ServiceAssumption DEF TypeOK, AllMethods, Locations, Statuses, Spawners, callVars, childVars, PhaseInv, TrackedAlive, EscalationArmed
<1>1. CASE UNCHANGED vars
  BY <1>1 DEF vars
<1>2. CASE Start
  BY <1>2 DEF Start
<1>3. ASSUME NEW c \in Calls, SpawnSession(c) PROVE EscalationArmed'
  BY <1>3 DEF SpawnSession, Invoke, Goto
<1>4. ASSUME NEW c \in Calls, Stop(c) PROVE EscalationArmed'
  <2> DEFINE T == UNION {Tracked(s) : s \in Calls}
  <2>1. /\ signal' = [p \in Calls |->
                       IF p \in T /\ proc[p] = "running" /\ signal[p] = "none"
                       THEN "term" ELSE signal[p]]
        /\ killTimer' = [p \in Calls |-> p \in T \/ killTimer[p]]
        /\ proc' = proc
    BY <1>4 DEF Stop, Terminate, SigTerm
  <2>2. \A p \in Calls : proc'[p] = "running" /\ signal'[p] = "term" => killTimer'[p]
    BY <2>1
  <2>3. \A p \in T : proc[p] = "running" /\ signal'[p] # "none"
    BY <2>1 DEF Tracked
  <2>4. /\ pc' = [pc EXCEPT ![c] = "wait"]
        /\ waiting' = [waiting EXCEPT ![c] = T]
    BY <1>4 DEF Stop, Invoke, Goto
  <2>5. ASSUME NEW d \in Calls, pc'[d] = "wait", NEW p \in waiting'[d]
        PROVE  proc'[p] = "closed" \/ (proc'[p] = "running" /\ signal'[p] # "none")
    <3>1. CASE d = c
      <4>1. p \in T
        BY <3>1, <2>4, <2>5
      <4>2. proc'[p] = proc[p]
        BY <2>1
      <4> QED
        BY <4>1, <4>2, <2>3
    <3>2. CASE d # c
      BY <3>2, <2>1, <2>4, <2>5
    <3> QED
      BY <3>1, <3>2
  <2> QED
    BY <2>2, <2>5
<1>5. ASSUME NEW c \in Calls, NEW s \in Calls, SendPrompt(c, s) PROVE EscalationArmed'
  BY <1>5 DEF SendPrompt, Invoke, Goto, Known
<1>6. ASSUME NEW c \in Calls, NEW k \in AllMethods, NEW s \in Calls, CallSession(c, k, s) PROVE EscalationArmed'
  BY <1>6 DEF CallSession, Invoke, Goto, Known
<1>7. ASSUME NEW c \in Calls, ReattachLookup(c) PROVE EscalationArmed'
  BY <1>7 DEF ReattachLookup, Goto
<1>8. ASSUME NEW c \in Calls, SpawnRejected(c) PROVE EscalationArmed'
  BY <1>8 DEF SpawnRejected, Goto
<1>9. ASSUME NEW c \in Calls, EnforceSessionLimit(c) PROVE EscalationArmed'
  BY <1>9 DEF EnforceSessionLimit, Goto, Create
<1>10. ASSUME NEW c \in Calls, StoreCreate(c) PROVE EscalationArmed'
  BY <1>10 DEF StoreCreate, Goto, Create
<1>11. ASSUME NEW c \in Calls, SpawnLaunch(c) PROVE EscalationArmed'
  BY <1>11 DEF SpawnLaunch, Goto, Launched, SpawnThrows
<1>12. ASSUME NEW c \in Calls, SpawnFailed(c) PROVE EscalationArmed'
  BY <1>12 DEF SpawnFailed, Goto, Write
<1>13. ASSUME NEW c \in Calls, SpawnReady(c) PROVE EscalationArmed'
  BY <1>13 DEF SpawnReady, Goto, Write, SpawnLoc
<1>14. ASSUME NEW c \in Calls, NEW d \in Calls, SpawnReadyWithTask(c, d) PROVE EscalationArmed'
  BY <1>14 DEF SpawnReadyWithTask, Goto, Write
<1>15. ASSUME NEW c \in Calls, ReattachReplace(c) PROVE EscalationArmed'
  BY <1>15 DEF ReattachReplace, Goto, Write
<1>16. ASSUME NEW c \in Calls, SendLookup(c) PROVE EscalationArmed'
  BY <1>16 DEF SendLookup, Goto, Write
<1>17. ASSUME NEW c \in Calls, SendLaunch(c) PROVE EscalationArmed'
  BY <1>17 DEF SendLaunch, Goto, Launched, SpawnThrows
<1>18. ASSUME NEW c \in Calls, PromptSettled(c) PROVE EscalationArmed'
  BY <1>18 DEF PromptSettled, Goto, Write
<1>19. ASSUME NEW c \in Calls, LookupFails(c) PROVE EscalationArmed'
  BY <1>19 DEF LookupFails, Goto
<1>20. ASSUME NEW c \in Calls, CancelTracked(c) PROVE EscalationArmed'
  <2> DEFINE T == Tracked(target[c])
  <2>1. /\ signal' = [p \in Calls |->
                       IF p \in T /\ proc[p] = "running" /\ signal[p] = "none"
                       THEN "term" ELSE signal[p]]
        /\ killTimer' = [p \in Calls |-> p \in T \/ killTimer[p]]
        /\ proc' = proc
    BY <1>20 DEF CancelTracked, Terminate, SigTerm
  <2>2. \A p \in Calls : proc'[p] = "running" /\ signal'[p] = "term" => killTimer'[p]
    BY <2>1
  <2>3. waiting' = waiting /\ \A d \in Calls : pc'[d] = "wait" => pc[d] = "wait"
    BY <1>20 DEF CancelTracked, Goto
  <2>4. ASSUME NEW d \in Calls, pc'[d] = "wait", NEW p \in waiting'[d]
        PROVE  proc'[p] = "closed" \/ (proc'[p] = "running" /\ signal'[p] # "none")
    BY <2>1, <2>3, <2>4
  <2> QED
    BY <2>2, <2>4
<1>21. ASSUME NEW c \in Calls, CancelLaunch(c) PROVE EscalationArmed'
  BY <1>21 DEF CancelLaunch, Goto, Launched, SpawnThrows
<1>22. ASSUME NEW c \in Calls, CloseLookup(c) PROVE EscalationArmed'
  <2> DEFINE T == Tracked(target[c])
  <2>1. /\ signal' = [p \in Calls |->
                       IF p \in T /\ proc[p] = "running" /\ signal[p] = "none"
                       THEN "term" ELSE signal[p]]
        /\ killTimer' = [p \in Calls |-> p \in T \/ killTimer[p]]
        /\ proc' = proc
    BY <1>22 DEF CloseLookup, Terminate, SigTerm
  <2>2. \A p \in Calls : proc'[p] = "running" /\ signal'[p] = "term" => killTimer'[p]
    BY <2>1
  <2>3. \A p \in T : proc[p] = "running" /\ signal'[p] # "none"
    BY <2>1 DEF Tracked
  <2>4. /\ pc' = [pc EXCEPT ![c] = "wait"]
        /\ waiting' = [waiting EXCEPT ![c] = T]
    BY <1>22 DEF CloseLookup, Invoke, Goto
  <2>5. ASSUME NEW d \in Calls, pc'[d] = "wait", NEW p \in waiting'[d]
        PROVE  proc'[p] = "closed" \/ (proc'[p] = "running" /\ signal'[p] # "none")
    <3>1. CASE d = c
      <4>1. p \in T
        BY <3>1, <2>4, <2>5
      <4>2. proc'[p] = proc[p]
        BY <2>1
      <4> QED
        BY <4>1, <4>2, <2>3
    <3>2. CASE d # c
      BY <3>2, <2>1, <2>4, <2>5
    <3> QED
      BY <3>1, <3>2
  <2> QED
    BY <2>2, <2>5
<1>23. ASSUME NEW c \in Calls, CloseLaunch(c) PROVE EscalationArmed'
  BY <1>23 DEF CloseLaunch, Goto, Launched, SpawnThrows, WaitOver
<1>24. ASSUME NEW c \in Calls, CancelCloseSettled(c) PROVE EscalationArmed'
  BY <1>24 DEF CancelCloseSettled, Goto, Write
<1>25. ASSUME NEW c \in Calls, DeleteRemove(c) PROVE EscalationArmed'
  BY <1>25 DEF DeleteRemove, Goto
<1>26. ASSUME NEW c \in Calls, StopReturn(c) PROVE EscalationArmed'
  BY <1>26 DEF StopReturn, Goto, WaitOver
<1>27. ASSUME NEW c \in Calls, AgentStatus(c) PROVE EscalationArmed'
  BY <1>27 DEF AgentStatus, Write, SessionOf
<1>28. ASSUME NEW c \in Calls, ProcClose(c) PROVE EscalationArmed'
  BY <1>28 DEF ProcClose, Untrack, SessionOf
<1>29. ASSUME NEW c \in Calls, KillTimerFires(c) PROVE EscalationArmed'
  BY <1>29 DEF KillTimerFires
<1>30. ASSUME NEW c \in Calls, TimeoutFires(c) PROVE EscalationArmed'
  BY <1>30 DEF TimeoutFires, Terminate, SigTerm
<1> QED
  BY <1>1, <1>2, <1>3, <1>4, <1>5, <1>6, <1>7, <1>8, <1>9, <1>10, <1>11,
     <1>12, <1>13, <1>14, <1>15, <1>16, <1>17, <1>18, <1>19, <1>20, <1>21,
     <1>22, <1>23, <1>24, <1>25, <1>26, <1>27, <1>28, <1>29, <1>30 DEF Next,
     Continue

(* Every step keeps a working session worked on: a call writes the         *)
(* session's last status in the step in which it stops being in flight.    *)
LEMMA SettledStep ==
  ASSUME TypeOK, PhaseInv, Settled, [Next]_vars
  PROVE  Settled'
<1> USE ServiceAssumption DEF TypeOK, AllMethods, Locations, Statuses, Spawners, callVars, childVars, PhaseInv, Settled, Working, SessionOf
<1>1. CASE UNCHANGED vars
  BY <1>1 DEF vars
<1>2. CASE Start
  BY <1>2 DEF Start
<1>3. ASSUME NEW c \in Calls, SpawnSession(c) PROVE Settled'
  BY <1>3 DEF SpawnSession, Invoke, Goto
<1>4. ASSUME NEW c \in Calls, Stop(c) PROVE Settled'
  BY <1>4 DEF Stop, Invoke, Goto, Terminate, SigTerm, Tracked
<1>5. ASSUME NEW c \in Calls, NEW s \in Calls, SendPrompt(c, s) PROVE Settled'
  BY <1>5 DEF SendPrompt, Invoke, Goto, Known
<1>6. ASSUME NEW c \in Calls, NEW k \in AllMethods, NEW s \in Calls, CallSession(c, k, s) PROVE Settled'
  BY <1>6 DEF CallSession, Invoke, Goto, Known
<1>7. ASSUME NEW c \in Calls, ReattachLookup(c) PROVE Settled'
  BY <1>7 DEF ReattachLookup, Goto
<1>8. ASSUME NEW c \in Calls, SpawnRejected(c) PROVE Settled'
  BY <1>8 DEF SpawnRejected, Goto
<1>9. ASSUME NEW c \in Calls, EnforceSessionLimit(c) PROVE Settled'
  BY <1>9 DEF EnforceSessionLimit, Goto, Create
<1>10. ASSUME NEW c \in Calls, StoreCreate(c) PROVE Settled'
  BY <1>10 DEF StoreCreate, Goto, Create
<1>11. ASSUME NEW c \in Calls, SpawnLaunch(c) PROVE Settled'
  BY <1>11 DEF SpawnLaunch, Goto, Launched, SpawnThrows
<1>12. ASSUME NEW c \in Calls, SpawnFailed(c) PROVE Settled'
  BY <1>12 DEF SpawnFailed, Goto, Write
<1>13. ASSUME NEW c \in Calls, SpawnReady(c) PROVE Settled'
  BY <1>13 DEF SpawnReady, Goto, Write, SpawnLoc
<1>14. ASSUME NEW c \in Calls, NEW d \in Calls, SpawnReadyWithTask(c, d) PROVE Settled'
  BY <1>14 DEF SpawnReadyWithTask, Goto, Write
<1>15. ASSUME NEW c \in Calls, ReattachReplace(c) PROVE Settled'
  BY <1>15 DEF ReattachReplace, Goto, Write
<1>16. ASSUME NEW c \in Calls, SendLookup(c) PROVE Settled'
  BY <1>16 DEF SendLookup, Goto, Write
<1>17. ASSUME NEW c \in Calls, SendLaunch(c) PROVE Settled'
  BY <1>17 DEF SendLaunch, Goto, Launched, SpawnThrows
<1>18. ASSUME NEW c \in Calls, PromptSettled(c) PROVE Settled'
  BY <1>18 DEF PromptSettled, Goto, Write
<1>19. ASSUME NEW c \in Calls, LookupFails(c) PROVE Settled'
  BY <1>19 DEF LookupFails, Goto
<1>20. ASSUME NEW c \in Calls, CancelTracked(c) PROVE Settled'
  BY <1>20 DEF CancelTracked, Goto, Write, Terminate, SigTerm, Tracked
<1>21. ASSUME NEW c \in Calls, CancelLaunch(c) PROVE Settled'
  BY <1>21 DEF CancelLaunch, Goto, Launched, SpawnThrows
<1>22. ASSUME NEW c \in Calls, CloseLookup(c) PROVE Settled'
  BY <1>22 DEF CloseLookup, Goto, Terminate, SigTerm, Tracked
<1>23. ASSUME NEW c \in Calls, CloseLaunch(c) PROVE Settled'
  BY <1>23 DEF CloseLaunch, Goto, Launched, SpawnThrows, WaitOver
<1>24. ASSUME NEW c \in Calls, CancelCloseSettled(c) PROVE Settled'
  BY <1>24 DEF CancelCloseSettled, Goto, Write
<1>25. ASSUME NEW c \in Calls, DeleteRemove(c) PROVE Settled'
  BY <1>25 DEF DeleteRemove, Goto
<1>26. ASSUME NEW c \in Calls, StopReturn(c) PROVE Settled'
  BY <1>26 DEF StopReturn, Goto, WaitOver
<1>27. ASSUME NEW c \in Calls, AgentStatus(c) PROVE Settled'
  BY <1>27 DEF AgentStatus, Write, SessionOf
<1>28. ASSUME NEW c \in Calls, ProcClose(c) PROVE Settled'
  BY <1>28 DEF ProcClose, Untrack, SessionOf
<1>29. ASSUME NEW c \in Calls, KillTimerFires(c) PROVE Settled'
  BY <1>29 DEF KillTimerFires
<1>30. ASSUME NEW c \in Calls, TimeoutFires(c) PROVE Settled'
  BY <1>30 DEF TimeoutFires, Terminate, SigTerm
<1> QED
  BY <1>1, <1>2, <1>3, <1>4, <1>5, <1>6, <1>7, <1>8, <1>9, <1>10, <1>11,
     <1>12, <1>13, <1>14, <1>15, <1>16, <1>17, <1>18, <1>19, <1>20, <1>21,
     <1>22, <1>23, <1>24, <1>25, <1>26, <1>27, <1>28, <1>29, <1>30 DEF Next,
     Continue

-----------------------------------------------------------------------------
(* The inductive invariant holds in every reachable state.                 *)
THEOREM Invariant == Spec => []IInv
<1>1. IInv /\ [Next]_vars => IInv'
  BY TypeStep, PhaseStep, TrackedStep, EscalationStep, SettledStep DEF IInv
<1> QED
  BY InitInv, <1>1, PTL DEF Spec

(* The variables keep their types, whatever the interleaving.              *)
THEOREM TypeCorrect == Spec => []TypeOK
  BY Invariant, PTL DEF IInv

(* activeProcesses never holds a prompt whose "close" was seen             *)
(* (acp-service.ts:416, 459-461), so no stop awaits a past event.          *)
THEOREM TrackedAliveHolds == Spec => []TrackedAlive
  BY Invariant, PTL DEF IInv

(* Whatever was sent SIGTERM, or is awaited by a stop, is bound for        *)
(* SIGKILL while it runs (acp-service.ts:597-610).                         *)
THEOREM EscalationHolds == Spec => []EscalationArmed
  BY Invariant, PTL DEF IInv

(* No session is left in a working status by calls that ran to their end   *)
(* (acp-service.ts:195-208, 265-270, 289, 297).                            *)
THEOREM SettledHolds == Spec => []Settled
  BY Invariant, PTL DEF IInv

(* Only a prompt's launch and a child's close change activeProcesses.      *)
LEMMA ActiveFrame ==
  ASSUME Next
  PROVE  \/ UNCHANGED active
         \/ \E c \in Calls : SendLaunch(c) \/ ProcClose(c)
BY DEF Next, Continue, callVars, childVars, Start, SpawnSession, Stop, SendPrompt,
   CallSession, ReattachLookup, SpawnRejected, EnforceSessionLimit, StoreCreate,
   SpawnLaunch, SpawnFailed, SpawnReady, SpawnReadyWithTask, ReattachReplace,
   SendLookup, PromptSettled, LookupFails, CancelTracked, CancelLaunch,
   CloseLookup, CloseLaunch, CancelCloseSettled, DeleteRemove, StopReturn,
   AgentStatus, KillTimerFires, TimeoutFires

(* Every status change is a creation, a removal or a guarded write.        *)
LEMMA StatusFrame ==
  ASSUME Next
  PROVE  \/ UNCHANGED status
         \/ \E c \in Calls : EnforceSessionLimit(c) \/ StoreCreate(c)
         \/ \E c \in Calls : DeleteRemove(c)
         \/ \E c \in Calls, st \in Statuses : Write(c, st) \/ Write(target[c], st) \/ Write(SessionOf(c), st)
BY ServiceAssumption DEF Statuses, Next, Continue, callVars, childVars, Start, SpawnSession, Stop, SendPrompt,
   CallSession, ReattachLookup, SpawnRejected, 
   SpawnLaunch, SpawnFailed, SpawnReady, SpawnReadyWithTask, ReattachReplace,
   SendLookup, SendLaunch, PromptSettled, LookupFails, CancelTracked, CancelLaunch,
   CloseLookup, CloseLaunch, CancelCloseSettled, StopReturn,
   AgentStatus, ProcClose, KillTimerFires, TimeoutFires

(* Only terminateProcess and the kill timer send signals.                  *)
LEMMA SignalFrame ==
  ASSUME Next
  PROVE  \/ UNCHANGED signal
         \/ \E T : Terminate(T)
         \/ \E c \in Calls : KillTimerFires(c)
BY DEF Next, Continue, callVars, childVars, Start, SpawnSession, Stop, SendPrompt,
   CallSession, ReattachLookup, SpawnRejected, EnforceSessionLimit, StoreCreate,
   SpawnLaunch, SpawnFailed, SpawnReady, SpawnReadyWithTask, ReattachReplace,
   SendLookup, SendLaunch, PromptSettled, LookupFails, CancelTracked, CancelLaunch,
   CloseLookup, CloseLaunch, CancelCloseSettled, DeleteRemove, StopReturn,
   AgentStatus, ProcClose, TimeoutFires

(* Only a session's own spawn makes its record appear: late writes never   *)
(* bring a deleted session back (acp-service.ts:717-727).                  *)
THEOREM NoResurrectionHolds == Spec => NoResurrection
<1> DEFINE A == \A s \in Calls :
                   status[s] = "absent" /\ status'[s] # "absent" =>
                      kind[s] \in Spawners /\ pc[s] \in {"mkdir", "create"}
<1>1. ASSUME IInv, Next PROVE A
  <2> USE <1>1 DEF IInv, TypeOK
  <2>1. CASE UNCHANGED status
    BY <2>1
  <2>2. ASSUME NEW c \in Calls, EnforceSessionLimit(c) \/ StoreCreate(c) PROVE A
    BY <2>2 DEF EnforceSessionLimit, StoreCreate, Create, PhaseInv
  <2>3. ASSUME NEW c \in Calls, DeleteRemove(c) PROVE A
    BY <2>3 DEF DeleteRemove
  <2>4. ASSUME NEW s \in Calls, NEW st \in Statuses, Write(s, st) PROVE A
    BY <2>4 DEF Write
  <2>5. \A c \in Calls : target[c] \in Calls /\ SessionOf(c) \in Calls
    BY DEF SessionOf
  <2> QED
    BY <2>1, <2>2, <2>3, <2>4, <2>5, StatusFrame
<1> QED
  BY Invariant, <1>1, PTL DEF Spec, NoResurrection

(* A tracked prompt is forgotten only at its own close or when a newer one *)
(* is launched (acp-service.ts:416, 459-461).                              *)
THEOREM TrackingHandoverHolds == Spec => TrackingHandover
<1> DEFINE A == \A s \in Calls : active[s] # None /\ active'[s] # active[s] =>
                   \/ proc'[active[s]] = "closed"
                   \/ /\ active'[s] # None
                      /\ proc[active'[s]] = "none" /\ proc'[active'[s]] = "running"
<1>1. ASSUME IInv, Next PROVE A
  <2> USE <1>1, ServiceAssumption DEF IInv, TypeOK
  <2>1. CASE UNCHANGED active
    BY <2>1
  <2>2. ASSUME NEW c \in Calls, SendLaunch(c) PROVE A
    BY <2>2 DEF SendLaunch, Launched, SpawnThrows, PhaseInv
  <2>3. ASSUME NEW c \in Calls, ProcClose(c) PROVE A
    BY <2>3 DEF ProcClose, Untrack, SessionOf
  <2> QED
    BY <2>1, <2>2, <2>3, ActiveFrame
<1> QED
  BY Invariant, <1>1, PTL DEF Spec, TrackingHandover

(* No signal follows a child's close, however late a timer, a cancel or a  *)
(* stop is (acp-service.ts:475-479, 604-610).                              *)
THEOREM NoSignalAfterCloseHolds == Spec => NoSignalAfterClose
<1> DEFINE A == \A p \in Calls : proc[p] = "closed" => signal'[p] = signal[p]
<1>1. ASSUME IInv, Next PROVE A
  <2> USE <1>1 DEF IInv, TypeOK
  <2>1. CASE UNCHANGED signal
    BY <2>1
  <2>2. ASSUME NEW T, Terminate(T) PROVE A
    BY <2>2 DEF Terminate, SigTerm
  <2>3. ASSUME NEW c \in Calls, KillTimerFires(c) PROVE A
    BY <2>3 DEF KillTimerFires
  <2> QED
    BY <2>1, <2>2, <2>3, SignalFrame
<1> QED
  BY Invariant, <1>1, PTL DEF Spec, NoSignalAfterClose
=============================================================================
