--------------------------- MODULE ScratchRetention ---------------------------
(***************************************************************************)
(* What becomes of the scratch directories of agents: the retention half   *)
(* of the reference orchestrator's workspace service.  A directory comes   *)
(* with an agent; its session's first terminal event registers it, and the *)
(* policy, a user or a timer decides.  An operation of the service is a    *)
(* thread that yields where the code awaits.                               *)
(* MaxActs bounds what users ask, Slots the operations under way, Names    *)
(* the directories that promotions may create, MaxStarts the restarts.     *)
(***************************************************************************)
EXTENDS Naturals

CONSTANTS
  Agents,         \* with a scratch directory each
  Policies,       \* PARALLAX_SCRATCH_RETENTION
  Names, Slots, MaxActs, MaxStarts,
  None

\* Of the constants; CodingWorkspaceService assumes it.
RetentionAssumption ==
  Slots \cup Names \cup {MaxActs, MaxStarts} \subseteq Nat

VARIABLES
  listens,        \* agents whose events registerSessionEvents listens to
  registered,     \* and those whose scratch directory was registered
  record, armed,  \* scratchBySession and scratchCleanupTimers
  op,             \* removals and promotions under way
  disk,           \* the directories, by the agent whose work they hold
  service, acts, starts

agents == <<listens, registered>>
scratch == <<record, armed>>
process == <<service, acts, starts>>
vars == <<agents, scratch, op, disk, process>>

Scratch(a) == <<"scratch", a>>
Named(n) == <<"named", n>>
Paths == {Scratch(a) : a \in Agents} \cup {Named(n) : n \in Names}

NoRecord == [status |-> "none", path |-> None]
Free == [kind |-> "free", pc |-> "free", a |-> None, path |-> None,
         target |-> None]

Init ==
  /\ listens = {} /\ registered = {}
  /\ record = [a \in Agents |-> NoRecord] /\ armed = {}
  /\ op = [j \in Slots |-> Free] /\ disk = [p \in Paths |-> None]
  /\ service = "up" /\ acts = 0 /\ starts = 0

Act == acts < MaxActs /\ acts' = acts + 1 /\ UNCHANGED <<service, starts>>

FreeSlots == {j \in Slots : op[j].pc = "free"}
Start(kind, pc, a, path) ==
  \E j \in FreeSlots :
    /\ \A k \in FreeSlots : j <= k
    /\ op' = [op EXCEPT ![j] = [kind |-> kind, pc |-> pc, a |-> a,
                                path |-> path, target |-> None]]

\* createScratchDir for a new agent.  Its session may end before its spawn was
\* answered, or the spawn may fail: then nobody ever listens.
CreateScratchDir(a) ==
  /\ disk[Scratch(a)] = None
  /\ a \notin listens /\ record[a] = NoRecord
  /\ disk' = [disk EXCEPT ![Scratch(a)] = a]
  /\ listens' \in {listens, listens \cup {a}}
  /\ UNCHANGED <<registered, scratch, op, process>>

RequireScratchWorkspace(a) == record[a].status # "none"
ClearScratchCleanupTimer(a) == armed' = armed \ {a}
ScheduleScratchCleanup_Lost(a) == armed' = armed \ {a}
ScheduleScratchCleanup(a) == armed' = armed \cup {a}

\* registerScratchWorkspace.  It reads the policy anew; ephemeral directories
\* are removed at once.
RegisterScratchWorkspace(a) ==
  \E policy \in Policies :
    IF policy = "ephemeral"
    THEN /\ Start("register", "removing", a, Scratch(a))
         /\ UNCHANGED <<scratch, registered>>
    ELSE /\ record' = [record EXCEPT ![a] =
              [status |-> IF policy = "persistent" THEN "kept" ELSE policy,
               path |-> Scratch(a)]]
         /\ IF policy = "persistent" THEN ClearScratchCleanupTimer(a)
            ELSE ScheduleScratchCleanup(a)
         /\ registered' = registered \cup {a} /\ UNCHANGED op

\* stopped, error, or task_complete, which comes whenever the prompt reappears.
TerminalEvent(a) ==
  /\ a \in listens \ registered /\ RegisterScratchWorkspace(a)
  /\ UNCHANGED <<listens, disk, process>>

KeepScratchWorkspace(a) ==
  /\ RequireScratchWorkspace(a) /\ Act /\ ClearScratchCleanupTimer(a)
  /\ record' = [record EXCEPT ![a].status = "kept"]
  /\ UNCHANGED <<agents, op, disk>>

DeleteScratchWorkspace(a) ==
  /\ RequireScratchWorkspace(a) /\ Act
  /\ Start("delete", "removing", a, record[a].path)
  /\ UNCHANGED <<agents, scratch, disk>>

PromoteScratchWorkspace(a) ==
  /\ RequireScratchWorkspace(a) /\ Act
  /\ Start("promote", "allocating", a, record[a].path)
  /\ UNCHANGED <<agents, scratch, disk>>

\* allocatePromotedPath: the first name that is not taken.
AllocatePromotedPath(j) ==
  \E n \in Names :
    /\ op[j].pc = "allocating" /\ disk[Named(n)] = None
    /\ \A m \in Names : m < n => disk[Named(m)] # None
    /\ op' = [op EXCEPT ![j].pc = "renaming", ![j].target = Named(n)]
    /\ UNCHANGED <<agents, scratch, disk, process>>

\* rename, which fails when its source is gone or its target has come to hold
\* something; or a copy to another device, which goes over what is there.
Moves(j) ==
  LET from == op[j].path  to == op[j].target
  IN /\ op[j].pc = "renaming" /\ disk[from] # None
     /\ disk' = [disk EXCEPT ![to] = disk[from], ![from] = None]
     /\ op' = [op EXCEPT ![j].pc = "renamed"]
     /\ UNCHANGED <<agents, scratch, process>>

MoveFails(j) ==
  /\ op[j].pc = "renaming"
  /\ disk[op[j].path] = None \/ disk[op[j].target] # None
  /\ op' = [op EXCEPT ![j] = Free] /\ UNCHANGED <<agents, scratch, disk, process>>

Promoted(j) ==
  /\ op[j].pc = "renamed" /\ op' = [op EXCEPT ![j] = Free]
  /\ record' = [record EXCEPT ![op[j].a] =
                  [status |-> "promoted", path |-> op[j].target]]
  /\ ClearScratchCleanupTimer(op[j].a) /\ UNCHANGED <<agents, disk, process>>

Undecided(a) == record[a].status = "pending_decision"
Forgets_Undecided(a) ==
  record' = IF Undecided(a) THEN [record EXCEPT ![a] = NoRecord] ELSE record
Forgets(a) == record' = [record EXCEPT ![a] = NoRecord]

\* The timer of scheduleScratchCleanup, which looks at the record again.
CleanupTimerFires(a) ==
  /\ a \in armed /\ ClearScratchCleanupTimer(a)
  /\ \/ /\ Undecided(a) /\ Start("timer", "removing", a, record[a].path)
        /\ UNCHANGED record
     \/ ~Undecided(a) /\ Forgets(a) /\ UNCHANGED op
  /\ UNCHANGED <<agents, disk, process>>

\* removeScratchDir, which does not tell whether it failed.
RemoveScratchDir(j) ==
  /\ op[j].pc = "removing" /\ op' = [op EXCEPT ![j].pc = "removed"]
  /\ disk' \in {disk, [disk EXCEPT ![op[j].path] = None]}
  /\ UNCHANGED <<agents, scratch, process>>

\* What follows the removal, in its three callers.
Removed(j) ==
  LET a == op[j].a
  IN /\ op[j].pc = "removed" /\ op' = [op EXCEPT ![j] = Free]
     /\ Forgets(a) /\ ClearScratchCleanupTimer(a)
     /\ registered' = IF op[j].kind = "register" THEN registered \cup {a}
                      ELSE registered
     /\ UNCHANGED <<listens, disk, process>>

\* stop(), as far as it touches scratch directories: the timers are cleared.
StopService ==
  /\ service = "up" /\ service' = "down" /\ armed' = {}
  /\ UNCHANGED <<agents, record, op, disk, acts, starts>>

\* gcOrphanedWorkspaces, of the directories that have grown older than the time
\* to live.  The map of workspaces is empty at a start, and has no scratch
\* directories anyway: none is spared for having been kept.
GcOrphanedWorkspaces(old) ==
  disk' = [p \in Paths |-> IF p \in old THEN None ELSE disk[p]]

\* Everything but the directories is lost.
Restart ==
  /\ starts < MaxStarts /\ starts' = starts + 1 /\ service' = "up"
  /\ listens' = {} /\ registered' = {}
  /\ record' = [a \in Agents |-> NoRecord] /\ armed' = {}
  /\ op' = [j \in Slots |-> Free]
  /\ \E old \in SUBSET {p \in Paths : disk[p] # None} : GcOrphanedWorkspaces(old)
  /\ UNCHANGED acts

-----------------------------------------------------------------------------
OpStep(j) ==
  \/ AllocatePromotedPath(j) \/ Moves(j) \/ MoveFails(j) \/ Promoted(j)
  \/ RemoveScratchDir(j) \/ Removed(j)
AgentStep(a) ==
  \/ CreateScratchDir(a) \/ TerminalEvent(a) \/ CleanupTimerFires(a)
  \/ KeepScratchWorkspace(a) \/ DeleteScratchWorkspace(a)
  \/ PromoteScratchWorkspace(a)

Next ==
  \/ \E j \in Slots : OpStep(j)
  \/ \E a \in Agents : AgentStep(a)
  \/ StopService \/ Restart

Spec == Init /\ [][Next]_vars

-----------------------------------------------------------------------------
\* A scratch directory that its record says is kept, and that nobody is removing
\* or moving, is there: whatever timers, deletions and promotions overlapped.
KeptIsThere ==
  \A a \in Agents :
    /\ record[a] = [status |-> "kept", path |-> Scratch(a)]
    /\ \A j \in Slots : op[j].a = a => op[j].pc = "free"
    => disk[Scratch(a)] = a

\* An undecided scratch directory does not stay so: its timer is set, or its
\* removal is under way, unless the service has stopped.
DecisionIsComing ==
  \A a \in Agents :
    Undecided(a) /\ service = "up" =>
      \/ a \in armed
      \/ \E j \in Slots : op[j].a = a /\ op[j].pc \in {"removing", "removed"}
=============================================================================
