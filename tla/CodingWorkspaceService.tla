------------------------ MODULE CodingWorkspaceService ------------------------
(***************************************************************************)
(* The reference orchestrator's workspace service: what TaskLaunch asks of *)
(* it, clones and their labels, and what becomes of scratch directories,   *)
(* ScratchRetention.  The two halves have no state in common but whether   *)
(* the service runs, and stop() is told to both, so that a behaviour of    *)
(* the service is an interleaving of one of each; it is enough to look at  *)
(* the one or the other, which part chooses.                               *)
(***************************************************************************)
EXTENDS Naturals

CONSTANTS MaxAgents, MaxLaunched, Kinds, Labels,        \* of TaskLaunch
          Policies, Names, Slots, MaxActs, MaxStarts,   \* of ScratchRetention
          None

VARIABLES
  part,
  asked, outcome, call, branch, installer, clones, spaces, label, labels, passed,
  listens, registered, record, armed, op, disk, acts, starts,
  service

launchVars ==
  <<asked, outcome, call, branch, installer, clones, spaces, label, labels, passed>>
scratchVars == <<listens, registered, record, armed, op, disk, acts, starts>>
vars == <<part, launchVars, scratchVars, service>>

Agents == 1 .. MaxAgents
Launched == 1 .. MaxLaunched   \* those with a scratch directory
Launch == INSTANCE TaskLaunch
Scratch == INSTANCE ScratchRetention WITH Agents <- Launched

ASSUME WorkspaceAssumption ==
  /\ Launch!LaunchAssumption /\ Scratch!RetentionAssumption
  /\ MaxLaunched <= MaxAgents

Init == part \in {"launch", "scratch"} /\ Launch!Init /\ Scratch!Init

LaunchNext == part = "launch" /\ Launch!Next /\ UNCHANGED <<part, scratchVars>>
ScratchNext == part = "scratch" /\ Scratch!Next /\ UNCHANGED <<part, launchVars>>

Next == LaunchNext \/ ScratchNext

Runs == part = "launch" /\ Launch!Runs /\ UNCHANGED <<part, scratchVars>>

Spec == Init /\ [][Next]_vars
FairSpec == Spec /\ WF_vars(Runs)

-----------------------------------------------------------------------------
\* The workspaces map, the labels and the clones on the disk agree, whatever
\* removals, failures and provisionings overlapped, until the service has stopped
\* (workspace-service.ts:264-366, 520-531).
MapsAgree == Launch!MapsAgree

\* Every call comes to an answer about every agent it was asked for, whatever
\* becomes of the others (coding-task-handlers.ts:868-1085).
LaunchEnds == Launch!LaunchEnds

\* A kept scratch directory that nobody is removing or moving is there
\* (workspace-service.ts:583-697, 775-792).
KeptIsThere == Scratch!KeptIsThere

\* An undecided scratch directory has a timer or is being removed
\* (workspace-service.ts:583-640, 775-792).
DecisionIsComing == Scratch!DecisionIsComing
=============================================================================
