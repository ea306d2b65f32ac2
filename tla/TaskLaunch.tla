------------------------------ MODULE TaskLaunch ------------------------------
(***************************************************************************)
(* How agents of the reference orchestrator are launched: CREATE_TASK      *)
(* (handleMultiAgent), SPAWN_AGENT and POST /spawn, with the clones that   *)
(* the workspace service makes for them, labels, finalises and removes.    *)
(* A call is a thread that yields where the code awaits; of git, the CLIs, *)
(* the LLM and the session service only success and failure matter here.   *)
(* A call is known by the first number it takes, an agent and its clone by *)
(* theirs.  MaxAgents bounds the numbers that are given out, MaxLaunched   *)
(* those among them that launches and clones may have.                     *)
(***************************************************************************)
EXTENDS Naturals, Sequences, SequencesExt

CONSTANTS
  MaxAgents, MaxLaunched,
  Kinds,          \* "scratch" and "repo" (CREATE_TASK), "spawn_agent", "api",
                  \* "provision", "finalize", "remove"
  Labels,
  None

\* Of the constants; CodingWorkspaceService assumes it.
LaunchAssumption ==
  {MaxAgents, MaxLaunched} \subseteq Nat /\ None \notin Labels \cup Nat

VARIABLES
  asked,          \* the numbers given out
  call,           \* where a call stands, the agents it has still to see to,
                  \* and the workspace it is about
  outcome,        \* of an agent, or of a call that is not about agents
  branch,         \* defaultBranchCache, of the one repository
  installer,      \* PREFLIGHT_INFLIGHT, of the one directory
  clones,         \* the clones that are on the disk
  spaces,         \* the workspaces map, in the order of insertion
  label, labels,  \* the labels of workspaces and the map of labels
  service, passed \* stop(), and the workspaces it has been through

numbers == <<asked, outcome>>
shared == <<branch, installer>>
maps == <<clones, spaces, label, labels>>
process == <<service, passed>>
vars == <<numbers, call, shared, maps, process>>

Agents == 1 .. MaxAgents
Tracked == ToSet(spaces)

Init ==
  /\ asked = 0 /\ outcome = [a \in Agents |-> "none"]
  /\ call = [c \in Agents |->
               [pc |-> "idle", kind |-> "none", todo |-> <<>>, space |-> None]]
  /\ branch = "none" /\ installer = None
  /\ clones = {} /\ spaces = <<>>
  /\ label = [a \in Agents |-> None] /\ labels = [l \in Labels |-> None]
  /\ service = "up" /\ passed = {}

-----------------------------------------------------------------------------
At(c, pc) == call[c].pc = pc
Kind(c) == call[c].kind
Agent(c) == Head(call[c].todo)
IsTask(c) == Kind(c) \in {"scratch", "repo"}

Goto(c, pc) == call' = [call EXCEPT ![c].pc = pc] /\ UNCHANGED numbers

\* A result is pushed, and the loop goes on with the next agent.
NextAgent(c, result) ==
  /\ outcome' = [outcome EXCEPT ![Agent(c)] = result] /\ UNCHANGED asked
  /\ call' = [call EXCEPT ![c].todo = Tail(@),
       ![c].pc = CASE Len(call[c].todo) > 1 -> "workspace"
                   [] IsTask(c) /\ Len(call[c].todo) = 1 -> "reporting"
                   [] OTHER -> "done"]

\* The handler throws, or returns before the loop.
Ends(c, result) ==
  /\ call' = [call EXCEPT ![c].todo = <<>>, ![c].pc = "done"]
  /\ outcome' = [a \in Agents |->
                   IF a \in ToSet(call[c].todo) THEN result ELSE outcome[a]]
  /\ UNCHANGED asked

\* What fails for one agent is caught, and becomes its result.
Fails_Aborts(c) ==
  /\ call' = [call EXCEPT ![c].todo = <<>>, ![c].pc = "done"]
  /\ outcome' = [outcome EXCEPT ![Agent(c)] = "failed"] /\ UNCHANGED asked
Fails(c) == NextAgent(c, "failed")

(***************************************************************************)
(* The handlers.                                                           *)
(***************************************************************************)
\* SPAWN_AGENT hands several asks on to CREATE_TASK.
Handler(kind, n) == IF kind = "spawn_agent" /\ n > 1 THEN "scratch" ELSE kind

\* splitMultiIntentTask, or the agents parameter, makes several of one request;
\* more agents than fit are refused.
Request(kind, n) ==
  LET handler == Handler(kind, n)
  IN /\ asked + n <= MaxAgents /\ asked' = asked + n
     /\ handler \in {"scratch", "repo"} \/ n = 1
     /\ handler \in {"finalize", "remove"} \/ asked + n <= MaxLaunched
     /\ \E w \in IF handler \in {"finalize", "remove"} THEN Tracked ELSE {None} :
          call' = [call EXCEPT ![asked + 1] =
            [kind |-> handler, todo |-> [i \in 1 .. n |-> asked + i], space |-> w,
             pc |-> CASE handler \in {"scratch", "repo"} -> "planning"
                      [] handler = "api" -> "validating"
                      [] handler = "finalize" -> "status"
                      [] handler = "remove" -> "removing"
                      [] OTHER -> "workspace"]]
     /\ UNCHANGED <<outcome, shared, maps, process>>

\* The shared brief, past experience, the thread and its graph.  The LLM's
\* failure is caught, the registry's is not.
Plans(c) ==
  /\ At(c, "planning") /\ (Goto(c, "workspace") \/ Ends(c, "failed"))
  /\ UNCHANGED <<shared, maps, process>>

CreateScratchDir(c) ==
  /\ At(c, "workspace") /\ Kind(c) = "scratch"
  /\ Goto(c, "preflight") \/ Fails(c)
  /\ UNCHANGED <<shared, maps, process>>

\* SPAWN_AGENT takes the latest workspace before a scratch directory, and gives
\* up if that is not allowed or there are no credentials.
FindsDirectory(c) ==
  /\ At(c, "workspace") /\ Kind(c) = "spawn_agent"
  /\ \/ /\ call' = [call EXCEPT ![c].pc = "preflight",
             ![c].space = IF spaces = <<>> THEN None ELSE Last(spaces)]
        /\ UNCHANGED numbers
     \/ Ends(c, "failed")
  /\ UNCHANGED <<shared, maps, process>>

\* POST /spawn: a directory that exists and is allowed, and the session limit.
ValidatesWorkdir(c) ==
  /\ At(c, "validating") /\ (Goto(c, "benchmark") \/ Ends(c, "failed"))
  /\ UNCHANGED <<shared, maps, process>>

\* runBenchmarkPreflight, once it has looked for the requirements and an
\* installation that is done: to ask who installs and to install is one step.
RunBenchmarkPreflight(c) ==
  /\ At(c, "benchmark")
  /\ \/ installer = None /\ installer' = c /\ Goto(c, "installing")
     \/ installer # None /\ Goto(c, "sharing") /\ UNCHANGED installer
     \/ Goto(c, "preparing") /\ UNCHANGED installer
  /\ UNCHANGED <<branch, maps, process>>

\* Its failure is logged, and the spawns go on.
BenchmarkPreflightEnds ==
  /\ installer # None /\ installer' = None
  /\ call' = [c \in Agents |-> IF At(c, "sharing") \/ c = installer
                THEN [call[c] EXCEPT !.pc = "preparing"] ELSE call[c]]
  /\ UNCHANGED <<numbers, branch, maps, process>>

\* checkAvailableAgents.
Preflight(c) ==
  /\ At(c, "preflight") /\ (Goto(c, "preparing") \/ Fails(c))
  /\ UNCHANGED <<shared, maps, process>>

PrepareSkillAwareness(c) ==
  /\ At(c, "preparing") /\ IsTask(c) /\ (Goto(c, "spawning") \/ Fails(c))
  /\ UNCHANGED <<shared, maps, process>>

\* The others have the thread and the account still to come.
CreateTaskThread(c) ==
  /\ At(c, "preparing") /\ ~IsTask(c) /\ (Goto(c, "spawning") \/ Fails(c))
  /\ UNCHANGED <<shared, maps, process>>

SpawnSession(c) ==
  /\ At(c, "spawning") /\ (Goto(c, "registering") \/ Fails(c))
  /\ UNCHANGED <<shared, maps, process>>

\* registerTask; when it throws, the agent runs on.
RegisterTask(c) ==
  /\ At(c, "registering") /\ IsTask(c) /\ (NextAgent(c, "started") \/ Fails(c))
  /\ UNCHANGED <<shared, maps, process>>

\* The same for one agent, with the answer of the request.
AnswersSpawn(c) ==
  /\ At(c, "registering") /\ ~IsTask(c)
  /\ Ends(c, "started") \/ Ends(c, "failed")
  /\ UNCHANGED <<shared, maps, process>>

\* The results are answered, failures in words of the LLM or of the code.
Reports(c) ==
  /\ At(c, "reporting") /\ Goto(c, "done") /\ UNCHANGED <<shared, maps, process>>

(***************************************************************************)
(* Clones and their labels.                                                *)
(***************************************************************************)
\* provisionWorkspace up to resolveDefaultBranch: one lookup for all that ask
\* meanwhile.
ResolveDefaultBranch(c) ==
  /\ At(c, "workspace") /\ Kind(c) \in {"repo", "provision"}
  /\ \/ service = "down" /\ Fails(c) /\ UNCHANGED branch
     \/ /\ service # "down" /\ branch = "known" /\ Goto(c, "cloning")
        /\ UNCHANGED branch
     \/ /\ service # "down" /\ branch # "known" /\ Goto(c, "branch")
        /\ branch' = "pending"
  /\ UNCHANGED <<installer, maps, process>>

\* A lookup that failed is not cached, and answers "main".  The service may have
\* been stopped meanwhile.
LookupDefaultBranch ==
  /\ branch = "pending" /\ branch' \in {"known", "none"}
  /\ call' = [c \in Agents |-> IF ~At(c, "branch") THEN call[c] ELSE
       [call[c] EXCEPT !.pc = IF service = "down" THEN "refused" ELSE "cloning"]]
  /\ UNCHANGED <<numbers, installer, maps, process>>

\* setLabel takes the label from the workspace that had it.
SetLabel(w, l) ==
  /\ label' = [v \in Agents |-> CASE v = w -> l
                                  [] v # w /\ labels[l] = v -> None
                                  [] OTHER -> label[v]]
  /\ labels' = [m \in Labels |-> CASE m = l -> w
                                   [] m # l /\ m = label[w] -> None
                                   [] OTHER -> labels[m]]

\* A clone that was begun before stop() may end after it.
Provisioned(c) ==
  LET a == Agent(c)
  IN /\ At(c, "cloning") /\ clones' = clones \cup {a} /\ spaces' = Append(spaces, a)
     /\ \/ IsTask(c) /\ Goto(c, "preflight") /\ \E l \in Labels : SetLabel(a, l)
        \/ Kind(c) = "provision" /\ NextAgent(c, "provisioned")
           /\ UNCHANGED <<label, labels>>
     /\ UNCHANGED <<shared, process>>

ProvisionFails(c) ==
  /\ At(c, "cloning") \/ At(c, "refused")
  /\ Fails(c) /\ UNCHANGED <<shared, maps, process>>

\* Every delegated git operation looks the workspace up anew.
GitStep(c, pc, next) ==
  /\ At(c, pc) /\ call[c].space \in Tracked /\ Goto(c, next)
  /\ UNCHANGED <<shared, maps, process>>
GitFails(c) ==
  /\ \E pc \in {"status", "commit", "push", "pr"} : At(c, pc)
  /\ Ends(c, "failed") /\ UNCHANGED <<shared, maps, process>>

GetStatus(c) == GitStep(c, "status", "commit")
Commit(c) == GitStep(c, "commit", "push")
Push(c) == GitStep(c, "push", "pr")
\* A clean workspace, and a pull request that is not wanted or is created.
Finalized(c) ==
  /\ At(c, "status") \/ At(c, "pr")
  /\ call[c].space \in Tracked /\ Ends(c, "finalized")
  /\ UNCHANGED <<shared, maps, process>>

Unlabelled(w) ==
  /\ labels' = [l \in Labels |-> IF l = label[w] THEN None ELSE labels[l]]
  /\ label' = [label EXCEPT ![w] = None]
Forgets(w) == spaces' = RemoveFirst(spaces, w) /\ Unlabelled(w)

\* removeWorkspace.  The clone goes before its entry.
Cleanup(c) ==
  /\ At(c, "removing") /\ service # "down"
  /\ clones' = clones \ {call[c].space} /\ Goto(c, "removed")
  /\ UNCHANGED <<shared, spaces, label, labels, process>>

CleanupFails_Forgets(c) ==
  /\ At(c, "removing") /\ Ends(c, "failed") /\ Forgets(call[c].space)
  /\ UNCHANGED <<shared, clones, process>>
CleanupFails(c) ==
  /\ At(c, "removing") /\ Ends(c, "failed") /\ UNCHANGED <<shared, maps, process>>

RemoveWorkspace(c) ==
  /\ At(c, "removed") /\ Ends(c, "removed") /\ Forgets(call[c].space)
  /\ UNCHANGED <<shared, clones, process>>

(***************************************************************************)
(* stop() removes one workspace after the other, those that come meanwhile *)
(* too, and then forgets what could not be removed.                        *)
(***************************************************************************)
StopBegins ==
  /\ service = "up" /\ service' = "stopping"
  /\ UNCHANGED <<numbers, call, shared, maps, passed>>

StopRemoves(w) ==
  /\ service = "stopping" /\ w \in Tracked \ passed /\ passed' = passed \cup {w}
  /\ \/ clones' = clones \ {w} /\ Forgets(w)
     \/ UNCHANGED maps
  /\ UNCHANGED <<numbers, call, shared, service>>

StopEnds ==
  /\ service = "stopping" /\ Tracked \subseteq passed
  /\ service' = "down" /\ spaces' = <<>>
  /\ UNCHANGED <<numbers, call, shared, clones, label, labels, passed>>

-----------------------------------------------------------------------------
LaunchStep(c) ==
  \/ Plans(c) \/ CreateScratchDir(c) \/ FindsDirectory(c) \/ ValidatesWorkdir(c)
  \/ RunBenchmarkPreflight(c) \/ Preflight(c) \/ PrepareSkillAwareness(c)
  \/ CreateTaskThread(c) \/ SpawnSession(c) \/ RegisterTask(c) \/ AnswersSpawn(c)
  \/ Reports(c)
CloneStep(c) ==
  \/ ResolveDefaultBranch(c) \/ Provisioned(c) \/ ProvisionFails(c)
  \/ GetStatus(c) \/ Commit(c) \/ Push(c) \/ Finalized(c) \/ GitFails(c)
  \/ Cleanup(c) \/ CleanupFails(c) \/ RemoveWorkspace(c)
StopStep == (\E w \in Agents : StopRemoves(w)) \/ StopEnds

\* What happens of itself: awaited calls are answered.
Runs ==
  \/ \E c \in Agents : LaunchStep(c) \/ CloneStep(c)
  \/ LookupDefaultBranch \/ BenchmarkPreflightEnds \/ StopStep
Next ==
  \/ Runs
  \/ \E kind \in Kinds, n \in Agents : Request(kind, n)
  \/ StopBegins

Spec == Init /\ [][Next]_vars
\* What runs of itself does not stand still; no more is needed, for all of it
\* comes to an end.
FairSpec == Spec /\ WF_vars(Runs)

-----------------------------------------------------------------------------
\* A label names one workspace, which bears it.
LabelsAgree ==
  service = "up" =>
    \A w \in Agents, l \in Labels :
      label[w] = l <=> labels[l] = w /\ w \in Tracked

\* Until the service has stopped, the clones on the disk are those it knows,
\* but for one whose removal is about to be noted.
ClonesAreTracked ==
  service # "down" =>
    /\ clones \subseteq Tracked
    /\ \A w \in Tracked \ clones :
         \E c \in Agents : At(c, "removed") /\ call[c].space = w

\* The workspaces map, the labels and the disk agree: whatever removals,
\* failures and provisionings overlapped, no clone is left behind or listed in
\* vain, and no label names a workspace that is gone or bears another one.
MapsAgree == LabelsAgree /\ ClonesAreTracked

\* The calls come to an answer about every agent that they were asked for,
\* whatever becomes of the others and whoever else asks for the default branch
\* or waits for the same installation.
LaunchEnds ==
  asked > 0 ~> /\ \A c \in Agents : At(c, "idle") \/ At(c, "done")
               /\ \A a \in 1 .. asked : outcome[a] # "none"
=============================================================================
