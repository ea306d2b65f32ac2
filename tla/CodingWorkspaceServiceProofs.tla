--------------------- MODULE CodingWorkspaceServiceProofs ---------------------
(***************************************************************************)
(* Proofs about the workspace service, for every number of agents, names,  *)
(* requests and operations under way, and for all policies.  The first     *)
(* part is about the scratch directories, which the launch half leaves     *)
(* alone, for it only stops the service they share.  The second part is    *)
(* about the launches: the numbers of workspaces are given out once, and   *)
(* the workspace of an agent is made once, so that the map of workspaces   *)
(* and the clones on the disk agree.                                       *)
(***************************************************************************)
EXTENDS CodingWorkspaceService, SequenceTheorems, TLAPS

(* Scratch directories.  The inductive invariant ScratchInv says of the    *)
(* properties that are checked what they leave open: whose directory an    *)
(* operation works on (Owned), and that work which is not where its agent  *)
(* left it is in the hands of an operation that has yet to note it         *)
(* (WorkIsAccounted).                                                      *)
Statuses == {"none", "kept", "promoted"} \cup Policies
OpKinds == {"free", "register", "delete", "promote", "timer"}
Locations ==
  {"free", "removing", "removed", "allocating", "renaming", "renamed"}
SomePath == Scratch!Paths \cup {None}
Operations == [kind : OpKinds, pc : Locations, a : Launched \cup {None},
               path : SomePath, target : SomePath]

TypeOK ==
  /\ record \in [Launched -> [status : Statuses, path : SomePath]]
  /\ op \in [Slots -> Operations]
  /\ disk \in [Scratch!Paths -> Launched \cup {None}]

NamedPaths == {Scratch!Named(n) : n \in Names}
PathsOf(a) == {Scratch!Scratch(a)} \cup NamedPaths

Recorded(a) == record[a].status # "none"
OpBusy(j) == op[j].pc # "free"

(* An operation works on a directory of its agent; all but the one that    *)
(* registers find the agent registered, as a record does.                  *)
RecordOwned(a) ==
  Recorded(a) => a \in registered /\ record[a].path \in PathsOf(a)
OpOwned(j) ==
  OpBusy(j) =>
    /\ op[j].a \in Launched /\ op[j].path \in PathsOf(op[j].a)
    /\ op[j].kind # "register" => op[j].a \in registered
    /\ op[j].pc \in {"allocating", "renaming", "renamed"} => op[j].kind = "promote"
    /\ op[j].pc \in {"renaming", "renamed"} => op[j].target \in NamedPaths
Owned == (\A a \in Launched : RecordOwned(a)) /\ (\A j \in Slots : OpOwned(j))

(* A scratch directory that is recorded, or that is still to be, holds the *)
(* work of its agent, or an operation that took it away has yet to say so. *)
Expected(a) ==
  \/ a \in listens \ registered
  \/ Recorded(a) /\ record[a].path = Scratch!Scratch(a)
Taken(a) == \E j \in Slots : op[j].a = a /\ op[j].pc \in {"removed", "renamed"}
WorkIsAccounted ==
  \A a \in Launched : Expected(a) => disk[Scratch!Scratch(a)] = a \/ Taken(a)

ScratchInv == TypeOK /\ Owned /\ WorkIsAccounted /\ Scratch!DecisionIsComing

(* A scratch directory is no promoted one, and no other agent's.           *)
LEMMA PathsDiffer ==
  /\ \A a \in Launched :
       Scratch!Scratch(a) \in Scratch!Paths /\ Scratch!Scratch(a) \notin NamedPaths
  /\ \A a, b \in Launched : a # b => Scratch!Scratch(a) # Scratch!Scratch(b)
  /\ NamedPaths \subseteq Scratch!Paths
  BY DEF Scratch!Scratch, Scratch!Named, Scratch!Paths, NamedPaths

(* A service just started satisfies the inductive invariant.               *)
LEMMA ScratchInitInv == Scratch!Init => ScratchInv
<1> SUFFICES ASSUME Scratch!Init PROVE ScratchInv
  OBVIOUS
<1>1. TypeOK
  BY DEF Scratch!Init, TypeOK, Statuses, OpKinds, Locations, SomePath,
         Operations, Scratch!NoRecord, Scratch!Free
<1>2. Owned
  BY DEF Scratch!Init, Owned, RecordOwned, OpOwned, Recorded, OpBusy,
         Scratch!NoRecord, Scratch!Free
<1>3. WorkIsAccounted
  BY DEF Scratch!Init, WorkIsAccounted, Expected, Recorded, Scratch!NoRecord
<1>4. Scratch!DecisionIsComing
  BY DEF Scratch!Init, Scratch!DecisionIsComing, Scratch!Undecided,
         Scratch!NoRecord
<1> QED
  BY <1>1, <1>2, <1>3, <1>4 DEF ScratchInv

(* An operation begins in a slot that was free and changes no other.       *)
LEMMA StartEffect ==
  ASSUME TypeOK, NEW kind \in OpKinds, NEW loc \in Locations, NEW a \in Launched,
         NEW path \in SomePath, Scratch!Start(kind, loc, a, path)
  PROVE  \E j \in Slots :
           /\ ~OpBusy(j)
           /\ op' = [op EXCEPT ![j] =
                [kind |-> kind, pc |-> loc, a |-> a, path |-> path, target |-> None]]
           /\ op' \in [Slots -> Operations]
<1> DEFINE new ==
      [kind |-> kind, pc |-> loc, a |-> a, path |-> path, target |-> None]
<1>1. PICK j \in Scratch!FreeSlots : op' = [op EXCEPT ![j] = new]
  BY DEF Scratch!Start
<1>2. j \in Slots /\ ~OpBusy(j)
  BY <1>1 DEF Scratch!FreeSlots, OpBusy
<1>3. new \in Operations
  BY DEF Operations, SomePath
<1> QED
  BY <1>1, <1>2, <1>3 DEF TypeOK

(* Every step keeps the variables in their types.                          *)
LEMMA TypeStep ==
  ASSUME TypeOK, Owned, [Scratch!Next]_(Scratch!vars)
  PROVE  TypeOK'
<1>1. CASE UNCHANGED Scratch!vars
  BY <1>1
     DEF TypeOK, Scratch!vars, Scratch!agents, Scratch!scratch, Scratch!process
<1>2. ASSUME NEW j \in Slots, Scratch!AllocatePromotedPath(j) PROVE TypeOK'
  <2>1. PICK n \in Names : op' = [op EXCEPT ![j].pc = "renaming",
                                            ![j].target = Scratch!Named(n)]
    BY <1>2 DEF Scratch!AllocatePromotedPath
  <2>2. Scratch!Named(n) \in SomePath /\ "renaming" \in Locations
    BY DEF SomePath, Scratch!Paths, Locations
  <2>3. op' \in [Slots -> Operations]
    BY <2>1, <2>2 DEF TypeOK, Operations
  <2> QED
    BY <1>2, <2>3 DEF Scratch!AllocatePromotedPath, TypeOK, Scratch!scratch
<1>3. ASSUME NEW j \in Slots, Scratch!Moves(j) \/ Scratch!RemoveScratchDir(j)
      PROVE  TypeOK'
  <2>1. op' \in [Slots -> Operations]
    BY <1>3
       DEF Scratch!Moves, Scratch!RemoveScratchDir, TypeOK, Operations,
           Locations
  <2>2. disk' \in [Scratch!Paths -> Launched \cup {None}]
    <3>1. CASE Scratch!RemoveScratchDir(j)
      BY <3>1 DEF Scratch!RemoveScratchDir, TypeOK
    <3>2. CASE Scratch!Moves(j)
      <4>1. op[j].path \in Scratch!Paths
        BY <3>2, PathsDiffer DEF Scratch!Moves, Owned, OpOwned, OpBusy, PathsOf
      <4> QED
        BY <3>2, <4>1 DEF Scratch!Moves, TypeOK
    <3> QED
      BY <1>3, <3>1, <3>2
  <2> QED
    BY <1>3, <2>1, <2>2
       DEF Scratch!Moves, Scratch!RemoveScratchDir, TypeOK, Scratch!scratch
<1>4. ASSUME NEW j \in Slots,
             Scratch!MoveFails(j) \/ Scratch!Removed(j) \/ Scratch!Promoted(j)
      PROVE TypeOK'
  <2>1. op' \in [Slots -> Operations]
    BY <1>4
       DEF Scratch!MoveFails, Scratch!Removed, Scratch!Promoted, TypeOK,
           Operations, Scratch!Free, OpKinds, Locations, SomePath
  <2>2. record' \in [Launched -> [status : Statuses, path : SomePath]]
    BY <1>4
       DEF Scratch!MoveFails, Scratch!Removed, Scratch!Promoted,
           Scratch!Forgets, TypeOK, Operations, Scratch!NoRecord, Statuses,
           SomePath, Scratch!scratch
  <2> QED
    BY <1>4, <2>1, <2>2
       DEF Scratch!MoveFails, Scratch!Removed, Scratch!Promoted, TypeOK,
           Scratch!agents
<1>5. ASSUME NEW a \in Launched, Scratch!CreateScratchDir(a) PROVE TypeOK'
  BY <1>5 DEF Scratch!CreateScratchDir, TypeOK, Scratch!scratch
<1>6. ASSUME NEW a \in Launched, Scratch!TerminalEvent(a) PROVE TypeOK'
  <2>1. PICK policy \in Policies :
          IF policy = "ephemeral"
          THEN /\ Scratch!Start("register", "removing", a, Scratch!Scratch(a))
               /\ UNCHANGED Scratch!scratch
          ELSE /\ UNCHANGED op
               /\ record' = [record EXCEPT ![a] =
                    [status |-> IF policy = "persistent" THEN "kept" ELSE policy,
                     path |-> Scratch!Scratch(a)]]
    BY <1>6
       DEF Scratch!TerminalEvent, Scratch!RegisterScratchWorkspace,
           Scratch!scratch
  <2>2. Scratch!Scratch(a) \in SomePath
    BY PathsDiffer DEF SomePath
  <2>3. op' \in [Slots -> Operations]
    <3>1. CASE policy = "ephemeral"
      BY <2>1, <2>2, <3>1, StartEffect DEF OpKinds, Locations
    <3> QED
      BY <2>1, <3>1 DEF TypeOK
  <2>4. record' \in [Launched -> [status : Statuses, path : SomePath]]
    BY <2>1, <2>2 DEF TypeOK, Statuses, Scratch!scratch
  <2> QED
    BY <1>6, <2>3, <2>4 DEF Scratch!TerminalEvent, TypeOK
<1>7. ASSUME NEW a \in Launched, Scratch!KeepScratchWorkspace(a) PROVE TypeOK'
  BY <1>7 DEF Scratch!KeepScratchWorkspace, TypeOK, Statuses
<1>8. ASSUME NEW a \in Launched, Scratch!DeleteScratchWorkspace(a) PROVE TypeOK'
  <2>1. op' \in [Slots -> Operations]
    BY <1>8, StartEffect
       DEF Scratch!DeleteScratchWorkspace, TypeOK, OpKinds, Locations
  <2> QED
    BY <1>8, <2>1 DEF Scratch!DeleteScratchWorkspace, TypeOK, Scratch!scratch
<1>9. ASSUME NEW a \in Launched, Scratch!PromoteScratchWorkspace(a)
      PROVE  TypeOK'
  <2>1. op' \in [Slots -> Operations]
    BY <1>9, StartEffect
       DEF Scratch!PromoteScratchWorkspace, TypeOK, OpKinds, Locations
  <2> QED
    BY <1>9, <2>1 DEF Scratch!PromoteScratchWorkspace, TypeOK, Scratch!scratch
<1>10. ASSUME NEW a \in Launched, Scratch!CleanupTimerFires(a) PROVE TypeOK'
  <2>1. op' \in [Slots -> Operations]
    BY <1>10, StartEffect
       DEF Scratch!CleanupTimerFires, TypeOK, OpKinds, Locations
  <2>2. record' \in [Launched -> [status : Statuses, path : SomePath]]
    BY <1>10
       DEF Scratch!CleanupTimerFires, Scratch!Forgets, TypeOK,
           Scratch!NoRecord, Statuses, SomePath
  <2> QED
    BY <1>10, <2>1, <2>2 DEF Scratch!CleanupTimerFires, TypeOK
<1>11. CASE Scratch!StopService
  BY <1>11 DEF Scratch!StopService, TypeOK
<1>12. CASE Scratch!Restart
  <2>1. disk' \in [Scratch!Paths -> Launched \cup {None}]
    BY <1>12 DEF Scratch!Restart, Scratch!GcOrphanedWorkspaces, TypeOK
  <2> QED
    BY <1>12, <2>1
       DEF Scratch!Restart, TypeOK, Statuses, OpKinds, Locations, SomePath,
           Operations, Scratch!NoRecord, Scratch!Free
<1> QED
  BY <1>1, <1>2, <1>3, <1>4, <1>5, <1>6, <1>7, <1>8, <1>9, <1>10, <1>11, <1>12
     DEF Scratch!Next, Scratch!OpStep, Scratch!AgentStep

(* Every step leaves operations and records with a directory of theirs.    *)
LEMMA OwnedStep ==
  ASSUME TypeOK, Owned, [Scratch!Next]_(Scratch!vars)
  PROVE  Owned'
<1>1. CASE UNCHANGED Scratch!vars
  BY <1>1
     DEF Owned, RecordOwned, OpOwned, Recorded, OpBusy, PathsOf, Scratch!vars,
         Scratch!agents, Scratch!scratch, Scratch!process
<1>2. ASSUME NEW j \in Slots, Scratch!AllocatePromotedPath(j) PROVE Owned'
  <2>1. \A k \in Slots : OpOwned(k)'
    <3> SUFFICES ASSUME NEW k \in Slots PROVE OpOwned(k)'
      OBVIOUS
    <3>1. PICK n \in Names : op' = [op EXCEPT ![j].pc = "renaming",
                                              ![j].target = Scratch!Named(n)]
      BY <1>2 DEF Scratch!AllocatePromotedPath
    <3>2. Scratch!Named(n) \in NamedPaths
      BY DEF NamedPaths
    <3> QED
      BY <1>2, <3>1, <3>2
         DEF Scratch!AllocatePromotedPath, Owned, OpOwned, OpBusy, PathsOf,
             TypeOK, Operations, Scratch!agents
  <2> QED
    BY <1>2, <2>1
       DEF Scratch!AllocatePromotedPath, Owned, RecordOwned, Recorded,
           Scratch!agents, Scratch!scratch
<1>3. ASSUME NEW j \in Slots, Scratch!Moves(j) \/ Scratch!RemoveScratchDir(j)
      PROVE  Owned'
  <2>1. \A k \in Slots : OpOwned(k)'
    BY <1>3
       DEF Scratch!Moves, Scratch!RemoveScratchDir, Owned, OpOwned, OpBusy,
           PathsOf, TypeOK, Operations, Scratch!agents
  <2> QED
    BY <1>3, <2>1
       DEF Scratch!Moves, Scratch!RemoveScratchDir, Owned, RecordOwned,
           Recorded, Scratch!agents, Scratch!scratch
<1>4. ASSUME NEW j \in Slots,
             Scratch!MoveFails(j) \/ Scratch!Removed(j) \/ Scratch!Promoted(j)
      PROVE Owned'
  <2>1. registered \subseteq registered'
    BY <1>4
       DEF Scratch!MoveFails, Scratch!Removed, Scratch!Promoted, Scratch!agents
  <2>2. op' = [op EXCEPT ![j] = Scratch!Free]
    BY <1>4 DEF Scratch!MoveFails, Scratch!Removed, Scratch!Promoted
  <2>3. \A k \in Slots : OpOwned(k)'
    BY <2>1, <2>2
       DEF Owned, OpOwned, OpBusy, PathsOf, TypeOK, Operations, Scratch!Free
  <2>4. \A b \in Launched : RecordOwned(b)'
    <3>1. CASE Scratch!MoveFails(j)
      BY <2>1, <3>1
         DEF Scratch!MoveFails, Owned, RecordOwned, Recorded, Scratch!scratch
    <3>2. CASE Scratch!Removed(j)
      BY <2>1, <3>2
         DEF Scratch!Removed, Scratch!Forgets, Owned, RecordOwned, Recorded,
             Scratch!NoRecord, TypeOK
    <3>3. CASE Scratch!Promoted(j)
      <4>1. /\ op[j].a \in registered
            /\ op[j].target \in PathsOf(op[j].a)
        BY <3>3 DEF Scratch!Promoted, Owned, OpOwned, OpBusy, PathsOf
      <4> QED
        BY <2>1, <3>3, <4>1
           DEF Scratch!Promoted, Owned, RecordOwned, Recorded, TypeOK
    <3> QED
      BY <1>4, <3>1, <3>2, <3>3
  <2> QED
    BY <2>3, <2>4 DEF Owned
<1>5. ASSUME NEW a \in Launched, Scratch!CreateScratchDir(a) PROVE Owned'
  BY <1>5
     DEF Scratch!CreateScratchDir, Owned, RecordOwned, OpOwned, Recorded,
         OpBusy, PathsOf, Scratch!scratch
<1>6. ASSUME NEW a \in Launched, Scratch!TerminalEvent(a) PROVE Owned'
  <2>1. CASE Scratch!Start("register", "removing", a, Scratch!Scratch(a))
             /\ UNCHANGED <<record, registered>>
    <3>1. /\ Scratch!Scratch(a) \in SomePath
          /\ "register" \in OpKinds /\ "removing" \in Locations
          /\ Scratch!Start("register", "removing", a, Scratch!Scratch(a))
      BY <2>1, PathsDiffer DEF SomePath, OpKinds, Locations
    <3>2. PICK j \in Slots :
            op' = [op EXCEPT ![j] = [kind |-> "register", pc |-> "removing",
                                     a |-> a, path |-> Scratch!Scratch(a), target |-> None]]
      BY <3>1, StartEffect
    <3>3. \A k \in Slots : OpOwned(k)'
      <4>1. ASSUME NEW k \in Slots \ {j} PROVE OpOwned(k)'
        BY <2>1, <3>2 DEF Owned, OpOwned, OpBusy, PathsOf, TypeOK
      <4>2. OpOwned(j)'
        BY <2>1, <3>2 DEF OpOwned, PathsOf, TypeOK
      <4> QED
        BY <4>1, <4>2
    <3> QED
      BY <2>1, <3>3 DEF Owned, RecordOwned, Recorded
  <2>2. CASE /\ UNCHANGED op
             /\ registered' = registered \cup {a}
             /\ \E status \in Statuses :
                  record' = [record EXCEPT ![a] =
                               [status |-> status, path |-> Scratch!Scratch(a)]]
    BY <2>2 DEF Owned, RecordOwned, OpOwned, Recorded, OpBusy, PathsOf, TypeOK
  <2> QED
    BY <1>6, <2>1, <2>2
       DEF Scratch!TerminalEvent, Scratch!RegisterScratchWorkspace, Statuses,
           Scratch!scratch
<1>7. ASSUME NEW a \in Launched, Scratch!KeepScratchWorkspace(a) PROVE Owned'
  BY <1>7
     DEF Scratch!KeepScratchWorkspace, Scratch!RequireScratchWorkspace, Owned,
         RecordOwned, OpOwned, Recorded, OpBusy, PathsOf, TypeOK,
         Scratch!agents
<1>8. ASSUME NEW a \in Launched, NEW kind \in {"delete", "promote", "timer"},
             NEW loc \in Locations, Scratch!Start(kind, loc, a, record[a].path),
             kind # "promote" => loc = "removing",
             kind = "promote" => loc = "allocating",
             Recorded(a), UNCHANGED registered
      PROVE  \A k \in Slots : OpOwned(k)'
  <2>1. a \in registered /\ record[a].path \in PathsOf(a)
    BY <1>8 DEF Owned, RecordOwned
  <2>2. PICK j \in Slots :
          op' = [op EXCEPT ![j] = [kind |-> kind, pc |-> loc, a |-> a,
                                   path |-> record[a].path, target |-> None]]
    <3>1. kind \in OpKinds /\ record[a].path \in SomePath
      BY <1>8 DEF OpKinds, TypeOK
    <3> QED
      BY <1>8, <3>1, StartEffect
  <2> QED
    BY <1>8, <2>1, <2>2 DEF Owned, OpOwned, OpBusy, PathsOf, TypeOK
<1>9. ASSUME NEW a \in Launched,
             \/ Scratch!DeleteScratchWorkspace(a)
             \/ Scratch!PromoteScratchWorkspace(a)
      PROVE Owned'
  <2>1. \A k \in Slots : OpOwned(k)'
    BY <1>8, <1>9
       DEF Scratch!DeleteScratchWorkspace, Scratch!PromoteScratchWorkspace,
           Recorded, Scratch!RequireScratchWorkspace, Locations, Scratch!agents
  <2> QED
    BY <1>9, <2>1
       DEF Scratch!DeleteScratchWorkspace, Scratch!PromoteScratchWorkspace,
           Owned, RecordOwned, Recorded, Scratch!agents, Scratch!scratch
<1>10. ASSUME NEW a \in Launched, Scratch!CleanupTimerFires(a) PROVE Owned'
  <2>1. CASE UNCHANGED record /\ Scratch!Undecided(a)
             /\ Scratch!Start("timer", "removing", a, record[a].path)
    <3>1. \A k \in Slots : OpOwned(k)'
      BY <1>8, <1>10, <2>1
         DEF Scratch!CleanupTimerFires, Scratch!Undecided, Recorded, Locations,
             Scratch!agents
    <3> QED
      BY <1>10, <2>1, <3>1
         DEF Scratch!CleanupTimerFires, Owned, RecordOwned, Recorded,
             Scratch!agents
  <2>2. CASE Scratch!Forgets(a) /\ UNCHANGED op
    BY <1>10, <2>2
       DEF Scratch!CleanupTimerFires, Scratch!Forgets, Owned, RecordOwned,
           OpOwned, Recorded, OpBusy, PathsOf, Scratch!NoRecord, TypeOK,
           Scratch!agents
  <2> QED
    BY <1>10, <2>1, <2>2 DEF Scratch!CleanupTimerFires
<1>11. CASE Scratch!StopService
  BY <1>11
     DEF Scratch!StopService, Owned, RecordOwned, OpOwned, Recorded, OpBusy,
         PathsOf, Scratch!agents
<1>12. CASE Scratch!Restart
  BY <1>12
     DEF Scratch!Restart, Owned, RecordOwned, OpOwned, Recorded, OpBusy,
         Scratch!NoRecord, Scratch!Free
<1> QED
  BY <1>1, <1>2, <1>3, <1>4, <1>5, <1>6, <1>7, <1>9, <1>10, <1>11, <1>12
     DEF Scratch!Next, Scratch!OpStep, Scratch!AgentStep

(* An operation that begins leaves those under way as they are.            *)
LEMMA StartKeeps ==
  ASSUME TypeOK, NEW kind \in OpKinds, NEW loc \in Locations, NEW a \in Launched,
         NEW path \in SomePath, Scratch!Start(kind, loc, a, path)
  PROVE  /\ \A k \in Slots : OpBusy(k) => op'[k] = op[k]
         /\ \E k \in Slots : op'[k].a = a /\ op'[k].pc = loc
<1>1. PICK j \in Slots :
        /\ ~OpBusy(j)
        /\ op' = [op EXCEPT ![j] =
             [kind |-> kind, pc |-> loc, a |-> a, path |-> path, target |-> None]]
  BY StartEffect
<1> QED
  BY <1>1 DEF TypeOK

(* While operations under way stay as they are, so does what they took.    *)
LEMMA KeepsTaken ==
  ASSUME \A k \in Slots : OpBusy(k) => op'[k] = op[k], NEW a \in Launched, Taken(a)
  PROVE  Taken(a)'
  BY DEF Taken, OpBusy

(* Work stays accounted for where directories do and operations go on.     *)
LEMMA WorkFrame ==
  ASSUME WorkIsAccounted, \A k \in Slots : OpBusy(k) => op'[k] = op[k],
         UNCHANGED disk, \A a \in Launched : Expected(a)' => Expected(a)
  PROVE  WorkIsAccounted'
  BY KeepsTaken DEF WorkIsAccounted

(* Every step accounts for the work in scratch directories.                *)
LEMMA WorkStep ==
  ASSUME TypeOK, Owned, WorkIsAccounted, [Scratch!Next]_(Scratch!vars)
  PROVE  WorkIsAccounted'
<1>1. CASE UNCHANGED Scratch!vars
  BY <1>1
     DEF WorkIsAccounted, Expected, Recorded, Taken, Scratch!vars,
         Scratch!agents, Scratch!scratch
<1>2. ASSUME NEW j \in Slots, Scratch!AllocatePromotedPath(j)
      PROVE  WorkIsAccounted'
  <2>1. \A a \in Launched : Taken(a) => Taken(a)'
    BY <1>2 DEF Scratch!AllocatePromotedPath, Taken, TypeOK, Operations
  <2>2. \A a \in Launched : Expected(a)' <=> Expected(a)
    BY <1>2
       DEF Scratch!AllocatePromotedPath, Expected, Recorded, Scratch!agents,
           Scratch!scratch
  <2> QED
    BY <1>2, <2>1, <2>2 DEF Scratch!AllocatePromotedPath, WorkIsAccounted
<1>3. ASSUME NEW j \in Slots, Scratch!Moves(j) \/ Scratch!RemoveScratchDir(j)
      PROVE  WorkIsAccounted'
  <2>1. PICK a \in Launched :
          /\ op[j].a = a /\ op[j].path \in PathsOf(a)
          /\ op[j].pc = "renaming" => op[j].target \in NamedPaths
    BY <1>3 DEF Scratch!Moves, Scratch!RemoveScratchDir, Owned, OpOwned, OpBusy
  <2>2. \A b \in Launched : Expected(b)' <=> Expected(b)
    BY <1>3
       DEF Scratch!Moves, Scratch!RemoveScratchDir, Expected, Recorded,
           Scratch!agents, Scratch!scratch
  <2>3. Taken(a)' /\ \A b \in Launched : Taken(b) => Taken(b)'
    BY <1>3, <2>1
       DEF Scratch!Moves, Scratch!RemoveScratchDir, Taken, TypeOK, Operations
  <2>4. ASSUME NEW b \in Launched, b # a
        PROVE  disk'[Scratch!Scratch(b)] = disk[Scratch!Scratch(b)]
    <3>1. Scratch!Scratch(b) # op[j].path
      BY <2>1, <2>4, PathsDiffer DEF PathsOf
    <3>2. op[j].pc = "renaming" => Scratch!Scratch(b) # op[j].target
      BY <2>1, PathsDiffer
    <3> QED
      BY <1>3, <3>1, <3>2, PathsDiffer
         DEF Scratch!Moves, Scratch!RemoveScratchDir, TypeOK
  <2> QED
    BY <2>2, <2>3, <2>4 DEF WorkIsAccounted
<1>4. ASSUME NEW j \in Slots, Scratch!MoveFails(j) PROVE WorkIsAccounted'
  <2>1. \A a \in Launched : Taken(a) => Taken(a)'
    BY <1>4 DEF Scratch!MoveFails, Taken, TypeOK
  <2>2. \A a \in Launched : Expected(a)' <=> Expected(a)
    BY <1>4
       DEF Scratch!MoveFails, Expected, Recorded, Scratch!agents,
           Scratch!scratch
  <2> QED
    BY <1>4, <2>1, <2>2 DEF Scratch!MoveFails, WorkIsAccounted
<1>5. ASSUME NEW j \in Slots, Scratch!Removed(j) \/ Scratch!Promoted(j)
      PROVE  WorkIsAccounted'
  <2>1. PICK a \in Launched : op[j].a = a /\ a \in registered'
    BY <1>5
       DEF Scratch!Removed, Scratch!Promoted, Owned, OpOwned, OpBusy,
           Scratch!agents
  <2>2. \A b \in Launched : b # a /\ Taken(b) => Taken(b)'
    BY <1>5, <2>1 DEF Scratch!Removed, Scratch!Promoted, Taken, TypeOK
  <2>3. \A b \in Launched : b # a /\ Expected(b)' => Expected(b)
    BY <1>5, <2>1
       DEF Scratch!Removed, Scratch!Promoted, Scratch!Forgets, Expected,
           Recorded, TypeOK, Scratch!agents
  <2>4. ~Expected(a)'
    <3>1. CASE Scratch!Removed(j)
      BY <2>1, <3>1
         DEF Scratch!Removed, Scratch!Forgets, Expected, Recorded,
             Scratch!NoRecord, TypeOK
    <3>2. CASE Scratch!Promoted(j)
      <4>1. op[j].target \in NamedPaths
        BY <3>2 DEF Scratch!Promoted, Owned, OpOwned, OpBusy
      <4> QED
        BY <2>1, <3>2, <4>1, PathsDiffer DEF Scratch!Promoted, Expected, TypeOK
    <3> QED
      BY <1>5, <3>1, <3>2
  <2> QED
    BY <1>5, <2>2, <2>3, <2>4
       DEF Scratch!Removed, Scratch!Promoted, WorkIsAccounted
<1>6. ASSUME NEW a \in Launched, Scratch!CreateScratchDir(a)
      PROVE  WorkIsAccounted'
  <2>1. \A b \in Launched : Taken(b) => Taken(b)'
    BY <1>6 DEF Scratch!CreateScratchDir, Taken
  <2>2. \A b \in Launched : b # a /\ Expected(b)' => Expected(b)
    BY <1>6 DEF Scratch!CreateScratchDir, Expected, Recorded, Scratch!scratch
  <2>3. /\ disk'[Scratch!Scratch(a)] = a
        /\ \A b \in Launched :
             b # a => disk'[Scratch!Scratch(b)] = disk[Scratch!Scratch(b)]
    BY <1>6, PathsDiffer DEF Scratch!CreateScratchDir, TypeOK
  <2> QED
    BY <2>1, <2>2, <2>3 DEF WorkIsAccounted
<1>7. ASSUME NEW a \in Launched, Scratch!TerminalEvent(a) PROVE WorkIsAccounted'
  <2>1. Expected(a)
    BY <1>7 DEF Scratch!TerminalEvent, Expected
  <2>2. \A b \in Launched : b # a /\ Expected(b)' => Expected(b)
    BY <1>7
       DEF Scratch!TerminalEvent, Scratch!RegisterScratchWorkspace, Expected,
           Recorded, TypeOK, Scratch!scratch
  <2>3. \A k \in Slots : OpBusy(k) => op'[k] = op[k]
    <3>1. /\ Scratch!Scratch(a) \in SomePath
          /\ "register" \in OpKinds /\ "removing" \in Locations
      BY PathsDiffer DEF SomePath, OpKinds, Locations
    <3>2. \/ UNCHANGED op
          \/ Scratch!Start("register", "removing", a, Scratch!Scratch(a))
      BY <1>7 DEF Scratch!TerminalEvent, Scratch!RegisterScratchWorkspace
    <3> QED
      BY <3>1, <3>2, StartKeeps
  <2> QED
    BY <1>7, <2>1, <2>2, <2>3, WorkFrame DEF Scratch!TerminalEvent
<1>8. ASSUME NEW a \in Launched,
             \/ Scratch!KeepScratchWorkspace(a) \/ Scratch!DeleteScratchWorkspace(a)
             \/ Scratch!PromoteScratchWorkspace(a) \/ Scratch!CleanupTimerFires(a)
      PROVE  WorkIsAccounted'
  <2>1. \A b \in Launched : Expected(b)' => Expected(b)
    BY <1>8
       DEF Scratch!KeepScratchWorkspace, Scratch!DeleteScratchWorkspace,
           Scratch!PromoteScratchWorkspace, Scratch!CleanupTimerFires,
           Scratch!RequireScratchWorkspace, Scratch!Forgets, Scratch!NoRecord,
           Expected, Recorded, TypeOK, Scratch!agents, Scratch!scratch
  <2>2. \A k \in Slots : OpBusy(k) => op'[k] = op[k]
    <3>1. /\ record[a].path \in SomePath
          /\ {"delete", "promote", "timer"} \subseteq OpKinds
          /\ {"removing", "allocating"} \subseteq Locations
      BY DEF TypeOK, OpKinds, Locations
    <3>2. \/ UNCHANGED op
          \/ Scratch!Start("delete", "removing", a, record[a].path)
          \/ Scratch!Start("promote", "allocating", a, record[a].path)
          \/ Scratch!Start("timer", "removing", a, record[a].path)
      BY <1>8
         DEF Scratch!KeepScratchWorkspace, Scratch!DeleteScratchWorkspace,
             Scratch!PromoteScratchWorkspace, Scratch!CleanupTimerFires
    <3> QED
      BY <3>1, <3>2, StartKeeps
  <2> QED
    BY <1>8, <2>1, <2>2, WorkFrame
       DEF Scratch!KeepScratchWorkspace, Scratch!DeleteScratchWorkspace,
           Scratch!PromoteScratchWorkspace, Scratch!CleanupTimerFires
<1>9. CASE Scratch!StopService
  BY <1>9
     DEF Scratch!StopService, WorkIsAccounted, Expected, Recorded, Taken,
         Scratch!agents
<1>10. CASE Scratch!Restart
  BY <1>10
     DEF Scratch!Restart, WorkIsAccounted, Expected, Recorded, Scratch!NoRecord
<1> QED
  BY <1>1, <1>2, <1>3, <1>4, <1>5, <1>6, <1>7, <1>8, <1>9, <1>10
     DEF Scratch!Next, Scratch!OpStep, Scratch!AgentStep

(* An undecided directory that has a timer, or is being removed, still has *)
(* while no timer is cleared and operations under way go on.               *)
LEMMA ComingFrame ==
  ASSUME Scratch!DecisionIsComing, \A k \in Slots : OpBusy(k) => op'[k] = op[k],
         armed \subseteq armed', service' = service,
         \A a \in Launched : Scratch!Undecided(a)' => Scratch!Undecided(a)
  PROVE  Scratch!DecisionIsComing'
  BY DEF Scratch!DecisionIsComing, OpBusy

(* Every step leaves the decision about a scratch directory coming.        *)
LEMMA DecisionStep ==
  ASSUME TypeOK, Scratch!DecisionIsComing, [Scratch!Next]_(Scratch!vars)
  PROVE  Scratch!DecisionIsComing'
<1> DEFINE Removing(a) ==
      \E j \in Slots : op[j].a = a /\ op[j].pc \in {"removing", "removed"}
<1>1. CASE UNCHANGED Scratch!vars
  BY <1>1
     DEF Scratch!DecisionIsComing, Scratch!Undecided, Scratch!vars,
         Scratch!agents, Scratch!scratch, Scratch!process
<1>2. ASSUME NEW j \in Slots,
             \/ Scratch!AllocatePromotedPath(j) \/ Scratch!Moves(j)
             \/ Scratch!MoveFails(j) \/ Scratch!RemoveScratchDir(j)
      PROVE  Scratch!DecisionIsComing'
  <2>1. \A a \in Launched : Removing(a) => Removing(a)'
    BY <1>2
       DEF Scratch!AllocatePromotedPath, Scratch!Moves, Scratch!MoveFails,
           Scratch!RemoveScratchDir, TypeOK, Operations
  <2>2. UNCHANGED <<record, armed, service>>
    BY <1>2
       DEF Scratch!AllocatePromotedPath, Scratch!Moves, Scratch!MoveFails,
           Scratch!RemoveScratchDir, Scratch!scratch, Scratch!process
  <2> QED
    BY <2>1, <2>2 DEF Scratch!DecisionIsComing, Scratch!Undecided
<1>3. ASSUME NEW j \in Slots, Scratch!Removed(j) \/ Scratch!Promoted(j)
      PROVE  Scratch!DecisionIsComing'
  <2>1. \A a \in Launched : a # op[j].a /\ Removing(a) => Removing(a)'
    BY <1>3 DEF Scratch!Removed, Scratch!Promoted, TypeOK
  <2>2. \A a \in Launched : Scratch!Undecided(a)' => a # op[j].a /\ Scratch!Undecided(a)
    BY <1>3
       DEF Scratch!Removed, Scratch!Promoted, Scratch!Forgets,
           Scratch!Undecided, Scratch!NoRecord, TypeOK
  <2>3. UNCHANGED service /\ armed' = armed \ {op[j].a}
    BY <1>3
       DEF Scratch!Removed, Scratch!Promoted, Scratch!ClearScratchCleanupTimer,
           Scratch!process
  <2> QED
    BY <2>1, <2>2, <2>3 DEF Scratch!DecisionIsComing
<1>4. ASSUME NEW a \in Launched, Scratch!CreateScratchDir(a)
      PROVE  Scratch!DecisionIsComing'
  BY <1>4
     DEF Scratch!CreateScratchDir, Scratch!DecisionIsComing, Scratch!Undecided,
         Scratch!scratch, Scratch!process
<1>5. ASSUME NEW a \in Launched, Scratch!TerminalEvent(a)
      PROVE  Scratch!DecisionIsComing'
  <2>1. PICK policy \in Policies :
          IF policy = "ephemeral"
          THEN /\ Scratch!Start("register", "removing", a, Scratch!Scratch(a))
               /\ UNCHANGED Scratch!scratch
          ELSE /\ UNCHANGED op
               /\ record' = [record EXCEPT ![a] =
                    [status |-> IF policy = "persistent" THEN "kept" ELSE policy,
                     path |-> Scratch!Scratch(a)]]
               /\ IF policy = "persistent" THEN armed' = armed \ {a}
                  ELSE armed' = armed \cup {a}
    BY <1>5
       DEF Scratch!TerminalEvent, Scratch!RegisterScratchWorkspace,
           Scratch!scratch, Scratch!ClearScratchCleanupTimer,
           Scratch!ScheduleScratchCleanup
  <2>2. UNCHANGED service
    BY <1>5 DEF Scratch!TerminalEvent, Scratch!process
  <2>3. CASE policy = "ephemeral"
    <3>1. /\ Scratch!Scratch(a) \in SomePath
          /\ "register" \in OpKinds /\ "removing" \in Locations
      BY PathsDiffer DEF SomePath, OpKinds, Locations
    <3>2. \A k \in Slots : OpBusy(k) => op'[k] = op[k]
      BY <2>1, <2>3, <3>1, StartKeeps
    <3> QED
      BY <2>1, <2>2, <2>3, <3>2, ComingFrame
         DEF Scratch!scratch, Scratch!Undecided
  <2>4. CASE policy # "ephemeral"
    BY <2>1, <2>2, <2>4 DEF Scratch!DecisionIsComing, Scratch!Undecided, TypeOK
  <2> QED
    BY <2>3, <2>4
<1>6. ASSUME NEW a \in Launched, Scratch!KeepScratchWorkspace(a)
      PROVE  Scratch!DecisionIsComing'
  BY <1>6
     DEF Scratch!KeepScratchWorkspace, Scratch!ClearScratchCleanupTimer,
         Scratch!Act, Scratch!DecisionIsComing, Scratch!Undecided, TypeOK
<1>7. ASSUME NEW a \in Launched,
             \/ Scratch!DeleteScratchWorkspace(a)
             \/ Scratch!PromoteScratchWorkspace(a)
      PROVE Scratch!DecisionIsComing'
  <2>1. /\ record[a].path \in SomePath
        /\ {"delete", "promote"} \subseteq OpKinds
        /\ {"removing", "allocating"} \subseteq Locations
    BY DEF TypeOK, OpKinds, Locations
  <2>2. \A k \in Slots : OpBusy(k) => op'[k] = op[k]
    BY <1>7, <2>1, StartKeeps
       DEF Scratch!DeleteScratchWorkspace, Scratch!PromoteScratchWorkspace
  <2> QED
    BY <1>7, <2>2, ComingFrame
       DEF Scratch!DeleteScratchWorkspace, Scratch!PromoteScratchWorkspace,
           Scratch!Act, Scratch!Undecided, Scratch!scratch
<1>8. ASSUME NEW a \in Launched, Scratch!CleanupTimerFires(a)
      PROVE  Scratch!DecisionIsComing'
  <2>1. armed' = armed \ {a} /\ UNCHANGED service
    BY <1>8
       DEF Scratch!CleanupTimerFires, Scratch!ClearScratchCleanupTimer,
           Scratch!process
  <2>2. CASE UNCHANGED record /\ Scratch!Start("timer", "removing", a, record[a].path)
    <3>1. /\ record[a].path \in SomePath
          /\ "timer" \in OpKinds /\ "removing" \in Locations
      BY DEF TypeOK, OpKinds, Locations
    <3>2. /\ \A k \in Slots : OpBusy(k) => op'[k] = op[k]
          /\ \E k \in Slots : op'[k].a = a /\ op'[k].pc = "removing"
      BY <2>2, <3>1, StartKeeps
    <3> QED
      BY <2>1, <2>2, <3>2
         DEF Scratch!DecisionIsComing, Scratch!Undecided, OpBusy
  <2>3. CASE Scratch!Forgets(a) /\ UNCHANGED op
    BY <2>1, <2>3
       DEF Scratch!Forgets, Scratch!NoRecord, Scratch!DecisionIsComing,
           Scratch!Undecided, TypeOK
  <2> QED
    BY <1>8, <2>2, <2>3 DEF Scratch!CleanupTimerFires
<1>9. CASE Scratch!StopService
  BY <1>9 DEF Scratch!StopService, Scratch!DecisionIsComing
<1>10. CASE Scratch!Restart
  BY <1>10
     DEF Scratch!Restart, Scratch!DecisionIsComing, Scratch!Undecided,
         Scratch!NoRecord
<1> QED
  BY <1>1, <1>2, <1>3, <1>4, <1>5, <1>6, <1>7, <1>8, <1>9, <1>10
     DEF Scratch!Next, Scratch!OpStep, Scratch!AgentStep

(* Every step keeps the inductive invariant.                               *)
LEMMA ScratchStepInv == ScratchInv /\ [Scratch!Next]_(Scratch!vars) => ScratchInv'
  BY TypeStep, OwnedStep, WorkStep, DecisionStep DEF ScratchInv

(* So does a stop() that has not yet come to the scratch directories.      *)
LEMMA StoppingInv ==
  ASSUME ScratchInv, UNCHANGED <<Scratch!agents, Scratch!scratch, op, disk>>,
         service' = "up" => service = "up"
  PROVE  ScratchInv'
<1>1. TypeOK' /\ Owned'
  BY DEF ScratchInv, TypeOK, Owned, RecordOwned, OpOwned, Recorded, OpBusy,
         Scratch!agents, Scratch!scratch
<1>2. WorkIsAccounted'
  BY DEF ScratchInv, WorkIsAccounted, Expected, Recorded, Taken,
         Scratch!agents, Scratch!scratch
<1>3. Scratch!DecisionIsComing'
  BY DEF ScratchInv, Scratch!DecisionIsComing, Scratch!Undecided,
         Scratch!scratch
<1> QED
  BY <1>1, <1>2, <1>3 DEF ScratchInv

(* The inductive invariant implies what the runs check.                    *)
LEMMA Implied == ScratchInv => Scratch!KeptIsThere /\ Scratch!DecisionIsComing
<1>1. ScratchInv => Scratch!KeptIsThere
  <2> SUFFICES ASSUME ScratchInv, NEW a \in Launched,
                      record[a] = [status |-> "kept", path |-> Scratch!Scratch(a)],
                      \A j \in Slots : op[j].a = a => op[j].pc = "free"
               PROVE  disk[Scratch!Scratch(a)] = a
    BY DEF Scratch!KeptIsThere
  <2>1. Expected(a)
    BY DEF Expected, Recorded
  <2>2. ~Taken(a)
    BY DEF Taken
  <2> QED
    BY <2>1, <2>2 DEF ScratchInv, WorkIsAccounted
<1> QED
  BY <1>1 DEF ScratchInv

(* A launch never starts the service.                                      *)
LEMMA LaunchOnlyStops == Launch!Next => (service' = "up" => service = "up")
<1>1. ASSUME NEW c \in Agents, Launch!LaunchStep(c) PROVE UNCHANGED service
  BY <1>1
     DEF Launch!LaunchStep, Launch!Plans, Launch!CreateScratchDir,
         Launch!FindsDirectory, Launch!ValidatesWorkdir,
         Launch!RunBenchmarkPreflight, Launch!Preflight,
         Launch!PrepareSkillAwareness, Launch!CreateTaskThread, Launch!SpawnSession,
         Launch!RegisterTask, Launch!AnswersSpawn, Launch!Reports, Launch!process
<1>2. ASSUME NEW c \in Agents, Launch!CloneStep(c) PROVE UNCHANGED service
  BY <1>2
     DEF Launch!CloneStep, Launch!ResolveDefaultBranch, Launch!Provisioned,
         Launch!ProvisionFails, Launch!GitStep, Launch!GetStatus, Launch!Commit,
         Launch!Push, Launch!Finalized, Launch!GitFails, Launch!Cleanup,
         Launch!CleanupFails, Launch!RemoveWorkspace, Launch!process
<1>3. Launch!LookupDefaultBranch \/ Launch!BenchmarkPreflightEnds
        => UNCHANGED service
  BY DEF Launch!LookupDefaultBranch, Launch!BenchmarkPreflightEnds, Launch!process
<1>4. Launch!StopStep \/ Launch!StopBegins => (service' = "up" => service = "up")
  BY DEF Launch!StopStep, Launch!StopRemoves, Launch!StopEnds, Launch!StopBegins
<1>5. ASSUME NEW kind \in Kinds, NEW n \in Agents, Launch!Request(kind, n)
      PROVE  UNCHANGED service
  BY <1>5 DEF Launch!Request, Launch!process
<1>6. Agents = Launch!Agents
  BY DEF Agents, Launch!Agents
<1> QED
  BY <1>1, <1>2, <1>3, <1>4, <1>5, <1>6 DEF Launch!Next, Launch!Runs

(* The inductive invariant of the scratch directories, of the service: who *)
(* works on a directory is its agent's, and work that is not where its     *)
(* agent left it is in the hands of an operation that has yet to note it.  *)
THEOREM ScratchInvariant == Spec => []ScratchInv
<1>1. Init => ScratchInv
  BY ScratchInitInv DEF Init
<1>2. ScratchInv /\ [Next]_vars => ScratchInv'
  <2> SUFFICES ASSUME ScratchInv, [Next]_vars PROVE ScratchInv'
    OBVIOUS
  <2>1. CASE ScratchNext
    BY <2>1, ScratchStepInv DEF ScratchNext
  <2>2. CASE LaunchNext \/ UNCHANGED vars
    <3>1. UNCHANGED <<Scratch!agents, Scratch!scratch, op, disk>>
      BY <2>2 DEF LaunchNext, vars, scratchVars, Scratch!agents, Scratch!scratch
    <3>2. service' = "up" => service = "up"
      BY <2>2, LaunchOnlyStops DEF LaunchNext, vars
    <3> QED
      BY <3>1, <3>2, StoppingInv
  <2> QED
    BY <2>1, <2>2 DEF Next
<1> QED
  BY <1>1, <1>2, PTL DEF Spec

(* A kept scratch directory that nobody is removing or moving is there     *)
(* (workspace-service.ts:583-697, 775-792).                                *)
THEOREM KeptIsThereHolds == Spec => []KeptIsThere
<1>1. ScratchInv => KeptIsThere
  BY Implied DEF KeptIsThere
<1> QED
  BY <1>1, ScratchInvariant, PTL

(* An undecided scratch directory has a timer or is being removed, until   *)
(* the service stops (workspace-service.ts:583-640, 775-792).              *)
THEOREM DecisionIsComingHolds == Spec => []DecisionIsComing
<1>1. ScratchInv => DecisionIsComing
  BY Implied DEF DecisionIsComing
<1> QED
  BY <1>1, ScratchInvariant, PTL

-----------------------------------------------------------------------------
(* The inductive invariant: a number is given out once, and the workspace  *)
(* of an agent is made once; so no clone comes back that was removed, and  *)
(* who has removed one has only its entry left to forget.                  *)
Injective(q) == \A i, j \in DOMAIN q : q[i] = q[j] => i = j
IsCall(r) == r = [pc |-> r.pc, kind |-> r.kind, todo |-> r.todo, space |-> r.space]
\* The first agent of the list has its directory; the others are to come.
Made == {"preflight", "preparing", "spawning", "registering"}
Coming(r) == {r.todo[i] : i \in {k \in DOMAIN r.todo : k # 1 \/ r.pc \notin Made}}
CallSound(c, r) ==
  /\ IsCall(r)
  /\ r.todo \in Seq(1 .. asked) /\ Injective(r.todo)
  /\ r.space \in 1 .. asked \cup {None}
  /\ r.pc = "idle" \/ c <= asked
  /\ r.pc \notin {"idle", "done", "reporting"} => r.todo # <<>>
  /\ r.pc \in {"removing", "removed"} => r.space # None
  /\ r.pc = "removed" => r.space \notin clones
Separate ==
  \A c, d \in Launch!Agents :
    c # d => Launch!ToSet(call[c].todo) \cap Launch!ToSet(call[d].todo) = {}
Unmade ==
  \A c \in Launch!Agents : \A a \in Coming(call[c]) :
    /\ a \notin Launch!Tracked /\ a \notin clones
    /\ \A d \in Launch!Agents : call[d].space # a
InstallerSound ==
  \/ installer = None
  \/ installer \in Launch!Agents /\ Launch!At(installer, "installing")
LabelsKnown ==
  service = "up" =>
    \A l \in Labels : labels[l] = None \/ labels[l] \in Launch!Tracked
LaunchInv ==
  /\ asked \in 0 .. MaxAgents
  /\ DOMAIN call = Launch!Agents /\ (\A c \in Launch!Agents : CallSound(c, call[c]))
  /\ Separate /\ Unmade /\ InstallerSound
  /\ spaces \in Seq(1 .. asked) /\ Injective(spaces) /\ clones \subseteq 1 .. asked
  /\ DOMAIN label = Launch!Agents /\ DOMAIN labels = Labels /\ LabelsKnown
  /\ Launch!MapsAgree

(* What a sequence is after the entry at k is removed.                     *)
LEMMA RemoveAtSeq ==
  ASSUME NEW S, NEW q \in Seq(S), NEW k \in 1 .. Len(q)
  PROVE  /\ Launch!RemoveAt(q, k) \in Seq(S)
         /\ Len(Launch!RemoveAt(q, k)) = Len(q) - 1
         /\ \A i \in 1 .. Len(q) - 1 :
              Launch!RemoveAt(q, k)[i] = IF i < k THEN q[i] ELSE q[i + 1]
<1>1. PICK l, r : l = SubSeq(q, 1, k - 1) /\ r = SubSeq(q, k + 1, Len(q))
  OBVIOUS
<1>2. PICK u, n, m : u = l \o r /\ n = Len(q) /\ m = Len(l)
  OBVIOUS
<1>3. n \in Nat /\ k \in 1 .. n /\ m = k - 1 /\ Len(r) = n - k
  BY <1>1, <1>2
<1>4. /\ l \in Seq(S) /\ \A i \in 1 .. k - 1 : l[i] = q[i]
      /\ r \in Seq(S) /\ \A i \in 1 .. n - k : r[i] = q[i + k]
  <2>1. l \in Seq(S) /\ \A i \in 1 .. k - 1 : l[i] = q[i]
    BY <1>1
  <2>2. r \in Seq(S) /\ \A i \in 1 .. Len(q) - k : r[i] = q[i + k]
    BY <1>1
  <2> QED
    BY <1>2, <2>1, <2>2
<1>6. /\ u \in Seq(S) /\ Len(u) = m + Len(r)
      /\ \A i \in 1 .. m + Len(r) : u[i] = IF i <= m THEN l[i] ELSE r[i - m]
  <2>1. l \in Seq(S) /\ r \in Seq(S)
    BY <1>4
  <2> QED
    BY <1>2, <2>1, ConcatProperties
<1>7. /\ Len(u) = n - 1
      /\ \A i \in 1 .. n - 1 : u[i] = IF i <= m THEN l[i] ELSE r[i - m]
  <2>1. m + Len(r) = n - 1
    BY <1>3
  <2> QED
    BY <1>6, <2>1
<1>5. ASSUME NEW i \in 1 .. n - 1
      PROVE  u[i] = IF i < k THEN q[i] ELSE q[i + 1]
  <2>1. CASE i < k
    <3>1. i <= m /\ i \in 1 .. k - 1
      BY <1>3, <2>1
    <3> QED
      BY <1>4, <1>7, <2>1, <3>1
  <2>2. CASE ~(i < k)
    <3>1. i - m \in 1 .. n - k /\ i - m + k = i + 1 /\ ~(i <= m)
      BY <1>3, <2>2
    <3> QED
      BY <1>4, <1>7, <2>2, <3>1
  <2> QED
    BY <2>1, <2>2
<1>8. Launch!RemoveAt(q, k) = u
  BY <1>1, <1>2 DEF Launch!RemoveAt
<1> QED
  BY <1>2, <1>5, <1>6, <1>7, <1>8

(* Of a sequence without duplicates exactly one entry is removed.          *)
LEMMA RemoveFirstSet ==
  ASSUME NEW S, NEW q \in Seq(S), Injective(q), NEW w
  PROVE  /\ Launch!RemoveFirst(q, w) \in Seq(S)
         /\ Injective(Launch!RemoveFirst(q, w))
         /\ Launch!ToSet(Launch!RemoveFirst(q, w)) = Launch!ToSet(q) \ {w}
<1>1. CASE \E k \in 1 .. Len(q) : q[k] = w
  <2>1. PICK k \in 1 .. Len(q) : q[k] = w
    BY <1>1
  <2>2. {i \in 1 .. Len(q) : q[i] = w} = {k}
    BY <2>1 DEF Injective
  <2>3. Launch!Min({k}) = k
    BY DEF Launch!Min
  <2>4. Launch!RemoveFirst(q, w) = Launch!RemoveAt(q, k)
    BY <1>1, <2>2, <2>3 DEF Launch!RemoveFirst, Launch!SelectInSeq
  <2>5. PICK r : r = Launch!RemoveAt(q, k)
    OBVIOUS
  <2>6. /\ r \in Seq(S) /\ Len(r) = Len(q) - 1
        /\ \A i \in 1 .. Len(q) - 1 : r[i] = IF i < k THEN q[i] ELSE q[i + 1]
    BY <2>5, RemoveAtSeq
  <2>7. Injective(r)
    <3>1. PICK f : f = [i \in 1 .. Len(r) |-> IF i < k THEN i ELSE i + 1]
      OBVIOUS
    <3>2. DOMAIN r = 1 .. Len(r) /\ DOMAIN q = 1 .. Len(q) /\ Len(q) \in Nat
      BY <2>6
    <3>3. \A i \in 1 .. Len(r) : f[i] \in DOMAIN q /\ r[i] = q[f[i]]
      BY <2>1, <2>6, <3>1, <3>2
    <3>4. \A i, j \in 1 .. Len(r) : f[i] = f[j] => i = j
      BY <2>6, <3>1, <3>2
    <3> SUFFICES ASSUME NEW i \in 1 .. Len(r), NEW j \in 1 .. Len(r), r[i] = r[j]
                 PROVE  i = j
      BY <3>2 DEF Injective
    <3>5. f[i] \in DOMAIN q /\ f[j] \in DOMAIN q /\ q[f[i]] = q[f[j]]
      BY <3>3
    <3>6. f[i] = f[j]
      BY <3>5 DEF Injective
    <3> QED
      BY <3>4, <3>6
  <2>8. ASSUME NEW x \in Launch!ToSet(r) PROVE x \in Launch!ToSet(q) \ {w}
    BY <2>1, <2>6 DEF Launch!ToSet, Injective
  <2>9. ASSUME NEW x \in Launch!ToSet(q) \ {w} PROVE x \in Launch!ToSet(r)
    <3>1. PICK i \in 1 .. Len(q) : q[i] = x /\ i # k
      BY <2>1 DEF Launch!ToSet
    <3>2. CASE i < k
      <4>1. i \in 1 .. Len(r) /\ r[i] = x
        BY <2>6, <3>1, <3>2
      <4> QED
        BY <2>6, <4>1 DEF Launch!ToSet
    <3>3. CASE i > k
      <4>1. i - 1 \in 1 .. Len(r) /\ r[i - 1] = x
        BY <2>6, <3>1, <3>3
      <4> QED
        BY <2>6, <4>1 DEF Launch!ToSet
    <3> QED
      BY <3>1, <3>2, <3>3
  <2> QED
    BY <2>4, <2>5, <2>6, <2>7, <2>8, <2>9
<1>2. CASE ~ \E k \in 1 .. Len(q) : q[k] = w
  BY <1>2 DEF Launch!RemoveFirst, Launch!ToSet
<1> QED
  BY <1>1, <1>2

(* What remains of a list when its first agent is done.                    *)
LEMMA TailFacts ==
  ASSUME NEW S, NEW q \in Seq(S), Injective(q), q # <<>>
  PROVE  /\ Tail(q) \in Seq(S) /\ Injective(Tail(q)) /\ Len(Tail(q)) = Len(q) - 1
         /\ Head(q) \in Launch!ToSet(q) /\ Head(q) = q[1]
         /\ \A x \in Launch!ToSet(Tail(q)) :
              x # Head(q) /\ \E i \in DOMAIN q : i # 1 /\ q[i] = x
<1>1. PICK r : r = Tail(q)
  OBVIOUS
<1>2. /\ r \in Seq(S) /\ Len(r) = Len(q) - 1
      /\ \A i \in 1 .. Len(r) : r[i] = q[i + 1]
  BY <1>1, HeadTailProperties
<1>3. Injective(r)
  <2>1. DOMAIN r = 1 .. Len(r) /\ DOMAIN q = 1 .. Len(q) /\ Len(q) \in Nat
    BY <1>2
  <2> SUFFICES ASSUME NEW i \in 1 .. Len(r), NEW j \in 1 .. Len(r), r[i] = r[j]
               PROVE  i = j
    BY <2>1 DEF Injective
  <2>2. i + 1 \in DOMAIN q /\ j + 1 \in DOMAIN q /\ q[i + 1] = q[j + 1]
    BY <1>2, <2>1
  <2>3. i + 1 = j + 1
    BY <2>2 DEF Injective
  <2> QED
    BY <2>3
<1>4. 1 \in DOMAIN q /\ Head(q) = q[1]
  OBVIOUS
<1>5. ASSUME NEW x \in Launch!ToSet(r)
      PROVE  x # q[1] /\ \E i \in DOMAIN q : i # 1 /\ q[i] = x
  <2>1. PICK i \in 1 .. Len(r) : x = r[i]
    BY <1>2, <1>5 DEF Launch!ToSet
  <2>2. i + 1 \in DOMAIN q /\ i + 1 # 1 /\ q[i + 1] = x
    BY <1>2, <2>1
  <2> QED
    BY <1>4, <2>2 DEF Injective
<1> QED
  BY <1>1, <1>2, <1>3, <1>4, <1>5 DEF Launch!ToSet

(* What is in a list of agents, ...                                        *)
LEMMA EntryIn ==
  ASSUME NEW S, NEW q \in Seq(S), NEW i \in DOMAIN q
  PROVE  q[i] \in S /\ q[i] \in Launch!ToSet(q)
<1>1. DOMAIN q = 1 .. Len(q)
  OBVIOUS
<1> QED
  BY <1>1 DEF Launch!ToSet

(* ... and what is when one more is.                                       *)
LEMMA AppendFacts ==
  ASSUME NEW S, NEW q \in Seq(S), Injective(q), NEW a \in S,
         a \notin Launch!ToSet(q)
  PROVE  /\ Append(q, a) \in Seq(S) /\ Injective(Append(q, a))
         /\ Launch!ToSet(Append(q, a)) = Launch!ToSet(q) \cup {a}
<1>1. PICK p : p = Append(q, a)
  OBVIOUS
<1>2. /\ p \in Seq(S) /\ Len(p) = Len(q) + 1 /\ p[Len(p)] = a
      /\ \A i \in 1 .. Len(q) : p[i] = q[i]
  BY <1>1
<1>3. DOMAIN p = 1 .. Len(q) + 1 /\ DOMAIN q = 1 .. Len(q) /\ Len(q) \in Nat
  BY <1>2
<1>4. \A i \in DOMAIN q : p[i] = q[i] /\ p[i] # a
  BY <1>2, <1>3 DEF Launch!ToSet
<1>5. Injective(p)
  BY <1>2, <1>3, <1>4 DEF Injective
<1>6. Launch!ToSet(p) = Launch!ToSet(q) \cup {a}
  <2>1. ASSUME NEW x \in Launch!ToSet(p) PROVE x \in Launch!ToSet(q) \cup {a}
    BY <1>2, <1>3, <1>4, <2>1 DEF Launch!ToSet
  <2>2. ASSUME NEW x \in Launch!ToSet(q) PROVE x \in Launch!ToSet(p)
    <3>1. PICK i \in DOMAIN q : x = q[i]
      BY <2>2 DEF Launch!ToSet
    <3>2. i \in DOMAIN p /\ p[i] = x
      BY <1>3, <1>4, <3>1
    <3> QED
      BY <3>2 DEF Launch!ToSet
  <2>3. a \in Launch!ToSet(p)
    <3>1. Len(p) \in DOMAIN p
      BY <1>2, <1>3
    <3> QED
      BY <1>2, <3>1 DEF Launch!ToSet
  <2> QED
    BY <2>1, <2>2, <2>3
<1> QED
  BY <1>1, <1>2, <1>5, <1>6

(* Nobody has been asked, and there is no workspace.                       *)
LEMMA LaunchInitInv == Launch!Init => LaunchInv
<1> SUFFICES ASSUME Launch!Init PROVE LaunchInv
  OBVIOUS
<1>1. MaxAgents \in Nat /\ None \notin Nat /\ None \notin Labels
  BY WorkspaceAssumption DEF Launch!LaunchAssumption
<1>2. <<>> \in Seq(1 .. asked) /\ Injective(<<>>) /\ Launch!ToSet(<<>>) = {}
  BY DEF Injective, Launch!ToSet
<1>3. ASSUME NEW c \in Launch!Agents
      PROVE  CallSound(c, call[c]) /\ Coming(call[c]) = {} /\ call[c].todo = <<>>
  <2>1. call[c] = [pc |-> "idle", kind |-> "none", todo |-> <<>>, space |-> None]
    BY DEF Launch!Init
  <2>2. /\ call[c].todo = <<>> /\ call[c].space = None /\ call[c].pc = "idle"
        /\ IsCall(call[c])
    BY <2>1 DEF IsCall
  <2> QED
    BY <1>2, <2>2 DEF CallSound, Coming
<1>4. Separate /\ Unmade
  BY <1>2, <1>3 DEF Separate, Unmade
<1>5. Launch!MapsAgree
  BY <1>1, <1>2
     DEF Launch!Init, Launch!MapsAgree, Launch!LabelsAgree, Launch!ClonesAreTracked,
         Launch!Tracked, Launch!Agents
<1> QED
  BY <1>1, <1>2, <1>3, <1>4, <1>5
     DEF Launch!Init, LaunchInv, InstallerSound, LabelsKnown

(* A call that goes on without making or removing a workspace.             *)
Proceeds(c, r) ==
  /\ c <= asked /\ call[c].pc # "removed" /\ IsCall(r)
  /\ r.todo \in Seq(1 .. asked) /\ Injective(r.todo)
  /\ Launch!ToSet(r.todo) \subseteq Launch!ToSet(call[c].todo)
  /\ Coming(r) \subseteq Coming(call[c])
  /\ r.space \in {call[c].space, None} \cup Launch!Tracked
  /\ r.pc \notin {"idle", "removing", "removed"}
  /\ r.pc \notin {"done", "reporting"} => r.todo # <<>>
CallsProceed ==
  /\ DOMAIN call' = Launch!Agents /\ InstallerSound'
  /\ \A c \in Launch!Agents : call'[c] = call[c] \/ Proceeds(c, call'[c])

(* Steps of such calls alone.                                              *)
LEMMA CallsKeep ==
  ASSUME LaunchInv, CallsProceed, UNCHANGED <<asked, Launch!maps, service>>
  PROVE  LaunchInv'
<1> USE DEF Launch!maps
<1>1. Launch!Tracked' = Launch!Tracked /\ Launch!Tracked \subseteq 1 .. asked
  BY DEF LaunchInv, Launch!Tracked, Launch!ToSet
<1>2. ASSUME NEW c \in Launch!Agents
      PROVE  /\ CallSound(c, call[c])'
             /\ Launch!ToSet(call'[c].todo) \subseteq Launch!ToSet(call[c].todo)
             /\ Coming(call'[c]) \subseteq Coming(call[c])
             /\ call'[c].space \in {call[c].space, None} \cup Launch!Tracked
             /\ call[c].pc = "removed" => call'[c] = call[c]
  BY <1>1 DEF LaunchInv, CallsProceed, CallSound, Proceeds
<1>3. Separate'
  BY <1>2 DEF LaunchInv, Separate
<1>4. Unmade'
  <2> SUFFICES ASSUME NEW c \in Launch!Agents, NEW a \in Coming(call'[c]),
                      NEW d \in Launch!Agents
               PROVE  /\ a \notin Launch!Tracked /\ a \notin clones
                      /\ call'[d].space # a
    BY <1>1 DEF Unmade
  <2>1. a \in Coming(call[c])
    BY <1>2
  <2>2. a \notin Launch!Tracked /\ a \notin clones /\ call[d].space # a
    BY <2>1 DEF LaunchInv, Unmade
  <2>3. a # None
    BY <2>1, WorkspaceAssumption
       DEF LaunchInv, CallSound, Coming, Launch!LaunchAssumption
  <2> QED
    BY <1>2, <2>2, <2>3
<1>5. Launch!MapsAgree' /\ LabelsKnown'
  <2>1. Launch!LabelsAgree' /\ LabelsKnown'
    BY <1>1 DEF LaunchInv, LabelsKnown, Launch!MapsAgree, Launch!LabelsAgree
  <2>2. Launch!ClonesAreTracked'
    BY <1>1, <1>2
       DEF LaunchInv, Launch!MapsAgree, Launch!ClonesAreTracked, Launch!At
  <2> QED
    BY <2>1, <2>2 DEF Launch!MapsAgree
<1> QED
  BY <1>1, <1>2, <1>3, <1>4, <1>5 DEF LaunchInv, CallsProceed

(* Of one call at a time, which is not the one that installs.              *)
LEMMA OneCall ==
  ASSUME LaunchInv, NEW c \in Launch!Agents, DOMAIN call' = Launch!Agents,
         \A d \in Launch!Agents \ {c} : call'[d] = call[d], Proceeds(c, call'[c]),
         call[c].pc # "installing",
         UNCHANGED <<asked, installer, Launch!maps, service>>
  PROVE  LaunchInv'
<1>1. InstallerSound'
  BY DEF LaunchInv, InstallerSound, Launch!At
<1>2. CallsProceed
  BY <1>1 DEF CallsProceed
<1> QED
  BY <1>2, CallsKeep

\* Where an agent of a call is seen to.
Busy == {"planning", "workspace", "benchmark", "sharing", "preflight", "preparing",
         "spawning", "registering", "branch", "cloning", "refused", "validating",
         "status", "commit", "push", "pr", "removing", "installing"}

(* What one call writes of itself: where it goes on, ...                   *)
LEMMA PcProceeds ==
  ASSUME LaunchInv, NEW c \in Launch!Agents, call[c].pc \in Busy,
         NEW pc \in Busy \cup {"done"},
         pc # "removing", call[c].pc \in Made => pc \in Made,
         NEW r, r = [call[c] EXCEPT !.pc = pc]
  PROVE  Proceeds(c, r) /\ r.pc = pc
<1>1. CallSound(c, call[c])
  BY DEF LaunchInv
<1>2. /\ IsCall(r) /\ r.pc = pc /\ r.todo = call[c].todo /\ r.space = call[c].space
  BY <1>1 DEF CallSound, IsCall
<1>3. Coming(r) \subseteq Coming(call[c])
  BY <1>2 DEF Coming, Busy, Made
<1> QED
  BY <1>1, <1>2, <1>3 DEF CallSound, Proceeds, Busy

LEMMA GotoProceeds ==
  ASSUME LaunchInv, NEW c \in Launch!Agents, call[c].pc \in Busy,
         NEW pc \in Busy \cup {"done"},
         pc # "removing", call[c].pc \in Made => pc \in Made, Launch!Goto(c, pc)
  PROVE  /\ DOMAIN call' = Launch!Agents
         /\ \A d \in Launch!Agents \ {c} : call'[d] = call[d]
         /\ Proceeds(c, call'[c]) /\ UNCHANGED asked
<1>1. PICK r : r = call'[c]
  OBVIOUS
<1>2. /\ r = [call[c] EXCEPT !.pc = pc] /\ DOMAIN call' = Launch!Agents
      /\ \A d \in Launch!Agents \ {c} : call'[d] = call[d]
  BY <1>1 DEF Launch!Goto, LaunchInv
<1>3. Proceeds(c, r)
  BY <1>2, PcProceeds
<1> QED
  BY <1>1, <1>2, <1>3 DEF Launch!Goto, Launch!numbers

(* ... the next agent, ...                                                 *)
LEMMA NextProceeds ==
  ASSUME LaunchInv, NEW c \in Launch!Agents, call[c].pc \in Busy, NEW result,
         Launch!NextAgent(c, result)
  PROVE  /\ DOMAIN call' = Launch!Agents
         /\ \A d \in Launch!Agents \ {c} : call'[d] = call[d]
         /\ Proceeds(c, call'[c]) /\ UNCHANGED asked
         /\ Launch!Agent(c) \notin Coming(call'[c])
         /\ call'[c].space = call[c].space
<1>1. /\ CallSound(c, call[c]) /\ DOMAIN call = Launch!Agents /\ call[c].todo # <<>>
      /\ c <= asked
  BY DEF LaunchInv, CallSound, Busy
<1>2. PICK r, q : r = call'[c] /\ q = Tail(call[c].todo)
  OBVIOUS
<1>3. PICK pc : pc = CASE Len(call[c].todo) > 1 -> "workspace"
                       [] Launch!IsTask(c) /\ Len(call[c].todo) = 1 -> "reporting"
                       [] OTHER -> "done"
  OBVIOUS
<1>4. /\ r = [call[c] EXCEPT !.todo = q, !.pc = pc] /\ DOMAIN call' = Launch!Agents
      /\ \A d \in Launch!Agents \ {c} : call'[d] = call[d]
  BY <1>1, <1>2, <1>3 DEF Launch!NextAgent
<1>5. IsCall(r) /\ r.pc = pc /\ r.todo = q /\ r.space = call[c].space
  BY <1>1, <1>4 DEF CallSound, IsCall
<1>6. /\ q \in Seq(1 .. asked) /\ Injective(q) /\ Len(q) = Len(call[c].todo) - 1
      /\ \A x \in Launch!ToSet(q) : /\ x # Launch!Agent(c)
                             /\ \E i \in DOMAIN call[c].todo :
                                  i # 1 /\ call[c].todo[i] = x
  <2>1. PICK t : t = call[c].todo
    OBVIOUS
  <2>2. t \in Seq(1 .. asked) /\ Injective(t) /\ t # <<>>
    BY <1>1, <2>1 DEF CallSound
  <2>3. /\ Tail(t) \in Seq(1 .. asked) /\ Injective(Tail(t))
        /\ Len(Tail(t)) = Len(t) - 1
        /\ \A x \in Launch!ToSet(Tail(t)) :
             x # Head(t) /\ \E i \in DOMAIN t : i # 1 /\ t[i] = x
    BY <2>2, TailFacts
  <2>4. q = Tail(t) /\ Launch!Agent(c) = Head(t)
    BY <1>2, <2>1 DEF Launch!Agent
  <2> QED
    BY <2>1, <2>3, <2>4
<1>7. /\ Coming(r) \subseteq Launch!ToSet(q)
      /\ Launch!ToSet(q) \subseteq Coming(call[c])
      /\ Launch!ToSet(q) \subseteq Launch!ToSet(call[c].todo)
  <2>1. ASSUME NEW x \in Coming(r) PROVE x \in Launch!ToSet(q)
    BY <1>5 DEF Coming, Launch!ToSet
  <2>2. ASSUME NEW x \in Launch!ToSet(q)
        PROVE  x \in Coming(call[c]) /\ x \in Launch!ToSet(call[c].todo)
    <3>1. PICK i \in DOMAIN call[c].todo : i # 1 /\ call[c].todo[i] = x
      BY <1>6
    <3> QED
      BY <3>1 DEF Coming, Launch!ToSet
  <2> QED
    BY <2>1, <2>2
<1>8. pc \in {"workspace", "reporting", "done"} /\ (pc = "workspace" => q # <<>>)
  <2>0. Len(call[c].todo) \in Nat
    <3>1. call[c].todo \in Seq(1 .. asked)
      BY <1>1 DEF CallSound
    <3> QED
      BY <3>1
  <2>1. Len(call[c].todo) > 1 => pc = "workspace"
    <3>1. Len(call[c].todo) > 1 => Len(call[c].todo) # 1
      <4>1. \A n \in Nat : n > 1 => n # 1
        OBVIOUS
      <4> QED
        BY <2>0, <4>1, Zenon
    <3> QED
      BY <1>3, <3>1
  <2>2. Launch!IsTask(c) /\ Len(call[c].todo) = 1 => pc = "reporting"
    <3>1. Len(call[c].todo) = 1 => ~(Len(call[c].todo) > 1)
      <4>1. \A n \in Nat : n = 1 => ~(n > 1)
        OBVIOUS
      <4> QED
        BY <2>0, <4>1, Zenon
    <3> QED
      BY <1>3, <3>1
  <2>3. /\ ~(Len(call[c].todo) > 1)
        /\ ~(Launch!IsTask(c) /\ Len(call[c].todo) = 1)
        => pc = "done"
    BY <1>3
  <2>4. Len(call[c].todo) > 1 => q # <<>>
    BY <1>6, <2>0
  <2> QED
    BY <2>1, <2>2, <2>3, <2>4
<1>9. Proceeds(c, r)
  BY <1>1, <1>5, <1>6, <1>7, <1>8 DEF Proceeds, Busy
<1> QED
  BY <1>2, <1>4, <1>5, <1>6, <1>7, <1>9 DEF Launch!NextAgent

(* ... or its end.                                                         *)
LEMMA EndsProceeds ==
  ASSUME LaunchInv, NEW c \in Launch!Agents, call[c].pc \in Busy, NEW result,
         Launch!Ends(c, result)
  PROVE  /\ DOMAIN call' = Launch!Agents
         /\ \A d \in Launch!Agents \ {c} : call'[d] = call[d]
         /\ Proceeds(c, call'[c]) /\ UNCHANGED asked
<1>1. CallSound(c, call[c]) /\ DOMAIN call = Launch!Agents
  BY DEF LaunchInv
<1>2. PICK r : r = call'[c]
  OBVIOUS
<1>3. /\ r = [call[c] EXCEPT !.todo = <<>>, !.pc = "done"]
      /\ DOMAIN call' = Launch!Agents
      /\ \A d \in Launch!Agents \ {c} : call'[d] = call[d]
  BY <1>1, <1>2 DEF Launch!Ends
<1>4. IsCall(r) /\ r.pc = "done" /\ r.todo = <<>> /\ r.space = call[c].space
  BY <1>1, <1>3 DEF CallSound, IsCall
<1>5. /\ <<>> \in Seq(1 .. asked) /\ Injective(<<>>) /\ Coming(r) = {}
      /\ Launch!ToSet(r.todo) = {}
  BY <1>4 DEF Injective, Coming, Launch!ToSet
<1>6. Proceeds(c, r)
  BY <1>1, <1>4, <1>5 DEF CallSound, Proceeds, Busy
<1> QED
  BY <1>2, <1>3, <1>6 DEF Launch!Ends

(* A call that is busy and only goes on, or ends, keeps the invariant.     *)
LEMMA BusyKeeps ==
  ASSUME LaunchInv, NEW c \in Launch!Agents, call[c].pc \in Busy,
         call[c].pc # "installing",
         UNCHANGED <<installer, Launch!maps, service>>,
         \/ \E pc \in Busy \cup {"done"} :
              /\ pc # "removing" /\ (call[c].pc \in Made => pc \in Made)
              /\ Launch!Goto(c, pc)
         \/ \E result : Launch!NextAgent(c, result) \/ Launch!Ends(c, result)
  PROVE  LaunchInv'
<1>1. /\ DOMAIN call' = Launch!Agents
      /\ \A d \in Launch!Agents \ {c} : call'[d] = call[d]
      /\ Proceeds(c, call'[c]) /\ UNCHANGED asked
  BY GotoProceeds, NextProceeds, EndsProceeds
<1> QED
  BY <1>1, OneCall

(* The steps of a launch that only go on, end, or turn to the next agent.  *)
LEMMA LaunchBusy ==
  ASSUME LaunchInv, NEW c \in Launch!Agents,
         \/ Launch!Plans(c) \/ Launch!CreateScratchDir(c) \/ Launch!ValidatesWorkdir(c)
         \/ Launch!Preflight(c) \/ Launch!PrepareSkillAwareness(c)
         \/ Launch!CreateTaskThread(c) \/ Launch!SpawnSession(c)
         \/ Launch!RegisterTask(c) \/ Launch!AnswersSpawn(c)
  PROVE  LaunchInv'
<1> USE DEF Launch!At, Launch!shared, Launch!process, Busy, Made
<1>1. ASSUME Launch!Plans(c) PROVE LaunchInv'
  BY <1>1, BusyKeeps DEF Launch!Plans
<1>2. ASSUME Launch!CreateScratchDir(c) PROVE LaunchInv'
  BY <1>2, BusyKeeps DEF Launch!CreateScratchDir, Launch!Fails
<1>3. ASSUME Launch!ValidatesWorkdir(c) PROVE LaunchInv'
  BY <1>3, BusyKeeps DEF Launch!ValidatesWorkdir
<1>4. ASSUME Launch!Preflight(c) PROVE LaunchInv'
  BY <1>4, BusyKeeps DEF Launch!Preflight, Launch!Fails
<1>5. ASSUME Launch!PrepareSkillAwareness(c) PROVE LaunchInv'
  BY <1>5, BusyKeeps DEF Launch!PrepareSkillAwareness, Launch!Fails
<1>6. ASSUME Launch!CreateTaskThread(c) PROVE LaunchInv'
  BY <1>6, BusyKeeps DEF Launch!CreateTaskThread, Launch!Fails
<1>7. ASSUME Launch!SpawnSession(c) PROVE LaunchInv'
  BY <1>7, BusyKeeps DEF Launch!SpawnSession, Launch!Fails
<1>8. ASSUME Launch!RegisterTask(c) PROVE LaunchInv'
  BY <1>8, BusyKeeps DEF Launch!RegisterTask, Launch!Fails
<1>9. ASSUME Launch!AnswersSpawn(c) PROVE LaunchInv'
  BY <1>9, BusyKeeps DEF Launch!AnswersSpawn
<1> QED
  BY <1>1, <1>2, <1>3, <1>4, <1>5, <1>6, <1>7, <1>8, <1>9

(* So do most of those that are about clones.                              *)
LEMMA CloneBusy ==
  ASSUME LaunchInv, NEW c \in Launch!Agents,
         \/ Launch!ResolveDefaultBranch(c) \/ Launch!ProvisionFails(c)
         \/ Launch!GetStatus(c) \/ Launch!Commit(c) \/ Launch!Push(c)
         \/ Launch!Finalized(c) \/ Launch!GitFails(c) \/ Launch!CleanupFails(c)
  PROVE  LaunchInv'
<1> USE DEF Launch!At, Launch!shared, Launch!process, Busy, Made
<1>1. ASSUME Launch!ResolveDefaultBranch(c) PROVE LaunchInv'
  BY <1>1, BusyKeeps DEF Launch!ResolveDefaultBranch, Launch!Fails
<1>2. ASSUME Launch!ProvisionFails(c) PROVE LaunchInv'
  BY <1>2, BusyKeeps DEF Launch!ProvisionFails, Launch!Fails
<1>3. ASSUME Launch!GetStatus(c) \/ Launch!Commit(c) \/ Launch!Push(c)
      PROVE  LaunchInv'
  BY <1>3, BusyKeeps
     DEF Launch!GetStatus, Launch!Commit, Launch!Push, Launch!GitStep
<1>4. ASSUME Launch!Finalized(c) \/ Launch!GitFails(c) \/ Launch!CleanupFails(c)
      PROVE  LaunchInv'
  BY <1>4, BusyKeeps DEF Launch!Finalized, Launch!GitFails, Launch!CleanupFails
<1> QED
  BY <1>1, <1>2, <1>3, <1>4

(* SPAWN_AGENT takes the latest workspace, which is one there is.          *)
LEMMA FindsDirectoryInv ==
  ASSUME LaunchInv, NEW c \in Launch!Agents, Launch!FindsDirectory(c)
  PROVE  LaunchInv'
<1>1. /\ CallSound(c, call[c]) /\ DOMAIN call = Launch!Agents
      /\ Launch!At(c, "workspace")
  BY DEF LaunchInv, Launch!FindsDirectory
<1>2. CASE Launch!Ends(c, "failed")
  BY <1>1, <1>2, BusyKeeps
     DEF Launch!FindsDirectory, Launch!At, Busy, Launch!shared, Launch!process
<1>3. CASE ~Launch!Ends(c, "failed")
  <2>1. PICK w, r : w = (IF spaces = <<>> THEN None ELSE Launch!Last(spaces)) /\ r = call'[c]
    OBVIOUS
  <2>2. /\ r = [call[c] EXCEPT !.pc = "preflight", !.space = w]
        /\ DOMAIN call' = Launch!Agents
        /\ \A d \in Launch!Agents \ {c} : call'[d] = call[d]
        /\ UNCHANGED <<asked, installer, Launch!maps, service>>
    BY <1>1, <1>3, <2>1
       DEF Launch!FindsDirectory, Launch!numbers, Launch!shared, Launch!process
  <2>3. w \in {None} \cup Launch!Tracked
    BY <2>1 DEF LaunchInv, Launch!Tracked, Launch!ToSet, Launch!Last
  <2>4. IsCall(r) /\ r.pc = "preflight" /\ r.todo = call[c].todo /\ r.space = w
    BY <1>1, <2>2 DEF CallSound, IsCall
  <2>5. Coming(r) \subseteq Coming(call[c])
    BY <1>1, <2>4 DEF Coming, Made, Launch!At
  <2>6. Proceeds(c, r)
    BY <1>1, <2>3, <2>4, <2>5 DEF CallSound, Proceeds, Launch!At
  <2> QED
    BY <1>1, <2>1, <2>2, <2>6, OneCall DEF Launch!At
<1> QED
  BY <1>2, <1>3

(* The results of a call that has seen to all its agents.                  *)
LEMMA ReportsInv ==
  ASSUME LaunchInv, NEW c \in Launch!Agents, Launch!Reports(c)
  PROVE  LaunchInv'
<1>1. /\ CallSound(c, call[c]) /\ DOMAIN call = Launch!Agents
      /\ call[c].pc = "reporting"
  BY DEF LaunchInv, Launch!Reports, Launch!At
<1>2. PICK r : r = call'[c]
  OBVIOUS
<1>3. /\ r = [call[c] EXCEPT !.pc = "done"]
      /\ DOMAIN call' = Launch!Agents
      /\ \A d \in Launch!Agents \ {c} : call'[d] = call[d]
      /\ UNCHANGED <<asked, installer, Launch!maps, service>>
  BY <1>1, <1>2
     DEF Launch!Reports, Launch!Goto, Launch!numbers, Launch!shared, Launch!process
<1>4. IsCall(r) /\ r.pc = "done" /\ r.todo = call[c].todo /\ r.space = call[c].space
  BY <1>1, <1>3 DEF CallSound, IsCall
<1>5. Coming(r) \subseteq Coming(call[c])
  BY <1>1, <1>4 DEF Coming, Made
<1>6. Proceeds(c, r)
  BY <1>1, <1>4, <1>5 DEF CallSound, Proceeds
<1> QED
  BY <1>1, <1>2, <1>3, <1>6, OneCall

(* The one that comes first installs, ...                                  *)
LEMMA RunBenchmarkPreflightInv ==
  ASSUME LaunchInv, NEW c \in Launch!Agents, Launch!RunBenchmarkPreflight(c)
  PROVE  LaunchInv'
<1> USE DEF Launch!RunBenchmarkPreflight, Launch!At, Busy, Made, Launch!process
<1>1. CASE installer = None /\ installer' = c /\ Launch!Goto(c, "installing")
  <2>1. /\ DOMAIN call' = Launch!Agents
        /\ \A d \in Launch!Agents \ {c} : call'[d] = call[d]
        /\ Proceeds(c, call'[c]) /\ UNCHANGED asked
    BY <1>1, GotoProceeds
  <2>2. call'[c].pc = "installing"
    BY <1>1 DEF Launch!Goto, LaunchInv, CallSound, IsCall
  <2>3. InstallerSound'
    BY <1>1, <2>2 DEF InstallerSound
  <2> QED
    BY <2>1, <2>3, CallsKeep DEF CallsProceed
<1>2. CASE ~(installer = None /\ installer' = c /\ Launch!Goto(c, "installing"))
  BY <1>2, BusyKeeps
<1> QED
  BY <1>1, <1>2

(* ... and all that wait for it go on together.                            *)
LEMMA BenchmarkPreflightEndsInv ==
  ASSUME LaunchInv, Launch!BenchmarkPreflightEnds
  PROVE  LaunchInv'
<1>1. /\ DOMAIN call' = Launch!Agents /\ InstallerSound'
      /\ UNCHANGED <<asked, Launch!maps, service>>
  BY DEF Launch!BenchmarkPreflightEnds, InstallerSound, Launch!numbers,
     Launch!process
<1>2. ASSUME NEW c \in Launch!Agents
      PROVE  call'[c] = call[c] \/ Proceeds(c, call'[c])
  <2>1. CASE Launch!At(c, "sharing") \/ c = installer
    <3>1. call[c].pc \in {"sharing", "installing"}
      BY <2>1
         DEF Launch!BenchmarkPreflightEnds, LaunchInv, InstallerSound, Launch!At
    <3>2. PICK r : r = call'[c]
      OBVIOUS
    <3>3. r = [call[c] EXCEPT !.pc = "preparing"]
      BY <2>1, <3>2 DEF Launch!BenchmarkPreflightEnds
    <3>4. Proceeds(c, r)
      BY <3>1, <3>3, PcProceeds DEF Busy, Made
    <3> QED
      BY <3>2, <3>4
  <2>2. CASE ~(Launch!At(c, "sharing") \/ c = installer)
    BY <2>2 DEF Launch!BenchmarkPreflightEnds
  <2> QED
    BY <2>1, <2>2
<1> QED
  BY <1>1, <1>2, CallsKeep DEF CallsProceed

(* All that asked for the default branch have it, or are refused.          *)
LEMMA LookupDefaultBranchInv ==
  ASSUME LaunchInv, Launch!LookupDefaultBranch
  PROVE  LaunchInv'
<1>1. /\ DOMAIN call' = Launch!Agents
      /\ UNCHANGED <<asked, installer, Launch!maps, service>>
  BY DEF Launch!LookupDefaultBranch, Launch!numbers, Launch!process
<1>2. ASSUME NEW c \in Launch!Agents
      PROVE  /\ call'[c] = call[c] \/ Proceeds(c, call'[c])
             /\ call[c].pc = "installing" => call'[c] = call[c]
  <2>1. CASE Launch!At(c, "branch")
    <3>1. PICK r, pc : /\ r = call'[c]
                       /\ pc = IF service = "down" THEN "refused" ELSE "cloning"
      OBVIOUS
    <3>2. r = [call[c] EXCEPT !.pc = pc]
      BY <2>1, <3>1 DEF Launch!LookupDefaultBranch
    <3>3. Proceeds(c, r)
      BY <2>1, <3>1, <3>2, PcProceeds DEF Busy, Made, Launch!At
    <3> QED
      BY <2>1, <3>1, <3>3 DEF Launch!At
  <2>2. CASE ~Launch!At(c, "branch")
    BY <2>2 DEF Launch!LookupDefaultBranch
  <2> QED
    BY <2>1, <2>2
<1>3. InstallerSound'
  BY <1>1, <1>2 DEF LaunchInv, InstallerSound, Launch!At
<1> QED
  BY <1>1, <1>2, <1>3, CallsKeep DEF CallsProceed

(* A step of a launch keeps the invariant.                                 *)
LEMMA LaunchStepInv ==
  ASSUME LaunchInv, NEW c \in Launch!Agents, Launch!LaunchStep(c)
  PROVE  LaunchInv'
  BY LaunchBusy, FindsDirectoryInv, RunBenchmarkPreflightInv, ReportsInv
     DEF Launch!LaunchStep

(* A workspace that is forgotten takes its label along.                    *)
LEMMA ForgottenMaps ==
  ASSUME LaunchInv, NEW w \in Launch!Agents, Launch!Forgets(w),
         UNCHANGED <<asked, service>>
  PROVE  /\ spaces' \in Seq(1 .. asked') /\ Injective(spaces')
         /\ Launch!Tracked' = Launch!Tracked \ {w}
         /\ DOMAIN label' = Launch!Agents /\ DOMAIN labels' = Labels
         /\ Launch!LabelsAgree' /\ LabelsKnown'
<1>1. /\ spaces' \in Seq(1 .. asked') /\ Injective(spaces')
      /\ Launch!Tracked' = Launch!Tracked \ {w}
  <2>1. PICK q, p : q = spaces /\ p = spaces'
    OBVIOUS
  <2>2. q \in Seq(1 .. asked) /\ Injective(q) /\ p = Launch!RemoveFirst(q, w)
    BY <2>1 DEF LaunchInv, Launch!Forgets
  <2>3. /\ p \in Seq(1 .. asked) /\ Injective(p)
        /\ Launch!ToSet(p) = Launch!ToSet(q) \ {w}
    BY <2>2, RemoveFirstSet
  <2> QED
    BY <2>1, <2>3 DEF Launch!Tracked
<1>2. DOMAIN label' = Launch!Agents /\ DOMAIN labels' = Labels
  BY DEF LaunchInv, Launch!Forgets, Launch!Unlabelled
<1>3. ASSUME service = "up", NEW v \in Launch!Agents, NEW l \in Labels
      PROVE  label'[v] = l <=> labels'[l] = v /\ v \in Launch!Tracked'
  <2>1. label'[v] = IF v = w THEN None ELSE label[v]
    BY DEF LaunchInv, Launch!Forgets, Launch!Unlabelled
  <2>2. labels'[l] = IF l = label[w] THEN None ELSE labels[l]
    BY DEF Launch!Forgets, Launch!Unlabelled
  <2>3. /\ label[v] = l <=> labels[l] = v /\ v \in Launch!Tracked
        /\ label[w] = l <=> labels[l] = w /\ w \in Launch!Tracked
    BY <1>3 DEF LaunchInv, Launch!MapsAgree, Launch!LabelsAgree
  <2>4. None # l /\ None # v
    BY WorkspaceAssumption DEF Launch!LaunchAssumption, Launch!Agents
  <2> QED
    BY <1>1, <2>1, <2>2, <2>3, <2>4
<1>4. ASSUME service = "up", NEW l \in Labels
      PROVE  labels'[l] = None \/ labels'[l] \in Launch!Tracked'
  <2>1. labels'[l] = IF l = label[w] THEN None ELSE labels[l]
    BY DEF Launch!Forgets, Launch!Unlabelled
  <2>2. label[w] = l <=> labels[l] = w /\ w \in Launch!Tracked
    BY <1>4 DEF LaunchInv, Launch!MapsAgree, Launch!LabelsAgree
  <2>3. labels[l] = None \/ labels[l] \in Launch!Tracked
    BY <1>4 DEF LaunchInv, LabelsKnown
  <2> QED
    BY <1>1, <2>1, <2>2, <2>3
<1> QED
  BY <1>1, <1>2, <1>3, <1>4 DEF Launch!LabelsAgree, LabelsKnown

(* While fewer workspaces and clones are there, and nobody is about to     *)
(* make others, the calls stay as sound as they are.                       *)
LEMMA FewerKeep ==
  ASSUME LaunchInv, UNCHANGED asked, Launch!Tracked' \subseteq Launch!Tracked,
         clones' \subseteq clones
  PROVE  /\ \A c \in Launch!Agents : call'[c] = call[c] => CallSound(c, call[c])'
         /\ (\A c \in Launch!Agents : /\ Coming(call'[c]) \subseteq Coming(call[c])
                               /\ call'[c].space = call[c].space) => Unmade'
  BY DEF LaunchInv, CallSound, Unmade

(* The clone is removed, and its entry is about to be.                     *)
LEMMA CleanupInv ==
  ASSUME LaunchInv, NEW c \in Launch!Agents, Launch!Cleanup(c)
  PROVE  LaunchInv'
<1>1. /\ CallSound(c, call[c]) /\ DOMAIN call = Launch!Agents
      /\ call[c].pc = "removing"
  BY DEF LaunchInv, Launch!Cleanup, Launch!At
<1>2. PICK r, w : r = call'[c] /\ w = call[c].space
  OBVIOUS
<1>3. /\ r = [call[c] EXCEPT !.pc = "removed"] /\ clones' = clones \ {w}
      /\ DOMAIN call' = Launch!Agents
      /\ \A d \in Launch!Agents \ {c} : call'[d] = call[d]
      /\ UNCHANGED <<asked, installer, spaces, label, labels, service>>
  BY <1>1, <1>2
     DEF Launch!Cleanup, Launch!Goto, Launch!numbers, Launch!shared, Launch!process
<1>4. IsCall(r) /\ r.pc = "removed" /\ r.todo = call[c].todo /\ r.space = w
  BY <1>1, <1>2, <1>3 DEF CallSound, IsCall
<1>5. Launch!Tracked' = Launch!Tracked
  BY <1>3 DEF Launch!Tracked
<1>6. CallSound(c, r)'
  BY <1>1, <1>2, <1>3, <1>4 DEF CallSound
<1>7. Coming(r) = Coming(call[c])
  BY <1>1, <1>4 DEF Coming, Made
<1>8. Separate' /\ Unmade' /\ \A d \in Launch!Agents : CallSound(d, call[d])'
  <2>1. Separate'
    BY <1>2, <1>3, <1>4 DEF LaunchInv, Separate
  <2>2. \A d \in Launch!Agents : CallSound(d, call[d])'
    BY <1>2, <1>3, <1>5, <1>6, FewerKeep
  <2>3. \A d \in Launch!Agents : /\ Coming(call'[d]) \subseteq Coming(call[d])
                          /\ call'[d].space = call[d].space
    BY <1>2, <1>3, <1>4, <1>7
  <2> QED
    BY <1>3, <1>5, <2>1, <2>2, <2>3, FewerKeep
<1>9. InstallerSound'
  BY <1>1, <1>3 DEF LaunchInv, InstallerSound, Launch!At
<1>10. Launch!MapsAgree' /\ LabelsKnown'
  <2>1. Launch!LabelsAgree' /\ LabelsKnown'
    BY <1>3, <1>5 DEF LaunchInv, LabelsKnown, Launch!MapsAgree, Launch!LabelsAgree
  <2>2. ASSUME service # "down", NEW v \in Launch!Tracked \ clones'
        PROVE  \E d \in Launch!Agents :
                 call'[d].pc = "removed" /\ call'[d].space = v
    <3>1. CASE v = w
      BY <1>2, <1>4, <3>1
    <3>2. CASE v # w
      <4>1. PICK d \in Launch!Agents : call[d].pc = "removed" /\ call[d].space = v
        BY <1>3, <2>2, <3>2
           DEF LaunchInv, Launch!MapsAgree, Launch!ClonesAreTracked, Launch!At
      <4> QED
        BY <1>1, <1>3, <4>1
    <3> QED
      BY <3>1, <3>2
  <2>3. service # "down" => clones \subseteq Launch!Tracked
    BY DEF LaunchInv, Launch!MapsAgree, Launch!ClonesAreTracked
  <2>4. Launch!ClonesAreTracked'
    BY <1>3, <1>5, <2>2, <2>3 DEF Launch!ClonesAreTracked, Launch!At
  <2> QED
    BY <2>1, <2>4 DEF Launch!MapsAgree
<1> QED
  BY <1>3, <1>8, <1>9, <1>10 DEF LaunchInv

(* Then the entry goes.                                                    *)
LEMMA RemoveWorkspaceInv ==
  ASSUME LaunchInv, NEW c \in Launch!Agents, Launch!RemoveWorkspace(c)
  PROVE  LaunchInv'
<1>1. CallSound(c, call[c]) /\ DOMAIN call = Launch!Agents /\ call[c].pc = "removed"
  BY DEF LaunchInv, Launch!RemoveWorkspace, Launch!At
<1>2. PICK r, w : r = call'[c] /\ w = call[c].space
  OBVIOUS
<1>3. /\ r = [call[c] EXCEPT !.todo = <<>>, !.pc = "done"] /\ Launch!Forgets(w)
      /\ DOMAIN call' = Launch!Agents
      /\ \A d \in Launch!Agents \ {c} : call'[d] = call[d]
      /\ UNCHANGED <<asked, installer, clones, service>>
  BY <1>1, <1>2
     DEF Launch!RemoveWorkspace, Launch!Ends, Launch!shared, Launch!process
<1>4. IsCall(r) /\ r.pc = "done" /\ r.todo = <<>> /\ r.space = w
  BY <1>1, <1>2, <1>3 DEF CallSound, IsCall
<1>5. w \in Launch!Agents /\ w \notin clones
  BY <1>1, <1>2, WorkspaceAssumption
     DEF CallSound, LaunchInv, Launch!Agents, Launch!LaunchAssumption
<1>6. /\ spaces' \in Seq(1 .. asked') /\ Injective(spaces')
      /\ Launch!Tracked' = Launch!Tracked \ {w}
      /\ DOMAIN label' = Launch!Agents /\ DOMAIN labels' = Labels
      /\ Launch!LabelsAgree' /\ LabelsKnown'
  BY <1>3, <1>5, ForgottenMaps
<1>7. /\ <<>> \in Seq(1 .. asked) /\ Injective(<<>>) /\ Coming(r) = {}
      /\ Launch!ToSet(r.todo) = {}
  BY <1>4 DEF Injective, Coming, Launch!ToSet
<1>8. CallSound(c, r)'
  BY <1>1, <1>2, <1>3, <1>4, <1>7 DEF CallSound
<1>9. Separate' /\ Unmade' /\ \A d \in Launch!Agents : CallSound(d, call[d])'
  <2>1. Separate'
    BY <1>2, <1>3, <1>7 DEF LaunchInv, Separate
  <2>2. \A d \in Launch!Agents : CallSound(d, call[d])'
    BY <1>2, <1>3, <1>6, <1>8, FewerKeep
  <2>3. \A d \in Launch!Agents : /\ Coming(call'[d]) \subseteq Coming(call[d])
                          /\ call'[d].space = call[d].space
    BY <1>2, <1>3, <1>4, <1>7
  <2> QED
    BY <1>3, <1>6, <2>1, <2>2, <2>3, FewerKeep
<1>10. InstallerSound'
  BY <1>1, <1>3 DEF LaunchInv, InstallerSound, Launch!At
<1>11. Launch!ClonesAreTracked'
  <2>1. ASSUME service # "down", NEW v \in Launch!Tracked' \ clones
        PROVE  \E d \in Launch!Agents :
                 call'[d].pc = "removed" /\ call'[d].space = v
    <3>1. PICK d \in Launch!Agents : call[d].pc = "removed" /\ call[d].space = v
      BY <1>6, <2>1
         DEF LaunchInv, Launch!MapsAgree, Launch!ClonesAreTracked, Launch!At
    <3>2. d # c
      BY <1>2, <1>6, <3>1
    <3> QED
      BY <1>3, <3>1, <3>2
  <2>2. service # "down" => clones \subseteq Launch!Tracked'
    BY <1>5, <1>6 DEF LaunchInv, Launch!MapsAgree, Launch!ClonesAreTracked
  <2> QED
    BY <1>3, <2>1, <2>2 DEF Launch!ClonesAreTracked, Launch!At
<1> QED
  BY <1>3, <1>6, <1>9, <1>10, <1>11 DEF LaunchInv, Launch!MapsAgree

(* stop() forgets the labels at leisure, for they are no longer asked for. *)
LEMMA StopInv ==
  ASSUME LaunchInv,
         \/ Launch!StopBegins
         \/ \E w \in Launch!Agents : Launch!StopRemoves(w)
         \/ Launch!StopEnds
  PROVE  LaunchInv'
<1>1. CASE Launch!StopBegins
  <2>1. /\ UNCHANGED <<asked, call, installer, Launch!maps>> /\ service = "up"
        /\ service' = "stopping"
    BY <1>1 DEF Launch!StopBegins, Launch!numbers, Launch!shared
  <2>2. /\ Launch!Tracked' = Launch!Tracked /\ Launch!LabelsAgree' /\ LabelsKnown'
        /\ Launch!ClonesAreTracked'
    BY <2>1
       DEF Launch!Tracked, Launch!LabelsAgree, LabelsKnown, LaunchInv,
           Launch!MapsAgree, Launch!ClonesAreTracked, Launch!At, Launch!maps
  <2>3. /\ Unmade' /\ Separate' /\ InstallerSound'
        /\ \A d \in Launch!Agents : CallSound(d, call[d])'
    BY <2>1, <2>2
       DEF LaunchInv, Unmade, Separate, InstallerSound, Launch!At, CallSound,
           Launch!maps
  <2> QED
    BY <2>1, <2>2, <2>3 DEF LaunchInv, Launch!MapsAgree, Launch!maps
<1>2. ASSUME NEW w \in Launch!Agents, Launch!StopRemoves(w), clones' = clones \ {w},
             Launch!Forgets(w)
      PROVE  LaunchInv'
  <2>1. UNCHANGED <<asked, call, installer, service>>
    BY <1>2 DEF Launch!StopRemoves, Launch!numbers, Launch!shared
  <2>2. /\ spaces' \in Seq(1 .. asked') /\ Injective(spaces')
        /\ Launch!Tracked' = Launch!Tracked \ {w} /\ DOMAIN label' = Launch!Agents
        /\ DOMAIN labels' = Labels
        /\ Launch!LabelsAgree' /\ LabelsKnown'
    BY <1>2, <2>1, ForgottenMaps
  <2>3. Launch!ClonesAreTracked'
    BY <1>2, <2>1, <2>2
       DEF LaunchInv, Launch!MapsAgree, Launch!ClonesAreTracked, Launch!At
  <2>4. Unmade' /\ \A d \in Launch!Agents : CallSound(d, call[d])'
    BY <1>2, <2>1, <2>2, FewerKeep
  <2>5. Separate' /\ InstallerSound'
    BY <2>1 DEF LaunchInv, Separate, InstallerSound, Launch!At
  <2> QED
    BY <1>2, <2>1, <2>2, <2>3, <2>4, <2>5 DEF LaunchInv, Launch!MapsAgree
<1>3. ASSUME NEW w \in Launch!Agents, Launch!StopRemoves(w), UNCHANGED Launch!maps
      PROVE  LaunchInv'
  <2>1. UNCHANGED <<asked, call, installer, service, Launch!maps>>
    BY <1>3 DEF Launch!StopRemoves, Launch!numbers, Launch!shared
  <2> QED
    BY <2>1, CallsKeep DEF LaunchInv, CallsProceed, InstallerSound, Launch!At
<1>4. CASE Launch!StopEnds
  <2>1. /\ UNCHANGED <<asked, call, installer, clones, label, labels>>
        /\ service' = "down" /\ spaces' = <<>>
    BY <1>4 DEF Launch!StopEnds, Launch!numbers, Launch!shared
  <2>2. spaces' \in Seq(1 .. asked') /\ Injective(spaces') /\ Launch!Tracked' = {}
    BY <2>1 DEF Injective, Launch!Tracked, Launch!ToSet
  <2>3. Launch!LabelsAgree' /\ LabelsKnown' /\ Launch!ClonesAreTracked'
    BY <2>1 DEF Launch!LabelsAgree, LabelsKnown, Launch!ClonesAreTracked
  <2>4. Unmade' /\ \A d \in Launch!Agents : CallSound(d, call[d])'
    BY <2>1, <2>2, FewerKeep
  <2>5. Separate' /\ InstallerSound'
    BY <2>1 DEF LaunchInv, Separate, InstallerSound, Launch!At
  <2> QED
    BY <2>1, <2>2, <2>3, <2>4, <2>5 DEF LaunchInv, Launch!MapsAgree
<1> QED
  BY <1>1, <1>2, <1>3, <1>4 DEF Launch!StopRemoves

(* A clone that is made is of an agent that had none.                      *)
LEMMA MadeKeeps ==
  ASSUME LaunchInv, NEW c \in Launch!Agents, NEW a, a \in Coming(call[c]),
         clones' = clones \cup {a}, spaces' = Append(spaces, a),
         DOMAIN call' = Launch!Agents,
         \A d \in Launch!Agents \ {c} : call'[d] = call[d],
         Proceeds(c, call'[c]), a \notin Coming(call'[c]),
         call'[c].space = call[c].space, call[c].pc # "installing",
         UNCHANGED <<asked, installer, service>>,
         DOMAIN label' = Launch!Agents, DOMAIN labels' = Labels,
         Launch!LabelsAgree', LabelsKnown'
  PROVE  LaunchInv'
<1>1. /\ a \notin Launch!Tracked /\ a \notin clones
      /\ \A d \in Launch!Agents : call[d].space # a
      /\ a \in 1 .. asked /\ a \in Launch!ToSet(call[c].todo)
  <2>1. /\ a \notin Launch!Tracked /\ a \notin clones
        /\ \A d \in Launch!Agents : call[d].space # a
    BY DEF LaunchInv, Unmade
  <2>2. PICK t : t = call[c].todo
    OBVIOUS
  <2>3. t \in Seq(1 .. asked)
    BY <2>2 DEF LaunchInv, CallSound
  <2>4. PICK i \in DOMAIN t : a = t[i]
    BY <2>2 DEF Coming
  <2>5. a \in 1 .. asked /\ a \in Launch!ToSet(t)
    BY <2>3, <2>4, EntryIn
  <2> QED
    BY <2>1, <2>2, <2>5
<1>2. /\ spaces' \in Seq(1 .. asked') /\ Injective(spaces')
      /\ Launch!Tracked' = Launch!Tracked \cup {a}
  <2>1. PICK q, p : q = spaces /\ p = spaces'
    OBVIOUS
  <2>2. /\ q \in Seq(1 .. asked) /\ Injective(q) /\ p = Append(q, a)
        /\ a \notin Launch!ToSet(q)
    BY <1>1, <2>1 DEF LaunchInv, Launch!Tracked
  <2>3. /\ Append(q, a) \in Seq(1 .. asked) /\ Injective(Append(q, a))
        /\ Launch!ToSet(Append(q, a)) = Launch!ToSet(q) \cup {a}
    <3>1. PICK S : S = 1 .. asked
      OBVIOUS
    <3>2. q \in Seq(S) /\ Injective(q) /\ a \in S /\ a \notin Launch!ToSet(q)
      BY <1>1, <2>2, <3>1
    <3>3. /\ Append(q, a) \in Seq(S) /\ Injective(Append(q, a))
          /\ Launch!ToSet(Append(q, a)) = Launch!ToSet(q) \cup {a}
      BY <3>2, AppendFacts
    <3> QED
      BY <3>1, <3>3
  <2> QED
    BY <2>1, <2>2, <2>3 DEF Launch!Tracked
<1>3. ASSUME NEW d \in Launch!Agents
      PROVE  /\ CallSound(d, call[d])'
             /\ Launch!ToSet(call'[d].todo) \subseteq Launch!ToSet(call[d].todo)
             /\ Coming(call'[d]) \subseteq Coming(call[d])
             /\ call'[d].space = call[d].space
             /\ call[d].pc = "removed" => call'[d] = call[d]
  <2>1. CASE d = c
    <3>1. call[c].space \in 1 .. asked \cup {None}
      BY DEF LaunchInv, CallSound
    <3> QED
      BY <2>1, <3>1 DEF CallSound, Proceeds
  <2>2. CASE d # c
    BY <1>1, <2>2 DEF LaunchInv, CallSound
  <2> QED
    BY <2>1, <2>2
<1>4. Separate'
  BY <1>3 DEF LaunchInv, Separate
<1>5. Unmade'
  <2> SUFFICES ASSUME NEW d \in Launch!Agents, NEW b \in Coming(call'[d])
               PROVE  /\ b \notin Launch!Tracked' /\ b \notin clones'
                      /\ \A e \in Launch!Agents : call'[e].space # b
    BY DEF Unmade
  <2>1. b \in Coming(call[d])
    BY <1>3
  <2>2. b # a
    <3>1. CASE d = c
      BY <3>1
    <3>2. CASE d # c
      <4>1. b \in Launch!ToSet(call[d].todo)
        BY <2>1 DEF Coming, Launch!ToSet
      <4> QED
        BY <1>1, <3>2, <4>1 DEF LaunchInv, Separate
    <3> QED
      BY <3>1, <3>2
  <2>3. /\ b \notin Launch!Tracked /\ b \notin clones
        /\ \A e \in Launch!Agents : call[e].space # b
    BY <2>1 DEF LaunchInv, Unmade
  <2> QED
    BY <1>2, <1>3, <2>2, <2>3
<1>6. InstallerSound'
  BY DEF LaunchInv, InstallerSound, Launch!At
<1>7. Launch!ClonesAreTracked'
  <2>1. ASSUME service # "down", NEW v \in Launch!Tracked' \ clones'
        PROVE  \E d \in Launch!Agents :
                 call'[d].pc = "removed" /\ call'[d].space = v
    <3>1. PICK d \in Launch!Agents : call[d].pc = "removed" /\ call[d].space = v
      BY <1>2, <2>1
         DEF LaunchInv, Launch!MapsAgree, Launch!ClonesAreTracked, Launch!At
    <3> QED
      BY <1>3, <3>1
  <2>2. service # "down" => clones' \subseteq Launch!Tracked'
    BY <1>2 DEF LaunchInv, Launch!MapsAgree, Launch!ClonesAreTracked
  <2> QED
    BY <2>1, <2>2 DEF Launch!ClonesAreTracked, Launch!At
<1> QED
  BY <1>1, <1>2, <1>3, <1>4, <1>5, <1>6, <1>7 DEF LaunchInv, Launch!MapsAgree

(* A label is taken from the workspace that had it.                        *)
LEMMA SetLabelAgrees ==
  ASSUME LaunchInv, NEW a \in Launch!Agents, a \notin Launch!Tracked,
         Launch!Tracked' = Launch!Tracked \cup {a},
         UNCHANGED service,
         (\E l \in Labels : Launch!SetLabel(a, l)) \/ UNCHANGED <<label, labels>>
  PROVE  /\ DOMAIN label' = Launch!Agents /\ DOMAIN labels' = Labels
         /\ Launch!LabelsAgree' /\ LabelsKnown'
<1>1. DOMAIN label' = Launch!Agents /\ DOMAIN labels' = Labels
  BY DEF LaunchInv, Launch!SetLabel
<1>2. ASSUME service = "up", NEW m \in Labels
      PROVE  label[a] # m /\ labels[m] # a
  <2>1. labels[m] # a
    BY <1>2, WorkspaceAssumption
       DEF LaunchInv, LabelsKnown, Launch!LaunchAssumption, Launch!Agents
  <2> QED
    BY <1>2, <2>1 DEF LaunchInv, Launch!MapsAgree, Launch!LabelsAgree
<1>3. CASE UNCHANGED <<label, labels>>
  BY <1>1, <1>2, <1>3
     DEF LaunchInv, Launch!MapsAgree, Launch!LabelsAgree, LabelsKnown
<1>4. ASSUME NEW l \in Labels, Launch!SetLabel(a, l)
      PROVE  Launch!LabelsAgree' /\ LabelsKnown'
  <2>1. ASSUME service = "up", NEW v \in Launch!Agents, NEW m \in Labels
        PROVE  label'[v] = m <=> labels'[m] = v /\ v \in Launch!Tracked'
    <3>1. label'[v] = IF v = a THEN l ELSE IF labels[l] = v THEN None ELSE label[v]
      BY <1>4 DEF Launch!SetLabel
    <3>2. labels'[m] = IF m = l THEN a ELSE labels[m]
      BY <1>2, <1>4, <2>1 DEF Launch!SetLabel
    <3>3. /\ label[v] = m <=> labels[m] = v /\ v \in Launch!Tracked
          /\ label[v] = l <=> labels[l] = v /\ v \in Launch!Tracked
      BY <2>1 DEF LaunchInv, Launch!MapsAgree, Launch!LabelsAgree
    <3>4. None # m /\ labels[m] # a
      BY <1>2, <2>1, WorkspaceAssumption DEF Launch!LaunchAssumption
    <3> QED
      BY <3>1, <3>2, <3>3, <3>4
  <2>2. ASSUME service = "up", NEW m \in Labels
        PROVE  labels'[m] = None \/ labels'[m] \in Launch!Tracked'
    BY <1>2, <1>4, <2>2 DEF Launch!SetLabel, LaunchInv, LabelsKnown
  <2> QED
    BY <2>1, <2>2 DEF Launch!LabelsAgree, LabelsKnown
<1> QED
  BY <1>1, <1>3, <1>4

(* A clone is made, for an agent that goes on or for one that only asked.  *)
LEMMA ProvisionedInv ==
  ASSUME LaunchInv, NEW c \in Launch!Agents, Launch!Provisioned(c)
  PROVE  LaunchInv'
<1>1. /\ CallSound(c, call[c]) /\ DOMAIN call = Launch!Agents
      /\ call[c].pc = "cloning"
      /\ call[c].todo # <<>> /\ call[c].todo \in Seq(1 .. asked)
      /\ Injective(call[c].todo)
  BY DEF LaunchInv, Launch!Provisioned, Launch!At, CallSound
<1>2. PICK a : a = Launch!Agent(c)
  OBVIOUS
<1>3. a = call[c].todo[1] /\ 1 \in DOMAIN call[c].todo
  BY <1>1, <1>2 DEF Launch!Agent
<1>4. a \in Coming(call[c]) /\ a \in Launch!Agents
  <2>1. a \in Coming(call[c])
    BY <1>1, <1>3 DEF Coming, Made
  <2>2. PICK t : t = call[c].todo
    OBVIOUS
  <2>3. t \in Seq(1 .. asked) /\ a = t[1] /\ 1 \in DOMAIN t
    BY <1>1, <1>3, <2>2
  <2>4. a \in 1 .. asked
    BY <2>3, EntryIn
  <2> QED
    BY <2>1, <2>4, WorkspaceAssumption
       DEF LaunchInv, Launch!Agents, Launch!LaunchAssumption
<1>5. /\ clones' = clones \cup {a} /\ spaces' = Append(spaces, a)
      /\ UNCHANGED <<installer, service>>
  BY <1>2 DEF Launch!Provisioned, Launch!shared, Launch!process
<1>6. /\ DOMAIN call' = Launch!Agents
      /\ \A d \in Launch!Agents \ {c} : call'[d] = call[d]
      /\ Proceeds(c, call'[c]) /\ UNCHANGED asked
      /\ a \notin Coming(call'[c]) /\ call'[c].space = call[c].space
  <2>1. CASE Launch!NextAgent(c, "provisioned")
    BY <1>1, <1>2, <2>1, NextProceeds DEF Busy
  <2>2. CASE Launch!Goto(c, "preflight")
    <3>1. /\ DOMAIN call' = Launch!Agents
          /\ \A d \in Launch!Agents \ {c} : call'[d] = call[d]
          /\ Proceeds(c, call'[c]) /\ UNCHANGED asked
      BY <1>1, <2>2, GotoProceeds DEF Busy, Made
    <3>2. PICK r : r = call'[c]
      OBVIOUS
    <3>3. r = [call[c] EXCEPT !.pc = "preflight"]
      BY <1>1, <2>2, <3>2 DEF Launch!Goto
    <3>4. r.pc = "preflight" /\ r.todo = call[c].todo /\ r.space = call[c].space
      BY <1>1, <3>3 DEF CallSound, IsCall
    <3>5. a \notin Coming(r)
      BY <1>1, <1>3, <3>4 DEF Coming, Made, Injective
    <3> QED
      BY <3>1, <3>2, <3>4, <3>5
  <2> QED
    BY <2>1, <2>2 DEF Launch!Provisioned
<1>7. a \notin Launch!Tracked /\ Launch!Tracked' = Launch!Tracked \cup {a}
  <2>1. a \notin Launch!Tracked
    BY <1>4 DEF LaunchInv, Unmade
  <2>2. PICK t, q : t = call[c].todo /\ q = spaces
    OBVIOUS
  <2>3. t \in Seq(1 .. asked) /\ a = t[1] /\ 1 \in DOMAIN t
    BY <1>1, <1>3, <2>2
  <2>4. a \in 1 .. asked
    BY <2>3, EntryIn
  <2>5. q \in Seq(1 .. asked) /\ Injective(q) /\ a \notin Launch!ToSet(q)
    BY <2>1, <2>2 DEF LaunchInv, Launch!Tracked
  <2>6. Launch!ToSet(Append(q, a)) = Launch!ToSet(q) \cup {a}
    <3>1. PICK S : S = 1 .. asked
      OBVIOUS
    <3>2. q \in Seq(S) /\ a \in S
      BY <2>4, <2>5, <3>1
    <3> QED
      BY <2>5, <3>2, AppendFacts
  <2> QED
    BY <1>5, <2>1, <2>2, <2>6 DEF Launch!Tracked
<1>8. /\ DOMAIN label' = Launch!Agents /\ DOMAIN labels' = Labels
      /\ Launch!LabelsAgree' /\ LabelsKnown'
  <2>1. (\E l \in Labels : Launch!SetLabel(a, l)) \/ UNCHANGED <<label, labels>>
    BY <1>2 DEF Launch!Provisioned
  <2> QED
    BY <1>4, <1>5, <1>7, <2>1, SetLabelAgrees
<1> QED
  BY <1>1, <1>4, <1>5, <1>6, <1>8, MadeKeeps

(* The agents of a new call are new.                                       *)
LEMMA RequestInv ==
  ASSUME LaunchInv, NEW kind \in Kinds, NEW n \in Launch!Agents,
         Launch!Request(kind, n)
  PROVE  LaunchInv'
<1>1. MaxAgents \in Nat /\ None \notin Nat /\ n \in Nat \ {0} /\ asked \in Nat
  BY WorkspaceAssumption DEF Launch!LaunchAssumption, LaunchInv, Launch!Agents
<1>2. PICK c, r, handler :
        c = asked + 1 /\ r = call'[c] /\ handler = Launch!Handler(kind, n)
  OBVIOUS
<1>3. /\ asked' = asked + n /\ asked' \in 0 .. MaxAgents /\ c \in Launch!Agents
      /\ 1 .. asked \subseteq 1 .. asked' /\ c <= asked' /\ ~(c <= asked)
      /\ UNCHANGED <<installer, Launch!maps, service>>
  BY <1>1, <1>2 DEF Launch!Request, Launch!Agents, Launch!shared, Launch!process
<1>4. Launch!Tracked' = Launch!Tracked /\ Launch!Tracked \subseteq 1 .. asked
  BY <1>3 DEF LaunchInv, Launch!Tracked, Launch!ToSet, Launch!maps
<1>5. PICK w \in IF handler \in {"finalize", "remove"}
                THEN Launch!Tracked ELSE {None} :
        call' = [call EXCEPT ![c] =
          [kind |-> handler, todo |-> [i \in 1 .. n |-> asked + i], space |-> w,
           pc |-> CASE handler \in {"scratch", "repo"} -> "planning"
                    [] handler = "api" -> "validating"
                    [] handler = "finalize" -> "status"
                    [] handler = "remove" -> "removing"
                    [] OTHER -> "workspace"]]
  BY <1>2 DEF Launch!Request
<1>6. /\ DOMAIN call' = Launch!Agents
      /\ \A d \in Launch!Agents \ {c} : call'[d] = call[d]
  BY <1>5 DEF LaunchInv
<1>7. /\ IsCall(r) /\ r.todo = [i \in 1 .. n |-> asked + i] /\ r.space = w
      /\ r.pc \in {"planning", "validating", "status", "removing", "workspace"}
      /\ r.pc = "removing" => handler = "remove"
  <2>1. PICK pc : pc = CASE handler \in {"scratch", "repo"} -> "planning"
                         [] handler = "api" -> "validating"
                         [] handler = "finalize" -> "status"
                         [] handler = "remove" -> "removing"
                         [] OTHER -> "workspace"
    OBVIOUS
  <2>2. r = [kind |-> handler, todo |-> [i \in 1 .. n |-> asked + i], space |-> w,
             pc |-> pc]
    BY <1>2, <1>3, <1>5, <2>1 DEF LaunchInv
  <2>3. /\ pc \in {"planning", "validating", "status", "removing", "workspace"}
        /\ pc = "removing" => handler = "remove"
    BY <2>1
  <2> QED
    BY <2>2, <2>3 DEF IsCall
<1>8. /\ r.todo \in Seq(1 .. asked') /\ Injective(r.todo) /\ r.todo # <<>>
      /\ \A x \in Launch!ToSet(r.todo) : x \notin 1 .. asked /\ x # None
  <2>1. PICK t, top : t = r.todo /\ top = asked'
    OBVIOUS
  <2>2. t = [i \in 1 .. n |-> asked + i] /\ top = asked + n
    BY <1>3, <1>7, <2>1
  <2>3. t \in Seq(1 .. top) /\ Len(t) = n /\ DOMAIN t = 1 .. n
    BY <1>1, <2>2
  <2>4. Injective(t)
    BY <1>1, <2>2 DEF Injective
  <2>5. t # <<>>
    BY <1>1, <2>3
  <2>6. \A x \in Launch!ToSet(t) : x \notin 1 .. asked /\ x # None
    BY <1>1, <2>2 DEF Launch!ToSet
  <2> QED
    BY <2>1, <2>3, <2>4, <2>5, <2>6
<1>9. /\ w \in Launch!Tracked \cup {None}
      /\ (handler = "remove" => w \in Launch!Tracked)
  OBVIOUS
<1>10. CallSound(c, r)'
  <2>1. w \in 1 .. asked' \cup {None} /\ (handler = "remove" => w # None)
    BY <1>1, <1>3, <1>4, <1>9
  <2>2. r.space \in 1 .. asked' \cup {None} /\ (r.pc = "removing" => r.space # None)
    BY <1>7, <2>1
  <2> QED
    BY <1>3, <1>7, <1>8, <2>2 DEF CallSound
<1>11. ASSUME NEW d \in Launch!Agents, d # c PROVE CallSound(d, call[d])'
  <2>1. PICK x, S, T : x = call[d] /\ S = 1 .. asked /\ T = 1 .. asked'
    OBVIOUS
  <2>2. S \subseteq T /\ x.todo \in Seq(S) => x.todo \in Seq(T)
    OBVIOUS
  <2>3. x.todo \in Seq(T) /\ x.space \in T \cup {None}
    BY <1>3, <2>1, <2>2 DEF LaunchInv, CallSound
  <2>4. d <= asked => d <= asked'
    BY <1>1, <1>3, <1>11 DEF Launch!Agents
  <2> QED
    BY <1>3, <1>6, <1>11, <2>1, <2>3, <2>4 DEF LaunchInv, CallSound, Launch!maps
<1>12. ASSUME NEW d \in Launch!Agents
       PROVE  Launch!ToSet(call[d].todo) \subseteq 1 .. asked
  <2>1. PICK t, S : t = call[d].todo /\ S = 1 .. asked
    OBVIOUS
  <2>2. t \in Seq(S)
    BY <2>1 DEF LaunchInv, CallSound
  <2>3. \A i \in DOMAIN t : t[i] \in S
    BY <2>2, EntryIn
  <2> QED
    BY <2>1, <2>3 DEF Launch!ToSet
<1>13. Separate'
  BY <1>2, <1>6, <1>8, <1>12 DEF LaunchInv, Separate
<1>14. Unmade'
  <2> SUFFICES ASSUME NEW d \in Launch!Agents, NEW a \in Coming(call'[d]),
                      NEW e \in Launch!Agents
               PROVE  /\ a \notin Launch!Tracked /\ a \notin clones
                      /\ call'[e].space # a
    BY <1>3, <1>4 DEF Unmade, Launch!maps
  <2>1. CASE d = c
    <3>1. a \in Launch!ToSet(r.todo)
      BY <1>2, <2>1 DEF Coming, Launch!ToSet
    <3>2. a \notin 1 .. asked /\ a # None
      BY <1>8, <3>1
    <3>3. call'[e].space \in 1 .. asked \cup {None}
      <4>1. CASE e = c
        BY <1>2, <1>4, <1>7, <1>9, <4>1
      <4>2. CASE e # c
        BY <1>6, <4>2 DEF LaunchInv, CallSound
      <4> QED
        BY <4>1, <4>2
    <3> QED
      BY <1>4, <3>2, <3>3 DEF LaunchInv
  <2>2. CASE d # c
    <3>1. a \in Coming(call[d])
      BY <1>6, <2>2
    <3>2. a \notin Launch!Tracked /\ a \notin clones /\ call[e].space # a
      BY <3>1 DEF LaunchInv, Unmade
    <3>3. a \in 1 .. asked
      BY <1>12, <3>1 DEF Coming, Launch!ToSet
    <3> QED
      BY <1>1, <1>2, <1>6, <1>7, <1>9, <3>2, <3>3
  <2> QED
    BY <2>1, <2>2
<1>15. InstallerSound'
  <2>1. ASSUME installer # None PROVE installer # c
    BY <1>3, <2>1 DEF LaunchInv, InstallerSound, Launch!At, CallSound
  <2> QED
    BY <1>3, <1>6, <2>1 DEF LaunchInv, InstallerSound, Launch!At
<1>16. Launch!MapsAgree' /\ LabelsKnown'
  <2>1. Launch!LabelsAgree' /\ LabelsKnown'
    BY <1>3, <1>4
       DEF LaunchInv, LabelsKnown, Launch!MapsAgree, Launch!LabelsAgree, Launch!maps
  <2>2. ASSUME service # "down", NEW v \in Launch!Tracked \ clones
        PROVE  \E d \in Launch!Agents :
                 call'[d].pc = "removed" /\ call'[d].space = v
    <3>1. PICK d \in Launch!Agents : call[d].pc = "removed" /\ call[d].space = v
      BY <2>2 DEF LaunchInv, Launch!MapsAgree, Launch!ClonesAreTracked, Launch!At
    <3>2. d # c
      BY <1>3, <3>1 DEF LaunchInv, CallSound
    <3> QED
      BY <1>6, <3>1, <3>2
  <2>3. Launch!ClonesAreTracked'
    BY <1>3, <1>4, <2>2
       DEF LaunchInv, Launch!MapsAgree, Launch!ClonesAreTracked, Launch!At,
           Launch!maps
  <2> QED
    BY <2>1, <2>3 DEF Launch!MapsAgree
<1>17. spaces' \in Seq(1 .. asked') /\ clones' \subseteq 1 .. asked'
  <2>1. PICK q, S, T : q = spaces /\ S = 1 .. asked /\ T = 1 .. asked'
    OBVIOUS
  <2>2. S \subseteq T /\ q \in Seq(S) => q \in Seq(T)
    OBVIOUS
  <2> QED
    BY <1>3, <2>1, <2>2 DEF LaunchInv, Launch!maps
<1> QED
  BY <1>2, <1>3, <1>6, <1>10, <1>11, <1>13, <1>14, <1>15, <1>16, <1>17
     DEF LaunchInv, Launch!maps

(* Every step keeps the invariant.                                         *)
LEMMA LaunchNextInv ==
  ASSUME LaunchInv, [Launch!Next]_(Launch!vars)
  PROVE  LaunchInv'
<1>1. CASE UNCHANGED Launch!vars
  <2>1. UNCHANGED <<asked, call, installer, Launch!maps, service>>
    BY <1>1 DEF Launch!vars, Launch!numbers, Launch!shared, Launch!process
  <2> QED
    BY <2>1, CallsKeep DEF LaunchInv, CallsProceed, InstallerSound, Launch!At
<1>2. ASSUME NEW c \in Launch!Agents, Launch!LaunchStep(c) \/ Launch!CloneStep(c)
      PROVE  LaunchInv'
  BY <1>2, LaunchStepInv, CloneBusy, ProvisionedInv, CleanupInv, RemoveWorkspaceInv
     DEF Launch!CloneStep
<1>3. CASE Launch!LookupDefaultBranch \/ Launch!BenchmarkPreflightEnds
  BY <1>3, LookupDefaultBranchInv, BenchmarkPreflightEndsInv
<1>4. CASE Launch!StopStep \/ Launch!StopBegins
  BY <1>4, StopInv DEF Launch!StopStep
<1>5. CASE \E kind \in Kinds, n \in Launch!Agents : Launch!Request(kind, n)
  BY <1>5, RequestInv
<1> QED
  BY <1>1, <1>2, <1>3, <1>4, <1>5 DEF Launch!Next, Launch!Runs


(* The half that is not looked at has no workspaces.                       *)
NoWorkspaces ==
  /\ clones = {} /\ spaces = <<>>
  /\ label = [a \in Launch!Agents |-> None] /\ labels = [l \in Labels |-> None]
WorkspacesInv ==
  (part = "launch" /\ LaunchInv) \/ (part = "scratch" /\ NoWorkspaces)

(* The workspaces map, the labels and the clones on the disk agree,        *)
(* whatever removals, failures and provisionings overlapped, until the     *)
(* service has stopped (workspace-service.ts:264-366, 520-531).            *)
THEOREM MapsAgreeHolds == Spec => []MapsAgree
<1>1. Init => WorkspacesInv
  BY LaunchInitInv DEF Init, WorkspacesInv, NoWorkspaces, Launch!Init
<1>2. WorkspacesInv /\ [Next]_vars => WorkspacesInv'
  <2> SUFFICES ASSUME WorkspacesInv, [Next]_vars PROVE WorkspacesInv'
    OBVIOUS
  <2>1. CASE part = "launch"
    <3>1. [Launch!Next]_(Launch!vars) /\ part' = "launch"
      BY <2>1
         DEF Next, LaunchNext, ScratchNext, vars, launchVars, Launch!vars,
             Launch!numbers, Launch!shared, Launch!maps, Launch!process
    <3> QED
      BY <2>1, <3>1, LaunchNextInv DEF WorkspacesInv
  <2>2. CASE part = "scratch"
    BY <2>2 DEF WorkspacesInv, NoWorkspaces, Next, LaunchNext, ScratchNext, vars,
                launchVars
  <2> QED
    BY <2>1, <2>2 DEF WorkspacesInv
<1>3. WorkspacesInv => MapsAgree
  <2>1. LaunchInv => MapsAgree
    BY DEF LaunchInv, MapsAgree
  <2>2. NoWorkspaces => MapsAgree
    <3> SUFFICES ASSUME NoWorkspaces PROVE MapsAgree
      OBVIOUS
    <3>1. Launch!Tracked = {}
      BY DEF NoWorkspaces, Launch!Tracked, Launch!ToSet
    <3>2. Launch!ClonesAreTracked
      BY <3>1 DEF NoWorkspaces, Launch!ClonesAreTracked
    <3>3. Launch!LabelsAgree
      BY <3>1, WorkspaceAssumption
         DEF NoWorkspaces, Launch!LabelsAgree, Launch!LaunchAssumption
    <3> QED
      BY <3>2, <3>3 DEF MapsAgree, Launch!MapsAgree
  <2> QED
    BY <2>1, <2>2 DEF WorkspacesInv
<1> QED
  BY <1>1, <1>2, <1>3, PTL DEF Spec
===============================================================================
