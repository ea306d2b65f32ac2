-------------------------- MODULE AcpSessionStore --------------------------
(***************************************************************************)
(* AcpSessionStore: the backend is picked once, when the store is made,    *)
(* and every operation is delegated to it.  The runtime's database and the *)
(* file are modelled; the clients of the one and of the other are owed the *)
(* same, which is SerialStore.                                             *)
(***************************************************************************)
EXTENDS Sequences, Naturals, SessionRecords

CONSTANTS Processes, MaxCrashes, Faulty

ASSUME StoreAssumption ==
    /\ Absent \notin Record
    /\ MaxCrashes \in Nat
    /\ Faulty \in BOOLEAN

VARIABLES
    backend,                      \* "runtime-db" or "file"
    request, step, answer,        \* of the delegate, whichever it is
    table, tail, init, fetched, stale,                     \* runtime-db
    file, lockFile, sessions, loaded, queue, temp, owner, crashes,
    forgotten                                              \* file

delegateVars == <<request, step, answer>>
dbVars == <<table, tail, init, fetched, stale>>
fileVars == <<file, lockFile, sessions, loaded, queue, temp, owner, crashes,
              forgotten>>
vars == <<backend, delegateVars, dbVars, fileVars>>

Db == INSTANCE DbSessionStore WITH queue <- tail
File == INSTANCE FileSessionStore

Init ==
    \/ /\ backend = "runtime-db" /\ Db!Init
       /\ file = Absent /\ lockFile = FALSE /\ sessions = Absent /\ loaded = Absent
       /\ queue = Absent /\ temp = Absent /\ owner = Absent /\ crashes = 0
       /\ forgotten = {}
    \/ /\ backend = "file" /\ File!Init
       /\ table = Absent /\ tail = <<>> /\ init = "none" /\ fetched = Absent
       /\ stale = Absent

Next ==
    \/ backend = "runtime-db" /\ Db!Next /\ UNCHANGED <<backend, fileVars>>
    \/ backend = "file" /\ File!Next /\ UNCHANGED <<backend, dbVars>>

Spec == Init /\ [][Next]_vars
-----------------------------------------------------------------------------
(* The mapping to SerialStore.  The file's clients see the map of their    *)
(* process, from its load on.                                              *)
One == CHOOSE p \in Processes : TRUE
Phase(o) == IF backend = "file" THEN File!Phase(o) ELSE Db!Phase(o)
Records ==
    CASE backend = "runtime-db" -> table
      [] backend = "file" /\ loaded[One] -> sessions[One]
      [] backend = "file" /\ ~loaded[One] -> file
Serial == INSTANCE SerialStore WITH
    records <- Records,
    phase <- [o \in Ops |-> Phase(o)],
    request <- [o \in Ops |-> IF Phase(o) = "new" THEN NoRequest ELSE request[o]],
    queue <- IF backend = "runtime-db" THEN tail
             ELSE File!BehindLoads(queue[One], step)

(* Whichever backend it has, the store implements SerialStore.  Of the     *)
(* database: although an update is a SELECT and an INSERT OR REPLACE, no   *)
(* patch of another operation is lost between them, no deleted row comes   *)
(* back, and a sweep that selects, awaits and deletes removes no session   *)
(* that became live meanwhile (session-store.ts:160-171, 384-460).  Of the *)
(* file, while the process does not crash: although the map changes before *)
(* the file does and is empty before the load, which several calls may ask *)
(* for.  What the file held is there, or, if its reading is rejected, is   *)
(* lost as a whole before anything was answered; nothing is lost later     *)
(* (session-store.ts:173-347).                                             *)
Serialized ==
    /\ Serial!Init
    /\ [][crashes' = 0 => \/ Serial!Next
                          \/ backend = "file" /\ Serial!Forget]_(Serial!vars)

(* A session whose creation was acknowledged is in the table or the file   *)
(* as long as nobody else was asked to change it: no crash or restart, no  *)
(* rejected statement and no write that fails loses it                     *)
(* (session-store.ts:263-369, 384-460).  Only a load does whose read is    *)
(* rejected (session-store.ts:338-345): the next write replaces the file,  *)
(* and nothing is owed to those who were acknowledged before such a load.  *)
(* For one process: two processes on one file do not keep it.              *)
AckedDurable ==
    LET persistent == IF backend = "file" THEN file ELSE table
    IN  \A o \in Ops \ forgotten :
            /\ step[o] = "done" /\ request[o].type = "create"
            /\ \A q \in Ops \ {o} : request[q].type \notin {"none", "get", "sweep"}
                  => request[q].id # request[o].id
            => /\ persistent[request[o].id] # Absent
               /\ persistent[request[o].id].data = o
=============================================================================
