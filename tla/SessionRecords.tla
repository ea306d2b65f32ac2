--------------------------- MODULE SessionRecords ---------------------------
(***************************************************************************)
(* The data of src/src/services/session-store.ts: what a session record    *)
(* holds and what each write of the SessionStore interface does to it.     *)
(* An update patches some fields of a record and keeps the others, so a    *)
(* record is reduced to its status and one other field that holds the name *)
(* of the operation that last wrote it.                                    *)
(***************************************************************************)
CONSTANTS
    Ops,    \* calls of store operations
    Ids,    \* session ids
    Absent  \* no record, or no operation

(* "ended" is stopped or errored, "live" every other status.               *)
Status == {"live", "ended"}
Record == [status : Status, data : Ops \cup {Absent}]
Table == [Ids -> Record \cup {Absent}]

(* Sessions that were stored by an earlier run of the program.             *)
EarlierTable == [Ids -> [status : Status, data : {Absent}] \cup {Absent}]

Request == [type : {"create", "patch", "delete", "get"}, id : Ids]
             \cup [type : {"status"}, id : Ids, status : Status]
             \cup {[type |-> "sweep"]}
NoRequest == [type |-> "none"]

Patched(rec, o, r) ==
    IF r.type = "status" THEN [rec EXCEPT !.status = r.status]
                         ELSE [rec EXCEPT !.data = o]

Written(o, r, rec) ==
    CASE r.type = "create" -> [status |-> "live", data |-> o]
      [] r.type = "delete" -> Absent
      [] OTHER -> IF rec = Absent THEN Absent ELSE Patched(rec, o, r)

(* What operation o with request r makes of the table t.                   *)
Effect(o, r, t) == [t EXCEPT ![r.id] = Written(o, r, t[r.id])]

(* sweepStale considers these, if they are old enough.                     *)
Sweepable(t) == {i \in Ids : t[i] # Absent /\ t[i].status = "ended"}
=============================================================================
