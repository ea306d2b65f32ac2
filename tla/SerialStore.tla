----------------------------- MODULE SerialStore -----------------------------
(***************************************************************************)
(* What a SessionStore promises its clients: writes take effect one at a   *)
(* time, in the order in which they were queued, each as a whole; a write  *)
(* that is acknowledged has taken effect, one that is rejected may or may  *)
(* not have; a read sees the table as it is.  A sweep removes only         *)
(* sessions that ended, one by one.                                        *)
(***************************************************************************)
EXTENDS Sequences, SessionRecords

VARIABLES
    records,  \* the table
    request,  \* request[o]: what o was asked to do
    phase,    \* phase[o]: new, pending, applied, done or failed
    queue,    \* the writes that have not settled, oldest first
    answer    \* answer[o]: what a get returned

vars == <<records, request, phase, queue, answer>>

Init ==
    /\ records \in EarlierTable
    /\ request = [o \in Ops |-> NoRequest]
    /\ phase = [o \in Ops |-> "new"]
    /\ queue = <<>>
    /\ answer = [o \in Ops |-> Absent]

Enqueue(o, r) ==
    /\ phase[o] = "new" /\ r.type # "get"
    /\ request' = [request EXCEPT ![o] = r]
    /\ phase' = [phase EXCEPT ![o] = "pending"]
    /\ queue' = Append(queue, o)
    /\ UNCHANGED <<records, answer>>

AtHead(o) == queue # <<>> /\ Head(queue) = o

Apply(o) ==
    /\ AtHead(o) /\ phase[o] = "pending"
    /\ records' = IF request[o].type = "sweep" THEN records
                  ELSE Effect(o, request[o], records)
    /\ phase' = [phase EXCEPT ![o] = "applied"]
    /\ UNCHANGED <<request, queue, answer>>

(* A sweep takes effect record by record, the last of them together with   *)
(* its being applied, or all of them at once.                              *)
SweepSome(o) ==
    /\ AtHead(o) /\ phase[o] = "pending" /\ request[o].type = "sweep"
    /\ \E S \in SUBSET Sweepable(records) :
          records' = [i \in Ids |-> IF i \in S THEN Absent ELSE records[i]]
    /\ \/ UNCHANGED phase
       \/ phase' = [phase EXCEPT ![o] = "applied"]
    /\ UNCHANGED <<request, queue, answer>>

Settle(o) ==
    /\ AtHead(o)
    /\ \/ phase[o] = "applied" /\ phase' = [phase EXCEPT ![o] = "done"]
       \/ phase' = [phase EXCEPT ![o] = "failed"]
    /\ queue' = Tail(queue)
    /\ UNCHANGED <<records, request, answer>>

Read(o, i) ==
    /\ phase[o] = "new"
    /\ request' = [request EXCEPT ![o] = [type |-> "get", id |-> i]]
    /\ \/ /\ phase' = [phase EXCEPT ![o] = "done"]
          /\ answer' = [answer EXCEPT ![o] = records[i]]
       \/ phase' = [phase EXCEPT ![o] = "failed"] /\ UNCHANGED answer
    /\ UNCHANGED <<records, queue>>

(* What a file store may do besides: before it has taken or answered       *)
(* anything it may lose the sessions of an earlier life, all of them.      *)
Forget ==
    /\ \A o \in Ops : phase[o] = "new"
    /\ records' = [i \in Ids |-> Absent]
    /\ UNCHANGED <<request, phase, queue, answer>>

Next ==
    \E o \in Ops :
        \/ \E r \in Request : Enqueue(o, r)
        \/ Apply(o) \/ SweepSome(o) \/ Settle(o)
        \/ \E i \in Ids : Read(o, i)

Spec == Init /\ [][Next]_vars
=============================================================================
