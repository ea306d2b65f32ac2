---------------------------- MODULE PromptStream ----------------------------
(***************************************************************************)
(* How AcpService turns the output of its prompt children into session     *)
(* events (runAcpx and handleAcpEvent in src/src/services/acp-service.ts). *)
(* A child writes NDJSON lines; the pipe delivers them in chunks that know *)
(* nothing of lines or characters; the handlers of several children        *)
(* interleave chunk by chunk and share the listeners and output buffers.   *)
(*                                                                         *)
(* A line is two halves and a newline, so a chunk may end within a line.   *)
(* What a message says is its kind and, if any, the session id it names.   *)
(*                                                                         *)
(* The loop over the lines of a chunk takes one step a line.  It is one    *)
(* callback: until no newline is left nothing else of the service runs,    *)
(* while the children, processes of their own, go on.                      *)
(***************************************************************************)
EXTENDS Integers, SequencesExt

CONSTANTS
    Prompts,    \* calls of sendPrompt
    Sessions,   \* the ids the service gave its sessions
    AgentIds,   \* the ids agents gave theirs
    None,       \* no id
    Messages,   \* the messages the agents of this instance write
    MaxLines,   \* bound on the lines of all children
    OutputCap,  \* 2000, the texts an output buffer keeps
    Wide        \* is the middle of a line within a multi-byte character?

(* The session events handleAcpEvent emits for a message.                  *)
EventNames ==
    [started    |-> <<"ready">>,
     permission |-> <<"blocked">>,
     auth       |-> <<"blocked", "login_required">>,
     text       |-> <<"message">>,
     tool       |-> <<"tool_running">>,
     end_turn   |-> <<"task_complete">>,
     stop_error |-> <<"error">>,
     stop_other |-> <<>>,
     rpc_error  |-> <<"error">>,
     ignored    |-> <<>>]

StopReasons == {"end_turn", "stop_error", "stop_other"}

ASSUME StreamAssumption ==
    /\ None \notin Sessions \cup AgentIds
    /\ Messages \subseteq [kind : DOMAIN EventNames, id : AgentIds \cup {None}]
    /\ MaxLines \in Nat /\ OutputCap \in Nat \ {0}
    /\ Wide \in BOOLEAN

VARIABLES
    session,  \* session[p]: the session p was sent to
    phase,    \* phase[p]: the child, then the call
    sent,     \* sent[p]: the messages p's child wrote whole
    pipe,     \* pipe[p]: what of them stdout has not delivered
    exit,     \* exit[p]: code 0 ("ok"), another one ("error"), or another one
              \* with a stderr that speaks of a login ("login")
    reader,   \* reader[p]: stdoutBuffer, finalText and stopReason
    events,   \* the session events emitted so far
    output    \* outputBuffers

vars == <<session, phase, sent, pipe, exit, reader, events, output>>

Exits == {"ok", "error", "login"}
Ids == Sessions \cup AgentIds

(* A symbol of the pipe: the first or second half of the n-th line, or the *)
(* newline that ends it.                                                   *)
Symbol(n, part) == [line |-> n, part |-> part, intact |-> TRUE]
NewLine == 3

Init ==
    /\ session \in [Prompts -> Sessions]
    /\ phase = [p \in Prompts |-> "idle"]
    /\ sent = [p \in Prompts |-> <<>>]
    /\ pipe = [p \in Prompts |-> <<>>]
    /\ exit = [p \in Prompts |-> "ok"]
    /\ reader = [p \in Prompts |-> [buffer |-> <<>>, finalText |-> <<>>,
                                    stopReason |-> "none"]]
    /\ events = <<>>
    /\ output = [s \in Ids |-> <<>>]

(* A session event and the child it comes from.  What it says is that of   *)
(* the message it reports, the line-th; of what the service itself has to  *)
(* say the line is 0.                                                      *)
Event(name, s, p, line, response) ==
    [name |-> name, session |-> s, from |-> p, line |-> line, response |-> response]

(* No callback is under way: every line in a stdoutBuffer is handled.      *)
Idle == \A p \in Prompts : \A symbol \in ToSet(reader[p].buffer) :
            symbol.part # NewLine
-----------------------------------------------------------------------------
(* The child                                                               *)

Launch(p) ==
    /\ Idle /\ phase[p] = "idle"
    /\ phase' = [phase EXCEPT ![p] = "running"]
    /\ UNCHANGED <<session, sent, pipe, exit, reader, events, output>>

(* The executable is not found: an "error" event of the child, then its    *)
(* "close".                                                                *)
CliNotFound(p) ==
    /\ Idle /\ phase[p] = "idle"
    /\ phase' = [phase EXCEPT ![p] = "exited"]
    /\ exit' = [exit EXCEPT ![p] = "error"]
    /\ events' = Append(events, Event("error", session[p], p, 0, <<>>))
    /\ UNCHANGED <<session, sent, pipe, reader, output>>

(* The lines of all children.                                              *)
Lines == FoldFunction(LAMBDA s, n : Len(s) + n, 0, sent)

(* A message that names the id the service gave is as one without an id.   *)
AgentWrites(p, m) ==
    /\ phase[p] = "running" /\ Lines < MaxLines
    /\ sent' = [sent EXCEPT ![p] = Append(@, m)]
    /\ pipe' = [pipe EXCEPT ![p] =
                   @ \o [part \in 1..NewLine |-> Symbol(Len(sent[p]) + 1, part)]]
    /\ UNCHANGED <<session, phase, exit, reader, events, output>>

(* The child ends; what it last wrote may lack its newline or be cut.      *)
AgentExits(p) ==
    /\ phase[p] = "running"
    /\ phase' = [phase EXCEPT ![p] = "exited"]
    /\ \E how \in Exits : exit' = [exit EXCEPT ![p] = how]
    /\ \E cut \in 0..2 :
          /\ cut <= Len(pipe[p])
          /\ pipe' = [pipe EXCEPT ![p] = SubSeq(@, 1, Len(@) - cut)]
          /\ sent' = IF cut = 2 THEN [sent EXCEPT ![p] = Front(@)] ELSE sent
    /\ UNCHANGED <<session, reader, events, output>>
-----------------------------------------------------------------------------
(* The service                                                             *)

(* chunk.toString("utf8"): a character cut by the chunk's end is replaced, *)
(* in this chunk and in the next.                                          *)
Decoded(chunk) ==
    [i \in DOMAIN chunk |->
        [chunk[i] EXCEPT !.intact =
            ~ /\ Wide
              /\ \/ i = Len(chunk) /\ chunk[i].part = 1
                 \/ i = 1 /\ chunk[i].part = 2]]

(* stdout "data"                                                           *)
Data(p) ==
    /\ Idle
    /\ \E n \in 1..Len(pipe[p]) :
          /\ reader' = [reader EXCEPT ![p].buffer =
                           @ \o Decoded(SubSeq(pipe[p], 1, n))]
          /\ pipe' = [pipe EXCEPT ![p] = SubSeq(@, n + 1, Len(@))]
    /\ UNCHANGED <<session, phase, sent, exit, events, output>>

(* parseNdjson: anything but one whole line is malformed and ignored.      *)
Parsed(line) == Len(line) = 2
Message(p, line) == sent[p][line[1].line]
Text(p, line) ==
    [from |-> p, line |-> line[1].line,
     garbled |-> ~(line[1].intact /\ line[2].intact)]

(* extractSessionId(event) ?? fallbackSessionId                            *)
EventSession(p, m) == IF m.id = None THEN session[p] ELSE m.id

(* What handleAcpEvent makes of a line of p: finalText, stopReason, the    *)
(* events and the output buffers.                                          *)
FinalText(p, line) ==
    IF Parsed(line) /\ Message(p, line).kind = "text"
    THEN Append(reader[p].finalText, Text(p, line)) ELSE reader[p].finalText

StopReason(p, line) ==
    IF Parsed(line) /\ Message(p, line).kind \in StopReasons
    THEN Message(p, line).kind ELSE reader[p].stopReason

Response(p, line) ==
    CASE Message(p, line).kind = "text" -> <<Text(p, line)>>
      [] Message(p, line).kind = "end_turn" -> FinalText(p, line)
      [] OTHER -> <<>>

Emitted(p, line) ==
    IF ~Parsed(line) THEN <<>>
    ELSE LET m == Message(p, line)
         IN  [i \in DOMAIN EventNames[m.kind] |->
                Event(EventNames[m.kind][i], EventSession(p, m), p, line[1].line,
                      Response(p, line))]

Capped(s) == IF Len(s) <= OutputCap THEN s
             ELSE SubSeq(s, Len(s) - OutputCap + 1, Len(s))

Output(p, line) ==
    IF Parsed(line) /\ Message(p, line).kind = "text"
    THEN [output EXCEPT ![EventSession(p, Message(p, line))] =
            Capped(Append(@, Text(p, line)))]
    ELSE output

(* One turn of the loop: a newline ends the line before it.                *)
HandleLine(p) ==
    /\ \E n \in DOMAIN reader[p].buffer :
          LET buffer == reader[p].buffer
              line == SubSeq(buffer, 1, n - 1)
          IN  /\ buffer[n].part = NewLine
              /\ \A i \in 1..n - 1 : buffer[i].part # NewLine
              /\ reader' = [reader EXCEPT ![p] =
                    [buffer |-> SubSeq(buffer, n + 1, Len(buffer)),
                     finalText |-> FinalText(p, line),
                     stopReason |-> StopReason(p, line)]]
              /\ events' = events \o Emitted(p, line)
              /\ output' = Output(p, line)
    /\ UNCHANGED <<session, phase, sent, pipe, exit>>

LastLine_Dropped(p) == <<>>                                \* mutant

(* At "close" what is left in stdoutBuffer is taken for a line.            *)
LastLine(p) == reader[p].buffer

Answer_BeforeFlush(p) == reader[p].finalText               \* mutant
Answer(p) == FinalText(p, LastLine(p))

(* "close", which comes when stdout is drained: the last line, an error    *)
(* event if stderr speaks of a login, "stopped".                           *)
Close(p) ==
    /\ Idle /\ phase[p] = "exited" /\ pipe[p] = <<>>
    /\ phase' = [phase EXCEPT ![p] = "closed"]
    /\ reader' = [reader EXCEPT ![p].finalText = FinalText(p, LastLine(p)),
                                ![p].stopReason = StopReason(p, LastLine(p))]
    /\ LET login == IF exit[p] # "login" THEN <<>>
                    ELSE <<Event("error", session[p], p, 0, <<>>)>>
       IN  events' = events \o Emitted(p, LastLine(p)) \o login
                        \o <<Event("stopped", session[p], p, 0, Answer(p))>>
    /\ output' = Output(p, LastLine(p))
    /\ UNCHANGED <<session, sent, pipe, exit>>

Succeeded_ExitCode(p) == exit[p] = "ok"                    \* mutant
Succeeded(p) == exit[p] = "ok" /\ reader[p].stopReason # "stop_error"

(* The rest of sendPrompt.                                                 *)
Settle(p) ==
    /\ Idle /\ phase[p] = "closed"
    /\ \/ /\ Succeeded(p)
          /\ phase' = [phase EXCEPT ![p] = "ok"]
          /\ UNCHANGED events
       \/ /\ ~Succeeded(p)
          /\ phase' = [phase EXCEPT ![p] = "failed"]
          /\ events' = Append(events, Event("error", session[p], p, 0, <<>>))
    /\ UNCHANGED <<session, sent, pipe, exit, reader, output>>

(* deleteSession forgets the output of the service's own id.               *)
DeleteSession(s) ==
    /\ Idle
    /\ output' = [output EXCEPT ![s] = <<>>]
    /\ UNCHANGED <<session, phase, sent, pipe, exit, reader, events>>

Next ==
    \/ \E p \in Prompts :
          \/ Launch(p) \/ CliNotFound(p) \/ AgentExits(p)
          \/ \E m \in Messages : AgentWrites(p, m)
          \/ Data(p) \/ HandleLine(p) \/ Close(p) \/ Settle(p)
    \/ \E s \in Sessions : DeleteSession(s)

Spec == Init /\ [][Next]_vars
-----------------------------------------------------------------------------
Settled(p) == phase[p] \in {"closed", "ok", "failed"}

(* The symbols of p that are not handled yet, and the number of its lines  *)
(* that are.                                                               *)
Rest(p) == reader[p].buffer \o pipe[p]
Handled(p) == IF Settled(p) \/ Rest(p) = <<>> THEN Len(sent[p])
              ELSE Rest(p)[1].line - 1

(* The events that come from p.                                            *)
Mine(p) == {i \in DOMAIN events : events[i].from = p}

(* The texts are those of the first n messages of p, whole, each once and  *)
(* in order; only characters that chunks may cut are garbled.              *)
Tells(texts, p, n) ==
    /\ {t.line : t \in ToSet(texts)} = {i \in 1..n : sent[p][i].kind = "text"}
    /\ \A t \in ToSet(texts) : t.from = p /\ (t.garbled => Wide)
    /\ \A i, j \in DOMAIN texts : i < j => texts[i].line < texts[j].line

(* e is an event that the message it reports calls for.                    *)
Faithful(e, p) ==
    LET m == sent[p][e.line]
    IN  /\ e.name \in ToSet(EventNames[m.kind])
        /\ e.session = IF m.id = None THEN session[p] ELSE m.id
        /\ CASE m.kind = "text" ->
                  Len(e.response) = 1 /\ e.response[1].line = e.line
                    /\ e.response[1].from = p /\ (e.response[1].garbled => Wide)
             [] m.kind = "end_turn" -> Tells(e.response, p, e.line)
             [] OTHER -> e.response = <<>>

(* The order of the events of a child: by their messages, "login_required" *)
(* after the "blocked" of the same one, the service's own at the end.      *)
InOrder(d, e) ==
    \/ e.line = 0
    \/ d.line # 0 /\ d.line < e.line
    \/ d.line = e.line /\ d.name = "blocked" /\ e.name = "login_required"

(* However the output is cut into chunks, wherever the child stopped       *)
(* writing and whatever other children write meanwhile, each message is    *)
(* reported once, whole, in order, and nothing else is: the same events    *)
(* follow, and the same final text, as from messages that come one by one  *)
(* (acp-service.ts:418-434, 449-458).  The tests say "handles partial      *)
(* lines across chunk boundaries" (acp-service.test.ts:183).               *)
ChunkingInvisible ==
    \A p \in Prompts :
        LET n == Handled(p)
        IN  /\ \A i \in Mine(p) : events[i].line # 0 =>
                  events[i].line \in 1..n /\ Faithful(events[i], p)
            /\ \A k \in 1..n : \A name \in ToSet(EventNames[sent[p][k].kind]) :
                  \E i \in Mine(p) : events[i].line = k /\ events[i].name = name
            /\ \A i, j \in Mine(p) : i < j => InOrder(events[i], events[j])
            /\ Tells(reader[p].finalText, p, n)
            /\ (\E i \in Mine(p) : events[i].line = 0)
                  => Settled(p) \/ sent[p] = <<>>

(* The "stopped" event of a prompt comes once, for the session the prompt  *)
(* was sent to, after all its child reported, and with all the text of the *)
(* answer, so that a listener that saw no "task_complete" has it           *)
(* (acp-service.ts:469-471; docs/PARITY_SPEC.md:1441).                     *)
StoppedCarriesAnswer ==
    \A p \in Prompts :
        LET stops == {i \in Mine(p) : events[i].name = "stopped"}
        IN  IF Settled(p)
            THEN \E i \in stops :
                    /\ stops = {i}
                    /\ events[i].session = session[p]
                    /\ Tells(events[i].response, p, Len(sent[p]))
                    /\ \A j \in Mine(p) : j > i => events[j].name = "error"
            ELSE stops = {}

(* The last of the first n messages of p that ended its turn said that it  *)
(* failed.                                                                 *)
TurnFailed(p, n) ==
    \E i \in 1..n : /\ sent[p][i].kind = "stop_error"
                    /\ \A j \in i + 1 .. n : sent[p][j].kind \notin StopReasons

(* A prompt that fails is reported as an error of the session it was sent  *)
(* to after it stopped, even when its child exited with code 0 or named    *)
(* another session in its failure, and one that succeeds is not            *)
(* (acp-service.ts:253-277).                                               *)
FailureReported ==
    \A p \in Prompts : phase[p] \in {"ok", "failed"} =>
        LET failed == exit[p] # "ok" \/ TurnFailed(p, Len(sent[p]))
        IN  \E last \in Mine(p) :
                /\ \A i \in Mine(p) : i <= last
                /\ events[last].session = session[p]
                /\ events[last].name = IF failed THEN "error" ELSE "stopped"

=============================================================================
