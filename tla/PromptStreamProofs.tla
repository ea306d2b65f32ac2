------------------------- MODULE PromptStreamProofs -------------------------
(***************************************************************************)
(* For any number of prompts and lines, however their output is cut into   *)
(* chunks and wherever a child stops writing: what the service reports of  *)
(* a prompt is what its messages call for, each once and in order, its     *)
(* answer comes with the event that says it stopped, and a failure is      *)
(* told.  The inductive invariant says that what is not handled of a       *)
(* child's output continues the lines that are.                            *)
(***************************************************************************)
EXTENDS PromptStream, SequenceTheorems, TLAPS

Phases == {"idle", "running", "exited", "closed", "ok", "failed"}
Symbols == [line : Nat \ {0}, part : 1..3, intact : BOOLEAN]
Texts == [from : Prompts, line : Nat, garbled : BOOLEAN]
Readers == [buffer : Seq(Symbols), finalText : Seq(Texts),
            stopReason : StopReasons \cup {"none"}]
Reports == {"ready", "blocked", "login_required", "message", "tool_running",
            "task_complete", "error"}
Events == [name : Reports \cup {"stopped"}, session : Ids, from : Prompts,
           line : Nat, response : Seq(Texts)]

(* The variables keep their types.                                         *)
TypeOK ==
    /\ session \in [Prompts -> Sessions]
    /\ phase \in [Prompts -> Phases]
    /\ sent \in [Prompts -> Seq(Messages)]
    /\ pipe \in [Prompts -> Seq(Symbols)]
    /\ exit \in [Prompts -> Exits]
    /\ reader \in [Prompts -> Readers]
    /\ events \in Seq(Events)
    /\ output \in [Ids -> Seq(Texts)]

-----------------------------------------------------------------------------
(* The properties of one prompt, of given events, messages and texts.      *)
TextsAre(texts, msgs, p, n) ==
    /\ {t.line : t \in ToSet(texts)} = {i \in 1..n : msgs[i].kind = "text"}
    /\ \A t \in ToSet(texts) : t.from = p /\ (t.garbled => Wide)
    /\ \A i, j \in DOMAIN texts : i < j => texts[i].line < texts[j].line

Fits(e, msgs, s, p) ==
    LET m == msgs[e.line]
    IN  /\ e.name \in ToSet(EventNames[m.kind])
        /\ e.session = IF m.id = None THEN s ELSE m.id
        /\ CASE m.kind = "text" ->
                  Len(e.response) = 1 /\ e.response[1].line = e.line
                    /\ e.response[1].from = p /\ (e.response[1].garbled => Wide)
             [] m.kind = "end_turn" -> TextsAre(e.response, msgs, p, e.line)
             [] OTHER -> e.response = <<>>

From(evs, p) == {i \in DOMAIN evs : evs[i].from = p}

Reported(evs, texts, msgs, s, p, n) ==
    /\ \A i \in From(evs, p) : evs[i].line # 0 =>
          evs[i].line \in 1..n /\ Fits(evs[i], msgs, s, p)
    /\ \A k \in 1..n : \A name \in ToSet(EventNames[msgs[k].kind]) :
          \E i \in From(evs, p) : evs[i].line = k /\ evs[i].name = name
    /\ \A i, j \in From(evs, p) : i < j => InOrder(evs[i], evs[j])
    /\ TextsAre(texts, msgs, p, n)

(* The messages of a kind have at most two names, and only one kind both.  *)
Kinds == {"started", "permission", "auth", "text", "tool", "end_turn",
          "stop_error", "stop_other", "rpc_error", "ignored"}

LEMMA Names ==
    /\ DOMAIN EventNames = Kinds
    /\ \A k \in Kinds :
          /\ EventNames[k] \in Seq(Reports)
          /\ \A i \in DOMAIN EventNames[k] : EventNames[k][i] # "stopped"
          /\ \A i, j \in DOMAIN EventNames[k] : i < j =>
                EventNames[k][i] = "blocked" /\ EventNames[k][j] = "login_required"
<1>1. DOMAIN EventNames = Kinds
  BY DEF EventNames, Kinds
<1>2. EventNames["started"] = <<"ready">>
  BY DEF EventNames
<1>3. EventNames["permission"] = <<"blocked">>
  BY DEF EventNames
<1>4. EventNames["auth"] = <<"blocked", "login_required">>
  BY DEF EventNames
<1>5. EventNames["text"] = <<"message">>
  BY DEF EventNames
<1>6. EventNames["tool"] = <<"tool_running">>
  BY DEF EventNames
<1>7. EventNames["end_turn"] = <<"task_complete">>
  BY DEF EventNames
<1>8. EventNames["stop_error"] = <<"error">> /\ EventNames["rpc_error"] = <<"error">>
  BY DEF EventNames
<1>9. EventNames["stop_other"] = <<>> /\ EventNames["ignored"] = <<>>
  BY DEF EventNames
<1>10. ASSUME NEW k \in Kinds
       PROVE  /\ EventNames[k] \in Seq(Reports)
              /\ \A i \in DOMAIN EventNames[k] : EventNames[k][i] # "stopped"
              /\ \A i, j \in DOMAIN EventNames[k] : i < j =>
                    EventNames[k][i] = "blocked" /\ EventNames[k][j] = "login_required"
  <2> DEFINE singles == {"ready", "blocked", "message", "tool_running",
                         "task_complete", "error"}
  <2>1. CASE k = "auth"
    <3>1. EventNames[k] = <<"blocked", "login_required">>
      BY <1>4, <2>1
    <3>2. /\ EventNames[k] \in Seq(Reports) /\ DOMAIN EventNames[k] = 1..2
          /\ EventNames[k][1] = "blocked" /\ EventNames[k][2] = "login_required"
      <4>1. <<"blocked", "login_required">> \in Seq(Reports)
        <5>1. "blocked" \in Reports /\ "login_required" \in Reports
          BY DEF Reports
        <5> QED
          BY <5>1
      <4>2. DOMAIN EventNames[k] = 1..2
        BY <3>1
      <4>3. EventNames[k][1] = "blocked" /\ EventNames[k][2] = "login_required"
        BY <3>1
      <4> QED
        BY <3>1, <4>1, <4>2, <4>3
    <3> QED
      BY <3>2
  <2>2. ASSUME NEW w \in singles, EventNames[k] = <<w>>
        PROVE  /\ EventNames[k] \in Seq(Reports)
               /\ \A i \in DOMAIN EventNames[k] : EventNames[k][i] # "stopped"
               /\ \A i, j \in DOMAIN EventNames[k] : ~ i < j
    <3>1. w \in Reports /\ w # "stopped"
      BY <2>2 DEF Reports
    <3>2. <<w>> \in Seq(Reports) /\ DOMAIN <<w>> = {1} /\ <<w>>[1] = w
      BY <3>1
    <3> QED
      BY <2>2, <3>1, <3>2
  <2>3. CASE EventNames[k] = <<>>
    BY <2>3
  <2>4. ASSUME k # "auth", EventNames[k] # <<>>
        PROVE  \E w \in singles : EventNames[k] = <<w>>
    <3>1. CASE k = "started"
      BY <1>2, <3>1
    <3>2. CASE k = "permission"
      BY <1>3, <3>2
    <3>3. CASE k = "text"
      BY <1>5, <3>3
    <3>4. CASE k = "tool"
      BY <1>6, <3>4
    <3>5. CASE k = "end_turn"
      BY <1>7, <3>5
    <3>6. CASE k = "stop_error" \/ k = "rpc_error"
      BY <1>8, <3>6
    <3> QED
      BY <1>9, <2>4, <3>1, <3>2, <3>3, <3>4, <3>5, <3>6 DEF Kinds
  <2> QED
    BY <2>1, <2>2, <2>3, <2>4
<1> QED
  BY <1>1, <1>10

(* What it says of texts that they are those of the first n messages.      *)
TextsList(texts, msgs, p, n) ==
    /\ \A j \in DOMAIN texts :
          /\ texts[j].line \in 1..n /\ msgs[texts[j].line].kind = "text"
          /\ texts[j].from = p /\ (texts[j].garbled => Wide)
    /\ \A i \in 1..n : msgs[i].kind = "text" =>
          \E j \in DOMAIN texts : texts[j].line = i
    /\ \A i, j \in DOMAIN texts : i < j => texts[i].line < texts[j].line

LEMMA TextsIff ==
    ASSUME NEW texts \in Seq(Texts), NEW msgs, NEW p, NEW n \in Nat
    PROVE  TextsAre(texts, msgs, p, n) <=> TextsList(texts, msgs, p, n)
<1>1. ToSet(texts) = {texts[j] : j \in DOMAIN texts}
  BY DEF ToSet
<1>2. {t.line : t \in ToSet(texts)} = {texts[j].line : j \in DOMAIN texts}
  BY <1>1
<1>3. {texts[j].line : j \in DOMAIN texts} = {i \in 1..n : msgs[i].kind = "text"} <=>
        /\ \A j \in DOMAIN texts :
              texts[j].line \in 1..n /\ msgs[texts[j].line].kind = "text"
        /\ \A i \in 1..n : msgs[i].kind = "text" =>
              \E j \in DOMAIN texts : texts[j].line = i
  OBVIOUS
<1>4. (\A t \in ToSet(texts) : t.from = p /\ (t.garbled => Wide)) <=>
        \A j \in DOMAIN texts : texts[j].from = p /\ (texts[j].garbled => Wide)
  BY <1>1
<1> QED
  BY <1>2, <1>3, <1>4 DEF TextsAre, TextsList

(* They depend on these messages only.                                     *)
LEMMA TextsStay ==
    ASSUME NEW texts \in Seq(Texts), NEW msgs, NEW more, NEW p, NEW n \in Nat,
           \A i \in 1..n : more[i] = msgs[i], TextsAre(texts, msgs, p, n)
    PROVE  TextsAre(texts, more, p, n)
<1>1. {i \in 1..n : msgs[i].kind = "text"} = {i \in 1..n : more[i].kind = "text"}
  OBVIOUS
<1> QED
  BY <1>1 DEF TextsAre

(* A message more adds its text, if it has one.                            *)
LEMMA TextsGrow ==
    ASSUME NEW texts \in Seq(Texts), NEW msgs, NEW p \in Prompts, NEW n \in Nat,
           NEW m \in Nat, m = n + 1, NEW t \in Texts, t.line = m, t.from = p, t.garbled => Wide,
           msgs[m].kind = "text", TextsAre(texts, msgs, p, n)
    PROVE  Append(texts, t) \in Seq(Texts) /\ TextsAre(Append(texts, t), msgs, p, m)
<1> DEFINE longer == Append(texts, t)
<1>1. /\ longer \in Seq(Texts) /\ DOMAIN longer = 1..Len(texts) + 1
      /\ DOMAIN texts = 1..Len(texts) /\ Len(texts) \in Nat
      /\ \A j \in 1..Len(texts) : longer[j] = texts[j]
      /\ longer[Len(texts) + 1] = t
  OBVIOUS
<1>2. /\ \A j \in DOMAIN texts :
            /\ texts[j].line \in 1..n /\ msgs[texts[j].line].kind = "text"
            /\ texts[j].from = p /\ (texts[j].garbled => Wide)
      /\ \A i \in 1..n : msgs[i].kind = "text" =>
            \E j \in DOMAIN texts : texts[j].line = i
      /\ \A i, j \in DOMAIN texts : i < j => texts[i].line < texts[j].line
  BY TextsIff DEF TextsList
<1> HIDE DEF longer
<1>3. \A j \in DOMAIN longer :
        /\ longer[j].line \in 1..m /\ msgs[longer[j].line].kind = "text"
        /\ longer[j].from = p /\ (longer[j].garbled => Wide)
  <2>1. ASSUME NEW j \in DOMAIN texts
        PROVE  /\ longer[j].line \in 1..m /\ msgs[longer[j].line].kind = "text"
               /\ longer[j].from = p /\ (longer[j].garbled => Wide)
    BY <1>1, <1>2
  <2>2. ASSUME NEW j \in DOMAIN longer, j \notin DOMAIN texts PROVE longer[j] = t
    BY <1>1, <2>2
  <2> QED
    BY <2>1, <2>2
<1>4. \A i \in 1..m : msgs[i].kind = "text" =>
        \E j \in DOMAIN longer : longer[j].line = i
  <2>1. ASSUME NEW i \in 1..n, msgs[i].kind = "text"
        PROVE  \E j \in DOMAIN longer : longer[j].line = i
    <3>1. PICK j \in DOMAIN texts : texts[j].line = i
      BY <1>2, <2>1
    <3> QED
      BY <1>1, <3>1
  <2>2. \E j \in DOMAIN longer : longer[j].line = m
    BY <1>1
  <2> QED
    BY <2>1, <2>2
<1>5. \A i, j \in DOMAIN longer : i < j => longer[i].line < longer[j].line
  <2>1. ASSUME NEW i \in DOMAIN longer, NEW j \in DOMAIN longer, i < j
        PROVE  longer[i].line < longer[j].line
    <3>1. CASE j \in DOMAIN texts
      BY <1>1, <1>2, <2>1, <3>1
    <3>2. CASE j = Len(texts) + 1
      <4>1. i \in DOMAIN texts /\ texts[i].line \in 1..n
        BY <1>1, <1>2, <2>1, <3>2
      <4> QED
        BY <1>1, <3>2, <4>1
    <3> QED
      BY <1>1, <3>1, <3>2
  <2> QED
    BY <2>1
<1>6. TextsAre(longer, msgs, p, m)
  <2>1. TextsList(longer, msgs, p, m)
    BY <1>3, <1>4, <1>5 DEF TextsList
  <2> QED
    BY <1>1, <2>1, TextsIff
<1> QED
  BY <1>1, <1>6 DEF longer

LEMMA TextsSame ==
    ASSUME NEW texts \in Seq(Texts), NEW msgs, NEW p, NEW n \in Nat,
           NEW m \in Nat, m = n + 1, msgs[m].kind # "text", TextsAre(texts, msgs, p, n)
    PROVE  TextsAre(texts, msgs, p, m)
<1>1. {i \in 1..n : msgs[i].kind = "text"} = {i \in 1..m : msgs[i].kind = "text"}
  OBVIOUS
<1> QED
  BY <1>1 DEF TextsAre

(* An event has the type of an event.                                      *)
LEMMA EventTyped ==
    ASSUME NEW evs \in Seq(Events), NEW p, NEW i \in From(evs, p)
    PROVE  /\ i \in 1..Len(evs) /\ evs[i].from = p
           /\ evs[i].line \in Nat /\ evs[i].response \in Seq(Texts)
<1>1. i \in 1..Len(evs) /\ evs[i].from = p
  BY DEF From
<1>2. evs[i] \in Events
  BY <1>1
<1> QED
  BY <1>1, <1>2 DEF Events

(* What is reported depends on the messages reported.                      *)
LEMMA ReportedStay ==
    ASSUME NEW evs \in Seq(Events), NEW texts \in Seq(Texts), NEW msgs, NEW more,
           NEW s, NEW p, NEW n \in Nat, \A i \in 1..n : more[i] = msgs[i],
           Reported(evs, texts, msgs, s, p, n)
    PROVE  Reported(evs, texts, more, s, p, n)
<1>1. TextsAre(texts, more, p, n)
  BY TextsStay DEF Reported
<1>2. ASSUME NEW i \in From(evs, p), evs[i].line # 0
      PROVE  evs[i].line \in 1..n /\ Fits(evs[i], more, s, p)
  <2>1. evs[i].line \in 1..n /\ Fits(evs[i], msgs, s, p)
    BY <1>2 DEF Reported
  <2>2. more[evs[i].line] = msgs[evs[i].line]
    BY <2>1
  <2>3. evs[i].response \in Seq(Texts) /\ evs[i].line \in Nat
    BY EventTyped
  <2>4. \A k \in 1..evs[i].line : more[k] = msgs[k]
    BY <2>1, <2>3
  <2>5. TextsAre(evs[i].response, msgs, p, evs[i].line)
          => TextsAre(evs[i].response, more, p, evs[i].line)
    BY <2>3, <2>4, TextsStay
  <2> QED
    BY <2>1, <2>2, <2>5 DEF Fits
<1>3. ASSUME NEW k \in 1..n, NEW name \in ToSet(EventNames[more[k].kind])
      PROVE  \E i \in From(evs, p) : evs[i].line = k /\ evs[i].name = name
  <2>1. name \in ToSet(EventNames[msgs[k].kind])
    BY <1>3
  <2> QED
    BY <2>1 DEF Reported
<1> QED
  BY <1>1, <1>2, <1>3 DEF Reported

(* Events that come after others.                                          *)
LEMMA After ==
    ASSUME NEW evs \in Seq(Events), NEW es \in Seq(Events), NEW p
    PROVE  /\ evs \o es \in Seq(Events)
           /\ From(evs, p) \subseteq 1..Len(evs)
           /\ \A i \in From(evs, p) :
                 i \in From(evs \o es, p) /\ (evs \o es)[i] = evs[i]
           /\ \A k \in From(es, p) :
                 /\ Len(evs) + k \in From(evs \o es, p) /\ k \in 1..Len(es)
                 /\ (evs \o es)[Len(evs) + k] = es[k]
           /\ \A i \in From(evs \o es, p) :
                 i \in From(evs, p) \/ \E k \in From(es, p) : i = Len(evs) + k
<1> DEFINE all == evs \o es
<1>1. /\ all \in Seq(Events) /\ DOMAIN all = 1..Len(evs) + Len(es)
      /\ DOMAIN evs = 1..Len(evs) /\ DOMAIN es = 1..Len(es)
      /\ Len(evs) \in Nat /\ Len(es) \in Nat
      /\ \A i \in 1..Len(evs) + Len(es) :
            all[i] = IF i <= Len(evs) THEN evs[i] ELSE es[i - Len(evs)]
  BY ConcatProperties, LenProperties
<1> HIDE DEF all
<1>2. ASSUME NEW i \in From(evs, p) PROVE i \in From(all, p) /\ all[i] = evs[i]
  BY <1>1 DEF From
<1>3. ASSUME NEW k \in From(es, p)
      PROVE  /\ Len(evs) + k \in From(all, p) /\ k \in 1..Len(es)
             /\ all[Len(evs) + k] = es[k]
  <2>1. k \in 1..Len(es) /\ es[k].from = p
    BY <1>1 DEF From
  <2>2. Len(evs) + k \in 1..Len(evs) + Len(es) /\ ~(Len(evs) + k <= Len(evs))
        /\ (Len(evs) + k) - Len(evs) = k
    BY <1>1, <2>1
  <2>3. all[Len(evs) + k] = es[k]
    BY <1>1, <2>2
  <2> QED
    BY <1>1, <2>1, <2>2, <2>3 DEF From
<1>4. ASSUME NEW i \in From(all, p), i \notin From(evs, p)
      PROVE  \E k \in From(es, p) : i = Len(evs) + k
  <2>1. i \in 1..Len(evs) + Len(es) /\ all[i].from = p
    BY <1>1 DEF From
  <2>2. ~(i <= Len(evs))
    BY <1>1, <1>4, <2>1 DEF From
  <2>3. i - Len(evs) \in 1..Len(es) /\ i = Len(evs) + (i - Len(evs))
    BY <1>1, <2>1, <2>2
  <2>4. all[i] = es[i - Len(evs)]
    BY <1>1, <2>1, <2>2
  <2>5. i - Len(evs) \in From(es, p)
    BY <1>1, <2>1, <2>3, <2>4 DEF From
  <2> QED
    BY <2>3, <2>5
<1>5. From(evs, p) \subseteq 1..Len(evs)
  BY <1>1 DEF From
<1> QED
  BY <1>1, <1>2, <1>3, <1>4, <1>5 DEF all

(* What the service itself has to say is none of p's messages.             *)
LEMMA ReportedFrame ==
    ASSUME NEW evs \in Seq(Events), NEW es \in Seq(Events), NEW texts, NEW msgs,
           NEW s, NEW p, NEW n \in Nat, \A k \in From(es, p) : es[k].line = 0,
           Reported(evs, texts, msgs, s, p, n)
    PROVE  Reported(evs \o es, texts, msgs, s, p, n)
<1> DEFINE all == evs \o es
<1>1. /\ \A i \in From(evs, p) : i \in From(all, p) /\ all[i] = evs[i]
      /\ \A i \in From(all, p) : i \in From(evs, p) \/ all[i].line = 0
      /\ \A i, j \in From(all, p) :
            i < j /\ j \in From(evs, p) => i \in From(evs, p)
  <2>1. \A i, j \in From(all, p) :
           i < j /\ j \in From(evs, p) => i \in From(evs, p)
    <3>1. ASSUME NEW i \in From(all, p), NEW j \in From(evs, p), i < j,
                 i \notin From(evs, p)
          PROVE  FALSE
      <4>1. PICK k \in From(es, p) : i = Len(evs) + k
        BY <3>1, After
      <4>2. k \in 1..Len(es) /\ j \in 1..Len(evs)
        BY After
      <4>3. Len(evs) \in Nat /\ Len(es) \in Nat
        OBVIOUS
      <4> QED
        BY <3>1, <4>1, <4>2, <4>3
    <3> QED
      BY <3>1
  <2> QED
    BY <2>1, After
<1> HIDE DEF all
<1>2. ASSUME NEW i \in From(all, p), all[i].line # 0
      PROVE  all[i].line \in 1..n /\ Fits(all[i], msgs, s, p)
  BY <1>1, <1>2 DEF Reported
<1>3. ASSUME NEW k \in 1..n, NEW name \in ToSet(EventNames[msgs[k].kind])
      PROVE  \E i \in From(all, p) : all[i].line = k /\ all[i].name = name
  <2>1. PICK i \in From(evs, p) : evs[i].line = k /\ evs[i].name = name
    BY DEF Reported
  <2> QED
    BY <1>1, <2>1
<1>4. ASSUME NEW i \in From(all, p), NEW j \in From(all, p), i < j
      PROVE  InOrder(all[i], all[j])
  <2>1. CASE j \in From(evs, p)
    BY <1>1, <1>4, <2>1 DEF Reported
  <2>2. CASE all[j].line = 0
    BY <2>2 DEF InOrder
  <2> QED
    BY <1>1, <2>1, <2>2
<1>5. Reported(all, texts, msgs, s, p, n)
  BY <1>2, <1>3, <1>4 DEF Reported
<1> QED
  BY <1>5 DEF all

(* A message more adds the events it calls for.                            *)
LEMMA ReportedMore ==
    ASSUME NEW evs \in Seq(Events), NEW es \in Seq(Events), NEW texts, NEW longer,
           NEW msgs, NEW s, NEW p, NEW n \in Nat, NEW m \in Nat, m = n + 1,
           msgs[m].kind \in Kinds, \A i \in From(evs, p) : evs[i].line # 0,
           DOMAIN es = DOMAIN EventNames[msgs[m].kind],
           \A k \in DOMAIN es :
              /\ es[k].from = p /\ es[k].line = m /\ Fits(es[k], msgs, s, p)
              /\ es[k].name = EventNames[msgs[m].kind][k],
           TextsAre(longer, msgs, p, m), Reported(evs, texts, msgs, s, p, n)
    PROVE  Reported(evs \o es, longer, msgs, s, p, m)
<1> DEFINE all == evs \o es
           names == EventNames[msgs[m].kind]
<1>1. From(es, p) = DOMAIN es
  BY DEF From
<1>2. /\ \A i \in From(evs, p) : i \in From(all, p) /\ all[i] = evs[i]
      /\ \A k \in DOMAIN es :
            Len(evs) + k \in From(all, p) /\ all[Len(evs) + k] = es[k]
      /\ \A i \in From(all, p) :
            i \in From(evs, p) \/ \E k \in DOMAIN es : i = Len(evs) + k
      /\ From(evs, p) \subseteq 1..Len(evs) /\ DOMAIN es = 1..Len(es)
      /\ Len(evs) \in Nat /\ Len(es) \in Nat
  <2>1. DOMAIN es = 1..Len(es) /\ Len(evs) \in Nat /\ Len(es) \in Nat
    OBVIOUS
  <2> QED
    BY <1>1, <2>1, After
<1> HIDE DEF all
<1>3. ASSUME NEW i \in From(evs, p)
      PROVE  /\ all[i].line \in 1..n /\ all[i].line \in 1..m
             /\ Fits(all[i], msgs, s, p)
  BY <1>2 DEF Reported
<1>4. ASSUME NEW i \in From(all, p), i \notin From(evs, p)
      PROVE  /\ all[i].line = m /\ m \in 1..m /\ Fits(all[i], msgs, s, p)
  BY <1>2, <1>4
<1>5. ASSUME NEW k \in 1..m, NEW name \in ToSet(EventNames[msgs[k].kind])
      PROVE  \E i \in From(all, p) : all[i].line = k /\ all[i].name = name
  <2>1. CASE k \in 1..n
    <3>1. PICK i \in From(evs, p) : evs[i].line = k /\ evs[i].name = name
      BY <2>1 DEF Reported
    <3> QED
      BY <1>2, <3>1
  <2>2. CASE k = m
    <3>1. PICK j \in DOMAIN es : names[j] = name
      BY <2>2 DEF ToSet
    <3> QED
      BY <1>2, <2>2, <3>1
  <2> QED
    BY <2>1, <2>2
<1>6. ASSUME NEW i \in From(all, p), NEW j \in From(all, p), i < j
      PROVE  InOrder(all[i], all[j])
  <2>1. CASE j \in From(evs, p)
    <3>1. i \in From(evs, p)
      BY <1>2, <1>6, <2>1
    <3> QED
      BY <1>2, <1>6, <2>1, <3>1 DEF Reported
  <2>2. CASE i \in From(evs, p) /\ j \notin From(evs, p)
    BY <1>3, <1>4, <2>2 DEF InOrder
  <2>3. CASE i \notin From(evs, p) /\ j \notin From(evs, p)
    <3>1. PICK a \in DOMAIN es, b \in DOMAIN es :
             i = Len(evs) + a /\ j = Len(evs) + b
      BY <1>2, <2>3
    <3>2. a < b /\ all[i] = es[a] /\ all[j] = es[b]
      BY <1>2, <1>6, <3>1
    <3>3. names[a] = "blocked" /\ names[b] = "login_required"
      BY <3>1, <3>2, Names
    <3> QED
      BY <3>1, <3>2, <3>3 DEF InOrder
  <2> QED
    BY <2>1, <2>2, <2>3
<1>7. Reported(all, longer, msgs, s, p, m)
  BY <1>3, <1>4, <1>5, <1>6 DEF Reported
<1> QED
  BY <1>7 DEF all

(* The events of p that say it stopped.                                    *)
StopsIn(evs, p) == {i \in From(evs, p) : evs[i].name = "stopped"}

Stopped(evs, msgs, s, p, n) ==
    \E i \in StopsIn(evs, p) :
        /\ StopsIn(evs, p) = {i}
        /\ evs[i].session = s
        /\ TextsAre(evs[i].response, msgs, p, n)
        /\ \A j \in From(evs, p) : j > i => evs[j].name = "error"

LastIs(evs, p, s, name) ==
    \E last \in From(evs, p) : /\ \A i \in From(evs, p) : i <= last
                               /\ evs[last].session = s
                               /\ evs[last].name = name

(* What comes after "stopped" is an error.                                 *)
LEMMA StoppedFrame ==
    ASSUME NEW evs \in Seq(Events), NEW es \in Seq(Events), NEW msgs, NEW s, NEW p,
           NEW n, \A k \in From(es, p) : es[k].name = "error",
           Stopped(evs, msgs, s, p, n)
    PROVE  Stopped(evs \o es, msgs, s, p, n)
<1> DEFINE all == evs \o es
<1>1. /\ \A i \in From(evs, p) : i \in From(all, p) /\ all[i] = evs[i]
      /\ \A i \in From(all, p) : i \in From(evs, p) \/ all[i].name = "error"
  BY After
<1> HIDE DEF all
<1>2. PICK i \in StopsIn(evs, p) :
        /\ StopsIn(evs, p) = {i}
        /\ evs[i].session = s
        /\ TextsAre(evs[i].response, msgs, p, n)
        /\ \A j \in From(evs, p) : j > i => evs[j].name = "error"
  BY DEF Stopped
<1>3. i \in From(evs, p) /\ i \in From(all, p) /\ all[i] = evs[i]
      /\ evs[i].name = "stopped"
  BY <1>1, <1>2 DEF StopsIn
<1>4. StopsIn(all, p) = {i}
  <2>1. ASSUME NEW j \in StopsIn(all, p) PROVE j = i
    <3>1. j \in From(all, p) /\ all[j].name = "stopped"
      BY DEF StopsIn
    <3>2. j \in From(evs, p) /\ evs[j].name = "stopped"
      BY <1>1, <3>1
    <3>3. j \in StopsIn(evs, p)
      BY <3>2 DEF StopsIn
    <3> QED
      BY <1>2, <3>3
  <2>2. i \in StopsIn(all, p)
    BY <1>3 DEF StopsIn
  <2> QED
    BY <2>1, <2>2
<1>5. \A j \in From(all, p) : j > i => all[j].name = "error"
  BY <1>1, <1>2
<1>6. Stopped(all, msgs, s, p, n)
  BY <1>2, <1>3, <1>4, <1>5 DEF Stopped
<1> QED
  BY <1>6 DEF all

(* No event says so if none of those that are appended does.               *)
LEMMA StopsFrame ==
    ASSUME NEW evs \in Seq(Events), NEW es \in Seq(Events), NEW p,
           \A k \in From(es, p) : es[k].name # "stopped", StopsIn(evs, p) = {}
    PROVE  StopsIn(evs \o es, p) = {}
<1>1. ASSUME NEW i \in From(evs \o es, p) PROVE (evs \o es)[i].name # "stopped"
  <2>1. CASE i \in From(evs, p)
    <3>1. evs[i].name # "stopped"
      BY <2>1 DEF StopsIn
    <3> QED
      BY <2>1, <3>1, After
  <2>2. CASE i \notin From(evs, p)
    BY <2>2, After
  <2> QED
    BY <2>1, <2>2
<1> QED
  BY <1>1 DEF StopsIn

(* One event more, of p itself.                                            *)
LEMMA OneEvent ==
    ASSUME NEW evs \in Seq(Events), NEW e \in Events, NEW p, e.from = p
    PROVE  /\ <<e>> \in Seq(Events) /\ From(<<e>>, p) = {1} /\ <<e>>[1] = e
           /\ Append(evs, e) = evs \o <<e>>
           /\ Len(evs) + 1 \in From(evs \o <<e>>, p) /\ (evs \o <<e>>)[Len(evs) + 1] = e
           /\ \A i \in From(evs \o <<e>>, p) :
                 i = Len(evs) + 1 \/ (i \in From(evs, p) /\ i < Len(evs) + 1)
<1> DEFINE es == <<e>>
<1>1. es \in Seq(Events) /\ DOMAIN es = {1} /\ es[1] = e
  OBVIOUS
<1>2. Append(evs, e) = evs \o es
  OBVIOUS
<1>3. Len(evs) \in Nat
  OBVIOUS
<1> HIDE DEF es
<1>4. From(es, p) = {1}
  BY <1>1 DEF From
<1>5. \A i \in From(evs, p) : i \in 1..Len(evs)
  BY <1>1, After
<1>6. \A i \in From(evs \o es, p) : i \in From(evs, p) \/ i = Len(evs) + 1
  BY <1>1, <1>4, After
<1>7. Len(evs) + 1 \in From(evs \o es, p) /\ (evs \o es)[Len(evs) + 1] = e
  BY <1>1, <1>4, After
<1>8. \A i \in From(evs \o es, p) :
        i = Len(evs) + 1 \/ (i \in From(evs, p) /\ i < Len(evs) + 1)
  <2>1. ASSUME NEW i \in From(evs, p) PROVE i < Len(evs) + 1
    <3>1. i \in 1..Len(evs)
      BY <1>5
    <3> QED
      BY <1>3, <3>1
  <2> QED
    BY <1>6, <2>1
<1> QED
  BY <1>1, <1>2, <1>4, <1>7, <1>8 DEF es

(* The event that says that p stopped.                                     *)
LEMMA StoppedNow ==
    ASSUME NEW evs \in Seq(Events), NEW e \in Events, NEW msgs, NEW s, NEW p, NEW n,
           e.from = p, e.name = "stopped", e.session = s,
           TextsAre(e.response, msgs, p, n), StopsIn(evs, p) = {}
    PROVE  Stopped(evs \o <<e>>, msgs, s, p, n)
<1> DEFINE all == evs \o <<e>>
           k == Len(evs) + 1
<1>1. /\ k \in From(all, p) /\ all[k] = e
      /\ \A i \in From(all, p) : i = k \/ (i \in From(evs, p) /\ i < k)
      /\ \A i \in From(evs, p) : all[i] = evs[i] /\ i < k
  <2>1. <<e>> \in Seq(Events) /\ Len(evs) \in Nat
    OBVIOUS
  <2>2. \A i \in From(evs, p) : i \in 1..Len(evs) /\ all[i] = evs[i]
    BY <2>1, After
  <2> QED
    BY <2>1, <2>2, OneEvent
<1>2. k \in Nat
  OBVIOUS
<1>3. \A i \in From(evs, p) : evs[i].name # "stopped"
  BY DEF StopsIn
<1> HIDE DEF all, k
<1>4. StopsIn(all, p) = {k}
  BY <1>1, <1>3 DEF StopsIn
<1>5. \A j \in From(all, p) : ~(j > k)
  <2>1. \A i \in From(evs, p) : i \in Nat
    BY After, EventTyped
  <2> QED
    BY <1>1, <1>2, <2>1
<1>6. Stopped(all, msgs, s, p, n)
  BY <1>1, <1>4, <1>5 DEF Stopped
<1> QED
  BY <1>6 DEF all

(* p's last event may be one of the service itself.                        *)
LEMMA LastNow ==
    ASSUME NEW evs \in Seq(Events), NEW e \in Events, NEW p, NEW s, NEW name,
           e.from = p, e.session = s, e.name = name
    PROVE  LastIs(evs \o <<e>>, p, s, name)
<1> DEFINE all == evs \o <<e>>
           k == Len(evs) + 1
<1>1. /\ k \in From(all, p) /\ all[k] = e
      /\ \A i \in From(all, p) : i = k \/ i < k
  BY OneEvent
<1>2. k \in Nat
  OBVIOUS
<1> HIDE DEF all, k
<1>3. LastIs(all, p, s, name)
  <2>1. \A i \in From(all, p) : i <= k
    BY <1>1, <1>2
  <2> QED
    BY <1>1, <2>1 DEF LastIs
<1> QED
  BY <1>3 DEF all

(* Events of others do not concern p.                                      *)
SameFor(evs, all, p) ==
    From(all, p) = From(evs, p) /\ \A i \in From(evs, p) : all[i] = evs[i]

LEMMA Others ==
    ASSUME NEW evs \in Seq(Events), NEW es \in Seq(Events), NEW p, From(es, p) = {}
    PROVE  SameFor(evs, evs \o es, p)
<1>1. \A i \in From(evs \o es, p) : i \in From(evs, p)
  BY After
<1>2. \A i \in From(evs, p) : i \in From(evs \o es, p) /\ (evs \o es)[i] = evs[i]
  BY After
<1> QED
  BY <1>1, <1>2 DEF SameFor

LEMMA NotConcerned ==
    ASSUME NEW evs, NEW all, NEW p, SameFor(evs, all, p)
    PROVE  /\ \A texts, msgs, s, n :
                 Reported(evs, texts, msgs, s, p, n) => Reported(all, texts, msgs, s, p, n)
           /\ \A msgs, s, n : Stopped(evs, msgs, s, p, n) => Stopped(all, msgs, s, p, n)
           /\ StopsIn(all, p) = StopsIn(evs, p)
           /\ \A s, name : LastIs(evs, p, s, name) => LastIs(all, p, s, name)
<1>1. From(all, p) = From(evs, p) /\ \A i \in From(evs, p) : all[i] = evs[i]
  BY DEF SameFor
<1>2. StopsIn(all, p) = StopsIn(evs, p) /\ StopsIn(evs, p) \subseteq From(evs, p)
  BY <1>1 DEF StopsIn
<1>3. ASSUME NEW texts, NEW msgs, NEW s, NEW n, Reported(evs, texts, msgs, s, p, n)
      PROVE  Reported(all, texts, msgs, s, p, n)
  <2>1. \A i \in From(all, p) : all[i].line # 0 =>
           all[i].line \in 1..n /\ Fits(all[i], msgs, s, p)
    BY <1>1, <1>3 DEF Reported
  <2>2. \A k \in 1..n : \A name \in ToSet(EventNames[msgs[k].kind]) :
           \E i \in From(all, p) : all[i].line = k /\ all[i].name = name
    <3>1. ASSUME NEW k \in 1..n, NEW name \in ToSet(EventNames[msgs[k].kind])
          PROVE  \E i \in From(all, p) : all[i].line = k /\ all[i].name = name
      <4>1. PICK i \in From(evs, p) : evs[i].line = k /\ evs[i].name = name
        BY <1>3 DEF Reported
      <4> QED
        BY <1>1, <4>1
    <3> QED
      BY <3>1
  <2>3. \A i, j \in From(all, p) : i < j => InOrder(all[i], all[j])
    BY <1>1, <1>3 DEF Reported
  <2> QED
    BY <1>3, <2>1, <2>2, <2>3 DEF Reported
<1>4. ASSUME NEW msgs, NEW s, NEW n, Stopped(evs, msgs, s, p, n)
      PROVE  Stopped(all, msgs, s, p, n)
  BY <1>1, <1>2, <1>4 DEF Stopped
<1>5. ASSUME NEW s, NEW name, LastIs(evs, p, s, name) PROVE LastIs(all, p, s, name)
  BY <1>1, <1>5 DEF LastIs
<1> QED
  BY <1>2, <1>3, <1>4, <1>5
-----------------------------------------------------------------------------
(* Symbols r continue the first n lines of a child: the first is the first *)
(* half of the line after these, and so on, one by one.                    *)
Continues(r, n) ==
    \A i \in DOMAIN r : /\ 3 * r[i].line + r[i].part = 3 * n + 3 + i
                        /\ r[i].intact \/ Wide

LEMMA SymbolTyped ==
    ASSUME NEW r \in Seq(Symbols), NEW i \in DOMAIN r
    PROVE  /\ r[i].line \in Nat \ {0} /\ r[i].part \in 1..3 /\ r[i].intact \in BOOLEAN
           /\ i \in 1..Len(r)
<1>1. r[i] \in Symbols /\ i \in 1..Len(r)
  OBVIOUS
<1> QED
  BY <1>1 DEF Symbols

(* Where a symbol stands tells which one it is.                            *)
Stands(l, h, n, i) == 3 * l + h = 3 * n + 3 + i

LEMMA Position ==
    ASSUME NEW l \in Nat, NEW h \in 1..3, NEW n \in Int, NEW i \in 1..3, Stands(l, h, n, i)
    PROVE  l = n + 1 /\ h = i
BY DEF Stands

LEMMA Associative ==
    ASSUME NEW x \in Seq(Symbols), NEW y \in Seq(Symbols), NEW z \in Seq(Symbols)
    PROVE  (x \o y) \o z = x \o (y \o z)
BY ConcatAssociative

(* The first three symbols are those of the next line.                     *)
LEMMA NextLine ==
    ASSUME NEW r \in Seq(Symbols), NEW n \in Int, Continues(r, n)
    PROVE  /\ Len(r) >= 1 => r[1].line = n + 1
           /\ Len(r) >= 2 => r[2].line = n + 1
           /\ \A i \in DOMAIN r : i <= 2 => r[i].part # NewLine /\ (r[i].intact \/ Wide)
           /\ Len(r) >= 3 => r[3].part = NewLine
<1>1. \A i \in DOMAIN r : r[i].line \in Nat \ {0} /\ r[i].part \in 1..3
  BY SymbolTyped
<1>2. DOMAIN r = 1..Len(r) /\ Len(r) \in Nat
  OBVIOUS
<1>3. ASSUME NEW i \in DOMAIN r, i <= 2
      PROVE  r[i].line = n + 1 /\ r[i].part # NewLine /\ (r[i].intact \/ Wide)
  <2>1. Stands(r[i].line, r[i].part, n, i) /\ (r[i].intact \/ Wide)
    BY DEF Continues, Stands
  <2>2. i \in 1..3 /\ (i = 1 \/ i = 2)
    BY <1>2, <1>3
  <2>3. r[i].line \in Nat /\ r[i].part \in 1..3
    BY <1>1
  <2>4. r[i].line = n + 1 /\ r[i].part = i
    BY <2>1, <2>2, <2>3, Position
  <2> QED
    BY <2>1, <2>2, <2>4 DEF NewLine
<1>4. ASSUME Len(r) >= 3 PROVE r[3].part = NewLine
  <2>1. 3 \in DOMAIN r
    BY <1>2, <1>4
  <2>2. Stands(r[3].line, r[3].part, n, 3)
    BY <2>1 DEF Continues, Stands
  <2>3. r[3].part = 3
    <3>1. r[3].line \in Nat /\ r[3].part \in 1..3 /\ 3 \in 1..3
      BY <1>1, <2>1
    <3> QED
      BY <2>2, <3>1, Position
  <2> QED
    BY <2>3 DEF NewLine
<1> QED
  BY <1>2, <1>3, <1>4

(* A child writes its next line behind what is not read yet.               *)
LEMMA LineWritten ==
    ASSUME NEW r \in Seq(Symbols), NEW n \in Int, NEW len \in Nat,
           Len(r) = 3 * (len - n), Continues(r, n)
    PROVE  LET new == [part \in 1..NewLine |-> Symbol(len + 1, part)]
           IN  /\ new \in Seq(Symbols) /\ r \o new \in Seq(Symbols)
               /\ Len(r \o new) = Len(r) + 3 /\ Continues(r \o new, n)
<1> DEFINE new == [part \in 1..NewLine |-> Symbol(len + 1, part)]
           all == r \o new
<1>1. /\ new \in Seq(Symbols) /\ Len(new) = 3
      /\ \A k \in 1..3 : new[k] = Symbol(len + 1, k)
  <2>1. \A k \in 1..3 : Symbol(len + 1, k) \in Symbols
    BY DEF Symbol, Symbols
  <2> QED
    BY <2>1 DEF NewLine
<1> HIDE DEF new
<1>2. /\ all \in Seq(Symbols) /\ Len(all) = Len(r) + 3 /\ Len(r) \in Nat
      /\ \A i \in 1..Len(r) + 3 :
            all[i] = IF i <= Len(r) THEN r[i] ELSE new[i - Len(r)]
  <2>1. /\ all \in Seq(Symbols) /\ Len(all) = Len(r) + Len(new)
        /\ \A i \in 1..Len(r) + Len(new) :
              all[i] = IF i <= Len(r) THEN r[i] ELSE new[i - Len(r)]
    BY <1>1, ConcatProperties
  <2> QED
    BY <1>1, <2>1
<1> HIDE DEF all
<1>3. ASSUME NEW i \in DOMAIN all
      PROVE  /\ 3 * all[i].line + all[i].part = 3 * n + 3 + i
             /\ all[i].intact \/ Wide
  <2>1. i \in 1..Len(r) + 3
    BY <1>2
  <2>2. CASE i <= Len(r)
    <3>1. all[i] = r[i] /\ i \in DOMAIN r
      BY <1>2, <2>1, <2>2
    <3> QED
      BY <3>1 DEF Continues
  <2>3. CASE ~(i <= Len(r))
    <3>1. i - Len(r) \in 1..3 /\ all[i] = new[i - Len(r)]
      BY <1>2, <2>1, <2>3
    <3>2. all[i].line = len + 1 /\ all[i].part = i - Len(r) /\ all[i].intact
      BY <1>1, <3>1 DEF Symbol
    <3> QED
      BY <1>2, <3>1, <3>2
  <2> QED
    BY <2>2, <2>3
<1> QED
  BY <1>1, <1>2, <1>3 DEF Continues, new, all

(* What a child did not write in its end is missing at the end.            *)
LEMMA LineCut ==
    ASSUME NEW b \in Seq(Symbols), NEW q \in Seq(Symbols), NEW n \in Int,
           NEW k \in 0..Len(q), Continues(b \o q, n)
    PROVE  /\ SubSeq(q, 1, k) \in Seq(Symbols)
           /\ b \o SubSeq(q, 1, k) \in Seq(Symbols)
           /\ Len(b \o SubSeq(q, 1, k)) = Len(b) + k
           /\ Continues(b \o SubSeq(q, 1, k), n)
<1> DEFINE c == SubSeq(q, 1, k)
           all == b \o c
           r == b \o q
<1>1. /\ c \in Seq(Symbols) /\ Len(c) = k /\ k \in Nat /\ Len(q) \in Nat
      /\ Len(b) \in Nat /\ \A i \in 1..k : c[i] = q[i]
  OBVIOUS
<1> HIDE DEF c
<1>2. /\ all \in Seq(Symbols) /\ Len(all) = Len(b) + k
      /\ \A i \in 1..Len(b) + k : all[i] = IF i <= Len(b) THEN b[i] ELSE c[i - Len(b)]
  BY <1>1, ConcatProperties
<1>3. /\ r \in Seq(Symbols) /\ Len(r) = Len(b) + Len(q)
      /\ \A i \in 1..Len(b) + Len(q) : r[i] = IF i <= Len(b) THEN b[i] ELSE q[i - Len(b)]
  BY ConcatProperties
<1>4. Continues(r, n)
  OBVIOUS
<1> HIDE DEF all, r
<1>5. ASSUME NEW i \in DOMAIN all PROVE i \in DOMAIN r /\ all[i] = r[i]
  <2>1. i \in 1..Len(b) + k /\ i \in 1..Len(b) + Len(q)
    BY <1>1, <1>2
  <2>2. CASE i <= Len(b)
    <3>1. all[i] = b[i]
      BY <1>2, <2>1, <2>2
    <3>2. r[i] = b[i]
      BY <1>3, <2>1, <2>2
    <3>3. i \in DOMAIN r
      BY <1>3, <2>1
    <3> QED
      BY <3>1, <3>2, <3>3
  <2>3. CASE ~(i <= Len(b))
    <3>1. i - Len(b) \in 1..k
      BY <1>1, <2>1, <2>3
    <3>2. all[i] = c[i - Len(b)] /\ r[i] = q[i - Len(b)]
      BY <1>2, <1>3, <2>1, <2>3
    <3>3. c[i - Len(b)] = q[i - Len(b)]
      BY <1>1, <3>1
    <3> QED
      BY <1>3, <2>1, <3>2, <3>3
  <2> QED
    BY <2>2, <2>3
<1>6. Continues(all, n)
  BY <1>4, <1>5 DEF Continues
<1> QED
  BY <1>1, <1>2, <1>6 DEF c, all

(* A chunk moves from the pipe to the buffer, decoded.                     *)
LEMMA ChunkRead ==
    ASSUME NEW b \in Seq(Symbols), NEW q \in Seq(Symbols), NEW n \in Int,
           NEW k \in 1..Len(q), Continues(b \o q, n)
    PROVE  LET d == Decoded(SubSeq(q, 1, k))
               rest == SubSeq(q, k + 1, Len(q))
           IN  /\ b \o d \in Seq(Symbols) /\ rest \in Seq(Symbols)
               /\ (b \o d) \o rest \in Seq(Symbols)
               /\ Len((b \o d) \o rest) = Len(b \o q)
               /\ Continues((b \o d) \o rest, n)
<1> DEFINE d == Decoded(SubSeq(q, 1, k))
           rest == SubSeq(q, k + 1, Len(q))
           all == (b \o d) \o rest
           r == b \o q
<1>0. /\ k \in Nat /\ Len(q) \in Nat /\ Len(b) \in Nat /\ k <= Len(q) /\ k >= 1
  OBVIOUS
<1>1. /\ k \in Nat /\ Len(q) \in Nat /\ Len(b) \in Nat /\ k <= Len(q) /\ k >= 1
      /\ rest \in Seq(Symbols) /\ Len(rest) = Len(q) - k
      /\ \A i \in 1..Len(q) - k : rest[i] = q[k + i]
  OBVIOUS
<1>2. /\ d \in Seq(Symbols) /\ Len(d) = k
      /\ \A i \in 1..k : /\ d[i].line = q[i].line /\ d[i].part = q[i].part
                         /\ d[i].intact \/ Wide
  <2> DEFINE c == SubSeq(q, 1, k)
  <2>1. c \in Seq(Symbols) /\ DOMAIN c = 1..k /\ \A i \in 1..k : c[i] = q[i]
    OBVIOUS
  <2>2. d = Decoded(c)
    OBVIOUS
  <2> HIDE DEF c
  <2>3. DOMAIN d = 1..k
    BY <2>1, <2>2 DEF Decoded
  <2>4. ASSUME NEW i \in 1..k
        PROVE  /\ d[i] \in Symbols /\ d[i].line = q[i].line /\ d[i].part = q[i].part
               /\ d[i].intact \/ Wide
    <3>1. c[i] \in Symbols
      BY <2>1
    <3>2. PICK v \in BOOLEAN : d[i] = [c[i] EXCEPT !.intact = v] /\ (~Wide => v)
      BY <2>1, <2>2 DEF Decoded
    <3> QED
      BY <2>1, <3>1, <3>2 DEF Symbols
  <2>5. d \in [1..k -> Symbols]
    BY <2>1, <2>2, <2>3, <2>4 DEF Decoded
  <2>6. d \in Seq(Symbols) /\ Len(d) = k
    BY <1>1, <2>5
  <2> QED
    BY <2>4, <2>6
<1> HIDE DEF d, rest
<1>3. /\ b \o d \in Seq(Symbols) /\ Len(b \o d) = Len(b) + k
      /\ \A i \in 1..Len(b) + k : (b \o d)[i] = IF i <= Len(b) THEN b[i] ELSE d[i - Len(b)]
  BY <1>2, ConcatProperties
<1>4. /\ all \in Seq(Symbols) /\ Len(all) = Len(b) + Len(q)
      /\ \A i \in 1..Len(b) + Len(q) :
            all[i] = IF i <= Len(b) + k THEN (b \o d)[i] ELSE rest[i - (Len(b) + k)]
  <2>1. /\ all \in Seq(Symbols) /\ Len(all) = Len(b \o d) + Len(rest)
        /\ \A i \in 1..Len(b \o d) + Len(rest) :
              all[i] = IF i <= Len(b \o d) THEN (b \o d)[i] ELSE rest[i - Len(b \o d)]
    BY <1>1, <1>3, ConcatProperties
  <2>2. Len(b \o d) + Len(rest) = Len(b) + Len(q)
    BY <1>1, <1>3
  <2> QED
    BY <1>3, <2>1, <2>2
<1>5. /\ r \in Seq(Symbols) /\ Len(r) = Len(b) + Len(q)
      /\ \A i \in 1..Len(b) + Len(q) : r[i] = IF i <= Len(b) THEN b[i] ELSE q[i - Len(b)]
  BY ConcatProperties
<1>6. Continues(r, n)
  OBVIOUS
<1> HIDE DEF all, r
<1>7. ASSUME NEW i \in DOMAIN all
      PROVE  /\ i \in DOMAIN r /\ all[i].line = r[i].line /\ all[i].part = r[i].part
             /\ all[i].intact \/ Wide
  <2>0. i \in 1..Len(b) + Len(q)
    BY <1>4
  <2>1. i \in 1..Len(b) + Len(q) /\ DOMAIN r = 1..Len(b) + Len(q)
    BY <1>5, <2>0
  <2>2. CASE i <= Len(b)
    <3>1. i <= Len(b) + k /\ i \in 1..Len(b) + k
      BY <1>0, <2>0, <2>2
    <3>2. all[i] = b[i] /\ r[i] = b[i]
      BY <1>3, <1>4, <1>5, <2>1, <2>2, <3>1
    <3>3. r[i].intact \in BOOLEAN
      BY <1>5, <2>1, SymbolTyped
    <3>4. r[i].intact \/ Wide
      BY <1>6, <2>1 DEF Continues
    <3> QED
      BY <2>1, <3>2, <3>4
  <2>3. CASE ~(i <= Len(b)) /\ i <= Len(b) + k
    <3>1. i - Len(b) \in 1..k /\ i \in 1..Len(b) + k
      BY <1>0, <2>0, <2>3
    <3>2. all[i] = d[i - Len(b)] /\ r[i] = q[i - Len(b)]
      BY <1>3, <1>4, <1>5, <2>1, <2>3, <3>1
    <3> QED
      BY <1>2, <2>1, <3>1, <3>2
  <2>4. CASE ~(i <= Len(b)) /\ ~(i <= Len(b) + k)
    <3>1. /\ i - (Len(b) + k) \in 1..Len(q) - k
          /\ k + (i - (Len(b) + k)) = i - Len(b)
      <4>1. i \in Int /\ i <= Len(b) + Len(q)
        BY <1>0, <2>0
      <4>2. k + (i - (Len(b) + k)) = i - Len(b)
        BY <1>0, <4>1
      <4>3. i - (Len(b) + k) \in Int /\ i - (Len(b) + k) <= Len(q) - k
        BY <1>0, <4>1
      <4>4. i - (Len(b) + k) >= 1
        BY <1>0, <2>4, <4>1
      <4>5. Len(q) - k \in Int
        BY <1>0
      <4> QED
        BY <4>2, <4>3, <4>4, <4>5
    <3>2. all[i] = rest[i - (Len(b) + k)] /\ r[i] = q[i - Len(b)]
      BY <1>4, <1>5, <2>1, <2>4
    <3>3. rest[i - (Len(b) + k)] = q[k + (i - (Len(b) + k))]
      BY <1>1, <3>1
    <3>4. all[i] = r[i]
      BY <3>1, <3>2, <3>3
    <3>5. r[i].intact \/ Wide
      BY <1>6, <2>1 DEF Continues
    <3> QED
      BY <2>1, <3>4, <3>5
  <2> QED
    BY <2>2, <2>3, <2>4
<1>8. Continues(all, n)
  <2>1. ASSUME NEW i \in DOMAIN all
        PROVE  /\ 3 * all[i].line + all[i].part = 3 * n + 3 + i
               /\ all[i].intact \/ Wide
    <3>1. /\ 3 * r[i].line + r[i].part = 3 * n + 3 + i
          /\ r[i].intact \/ Wide
      BY <1>6, <1>7 DEF Continues
    <3> QED
      BY <1>7, <3>1
  <2> QED
    BY <2>1 DEF Continues
<1> QED
  BY <1>1, <1>2, <1>3, <1>4, <1>5, <1>8 DEF d, rest, all, r

(* A line that is handled leaves the buffer.                               *)
LEMMA LineTaken ==
    ASSUME NEW b \in Seq(Symbols), NEW q \in Seq(Symbols), NEW n \in Int,
           Len(b) >= 3, Continues(b \o q, n)
    PROVE  LET c == SubSeq(b, 4, Len(b))
           IN  /\ c \in Seq(Symbols) /\ c \o q \in Seq(Symbols)
               /\ Len(c \o q) = Len(b \o q) - 3 /\ Continues(c \o q, n + 1)
<1> DEFINE c == SubSeq(b, 4, Len(b))
           all == c \o q
           r == b \o q
<1>1. /\ c \in Seq(Symbols) /\ Len(c) = Len(b) - 3
      /\ Len(b) \in Nat /\ Len(q) \in Nat
      /\ \A i \in 1..Len(b) - 3 : c[i] = b[i + 3]
  <2>1. Len(b) \in Nat /\ Len(q) \in Nat
    OBVIOUS
  <2>2. \A i \in 4..Len(b) : b[i] \in Symbols
    BY <2>1
  <2>3. /\ c \in Seq(Symbols) /\ Len(c) = IF 4 <= Len(b) THEN Len(b) - 4 + 1 ELSE 0
        /\ \A i \in 1..Len(b) - 4 + 1 : c[i] = b[4 + i - 1]
    BY <2>1, <2>2, SubSeqProperties
  <2>4. Len(c) = Len(b) - 3
    <3>1. ASSUME NEW l \in Nat, NEW m, l >= 3, m = IF 4 <= l THEN l - 4 + 1 ELSE 0
          PROVE  m = l - 3
      BY <3>1
    <3>2. Len(b) >= 3
      OBVIOUS
    <3> HIDE DEF c
    <3> QED
      BY <2>1, <2>3, <3>1, <3>2
  <2>5. ASSUME NEW i \in 1..Len(b) - 3 PROVE c[i] = b[i + 3]
    <3>1. i \in 1..Len(b) - 4 + 1 /\ 4 + i - 1 = i + 3
      BY <2>1
    <3> QED
      BY <2>3, <3>1
  <2> QED
    BY <2>1, <2>3, <2>4, <2>5
<1> HIDE DEF c
<1>2. /\ all \in Seq(Symbols) /\ Len(all) = Len(b) - 3 + Len(q)
      /\ \A i \in 1..Len(b) - 3 + Len(q) :
            all[i] = IF i <= Len(b) - 3 THEN c[i] ELSE q[i - (Len(b) - 3)]
  <2>1. /\ all \in Seq(Symbols) /\ Len(all) = Len(c) + Len(q)
        /\ \A i \in 1..Len(c) + Len(q) :
              all[i] = IF i <= Len(c) THEN c[i] ELSE q[i - Len(c)]
    BY <1>1, ConcatProperties
  <2> QED
    BY <1>1, <2>1
<1>3. /\ r \in Seq(Symbols) /\ Len(r) = Len(b) + Len(q)
      /\ \A i \in 1..Len(b) + Len(q) : r[i] = IF i <= Len(b) THEN b[i] ELSE q[i - Len(b)]
  BY ConcatProperties
<1>4. Continues(r, n)
  OBVIOUS
<1> HIDE DEF all, r
<1>5. ASSUME NEW i \in DOMAIN all PROVE i + 3 \in DOMAIN r /\ all[i] = r[i + 3]
  <2>1. i \in 1..Len(b) - 3 + Len(q) /\ i + 3 \in 1..Len(b) + Len(q)
    <3>1. i \in 1..Len(b) - 3 + Len(q) /\ i \in Int
      <4>1. i \in 1..Len(all)
        BY <1>2
      <4>2. Len(all) = Len(b) - 3 + Len(q)
        BY <1>2
      <4> QED
        BY <4>1, <4>2
    <3>2. Len(b) \in Nat /\ Len(q) \in Nat
      OBVIOUS
    <3> QED
      BY <3>1, <3>2
  <2>2. CASE i <= Len(b) - 3
    <3>1. i \in 1..Len(b) - 3 /\ i + 3 <= Len(b)
      BY <1>1, <2>1, <2>2
    <3>2. all[i] = b[i + 3]
      BY <1>1, <1>2, <2>1, <2>2, <3>1
    <3> QED
      BY <1>3, <2>1, <3>1, <3>2
  <2>3. CASE ~(i <= Len(b) - 3)
    <3>1. i - (Len(b) - 3) = (i + 3) - Len(b) /\ ~(i + 3 <= Len(b))
      <4>1. i \in Int
        BY <2>1
      <4> QED
        BY <1>1, <2>3, <4>1
    <3>2. all[i] = q[(i + 3) - Len(b)]
      BY <1>2, <2>1, <2>3, <3>1
    <3> QED
      BY <1>3, <2>1, <3>1, <3>2
  <2> QED
    BY <2>2, <2>3
<1>6. Continues(all, n + 1)
  <2>1. ASSUME NEW i \in DOMAIN all
        PROVE  /\ 3 * all[i].line + all[i].part = 3 * (n + 1) + 3 + i
               /\ all[i].intact \/ Wide
    <3>1. /\ 3 * r[i + 3].line + r[i + 3].part = 3 * n + 3 + (i + 3)
          /\ r[i + 3].intact \/ Wide
      BY <1>4, <1>5 DEF Continues
    <3>2. i \in Nat
      BY <1>2
    <3> QED
      BY <1>5, <3>1, <3>2
  <2> QED
    BY <2>1 DEF Continues
<1> QED
  BY <1>1, <1>2, <1>3, <1>6 DEF c, all, r

(* It tells how many lines are handled, whatever the end lacks.            *)
LEMMA HowMany ==
    ASSUME NEW r \in Seq(Symbols), NEW n \in Int, NEW len \in Nat, Continues(r, n),
           Len(r) - 3 * (len - n) \in -1..1
    PROVE  n = IF r = <<>> THEN len ELSE r[1].line - 1
<1>1. CASE r = <<>>
  <2>1. Len(r) = 0
    BY <1>1
  <2>2. ASSUME NEW l \in Int, l = 0, l - 3 * (len - n) \in -1..1 PROVE n = len
    BY <2>2
  <2> QED
    BY <1>1, <2>1, <2>2
<1>2. CASE r # <<>>
  <2>1. Len(r) >= 1 /\ 1 \in DOMAIN r
    BY <1>2
  <2>2. r[1].line = n + 1
    BY <2>1, NextLine
  <2> QED
    BY <1>2, <2>2
<1> QED
  BY <1>1, <1>2
-----------------------------------------------------------------------------
(* The invariant of a prompt p whose first n messages are handled: what is *)
(* not handled of its output continues these lines up to the last message, *)
(* whose newline may lack, or to the first half of one more; these lines   *)
(* are reported; stopReason is that of the last that gave one; and after   *)
(* "stopped" comes a failure or nothing.                                   *)
Done == {"closed", "ok", "failed"}

Lined(n, ph, msgs, b, q) ==
    IF ph \in Done
    THEN /\ n = Len(msgs) /\ q = <<>>
         /\ \A i \in DOMAIN b : b[i].part # NewLine
    ELSE /\ Continues(b \o q, n)
         /\ Len(b \o q) - 3 * (Len(msgs) - n) \in
               IF ph = "exited" THEN -1..1 ELSE {0}

Begun(p, evs, ph, msgs) ==
    /\ ph = "idle" => msgs = <<>>
    /\ (\E i \in From(evs, p) : evs[i].line = 0) =>
          ph \in Done \/ (ph = "exited" /\ msgs = <<>>)

Failed(msgs, n) ==
    \E i \in 1..n : /\ msgs[i].kind = "stop_error"
                    /\ \A j \in i + 1 .. n : msgs[j].kind \notin StopReasons

Ended(p, evs, s, ph, msgs, ex) ==
    /\ IF ph \in Done THEN Stopped(evs, msgs, s, p, Len(msgs))
                      ELSE StopsIn(evs, p) = {}
    /\ ph = "closed" => LastIs(evs, p, s, "stopped")
    /\ ph \in {"ok", "failed"} =>
          LastIs(evs, p, s, IF ex # "ok" \/ Failed(msgs, Len(msgs)) THEN "error"
                                                                    ELSE "stopped")

Keeps(p, n, evs, s, ph, msgs, q, ex, rd) ==
    /\ Lined(n, ph, msgs, rd.buffer, q)
    /\ Begun(p, evs, ph, msgs)
    /\ Reported(evs, rd.finalText, msgs, s, p, n)
    /\ rd.stopReason = "stop_error" <=> Failed(msgs, n)
    /\ Ended(p, evs, s, ph, msgs, ex)

Kept(p) ==
    \E n \in 0..Len(sent[p]) :
        Keeps(p, n, events, session[p], phase[p], sent[p], pipe[p], exit[p], reader[p])

IInv == TypeOK /\ \A p \in Prompts : Kept(p)

(* The invariant implies the properties.                                   *)
LEMMA Implied ==
    ASSUME IInv
    PROVE  ChunkingInvisible /\ StoppedCarriesAnswer /\ FailureReported
<1> USE DEF IInv
<1>1. ASSUME NEW p \in Prompts
      PROVE  Keeps(p, Handled(p), events, session[p], phase[p], sent[p], pipe[p],
                   exit[p], reader[p])
             /\ Handled(p) \in 0..Len(sent[p]) /\ sent[p] \in Seq(Messages)
             /\ reader[p].finalText \in Seq(Texts) /\ Len(sent[p]) \in Nat
             /\ (Settled(p) <=> phase[p] \in Done)
             /\ (Settled(p) => Handled(p) = Len(sent[p]))
  <2>1. PICK n \in 0..Len(sent[p]) :
           Keeps(p, n, events, session[p], phase[p], sent[p], pipe[p], exit[p], reader[p])
    BY DEF Kept
  <2>2. /\ reader[p] \in Readers /\ pipe[p] \in Seq(Symbols) /\ sent[p] \in Seq(Messages)
        /\ Len(sent[p]) \in Nat /\ n \in Int
    BY DEF TypeOK
  <2>3. reader[p].buffer \in Seq(Symbols) /\ reader[p].finalText \in Seq(Texts)
        /\ Rest(p) \in Seq(Symbols)
    BY <2>2 DEF Readers, Rest
  <2>4. Settled(p) <=> phase[p] \in Done
    BY DEF Settled, Done
  <2>5. CASE Settled(p)
    BY <2>1, <2>2, <2>3, <2>4, <2>5 DEF Keeps, Lined, Handled
  <2>6. CASE ~Settled(p)
    <3>1. Continues(Rest(p), n) /\ Len(Rest(p)) - 3 * (Len(sent[p]) - n) \in -1..1
      <4>1. Lined(n, phase[p], sent[p], reader[p].buffer, pipe[p])
        BY <2>1 DEF Keeps
      <4>2. /\ Continues(reader[p].buffer \o pipe[p], n)
            /\ Len(reader[p].buffer \o pipe[p]) - 3 * (Len(sent[p]) - n)
                  \in IF phase[p] = "exited" THEN -1..1 ELSE {0}
        BY <2>4, <2>6, <4>1 DEF Lined
      <4>3. 0 \in -1..1
        OBVIOUS
      <4> QED
        BY <4>2, <4>3 DEF Rest
    <3>2. n = Handled(p)
      BY <2>2, <2>3, <2>6, <3>1, HowMany DEF Handled
    <3> QED
      BY <2>1, <2>2, <2>3, <2>4, <2>6, <3>2
  <2> QED
    BY <2>5, <2>6
<1>2. ASSUME NEW p \in Prompts
      PROVE  /\ Mine(p) = From(events, p)
             /\ \A texts, n : Tells(texts, p, n) <=> TextsAre(texts, sent[p], p, n)
             /\ \A e : Faithful(e, p) <=> Fits(e, sent[p], session[p], p)
             /\ \A n : TurnFailed(p, n) <=> Failed(sent[p], n)
  <2>1. \A texts, n : Tells(texts, p, n) <=> TextsAre(texts, sent[p], p, n)
    BY DEF Tells, TextsAre
  <2> QED
    BY <2>1 DEF Mine, From, Faithful, Fits, TurnFailed, Failed
<1>3. ChunkingInvisible
  <2>1. ASSUME NEW p \in Prompts
        PROVE  LET n == Handled(p)
               IN  /\ \A i \in Mine(p) : events[i].line # 0 =>
                         events[i].line \in 1..n /\ Faithful(events[i], p)
                   /\ \A k \in 1..n : \A name \in ToSet(EventNames[sent[p][k].kind]) :
                         \E i \in Mine(p) : events[i].line = k /\ events[i].name = name
                   /\ \A i, j \in Mine(p) : i < j => InOrder(events[i], events[j])
                   /\ Tells(reader[p].finalText, p, n)
    <3>1. Reported(events, reader[p].finalText, sent[p], session[p], p, Handled(p))
      BY <1>1 DEF Keeps
    <3>2. \A i \in Mine(p) : events[i].line # 0 =>
             events[i].line \in 1..Handled(p) /\ Faithful(events[i], p)
      BY <1>2, <3>1 DEF Reported
    <3>3. \A k \in 1..Handled(p) : \A name \in ToSet(EventNames[sent[p][k].kind]) :
             \E i \in Mine(p) : events[i].line = k /\ events[i].name = name
      BY <1>2, <3>1 DEF Reported
    <3>4. /\ \A i, j \in Mine(p) : i < j => InOrder(events[i], events[j])
          /\ Tells(reader[p].finalText, p, Handled(p))
      BY <1>2, <3>1 DEF Reported
    <3> QED
      BY <3>2, <3>3, <3>4
  <2>2. ASSUME NEW p \in Prompts, \E i \in Mine(p) : events[i].line = 0
        PROVE  Settled(p) \/ sent[p] = <<>>
    BY <1>1, <1>2, <2>2 DEF Keeps, Begun
  <2> QED
    BY <2>1, <2>2 DEF ChunkingInvisible
<1>4. StoppedCarriesAnswer
  <2>1. ASSUME NEW p \in Prompts
        PROVE  LET stops == {i \in Mine(p) : events[i].name = "stopped"}
               IN  IF Settled(p)
                   THEN \E i \in stops :
                           /\ stops = {i}
                           /\ events[i].session = session[p]
                           /\ Tells(events[i].response, p, Len(sent[p]))
                           /\ \A j \in Mine(p) : j > i => events[j].name = "error"
                   ELSE stops = {}
    <3>1. {i \in Mine(p) : events[i].name = "stopped"} = StopsIn(events, p)
      BY <1>2 DEF StopsIn
    <3>2. IF Settled(p) THEN Stopped(events, sent[p], session[p], p, Len(sent[p]))
                        ELSE StopsIn(events, p) = {}
      BY <1>1 DEF Keeps, Ended
    <3>3. CASE Settled(p)
      <4>1. Stopped(events, sent[p], session[p], p, Len(sent[p]))
        BY <3>2, <3>3
      <4> QED
        BY <1>2, <3>1, <3>3, <4>1 DEF Stopped
    <3>4. CASE ~Settled(p)
      BY <3>1, <3>2, <3>4
    <3> QED
      BY <3>3, <3>4
  <2> QED
    BY <2>1 DEF StoppedCarriesAnswer
<1>5. FailureReported
  <2>1. ASSUME NEW p \in Prompts, phase[p] \in {"ok", "failed"}
        PROVE  LET failed == exit[p] # "ok" \/ TurnFailed(p, Len(sent[p]))
               IN  \E last \in Mine(p) :
                       /\ \A i \in Mine(p) : i <= last
                       /\ events[last].session = session[p]
                       /\ events[last].name = IF failed THEN "error" ELSE "stopped"
    <3>1. LastIs(events, p, session[p],
                 IF exit[p] # "ok" \/ Failed(sent[p], Len(sent[p])) THEN "error"
                                                                    ELSE "stopped")
      BY <1>1, <2>1 DEF Keeps, Ended
    <3> QED
      BY <1>2, <3>1 DEF LastIs
  <2> QED
    BY <2>1 DEF FailureReported
<1> QED
  BY <1>3, <1>4, <1>5
-----------------------------------------------------------------------------
(* What the actions keep of p.                                             *)
LEMMA ReaderTyped ==
    ASSUME NEW rd \in Readers
    PROVE  /\ rd.buffer \in Seq(Symbols) /\ rd.finalText \in Seq(Texts)
           /\ rd.stopReason \in StopReasons \cup {"none"}
BY DEF Readers

LEMMA KeepsElsewhere ==
    ASSUME NEW p, NEW n, NEW evs, NEW all, NEW s, NEW ph, NEW msgs, NEW q, NEW ex,
           NEW rd, SameFor(evs, all, p), Keeps(p, n, evs, s, ph, msgs, q, ex, rd)
    PROVE  Keeps(p, n, all, s, ph, msgs, q, ex, rd)
<1>1. Begun(p, all, ph, msgs)
  BY DEF Keeps, Begun, SameFor
<1>2. Reported(all, rd.finalText, msgs, s, p, n)
  BY NotConcerned DEF Keeps
<1>3. Ended(p, all, s, ph, msgs, ex)
  <2>1. Ended(p, evs, s, ph, msgs, ex)
    BY DEF Keeps
  <2>2. StopsIn(all, p) = StopsIn(evs, p)
    BY NotConcerned
  <2>3. Stopped(evs, msgs, s, p, Len(msgs)) => Stopped(all, msgs, s, p, Len(msgs))
    BY NotConcerned
  <2>4. \A name : LastIs(evs, p, s, name) => LastIs(all, p, s, name)
    BY NotConcerned
  <2> QED
    BY <2>1, <2>2, <2>3, <2>4 DEF Ended
<1> QED
  BY <1>1, <1>2, <1>3 DEF Keeps

(* A failed turn among the first n messages depends on them only.          *)
LEMMA FailedStay ==
    ASSUME NEW msgs, NEW more, NEW n \in Nat, \A i \in 1..n : more[i] = msgs[i]
    PROVE  Failed(more, n) <=> Failed(msgs, n)
<1>1. ASSUME NEW i \in 1..n, NEW j \in i + 1 .. n PROVE more[j] = msgs[j]
  BY <1>1
<1> QED
  BY <1>1 DEF Failed

(* A message more ends the turn or leaves it as it is.                     *)
LEMMA FailedMore ==
    ASSUME NEW msgs, NEW n \in Nat, NEW m \in Nat, m = n + 1
    PROVE  Failed(msgs, m) <=>
              IF msgs[m].kind \in StopReasons THEN msgs[m].kind = "stop_error"
                                              ELSE Failed(msgs, n)
<1>1. m \in 1..m /\ m + 1 .. m = {}
  OBVIOUS
<1>2. CASE msgs[m].kind \in StopReasons
  <2>1. ASSUME NEW i \in 1..n PROVE m \in i + 1 .. m
    OBVIOUS
  <2>2. \A i \in 1..m : i \in 1..n \/ i = m
    OBVIOUS
  <2> QED
    BY <1>1, <1>2, <2>1, <2>2 DEF Failed
<1>3. CASE msgs[m].kind \notin StopReasons
  <2>1. msgs[m].kind # "stop_error"
    BY <1>3 DEF StopReasons
  <2>2. \A i \in 1..n : i \in 1..m /\ \A j \in i + 1 .. n : j \in i + 1 .. m
    OBVIOUS
  <2>3. \A i \in 1..m : i # m => i \in 1..n
    OBVIOUS
  <2>4. \A i \in 1..n : \A j \in i + 1 .. m : j # m => j \in i + 1 .. n
    OBVIOUS
  <2>5. Failed(msgs, m) => Failed(msgs, n)
    BY <2>1, <2>2, <2>3 DEF Failed
  <2>6. Failed(msgs, n) => Failed(msgs, m)
    <3>1. ASSUME NEW i \in 1..n, msgs[i].kind = "stop_error",
                 \A j \in i + 1 .. n : msgs[j].kind \notin StopReasons
          PROVE  Failed(msgs, m)
      <4>1. \A j \in i + 1 .. m : msgs[j].kind \notin StopReasons
        BY <1>3, <2>4, <3>1
      <4> QED
        BY <2>2, <3>1, <4>1 DEF Failed
    <3> QED
      BY <3>1 DEF Failed
  <2> QED
    BY <1>3, <2>5, <2>6
<1> QED
  BY <1>2, <1>3

LEMMA KeepsWritten ==
    ASSUME NEW p, NEW msgs \in Seq(Messages), NEW n \in 0..Len(msgs),
           NEW evs \in Seq(Events), NEW s, NEW m \in Messages, NEW q \in Seq(Symbols),
           NEW ex, NEW rd \in Readers, Keeps(p, n, evs, s, "running", msgs, q, ex, rd)
    PROVE  LET new == [part \in 1..NewLine |-> Symbol(Len(msgs) + 1, part)]
           IN  /\ q \o new \in Seq(Symbols)
               /\ Append(msgs, m) \in Seq(Messages) /\ n \in 0..Len(Append(msgs, m))
               /\ Keeps(p, n, evs, s, "running", Append(msgs, m), q \o new, ex, rd)
<1> DEFINE new == [part \in 1..NewLine |-> Symbol(Len(msgs) + 1, part)]
           more == Append(msgs, m)
           b == rd.buffer
           r == b \o q
<1>1. /\ b \in Seq(Symbols) /\ rd.finalText \in Seq(Texts) /\ r \in Seq(Symbols)
      /\ Len(msgs) \in Nat /\ n \in Nat
  BY ReaderTyped
<1>2. /\ more \in Seq(Messages) /\ Len(more) = Len(msgs) + 1
      /\ \A i \in 1..n : more[i] = msgs[i]
  OBVIOUS
<1>3. "running" \notin Done /\ "running" # "idle" /\ "running" # "exited"
      /\ "running" \notin {"closed", "ok", "failed"}
  BY DEF Done
<1>4. Continues(r, n) /\ Len(r) - 3 * (Len(msgs) - n) = 0 /\ Len(r) \in Nat
  BY <1>1, <1>3 DEF Keeps, Lined
<1>5. Len(r) = 3 * (Len(msgs) - n)
  BY <1>1, <1>4
<1> HIDE DEF r
<1>6. /\ new \in Seq(Symbols) /\ r \o new \in Seq(Symbols)
      /\ Len(r \o new) = Len(r) + 3 /\ Continues(r \o new, n)
  <2>1. n \in Int
    BY <1>1
  <2> QED
    BY <1>1, <1>4, <1>5, <2>1, LineWritten
<1> HIDE DEF new
<1>7. r \o new = b \o (q \o new) /\ q \o new \in Seq(Symbols)
  <2>1. (b \o q) \o new = b \o (q \o new)
    <3> HIDE DEF b
    <3>1. b \in Seq(Symbols) /\ new \in Seq(Symbols)
      BY <1>1, <1>6
    <3> QED
      BY <3>1, Associative
  <2> QED
    BY <1>6, <2>1 DEF r
<1>8. Len(r \o new) - 3 * (Len(more) - n) = 0
  BY <1>1, <1>2, <1>5, <1>6
<1> HIDE DEF more
<1>9. Lined(n, "running", more, b, q \o new)
  <2>1. /\ Continues(b \o (q \o new), n)
        /\ Len(b \o (q \o new)) - 3 * (Len(more) - n) = 0
    BY <1>6, <1>7, <1>8
  <2> QED
    BY <1>3, <2>1 DEF Lined
<1>10. Begun(p, evs, "running", more)
  BY <1>3 DEF Keeps, Begun
<1>11. Reported(evs, rd.finalText, more, s, p, n)
  BY <1>1, <1>2, ReportedStay DEF Keeps
<1>12. rd.stopReason = "stop_error" <=> Failed(more, n)
  BY <1>1, <1>2, FailedStay DEF Keeps
<1>13. Ended(p, evs, s, "running", more, ex)
  BY <1>3 DEF Keeps, Ended
<1>14. n \in 0..Len(more)
  BY <1>1, <1>2
<1>15. Keeps(p, n, evs, s, "running", more, q \o new, ex, rd)
  BY <1>9, <1>10, <1>11, <1>12, <1>13 DEF Keeps
<1> QED
  BY <1>2, <1>7, <1>14, <1>15 DEF new, more

LEMMA KeepsExited ==
    ASSUME NEW p, NEW msgs \in Seq(Messages), NEW n \in 0..Len(msgs),
           NEW evs \in Seq(Events), NEW s, NEW q \in Seq(Symbols), NEW ex, NEW how,
           NEW rd \in Readers, Keeps(p, n, evs, s, "running", msgs, q, ex, rd),
           NEW cut \in 0..2, cut <= Len(q),
           NEW msgs2, msgs2 = IF cut = 2 THEN Front(msgs) ELSE msgs
    PROVE  /\ SubSeq(q, 1, Len(q) - cut) \in Seq(Symbols)
           /\ msgs2 \in Seq(Messages) /\ n \in 0..Len(msgs2)
           /\ Keeps(p, n, evs, s, "exited", msgs2, SubSeq(q, 1, Len(q) - cut), how, rd)
<1> DEFINE b == rd.buffer
           r == b \o q
           c == SubSeq(q, 1, Len(q) - cut)
           rest == b \o c
<1>1. /\ b \in Seq(Symbols) /\ rd.finalText \in Seq(Texts) /\ r \in Seq(Symbols)
      /\ Len(msgs) \in Nat /\ n \in Nat /\ n <= Len(msgs) /\ Len(q) \in Nat /\ Len(b) \in Nat
      /\ Len(r) = Len(b) + Len(q)
  BY ReaderTyped, ConcatProperties
<1>2. "running" \notin Done /\ "exited" \notin Done /\ "exited" # "idle"
      /\ "exited" # "closed" /\ "exited" \notin {"ok", "failed"} /\ "running" # "exited"
  BY DEF Done
<1>3. Continues(r, n) /\ Len(r) = 3 * (Len(msgs) - n)
  <2>1. Continues(r, n) /\ Len(r) - 3 * (Len(msgs) - n) = 0
    BY <1>2 DEF Keeps, Lined
  <2> QED
    BY <1>1, <2>1
<1>4. Len(q) - cut \in 0..Len(q)
  BY <1>1
<1>5. /\ c \in Seq(Symbols) /\ Len(rest) = Len(b) + (Len(q) - cut) /\ Continues(rest, n)
  <2>1. /\ c \in Seq(Symbols) /\ Len(b \o c) = Len(b) + (Len(q) - cut)
        /\ Continues(b \o c, n)
    <3> DEFINE k == Len(q) - cut
    <3>1. k \in 0..Len(q) /\ n \in Int /\ Continues(b \o q, n)
      BY <1>1, <1>3, <1>4
    <3> HIDE DEF k, b
    <3>2. /\ SubSeq(q, 1, k) \in Seq(Symbols)
          /\ Len(b \o SubSeq(q, 1, k)) = Len(b) + k
          /\ Continues(b \o SubSeq(q, 1, k), n)
      BY <1>1, <3>1, LineCut
    <3> QED
      BY <3>2 DEF k
  <2> QED
    BY <2>1
<1>6. /\ msgs2 \in Seq(Messages) /\ n <= Len(msgs2) /\ Len(msgs2) \in Nat
      /\ \A i \in 1..n : msgs2[i] = msgs[i]
      /\ Len(msgs2) = IF cut = 2 THEN Len(msgs) - 1 ELSE Len(msgs)
  <2>1. CASE cut = 2
    <3>1. Len(r) >= 2
      BY <1>1, <2>1
    <3>2. n + 1 <= Len(msgs)
      BY <1>1, <1>3, <3>1
    <3>3. msgs2 = SubSeq(msgs, 1, Len(msgs) - 1)
      BY <2>1 DEF Front
    <3> HIDE DEF r, b
    <3>5. /\ msgs2 \in Seq(Messages) /\ Len(msgs2) = Len(msgs) - 1
          /\ \A i \in 1..Len(msgs) - 1 : msgs2[i] = msgs[i]
      <4> DEFINE l == Len(msgs) - 1
      <4>1. l \in Nat /\ \A i \in 1..l : i \in 1..Len(msgs)
        <5>1. ASSUME NEW m \in Nat, NEW k \in Nat, k + 1 <= m
              PROVE  m - 1 \in Nat /\ \A i \in 1..m - 1 : i \in 1..m
          <6>1. m - 1 \in Nat
            BY <5>1
          <6> QED
            BY <6>1
        <5>2. Len(msgs) \in Nat /\ n \in Nat
          BY <1>1
        <5> QED
          BY <3>2, <5>1, <5>2
      <4>2. \A i \in 1..l : msgs[i] \in Messages
        BY <4>1
      <4> HIDE DEF l
      <4>3. /\ SubSeq(msgs, 1, l) \in Seq(Messages)
            /\ Len(SubSeq(msgs, 1, l)) = IF 1 <= l THEN l - 1 + 1 ELSE 0
            /\ \A i \in 1..l - 1 + 1 : SubSeq(msgs, 1, l)[i] = msgs[1 + i - 1]
        BY <4>1, <4>2, SubSeqProperties
      <4>4. Len(SubSeq(msgs, 1, l)) = l
        BY <4>1, <4>3
      <4>5. \A i \in 1..l : i \in 1..l - 1 + 1 /\ 1 + i - 1 = i
        BY <4>1
      <4> QED
        BY <3>3, <4>3, <4>4, <4>5 DEF l
    <3>6. \A i \in 1..n : i \in 1..Len(msgs) - 1
      BY <1>1, <3>2
    <3>7. n <= Len(msgs2) /\ Len(msgs2) \in Nat
      <4>1. ASSUME NEW l \in Nat, NEW l2, l2 = l - 1, n + 1 <= l
            PROVE  n <= l2 /\ l2 \in Nat
        BY <1>1, <4>1
      <4> QED
        BY <1>1, <3>2, <3>5, <4>1
    <3>8. \A i \in 1..n : msgs2[i] = msgs[i]
      BY <3>5, <3>6
    <3> QED
      BY <2>1, <3>5, <3>7, <3>8
  <2>2. CASE cut # 2
    BY <1>1, <2>2
  <2> QED
    BY <2>1, <2>2
<1>7. Len(rest) - 3 * (Len(msgs2) - n) \in -1..1
  <2>1. ASSUME NEW lb \in Nat, NEW lq \in Nat, NEW l \in Nat, NEW l2 \in Nat, NEW k \in 0..2,
               lb + lq = 3 * (l - n), l2 = IF k = 2 THEN l - 1 ELSE l
        PROVE  lb + (lq - k) - 3 * (l2 - n) \in -1..1
    <3>1. CASE k = 2
      BY <1>1, <2>1, <3>1
    <3>2. CASE k # 2
      BY <1>1, <2>1, <3>2
    <3> QED
      BY <3>1, <3>2
  <2> HIDE DEF b, r, c, rest
  <2>2. Len(b) \in Nat /\ Len(q) \in Nat /\ Len(b) + Len(q) = 3 * (Len(msgs) - n)
    BY <1>1, <1>3
  <2>3. Len(b) + (Len(q) - cut) - 3 * (Len(msgs2) - n) \in -1..1
    BY <1>1, <1>6, <2>1, <2>2
  <2> QED
    BY <1>5, <2>3
<1> HIDE DEF r, c, rest
<1>8. Lined(n, "exited", msgs2, b, c)
  BY <1>2, <1>5, <1>7 DEF Lined, rest
<1>9. Begun(p, evs, "exited", msgs2)
  BY <1>2 DEF Keeps, Begun
<1>10. Reported(evs, rd.finalText, msgs2, s, p, n)
  BY <1>1, <1>6, ReportedStay DEF Keeps
<1>11. rd.stopReason = "stop_error" <=> Failed(msgs2, n)
  BY <1>1, <1>6, FailedStay DEF Keeps
<1>12. Ended(p, evs, s, "exited", msgs2, how)
  BY <1>2 DEF Keeps, Ended
<1>13. Keeps(p, n, evs, s, "exited", msgs2, c, how, rd)
  BY <1>8, <1>9, <1>10, <1>11, <1>12 DEF Keeps
<1>14. n \in 0..Len(msgs2)
  BY <1>1, <1>6
<1> QED
  BY <1>5, <1>6, <1>13, <1>14 DEF c

LEMMA KeepsRead ==
    ASSUME NEW p, NEW msgs \in Seq(Messages), NEW n \in 0..Len(msgs), NEW evs, NEW s,
           NEW ph, NEW q \in Seq(Symbols), NEW ex, NEW rd \in Readers,
           Keeps(p, n, evs, s, ph, msgs, q, ex, rd), NEW k \in 1..Len(q),
           NEW rd2, rd2 = [rd EXCEPT !.buffer = @ \o Decoded(SubSeq(q, 1, k))]
    PROVE  /\ SubSeq(q, k + 1, Len(q)) \in Seq(Symbols) /\ rd2 \in Readers
           /\ Keeps(p, n, evs, s, ph, msgs, SubSeq(q, k + 1, Len(q)), ex, rd2)
<1> DEFINE b == rd.buffer
           d == Decoded(SubSeq(q, 1, k))
           rest == SubSeq(q, k + 1, Len(q))
<1>1. b \in Seq(Symbols) /\ Len(msgs) \in Nat /\ n \in Int
  BY ReaderTyped
<1>2. ph \notin Done
  BY DEF Keeps, Lined
<1>3. /\ Continues(b \o q, n)
      /\ Len(b \o q) - 3 * (Len(msgs) - n) \in IF ph = "exited" THEN -1..1 ELSE {0}
  BY <1>2 DEF Keeps, Lined
<1>4. /\ b \o d \in Seq(Symbols) /\ rest \in Seq(Symbols)
      /\ Len((b \o d) \o rest) = Len(b \o q) /\ Continues((b \o d) \o rest, n)
  BY <1>1, <1>3, ChunkRead
<1> HIDE DEF d, rest
<1>5. /\ rd2.buffer = b \o d /\ rd2.finalText = rd.finalText
      /\ rd2.stopReason = rd.stopReason /\ rd2 \in Readers
  BY <1>4 DEF Readers, d
<1>6. Lined(n, ph, msgs, rd2.buffer, rest)
  BY <1>2, <1>3, <1>4, <1>5 DEF Lined
<1>7. Keeps(p, n, evs, s, ph, msgs, rest, ex, rd2)
  BY <1>5, <1>6 DEF Keeps
<1> QED
  BY <1>4, <1>5, <1>7 DEF rest
-----------------------------------------------------------------------------
LEMMA EventsTyped ==
    ASSUME NEW name \in Reports \cup {"stopped"}, NEW s \in Ids, NEW p \in Prompts,
           NEW line \in Nat, NEW response \in Seq(Texts)
    PROVE  /\ Event(name, s, p, line, response) \in Events
           /\ Event(name, s, p, line, response).name = name
           /\ Event(name, s, p, line, response).session = s
           /\ Event(name, s, p, line, response).from = p
           /\ Event(name, s, p, line, response).line = line
           /\ Event(name, s, p, line, response).response = response
BY DEF Event, Events

LEMMA TextTyped ==
    ASSUME NEW p \in Prompts, NEW line, line[1].line \in Nat
    PROVE  /\ Text(p, line) \in Texts
           /\ Text(p, line).line = line[1].line /\ Text(p, line).from = p
           /\ (line[1].intact \/ Wide) /\ (line[2].intact \/ Wide)
                 => (Text(p, line).garbled => Wide)
<1> DEFINE g == ~(line[1].intact /\ line[2].intact)
<1>1. Text(p, line) = [from |-> p, line |-> line[1].line, garbled |-> g]
  BY DEF Text
<1>2. g \in BOOLEAN
  OBVIOUS
<1>3. (line[1].intact \/ Wide) /\ (line[2].intact \/ Wide) => (g => Wide)
  OBVIOUS
<1> HIDE DEF g
<1> QED
  BY <1>1, <1>2, <1>3 DEF Texts

(* What the service itself says of p: an error, and that it stopped.       *)
LEMMA OwnError ==
    ASSUME NEW s \in Ids, NEW p \in Prompts
    PROVE  LET e == Event("error", s, p, 0, <<>>)
           IN  /\ e \in Events /\ e.from = p /\ e.line = 0
               /\ e.name = "error" /\ e.session = s
<1>1. "error" \in Reports \cup {"stopped"} /\ <<>> \in Seq(Texts) /\ 0 \in Nat
  BY DEF Reports
<1>2. Event("error", s, p, 0, <<>>) \in Events
  BY <1>1, EventsTyped
<1> QED
  BY <1>2 DEF Event

LEMMA OwnStopped ==
    ASSUME NEW s \in Ids, NEW p \in Prompts, NEW texts \in Seq(Texts)
    PROVE  LET e == Event("stopped", s, p, 0, texts)
           IN  /\ e \in Events /\ e.from = p /\ e.line = 0
               /\ e.name = "stopped" /\ e.session = s /\ e.response = texts
<1>1. Event("stopped", s, p, 0, texts) \in Events
  BY EventsTyped
<1> QED
  BY <1>1 DEF Event

(* The m-th line of a child, whole.                                        *)
WholeLine(line, m) ==
    /\ line \in Seq(Symbols) /\ Len(line) = 2 /\ line[1].line = m
    /\ (line[1].intact \/ Wide) /\ (line[2].intact \/ Wide)

(* es are the events that the m-th message of p calls for.                 *)
EventsOf(es, msgs, s, p, m) ==
    /\ es \in Seq(Events) /\ msgs[m].kind \in Kinds
    /\ DOMAIN es = DOMAIN EventNames[msgs[m].kind]
    /\ \A i \in DOMAIN es :
          /\ es[i].from = p /\ es[i].line = m /\ Fits(es[i], msgs, s, p)
          /\ es[i].name = EventNames[msgs[m].kind][i]

(* The stopReason after a message of this kind, given the one before.      *)
ReasonAfter(kind, before) == IF kind \in StopReasons THEN kind ELSE before

(* What handleAcpEvent makes of a whole line, the one after n others.      *)
LEMMA LineHandled ==
    ASSUME TypeOK, NEW p \in Prompts, NEW n \in Nat, NEW m \in 1..Len(sent[p]), m = n + 1,
           NEW line, WholeLine(line, m), TextsAre(reader[p].finalText, sent[p], p, n)
    PROVE  /\ FinalText(p, line) \in Seq(Texts)
           /\ TextsAre(FinalText(p, line), sent[p], p, m)
           /\ StopReason(p, line) = ReasonAfter(sent[p][m].kind, reader[p].stopReason)
           /\ EventsOf(Emitted(p, line), sent[p], session[p], p, m)
           /\ Output(p, line) \in [Ids -> Seq(Texts)]
<1> DEFINE msg == sent[p][m]
           k == msg.kind
           t == Text(p, line)
           es == Emitted(p, line)
<1>0. /\ line \in Seq(Symbols) /\ Len(line) = 2 /\ line[1].line = m
      /\ (line[1].intact \/ Wide) /\ (line[2].intact \/ Wide)
  BY DEF WholeLine
<1>1. /\ msg \in Messages /\ k \in Kinds /\ msg.id \in AgentIds \cup {None}
      /\ m \in Nat /\ session[p] \in Sessions
      /\ reader[p] \in Readers /\ reader[p].finalText \in Seq(Texts)
  <2>1. sent[p] \in Seq(Messages) /\ session[p] \in Sessions /\ reader[p] \in Readers
    BY DEF TypeOK
  <2>2. msg \in Messages
    BY <2>1
  <2>3. msg \in [kind : DOMAIN EventNames, id : AgentIds \cup {None}]
    BY <2>2, StreamAssumption
  <2>4. k \in Kinds /\ msg.id \in AgentIds \cup {None}
    BY <2>3, Names
  <2> QED
    BY <2>1, <2>2, <2>4, ReaderTyped
<1>2. Message(p, line) = msg /\ Parsed(line)
  BY <1>0 DEF Message, Parsed
<1>3. /\ t \in Texts /\ t.line = m /\ t.from = p /\ (t.garbled => Wide)
  <2>1. line[1].line \in Nat
    BY <1>0, <1>1
  <2> QED
    BY <1>0, <2>1, TextTyped
<1>4. EventSession(p, msg) = IF msg.id = None THEN session[p] ELSE msg.id
  BY DEF EventSession
<1>5. EventSession(p, msg) \in Ids
  BY <1>1, <1>4 DEF Ids
<1> HIDE DEF t, msg
<1>6. FinalText(p, line) = IF k = "text" THEN Append(reader[p].finalText, t)
                           ELSE reader[p].finalText
  BY <1>2 DEF FinalText, t
<1>7. FinalText(p, line) \in Seq(Texts) /\ TextsAre(FinalText(p, line), sent[p], p, m)
  <2>1. CASE k = "text"
    <3>1. sent[p][m].kind = "text" /\ m \in Nat
      BY <1>1, <2>1 DEF msg
    <3> QED
      BY <1>1, <1>3, <1>6, <2>1, <3>1, TextsGrow
  <2>2. CASE k # "text"
    <3>1. sent[p][m].kind # "text" /\ m \in Nat
      BY <1>1, <2>2 DEF msg
    <3> QED
      BY <1>1, <1>6, <2>2, <3>1, TextsSame
  <2> QED
    BY <2>1, <2>2
<1>8. StopReason(p, line) = IF k \in StopReasons THEN k ELSE reader[p].stopReason
  BY <1>2 DEF StopReason
<1>9. Response(p, line) = IF k = "text" THEN <<t>>
                          ELSE IF k = "end_turn" THEN FinalText(p, line) ELSE <<>>
  BY <1>2 DEF Response, t
<1>10. Response(p, line) \in Seq(Texts)
  BY <1>3, <1>7, <1>9
<1>11. es = [i \in DOMAIN EventNames[k] |->
               Event(EventNames[k][i], EventSession(p, msg), p, m, Response(p, line))]
  BY <1>0, <1>2 DEF Emitted
<1>12. ASSUME NEW i \in DOMAIN EventNames[k]
       PROVE  /\ es[i] \in Events /\ es[i].from = p /\ es[i].line = m
              /\ es[i].name = EventNames[k][i] /\ es[i].session = EventSession(p, msg)
              /\ es[i].response = Response(p, line)
  <2>1. EventNames[k][i] \in Reports
    <3>1. EventNames[k] \in Seq(Reports)
      BY <1>1, Names
    <3> QED
      BY <3>1
  <2>2. es[i] = Event(EventNames[k][i], EventSession(p, msg), p, m, Response(p, line))
    BY <1>11
  <2> QED
    BY <1>1, <1>5, <1>10, <2>1, <2>2, EventsTyped
<1>13. es \in Seq(Events) /\ DOMAIN es = DOMAIN EventNames[k]
  <2>1. EventNames[k] \in Seq(Reports)
    BY <1>1, Names
  <2>2. PICK len \in Nat : DOMAIN EventNames[k] = 1..len
    BY <2>1
  <2> HIDE DEF k
  <2>3. es \in [1..len -> Events]
    BY <1>11, <1>12, <2>2
  <2> QED
    BY <1>11, <2>2, <2>3
<1> HIDE DEF es
<1>14. ASSUME NEW i \in DOMAIN es PROVE Fits(es[i], sent[p], session[p], p)
  <2>1. /\ es[i].line = m /\ es[i].name = EventNames[k][i] /\ i \in DOMAIN EventNames[k]
        /\ es[i].session = EventSession(p, msg) /\ es[i].response = Response(p, line)
    BY <1>12, <1>13
  <2>2. es[i].name \in ToSet(EventNames[k])
    BY <2>1 DEF ToSet
  <2>3. k = "text" => /\ Len(es[i].response) = 1 /\ es[i].response[1].line = m
                      /\ es[i].response[1].from = p /\ (es[i].response[1].garbled => Wide)
    BY <1>3, <1>9, <2>1
  <2>4. k = "end_turn" => TextsAre(es[i].response, sent[p], p, m)
    BY <1>7, <1>9, <2>1
  <2>5. k # "text" /\ k # "end_turn" => es[i].response = <<>>
    BY <1>9, <2>1
  <2>6. sent[p][es[i].line] = msg
    BY <2>1 DEF msg
  <2> QED
    BY <1>4, <2>1, <2>2, <2>3, <2>4, <2>5, <2>6 DEF Fits
<1>15. Output(p, line) \in [Ids -> Seq(Texts)]
  <2>1. output \in [Ids -> Seq(Texts)]
    BY DEF TypeOK
  <2>2. CASE k = "text"
    <3> DEFINE o == EventSession(p, msg)
               all == Append(output[o], t)
    <3>1. all \in Seq(Texts)
      BY <1>3, <1>5, <2>1
    <3>2. Capped(all) \in Seq(Texts)
      <4> HIDE DEF all
      <4>1. CASE Len(all) <= OutputCap
        BY <3>1, <4>1 DEF Capped
      <4>2. CASE ~(Len(all) <= OutputCap)
        <5> DEFINE low == Len(all) - OutputCap + 1
        <5>1. low \in Nat \ {0} /\ Len(all) \in Nat
          BY <3>1, <4>2, StreamAssumption
        <5>2. Capped(all) = SubSeq(all, low, Len(all))
          BY <4>2 DEF Capped
        <5> HIDE DEF low
        <5>3. \A i \in low..Len(all) : all[i] \in Texts
          BY <3>1, <5>1
        <5>4. SubSeq(all, low, Len(all)) \in Seq(Texts)
          BY <5>1, <5>3, SubSeqProperties
        <5> QED
          BY <5>2, <5>4
      <4> QED
        BY <4>1, <4>2
    <3>3. Output(p, line) = [output EXCEPT ![o] = Capped(all)]
      BY <1>2, <2>2 DEF Output, t
    <3> HIDE DEF all, o
    <3> QED
      BY <2>1, <3>2, <3>3
  <2>3. CASE k # "text"
    BY <1>2, <2>1, <2>3 DEF Output
  <2> QED
    BY <2>2, <2>3
<1>16. EventsOf(es, sent[p], session[p], p, m)
  BY <1>1, <1>12, <1>13, <1>14 DEF EventsOf, msg
<1>17. StopReason(p, line) = ReasonAfter(sent[p][m].kind, reader[p].stopReason)
  BY <1>8 DEF ReasonAfter, msg
<1> QED
  BY <1>7, <1>15, <1>16, <1>17 DEF es

(* Anything else it ignores.                                               *)
LEMMA LineIgnored ==
    ASSUME TypeOK, NEW p \in Prompts, NEW line, Len(line) # 2
    PROVE  /\ FinalText(p, line) = reader[p].finalText
           /\ StopReason(p, line) = reader[p].stopReason
           /\ Emitted(p, line) = <<>> /\ Output(p, line) = output
BY DEF Parsed, FinalText, StopReason, Emitted, Output
-----------------------------------------------------------------------------
(* None of the events of p is one of the service's own.                    *)
NoneOwn(evs, p) == \A i \in From(evs, p) : evs[i].line # 0

(* The line before the first newline of a buffer is the next line, whole.  *)
LEMMA FirstLine ==
    ASSUME NEW p, NEW msgs \in Seq(Messages), NEW n \in 0..Len(msgs), NEW evs, NEW s,
           NEW ph, NEW q \in Seq(Symbols), NEW ex, NEW rd \in Readers,
           Keeps(p, n, evs, s, ph, msgs, q, ex, rd), NEW pos \in DOMAIN rd.buffer,
           rd.buffer[pos].part = NewLine, \A i \in 1..pos - 1 : rd.buffer[i].part # NewLine
    PROVE  LET b == rd.buffer
               line == SubSeq(b, 1, pos - 1)
               rest == SubSeq(b, pos + 1, Len(b))
           IN  /\ ph \notin Done /\ n + 1 \in 1..Len(msgs) /\ WholeLine(line, n + 1)
               /\ rest \in Seq(Symbols) /\ Lined(n + 1, ph, msgs, rest, q)
               /\ NoneOwn(evs, p)
<1> DEFINE b == rd.buffer
           r == b \o q
<1>1. /\ b \in Seq(Symbols) /\ Len(msgs) \in Nat /\ n \in Nat /\ n <= Len(msgs)
      /\ n \in Int /\ Len(b) \in Nat /\ pos \in 1..Len(b)
  <2>1. b \in Seq(Symbols)
    BY ReaderTyped
  <2> HIDE DEF b
  <2>2. pos \in 1..Len(b)
    BY <2>1 DEF b
  <2> QED
    BY <2>1, <2>2
<1>2. ph \notin Done
  BY DEF Keeps, Lined
<1>3. /\ Continues(r, n)
      /\ Len(r) - 3 * (Len(msgs) - n) \in IF ph = "exited" THEN -1..1 ELSE {0}
  BY <1>2 DEF Keeps, Lined
<1>4. b[pos].part = NewLine /\ \A i \in 1..pos - 1 : b[i].part # NewLine
  OBVIOUS
<1> HIDE DEF b
<1>5. /\ r \in Seq(Symbols) /\ Len(r) = Len(b) + Len(q) /\ Len(q) \in Nat
      /\ \A i \in 1..Len(b) : i \in DOMAIN r /\ r[i] = b[i]
  <2>1. /\ r \in Seq(Symbols) /\ Len(r) = Len(b) + Len(q) /\ Len(q) \in Nat
        /\ \A i \in 1..Len(b) + Len(q) : r[i] = IF i <= Len(b) THEN b[i] ELSE q[i - Len(b)]
    BY <1>1, ConcatProperties
  <2> HIDE DEF r
  <2>2. \A i \in 1..Len(b) : i \in 1..Len(b) + Len(q) /\ i <= Len(b)
    BY <1>1, <2>1
  <2> QED
    BY <2>1, <2>2
<1> HIDE DEF r
<1>6. /\ Len(r) >= 1 => r[1].line = n + 1
      /\ \A i \in DOMAIN r : i <= 2 => r[i].part # NewLine /\ (r[i].intact \/ Wide)
      /\ Len(r) >= 3 => r[3].part = NewLine
  BY <1>1, <1>3, <1>5, NextLine
<1>7. pos = 3
  <2>1. ~(pos <= 2)
    BY <1>1, <1>4, <1>5, <1>6
  <2>2. ASSUME pos > 3 PROVE FALSE
    <3>1. 3 \in 1..pos - 1 /\ 3 \in 1..Len(b) /\ Len(r) >= 3
      BY <1>1, <1>5, <2>2
    <3> QED
      BY <1>4, <1>5, <1>6, <3>1
  <2> QED
    BY <1>1, <2>1, <2>2
<1>8. Len(b) >= 3 /\ pos - 1 = 2 /\ pos + 1 = 4
  BY <1>1, <1>7
<1>9. /\ SubSeq(b, 1, 2) \in Seq(Symbols) /\ Len(SubSeq(b, 1, 2)) = 2
      /\ SubSeq(b, 1, 2)[1] = b[1] /\ SubSeq(b, 1, 2)[2] = b[2]
  <2>1. \A i \in 1..2 : i \in 1..Len(b)
    BY <1>1, <1>8
  <2>2. \A i \in 1..2 : b[i] \in Symbols
    BY <1>1, <2>1, ElementOfSeq
  <2>3. /\ SubSeq(b, 1, 2) \in Seq(Symbols)
        /\ Len(SubSeq(b, 1, 2)) = IF 1 <= 2 THEN 2 - 1 + 1 ELSE 0
        /\ \A i \in 1..2 - 1 + 1 : SubSeq(b, 1, 2)[i] = b[1 + i - 1]
    <3>1. 1 \in Int /\ 2 \in Int
      OBVIOUS
    <3> QED
      BY <2>2, <3>1, SubSeqProperties
  <2>4. SubSeq(b, 1, 2)[1] = b[1 + 1 - 1] /\ SubSeq(b, 1, 2)[2] = b[1 + 2 - 1]
    BY <2>3
  <2> QED
    BY <2>3, <2>4
<1>10. /\ b[1].line = n + 1 /\ (b[1].intact \/ Wide) /\ (b[2].intact \/ Wide)
  <2>1. 1 \in 1..Len(b) /\ 2 \in 1..Len(b) /\ Len(r) >= 1
    BY <1>1, <1>5, <1>8
  <2>2. /\ 1 \in DOMAIN r /\ 2 \in DOMAIN r /\ r[1] = b[1] /\ r[2] = b[2]
    BY <1>5, <2>1
  <2> QED
    BY <1>6, <2>1, <2>2
<1>11. /\ SubSeq(b, 4, Len(b)) \in Seq(Symbols)
       /\ Len(SubSeq(b, 4, Len(b)) \o q) = Len(r) - 3
       /\ Continues(SubSeq(b, 4, Len(b)) \o q, n + 1)
  BY <1>1, <1>3, <1>8, LineTaken DEF r
<1>12. n + 1 \in 1..Len(msgs)
  <2>1. ASSUME NEW l \in Nat, NEW k \in Nat, NEW j \in Nat, l >= 3,
               l - 3 * (k - j) \in -1..1
        PROVE  j + 1 \in 1..k
    BY <2>1
  <2>2. Len(r) \in Nat /\ Len(r) >= 3
    BY <1>1, <1>5, <1>8
  <2>3. Len(r) - 3 * (Len(msgs) - n) \in -1..1
    <3>1. 0 \in -1..1
      OBVIOUS
    <3> QED
      BY <1>3, <3>1
  <2> HIDE DEF r
  <2> QED
    BY <1>1, <2>1, <2>2, <2>3
<1>13. Lined(n + 1, ph, msgs, SubSeq(b, 4, Len(b)), q)
  <2> DEFINE rest == SubSeq(b, 4, Len(b))
  <2>1. Len(rest \o q) = Len(r) - 3 /\ Continues(rest \o q, n + 1)
    BY <1>11
  <2> HIDE DEF rest
  <2>2. Len(rest \o q) - 3 * (Len(msgs) - (n + 1)) = Len(r) - 3 * (Len(msgs) - n)
    <3>1. ASSUME NEW l \in Nat, NEW l2, l2 = l - 3
          PROVE  l2 - 3 * (Len(msgs) - (n + 1)) = l - 3 * (Len(msgs) - n)
      BY <1>1, <3>1
    <3> QED
      BY <1>5, <2>1, <3>1
  <2>3. Lined(n + 1, ph, msgs, rest, q)
    BY <1>2, <1>3, <2>1, <2>2 DEF Lined
  <2> QED
    BY <2>3 DEF rest
<1>14. NoneOwn(evs, p)
  <2>1. msgs # <<>>
    BY <1>1, <1>12
  <2> QED
    BY <1>2, <2>1 DEF Keeps, Begun, NoneOwn
<1>15. WholeLine(SubSeq(b, 1, 2), n + 1)
  BY <1>9, <1>10 DEF WholeLine
<1> QED
  BY <1>2, <1>8, <1>11, <1>12, <1>13, <1>14, <1>15 DEF b

(* What is left of the output of a child that ended: a whole line without  *)
(* its newline, or less than a line.                                       *)
LEMMA LineLeft ==
    ASSUME NEW p, NEW msgs \in Seq(Messages), NEW n \in 0..Len(msgs), NEW evs, NEW s,
           NEW ex, NEW rd \in Readers, Keeps(p, n, evs, s, "exited", msgs, <<>>, ex, rd),
           \A i \in DOMAIN rd.buffer : rd.buffer[i].part # NewLine
    PROVE  LET b == rd.buffer
           IN  \/ /\ Len(msgs) \in 1..Len(msgs) /\ Len(msgs) = n + 1
                  /\ WholeLine(b, Len(msgs)) /\ NoneOwn(evs, p)
               \/ Len(b) # 2 /\ n = Len(msgs)
<1> DEFINE b == rd.buffer
<1>1. /\ b \in Seq(Symbols) /\ Len(msgs) \in Nat /\ n \in Nat /\ n <= Len(msgs)
      /\ n \in Int
  BY ReaderTyped
<1>2. "exited" \notin Done
  BY DEF Done
<1>3. Continues(b \o <<>>, n) /\ Len(b \o <<>>) - 3 * (Len(msgs) - n) \in -1..1
  BY <1>2 DEF Keeps, Lined
<1>4. \A i \in DOMAIN b : b[i].part # NewLine
  OBVIOUS
<1> HIDE DEF b
<1>5. b \o <<>> = b /\ Len(b) \in Nat /\ DOMAIN b = 1..Len(b)
  BY <1>1
<1>6. Continues(b, n) /\ Len(b) - 3 * (Len(msgs) - n) \in -1..1
  <2>1. b \o <<>> = b
    BY <1>5
  <2> QED
    BY <1>3, <2>1, Zenon
<1>7. Len(b) <= 2
  <2>1. ASSUME Len(b) >= 3 PROVE FALSE
    <3>1. b[3].part = NewLine /\ 3 \in DOMAIN b
      <4>1. 3 \in DOMAIN b
        BY <1>5, <2>1
      <4> QED
        BY <1>1, <1>6, <2>1, <4>1, NextLine
    <3> QED
      BY <1>4, <3>1
  <2> QED
    BY <1>5, <2>1
<1>8. CASE Len(b) = 2
  <2>1. n + 1 = Len(msgs)
    <3>1. 2 - 3 * (Len(msgs) - n) \in -1..1
      BY <1>6, <1>8
    <3> QED
      BY <1>1, <3>1
  <2>2. n + 1 \in 1..Len(msgs)
    BY <1>1, <2>1
  <2>3. 1 \in DOMAIN b /\ 2 \in DOMAIN b
    BY <1>5, <1>8
  <2>4. b[1].line = n + 1 /\ (b[1].intact \/ Wide) /\ (b[2].intact \/ Wide)
    BY <1>1, <1>6, <1>8, <2>3, NextLine
  <2>5. NoneOwn(evs, p)
    <3>1. msgs # <<>>
      BY <1>1, <2>1
    <3> QED
      BY <1>2, <3>1 DEF Keeps, Begun, NoneOwn
  <2>6. WholeLine(b, Len(msgs))
    BY <1>1, <1>8, <2>1, <2>4 DEF WholeLine
  <2> QED
    BY <2>1, <2>2, <2>5, <2>6 DEF b
<1>9. CASE Len(b) # 2
  <2>1. ASSUME NEW l \in {0, 1}, l - 3 * (Len(msgs) - n) \in -1..1 PROVE n = Len(msgs)
    BY <1>1, <2>1
  <2>2. Len(b) \in {0, 1}
    BY <1>5, <1>7, <1>9
  <2>3. n = Len(msgs)
    BY <1>6, <2>1, <2>2
  <2> QED
    BY <1>9, <2>3 DEF b
<1> QED
  BY <1>8, <1>9

(* The first n messages of p are reported, and no end of it.               *)
Told(evs, texts, reason, msgs, s, p, n) ==
    /\ Reported(evs, texts, msgs, s, p, n)
    /\ StopsIn(evs, p) = {} /\ NoneOwn(evs, p)
    /\ reason = "stop_error" <=> Failed(msgs, n)

(* A line more that is handled is reported.                                *)
LEMMA ReportsMore ==
    ASSUME NEW p, NEW msgs \in Seq(Messages), NEW n \in Nat, NEW m \in 1..Len(msgs),
           m = n + 1, NEW evs \in Seq(Events), NEW es, NEW s, NEW ph, NEW q, NEW ex, NEW rd,
           ph \notin Done, Keeps(p, n, evs, s, ph, msgs, q, ex, rd), NoneOwn(evs, p),
           EventsOf(es, msgs, s, p, m), NEW texts, TextsAre(texts, msgs, p, m)
    PROVE  Told(evs \o es, texts, ReasonAfter(msgs[m].kind, rd.stopReason), msgs, s, p, m)
<1>0. /\ es \in Seq(Events) /\ msgs[m].kind \in Kinds
      /\ DOMAIN es = DOMAIN EventNames[msgs[m].kind]
      /\ \A k \in DOMAIN es :
            /\ es[k].from = p /\ es[k].line = m /\ Fits(es[k], msgs, s, p)
            /\ es[k].name = EventNames[msgs[m].kind][k]
      /\ \A i \in From(evs, p) : evs[i].line # 0
  BY DEF EventsOf, NoneOwn
<1>1. m \in Nat /\ m # 0
  OBVIOUS
<1> DEFINE reason == ReasonAfter(msgs[m].kind, rd.stopReason)
<1>2. Reported(evs \o es, texts, msgs, s, p, m)
  <2>1. Reported(evs, rd.finalText, msgs, s, p, n)
    BY DEF Keeps
  <2> QED
    BY <1>0, <1>1, <2>1, ReportedMore
<1>3. StopsIn(evs \o es, p) = {}
  <2>1. StopsIn(evs, p) = {}
    BY DEF Keeps, Ended
  <2>2. \A k \in From(es, p) : es[k].name # "stopped"
    BY <1>0, Names DEF From
  <2> QED
    BY <1>0, <2>1, <2>2, StopsFrame
<1>4. ASSUME NEW i \in From(evs \o es, p) PROVE (evs \o es)[i].line # 0
  <2>1. CASE i \in From(evs, p)
    BY <1>0, <2>1, After
  <2>2. CASE i \notin From(evs, p)
    <3>1. PICK k \in From(es, p) : i = Len(evs) + k
      BY <1>0, <2>2, After
    <3>2. k \in DOMAIN es
      BY DEF From
    <3>3. (evs \o es)[i] = es[k]
      BY <1>0, <3>1, After
    <3>4. es[k].line = m
      BY <1>0, <3>2
    <3> QED
      BY <1>1, <3>3, <3>4
  <2> QED
    BY <2>1, <2>2
<1>5. reason = "stop_error" <=> Failed(msgs, m)
  <2>1. rd.stopReason = "stop_error" <=> Failed(msgs, n)
    BY DEF Keeps
  <2>2. Failed(msgs, m) <=> IF msgs[m].kind \in StopReasons
                            THEN msgs[m].kind = "stop_error" ELSE Failed(msgs, n)
    BY <1>1, FailedMore
  <2>3. CASE msgs[m].kind \in StopReasons
    BY <2>2, <2>3 DEF ReasonAfter
  <2>4. CASE msgs[m].kind \notin StopReasons
    BY <2>1, <2>2, <2>4 DEF ReasonAfter
  <2> QED
    BY <2>3, <2>4
<1> QED
  BY <1>2, <1>3, <1>4, <1>5 DEF NoneOwn, Told

LEMMA JustOne ==
    ASSUME NEW e \in Events, NEW p
    PROVE  <<e>> \in Seq(Events) /\ \A k \in From(<<e>>, p) : <<e>>[k] = e
<1> DEFINE es == <<e>>
<1>1. es \in Seq(Events) /\ DOMAIN es = {1} /\ es[1] = e
  OBVIOUS
<1> HIDE DEF es
<1>2. \A k \in From(es, p) : es[k] = e
  BY <1>1 DEF From
<1> QED
  BY <1>1, <1>2 DEF es

LEMMA KeepsNotFound ==
    ASSUME NEW p, NEW msgs, NEW n \in Nat, NEW evs \in Seq(Events), NEW s, NEW q, NEW ex,
           NEW rd, Keeps(p, n, evs, s, "idle", msgs, q, ex, rd), NEW e \in Events,
           e.from = p, e.line = 0, e.name = "error"
    PROVE  Keeps(p, n, evs \o <<e>>, s, "exited", msgs, q, "error", rd)
<1>1. /\ "idle" \notin Done /\ "exited" \notin Done /\ "exited" # "idle"
      /\ "exited" # "closed" /\ "exited" \notin {"ok", "failed"} /\ 0 \in -1..1
  BY DEF Done
<1>2. /\ <<e>> \in Seq(Events) /\ \A k \in From(<<e>>, p) : <<e>>[k] = e
  BY JustOne
<1>3. msgs = <<>>
  BY DEF Keeps, Begun
<1>4. Lined(n, "exited", msgs, rd.buffer, q)
  <2>1. /\ Continues(rd.buffer \o q, n)
        /\ Len(rd.buffer \o q) - 3 * (Len(msgs) - n) \in {0}
    BY <1>1 DEF Keeps, Lined
  <2>2. Len(rd.buffer \o q) - 3 * (Len(msgs) - n) \in -1..1
    BY <1>1, <2>1
  <2> QED
    BY <1>1, <2>1, <2>2 DEF Lined
<1>5. Begun(p, evs \o <<e>>, "exited", msgs)
  BY <1>1, <1>3 DEF Begun
<1>6. Reported(evs \o <<e>>, rd.finalText, msgs, s, p, n)
  <2>1. Reported(evs, rd.finalText, msgs, s, p, n)
    BY DEF Keeps
  <2> QED
    BY <1>2, <2>1, ReportedFrame
<1>7. Ended(p, evs \o <<e>>, s, "exited", msgs, "error")
  <2>1. StopsIn(evs, p) = {}
    BY <1>1 DEF Keeps, Ended
  <2>2. StopsIn(evs \o <<e>>, p) = {}
    BY <1>2, <2>1, StopsFrame
  <2> QED
    BY <1>1, <2>2 DEF Ended
<1> QED
  BY <1>4, <1>5, <1>6, <1>7 DEF Keeps

LEMMA KeepsClosed ==
    ASSUME NEW p, NEW msgs \in Seq(Messages), NEW evs \in Seq(Events), NEW s, NEW ex,
           NEW rd, \A i \in DOMAIN rd.buffer : rd.buffer[i].part # NewLine,
           Reported(evs, rd.finalText, msgs, s, p, Len(msgs)), StopsIn(evs, p) = {},
           rd.stopReason = "stop_error" <=> Failed(msgs, Len(msgs)),
           NEW login \in Seq(Events),
           \A k \in From(login, p) : login[k].line = 0 /\ login[k].name = "error",
           NEW stop \in Events, stop.from = p, stop.line = 0, stop.name = "stopped",
           stop.session = s, TextsAre(stop.response, msgs, p, Len(msgs))
    PROVE  Keeps(p, Len(msgs), (evs \o login) \o <<stop>>, s, "closed", msgs, <<>>, ex, rd)
<1> DEFINE evs1 == evs \o login
           all == evs1 \o <<stop>>
<1>1. "closed" \in Done /\ "closed" # "idle" /\ "closed" \notin {"ok", "failed"}
  BY DEF Done
<1>2. Len(msgs) \in Nat /\ evs1 \in Seq(Events)
  BY After
<1>3. Reported(evs1, rd.finalText, msgs, s, p, Len(msgs))
  BY <1>2, ReportedFrame
<1>4. StopsIn(evs1, p) = {}
  BY StopsFrame
<1> HIDE DEF evs1
<1>5. /\ <<stop>> \in Seq(Events) /\ \A k \in From(<<stop>>, p) : <<stop>>[k] = stop
  BY JustOne
<1>6. Reported(all, rd.finalText, msgs, s, p, Len(msgs))
  BY <1>2, <1>3, <1>5, ReportedFrame
<1>7. Stopped(all, msgs, s, p, Len(msgs))
  BY <1>2, <1>4, StoppedNow
<1>8. LastIs(all, p, s, "stopped")
  BY <1>2, LastNow
<1> HIDE DEF all
<1>9. Lined(Len(msgs), "closed", msgs, rd.buffer, <<>>)
  BY <1>1 DEF Lined
<1>10. Begun(p, all, "closed", msgs)
  BY <1>1 DEF Begun
<1>11. Ended(p, all, s, "closed", msgs, ex)
  BY <1>1, <1>7, <1>8 DEF Ended
<1>12. Keeps(p, Len(msgs), all, s, "closed", msgs, <<>>, ex, rd)
  BY <1>6, <1>9, <1>10, <1>11 DEF Keeps
<1> QED
  BY <1>12 DEF all, evs1

(* sendPrompt settles: n is the number of all messages.                    *)
LEMMA KeepsSettled ==
    ASSUME NEW p, NEW msgs, NEW n \in Nat, NEW evs \in Seq(Events), NEW s, NEW q, NEW ex,
           NEW rd, Keeps(p, n, evs, s, "closed", msgs, q, ex, rd)
    PROVE  /\ ex = "ok" /\ rd.stopReason # "stop_error" =>
                 Keeps(p, n, evs, s, "ok", msgs, q, ex, rd)
           /\ \A e \in Events :
                 /\ e.from = p /\ e.line = 0 /\ e.name = "error" /\ e.session = s
                 /\ ~(ex = "ok" /\ rd.stopReason # "stop_error")
                 => Keeps(p, n, evs \o <<e>>, s, "failed", msgs, q, ex, rd)
<1>1. /\ "closed" \in Done /\ "ok" \in Done /\ "failed" \in Done
      /\ "ok" # "idle" /\ "failed" # "idle" /\ "ok" # "closed" /\ "failed" # "closed"
      /\ "ok" \in {"ok", "failed"} /\ "failed" \in {"ok", "failed"}
  BY DEF Done
<1>2. n = Len(msgs)
  BY <1>1 DEF Keeps, Lined
<1>3. /\ Lined(n, "ok", msgs, rd.buffer, q) /\ Lined(n, "failed", msgs, rd.buffer, q)
      /\ \A all : Begun(p, all, "ok", msgs) /\ Begun(p, all, "failed", msgs)
  BY <1>1 DEF Keeps, Lined, Begun
<1>4. /\ Reported(evs, rd.finalText, msgs, s, p, n)
      /\ rd.stopReason = "stop_error" <=> Failed(msgs, Len(msgs))
      /\ Stopped(evs, msgs, s, p, Len(msgs)) /\ LastIs(evs, p, s, "stopped")
  BY <1>1, <1>2 DEF Keeps, Ended
<1>5. ASSUME ex = "ok", rd.stopReason # "stop_error"
      PROVE  Keeps(p, n, evs, s, "ok", msgs, q, ex, rd)
  <2>1. Ended(p, evs, s, "ok", msgs, ex)
    BY <1>1, <1>4, <1>5 DEF Ended
  <2> QED
    BY <1>2, <1>3, <1>4, <2>1 DEF Keeps
<1>6. ASSUME NEW e \in Events, e.from = p, e.line = 0, e.name = "error", e.session = s,
             ~(ex = "ok" /\ rd.stopReason # "stop_error")
      PROVE  Keeps(p, n, evs \o <<e>>, s, "failed", msgs, q, ex, rd)
  <2>1. /\ <<e>> \in Seq(Events) /\ \A k \in From(<<e>>, p) : <<e>>[k] = e
    BY JustOne
  <2>2. Reported(evs \o <<e>>, rd.finalText, msgs, s, p, n)
    BY <1>4, <1>6, <2>1, ReportedFrame
  <2>3. Stopped(evs \o <<e>>, msgs, s, p, Len(msgs))
    BY <1>4, <1>6, <2>1, StoppedFrame
  <2>4. LastIs(evs \o <<e>>, p, s, "error")
    BY <1>6, LastNow
  <2>5. Ended(p, evs \o <<e>>, s, "failed", msgs, ex)
    BY <1>1, <1>4, <1>6, <2>3, <2>4 DEF Ended
  <2> QED
    BY <1>2, <1>3, <1>4, <2>2, <2>5 DEF Keeps
<1> QED
  BY <1>5, <1>6

(* Events of p are events of nobody else.                                  *)
LEMMA NotOthers ==
    ASSUME NEW evs \in Seq(Events), NEW es \in Seq(Events), NEW p,
           \A k \in DOMAIN es : es[k].from = p
    PROVE  /\ evs \o es \in Seq(Events)
           /\ \A o : o # p => SameFor(evs, evs \o es, o)
<1>1. ASSUME NEW o, o # p PROVE SameFor(evs, evs \o es, o)
  <2>1. From(es, o) = {}
    BY <1>1 DEF From
  <2> QED
    BY <2>1, Others
<1> QED
  BY <1>1, After

LEMMA Inductive == IInv /\ [Next]_vars => IInv'
<1> SUFFICES ASSUME IInv, [Next]_vars PROVE IInv'
  OBVIOUS
<1>1. /\ TypeOK /\ events \in Seq(Events)
      /\ \A p \in Prompts :
            /\ session[p] \in Sessions /\ session[p] \in Ids /\ phase[p] \in Phases
            /\ sent[p] \in Seq(Messages) /\ pipe[p] \in Seq(Symbols)
            /\ exit[p] \in Exits /\ reader[p] \in Readers /\ Len(sent[p]) \in Nat
  BY DEF IInv, TypeOK, Ids
<1>2. ASSUME NEW p \in Prompts, Kept(p)',
             \A o \in Prompts : o # p =>
                /\ session'[o] = session[o] /\ phase'[o] = phase[o] /\ sent'[o] = sent[o]
                /\ pipe'[o] = pipe[o] /\ exit'[o] = exit[o] /\ reader'[o] = reader[o]
                /\ SameFor(events, events', o)
      PROVE  (\A o \in Prompts : Kept(o))'
  <2>1. ASSUME NEW o \in Prompts, o # p PROVE Kept(o)'
    <3>1. PICK n \in 0..Len(sent[o]) :
             Keeps(o, n, events, session[o], phase[o], sent[o], pipe[o], exit[o], reader[o])
      BY DEF IInv, Kept
    <3>2. Keeps(o, n, events', session[o], phase[o], sent[o], pipe[o], exit[o], reader[o])
      BY <1>2, <2>1, <3>1, KeepsElsewhere
    <3> QED
      BY <1>2, <2>1, <3>2 DEF Kept
  <2> QED
    BY <1>2, <2>1
<1>3. \A o : SameFor(events, events, o)
  BY DEF SameFor
<1>4. ASSUME NEW p \in Prompts, Launch(p) PROVE IInv'
  <2>1. /\ phase[p] = "idle" /\ phase' = [phase EXCEPT ![p] = "running"]
        /\ UNCHANGED <<session, sent, pipe, exit, reader, events, output>>
    BY <1>4 DEF Launch
  <2>2. TypeOK'
    BY <1>1, <2>1 DEF TypeOK, Phases
  <2>3. phase'[p] = "running" /\ \A o \in Prompts : o # p => phase'[o] = phase[o]
    BY <1>1, <2>1 DEF TypeOK
  <2>4. PICK n \in 0..Len(sent[p]) :
           Keeps(p, n, events, session[p], "idle", sent[p], pipe[p], exit[p], reader[p])
    BY <2>1 DEF IInv, Kept
  <2>5. Keeps(p, n, events, session[p], "running", sent[p], pipe[p], exit[p], reader[p])
    <3>1. /\ "idle" \notin Done /\ "running" \notin Done /\ "running" # "idle"
          /\ "idle" # "exited" /\ "running" # "exited" /\ "running" # "closed"
          /\ "running" \notin {"ok", "failed"}
      BY DEF Done
    <3>2. Lined(n, "running", sent[p], reader[p].buffer, pipe[p])
      BY <2>4, <3>1 DEF Keeps, Lined
    <3>3. Begun(p, events, "running", sent[p])
      BY <2>4, <3>1 DEF Keeps, Begun
    <3>4. Ended(p, events, session[p], "running", sent[p], exit[p])
      BY <2>4, <3>1 DEF Keeps, Ended
    <3> QED
      BY <2>4, <3>2, <3>3, <3>4 DEF Keeps
  <2>6. Kept(p)'
    BY <2>1, <2>3, <2>5 DEF Kept
  <2> QED
    BY <1>2, <1>3, <2>1, <2>2, <2>3, <2>6 DEF IInv
<1>5. ASSUME NEW p \in Prompts, CliNotFound(p) PROVE IInv'
  <2> DEFINE e == Event("error", session[p], p, 0, <<>>)
  <2>1. /\ phase[p] = "idle" /\ phase' = [phase EXCEPT ![p] = "exited"]
        /\ exit' = [exit EXCEPT ![p] = "error"] /\ events' = Append(events, e)
        /\ UNCHANGED <<session, sent, pipe, reader, output>>
    BY <1>5 DEF CliNotFound
  <2>2. e \in Events /\ e.from = p /\ e.line = 0 /\ e.name = "error"
    <3>1. session[p] \in Ids
      BY <1>1
    <3> QED
      BY <3>1, OwnError
  <2> HIDE DEF e
  <2>3. events' = events \o <<e>> /\ <<e>> \in Seq(Events)
        /\ \A k \in DOMAIN <<e>> : <<e>>[k].from = p
    BY <1>1, <2>1, <2>2
  <2>4. events' \in Seq(Events) /\ \A o : o # p => SameFor(events, events', o)
    BY <1>1, <2>3, NotOthers
  <2>5. TypeOK'
    BY <1>1, <2>1, <2>4 DEF TypeOK, Phases, Exits
  <2>6. /\ phase'[p] = "exited" /\ exit'[p] = "error"
        /\ \A o \in Prompts : o # p => phase'[o] = phase[o] /\ exit'[o] = exit[o]
    BY <1>1, <2>1 DEF TypeOK
  <2>7. PICK n \in 0..Len(sent[p]) :
           Keeps(p, n, events, session[p], "idle", sent[p], pipe[p], exit[p], reader[p])
    BY <2>1 DEF IInv, Kept
  <2>8. Keeps(p, n, events', session[p], "exited", sent[p], pipe[p], "error", reader[p])
    BY <1>1, <2>2, <2>3, <2>7, KeepsNotFound
  <2>9. Kept(p)'
    BY <2>1, <2>6, <2>8 DEF Kept
  <2> QED
    BY <1>2, <2>1, <2>4, <2>5, <2>6, <2>9 DEF IInv
<1>6. ASSUME NEW p \in Prompts, AgentExits(p) PROVE IInv'
  <2>1. PICK how \in Exits, cut \in 0..2 :
           /\ phase[p] = "running" /\ phase' = [phase EXCEPT ![p] = "exited"]
           /\ exit' = [exit EXCEPT ![p] = how] /\ cut <= Len(pipe[p])
           /\ pipe' = [pipe EXCEPT ![p] = SubSeq(pipe[p], 1, Len(pipe[p]) - cut)]
           /\ sent' = IF cut = 2 THEN [sent EXCEPT ![p] = Front(sent[p])] ELSE sent
           /\ UNCHANGED <<session, reader, events, output>>
    BY <1>6 DEF AgentExits
  <2>2. PICK n \in 0..Len(sent[p]) :
           Keeps(p, n, events, session[p], "running", sent[p], pipe[p], exit[p], reader[p])
    BY <2>1 DEF IInv, Kept
  <2> DEFINE msgs2 == IF cut = 2 THEN Front(sent[p]) ELSE sent[p]
             q2 == SubSeq(pipe[p], 1, Len(pipe[p]) - cut)
  <2>3. /\ q2 \in Seq(Symbols) /\ msgs2 \in Seq(Messages) /\ n \in 0..Len(msgs2)
        /\ Keeps(p, n, events, session[p], "exited", msgs2, q2, how, reader[p])
    BY <1>1, <2>1, <2>2, KeepsExited
  <2> HIDE DEF msgs2, q2
  <2>4. /\ sent \in [Prompts -> Seq(Messages)] /\ pipe \in [Prompts -> Seq(Symbols)]
        /\ phase \in [Prompts -> Phases] /\ exit \in [Prompts -> Exits]
    BY <1>1 DEF TypeOK
  <2>5. pipe' = [pipe EXCEPT ![p] = q2]
    BY <2>1 DEF q2
  <2>6. /\ sent' \in [Prompts -> Seq(Messages)] /\ sent'[p] = msgs2
        /\ \A o \in Prompts : o # p => sent'[o] = sent[o]
    <3>1. CASE cut = 2
      <4>1. sent' = [sent EXCEPT ![p] = msgs2]
        BY <2>1, <3>1 DEF msgs2
      <4> QED
        BY <2>3, <2>4, <4>1
    <3>2. CASE cut # 2
      <4>1. sent' = sent /\ msgs2 = sent[p]
        BY <2>1, <3>2 DEF msgs2
      <4> QED
        BY <2>4, <4>1
    <3> QED
      BY <3>1, <3>2
  <2>7. /\ phase'[p] = "exited" /\ exit'[p] = how /\ pipe'[p] = q2
        /\ \A o \in Prompts : o # p => /\ phase'[o] = phase[o] /\ exit'[o] = exit[o]
                                       /\ pipe'[o] = pipe[o]
    BY <2>1, <2>4, <2>5
  <2>8. TypeOK'
    <3>1. /\ phase' \in [Prompts -> Phases] /\ exit' \in [Prompts -> Exits]
          /\ pipe' \in [Prompts -> Seq(Symbols)]
      BY <2>1, <2>3, <2>4, <2>5 DEF Phases
    <3> QED
      BY <1>1, <2>1, <2>6, <3>1 DEF TypeOK
  <2>9. Kept(p)'
    BY <2>1, <2>3, <2>6, <2>7 DEF Kept
  <2> QED
    BY <1>2, <1>3, <2>1, <2>6, <2>7, <2>8, <2>9 DEF IInv
<1>7. ASSUME NEW p \in Prompts, NEW m \in Messages, AgentWrites(p, m) PROVE IInv'
  <2> DEFINE new == [part \in 1..NewLine |-> Symbol(Len(sent[p]) + 1, part)]
             msgs2 == Append(sent[p], m)
             q2 == pipe[p] \o new
  <2>1. /\ phase[p] = "running" /\ sent' = [sent EXCEPT ![p] = msgs2]
        /\ pipe' = [pipe EXCEPT ![p] = q2]
        /\ UNCHANGED <<session, phase, exit, reader, events, output>>
    BY <1>7 DEF AgentWrites
  <2>2. PICK n \in 0..Len(sent[p]) :
           Keeps(p, n, events, session[p], "running", sent[p], pipe[p], exit[p], reader[p])
    BY <2>1 DEF IInv, Kept
  <2>3. /\ q2 \in Seq(Symbols) /\ msgs2 \in Seq(Messages) /\ n \in 0..Len(msgs2)
        /\ Keeps(p, n, events, session[p], "running", msgs2, q2, exit[p], reader[p])
    BY <1>1, <2>2, KeepsWritten
  <2> HIDE DEF msgs2, q2
  <2>4. /\ sent \in [Prompts -> Seq(Messages)] /\ pipe \in [Prompts -> Seq(Symbols)]
    BY <1>1 DEF TypeOK
  <2>5. /\ sent'[p] = msgs2 /\ pipe'[p] = q2 /\ sent' \in [Prompts -> Seq(Messages)]
        /\ pipe' \in [Prompts -> Seq(Symbols)]
        /\ \A o \in Prompts : o # p => sent'[o] = sent[o] /\ pipe'[o] = pipe[o]
    BY <2>1, <2>3, <2>4
  <2>6. TypeOK'
    BY <1>1, <2>1, <2>5 DEF TypeOK
  <2>7. Kept(p)'
    BY <2>1, <2>3, <2>5 DEF Kept
  <2> QED
    BY <1>2, <1>3, <2>1, <2>5, <2>6, <2>7 DEF IInv
<1>8. ASSUME NEW p \in Prompts, Data(p) PROVE IInv'
  <2>1. PICK k \in 1..Len(pipe[p]) :
           /\ reader' = [reader EXCEPT ![p].buffer =
                            @ \o Decoded(SubSeq(pipe[p], 1, k))]
           /\ pipe' = [pipe EXCEPT ![p] = SubSeq(pipe[p], k + 1, Len(pipe[p]))]
           /\ UNCHANGED <<session, phase, sent, exit, events, output>>
    BY <1>8 DEF Data
  <2>2. PICK n \in 0..Len(sent[p]) :
           Keeps(p, n, events, session[p], phase[p], sent[p], pipe[p], exit[p], reader[p])
    BY DEF IInv, Kept
  <2> DEFINE rd2 == [reader[p] EXCEPT !.buffer = @ \o Decoded(SubSeq(pipe[p], 1, k))]
             q2 == SubSeq(pipe[p], k + 1, Len(pipe[p]))
  <2>3. /\ q2 \in Seq(Symbols) /\ rd2 \in Readers
        /\ Keeps(p, n, events, session[p], phase[p], sent[p], q2, exit[p], rd2)
    BY <1>1, <2>2, KeepsRead
  <2>4. /\ reader \in [Prompts -> Readers] /\ pipe \in [Prompts -> Seq(Symbols)]
    BY <1>1 DEF TypeOK
  <2>5. reader' = [reader EXCEPT ![p] = rd2]
    BY <2>1, <2>4
  <2> HIDE DEF rd2
  <2>6. pipe' = [pipe EXCEPT ![p] = q2]
    BY <2>1
  <2> HIDE DEF q2
  <2>7. /\ reader'[p] = rd2 /\ pipe'[p] = q2 /\ reader' \in [Prompts -> Readers]
        /\ pipe' \in [Prompts -> Seq(Symbols)]
        /\ \A o \in Prompts : o # p => reader'[o] = reader[o] /\ pipe'[o] = pipe[o]
    BY <2>3, <2>4, <2>5, <2>6
  <2>8. TypeOK'
    BY <1>1, <2>1, <2>7 DEF TypeOK
  <2>9. Kept(p)'
    BY <2>1, <2>2, <2>3, <2>7 DEF Kept
  <2> QED
    BY <1>2, <1>3, <2>1, <2>7, <2>8, <2>9 DEF IInv
<1>9. ASSUME NEW p \in Prompts, HandleLine(p) PROVE IInv'
  <2> DEFINE b == reader[p].buffer
  <2>1. PICK pos \in DOMAIN b :
           /\ b[pos].part = NewLine
           /\ \A i \in 1..pos - 1 : b[i].part # NewLine
           /\ reader' = [reader EXCEPT ![p] =
                 [buffer |-> SubSeq(b, pos + 1, Len(b)),
                  finalText |-> FinalText(p, SubSeq(b, 1, pos - 1)),
                  stopReason |-> StopReason(p, SubSeq(b, 1, pos - 1))]]
           /\ events' = events \o Emitted(p, SubSeq(b, 1, pos - 1))
           /\ output' = Output(p, SubSeq(b, 1, pos - 1))
    BY <1>9 DEF HandleLine
  <2>2. UNCHANGED <<session, phase, sent, pipe, exit>>
    BY <1>9 DEF HandleLine
  <2>3. PICK n \in 0..Len(sent[p]) :
           Keeps(p, n, events, session[p], phase[p], sent[p], pipe[p], exit[p], reader[p])
    BY DEF IInv, Kept
  <2> DEFINE line == SubSeq(b, 1, pos - 1)
             rest == SubSeq(b, pos + 1, Len(b))
             m == n + 1
             es == Emitted(p, line)
             texts == FinalText(p, line)
             reason == StopReason(p, line)
             rd2 == [buffer |-> rest, finalText |-> texts, stopReason |-> reason]
  <2>4. /\ phase[p] \notin Done /\ m \in 1..Len(sent[p]) /\ WholeLine(line, m)
        /\ rest \in Seq(Symbols) /\ Lined(m, phase[p], sent[p], rest, pipe[p])
        /\ NoneOwn(events, p)
    <3>1. /\ sent[p] \in Seq(Messages) /\ pipe[p] \in Seq(Symbols)
          /\ reader[p] \in Readers
      BY <1>1
    <3> QED
      BY <2>1, <2>3, <3>1, FirstLine
  <2>5. TextsAre(reader[p].finalText, sent[p], p, n)
    BY <2>3 DEF Keeps, Reported
  <2> HIDE DEF line, rest
  <2>6. m = n + 1 /\ n \in Nat
    BY <1>1
  <2> HIDE DEF m
  <2>7. /\ texts \in Seq(Texts) /\ TextsAre(texts, sent[p], p, m)
        /\ reason = ReasonAfter(sent[p][m].kind, reader[p].stopReason)
        /\ EventsOf(es, sent[p], session[p], p, m)
        /\ Output(p, line) \in [Ids -> Seq(Texts)]
    BY <1>1, <2>4, <2>5, <2>6, LineHandled
  <2>8. events' = events \o es /\ output' = Output(p, line)
        /\ reader' = [reader EXCEPT ![p] = rd2]
    BY <2>1 DEF line, rest
  <2> HIDE DEF es, texts, reason
  <2>9. rd2 \in Readers /\ rd2.buffer = rest /\ rd2.finalText = texts
        /\ rd2.stopReason = reason
    <3>1. reason \in StopReasons \cup {"none"}
      BY <1>1, <2>7, ReaderTyped DEF ReasonAfter
    <3> QED
      BY <2>4, <2>7, <3>1 DEF Readers
  <2> HIDE DEF rd2
  <2>10. /\ events' \in Seq(Events)
         /\ \A o : o # p => SameFor(events, events', o)
    BY <1>1, <2>7, <2>8, NotOthers DEF EventsOf
  <2>11. /\ Reported(events', texts, sent[p], session[p], p, m)
         /\ StopsIn(events', p) = {} /\ NoneOwn(events', p)
         /\ reason = "stop_error" <=> Failed(sent[p], m)
    <3>1. sent[p] \in Seq(Messages)
      BY <1>1
    <3>2. Told(events \o es, texts, ReasonAfter(sent[p][m].kind, reader[p].stopReason),
               sent[p], session[p], p, m)
      <4>1. /\ n \in Nat /\ m \in 1..Len(sent[p]) /\ m = n + 1 /\ events \in Seq(Events)
            /\ phase[p] \notin Done /\ NoneOwn(events, p)
            /\ EventsOf(es, sent[p], session[p], p, m) /\ TextsAre(texts, sent[p], p, m)
        BY <1>1, <2>4, <2>6, <2>7
      <4> QED
        BY <2>3, <3>1, <4>1, ReportsMore
    <3> QED
      BY <2>7, <2>8, <3>2 DEF Told
  <2>12. Keeps(p, m, events', session[p], phase[p], sent[p], pipe[p], exit[p], rd2)
    <3>1. Begun(p, events', phase[p], sent[p])
      BY <2>3, <2>11 DEF Keeps, Begun, NoneOwn
    <3>2. Ended(p, events', session[p], phase[p], sent[p], exit[p])
      BY <2>4, <2>11 DEF Ended, Done
    <3> QED
      BY <2>4, <2>9, <2>11, <3>1, <3>2 DEF Keeps
  <2>13. /\ reader'[p] = rd2 /\ reader' \in [Prompts -> Readers]
         /\ \A o \in Prompts : o # p => reader'[o] = reader[o]
    BY <1>1, <2>8, <2>9 DEF TypeOK
  <2>14. TypeOK'
    BY <1>1, <2>2, <2>7, <2>8, <2>10, <2>13 DEF TypeOK
  <2>15. Kept(p)'
    <3>1. m \in 0..Len(sent[p])
      BY <1>1, <2>4
    <3> QED
      BY <2>2, <2>12, <2>13, <3>1 DEF Kept
  <2> QED
    BY <1>2, <2>2, <2>10, <2>13, <2>14, <2>15 DEF IInv
<1>10. ASSUME NEW p \in Prompts, Close(p) PROVE IInv'
  <2> DEFINE b == reader[p].buffer
             msgs == sent[p]
             len == Len(sent[p])
             es == Emitted(p, b)
             texts == FinalText(p, b)
             reason == StopReason(p, b)
             rd2 == [reader[p] EXCEPT !.finalText = texts, !.stopReason = reason]
             error == Event("error", session[p], p, 0, <<>>)
             login == IF exit[p] # "login" THEN <<>> ELSE <<error>>
             stop == Event("stopped", session[p], p, 0, texts)
  <2>1. /\ Idle /\ phase[p] = "exited" /\ pipe[p] = <<>>
        /\ phase' = [phase EXCEPT ![p] = "closed"]
        /\ events' = ((events \o es) \o login) \o <<stop>>
        /\ output' = Output(p, b)
        /\ UNCHANGED <<session, sent, pipe, exit>>
    BY <1>10 DEF Close, LastLine, Answer
  <2>2. reader' = [reader EXCEPT ![p] = rd2]
    <3>1. reader' = [reader EXCEPT ![p].finalText = texts, ![p].stopReason = reason]
      BY <1>10 DEF Close, LastLine
    <3> QED
      BY <1>1, <3>1 DEF TypeOK
  <2>3. PICK n \in 0..Len(sent[p]) :
           Keeps(p, n, events, session[p], "exited", msgs, <<>>, exit[p], reader[p])
    BY <2>1 DEF IInv, Kept
  <2>4. \A i \in DOMAIN b : b[i].part # NewLine
    BY <2>1 DEF Idle, ToSet
  <2>5. b \in Seq(Symbols)
    BY <1>1, ReaderTyped
  <2>6. /\ texts \in Seq(Texts) /\ reason \in StopReasons \cup {"none"}
        /\ es \in Seq(Events) /\ \A i \in DOMAIN es : es[i].from = p
        /\ Output(p, b) \in [Ids -> Seq(Texts)]
        /\ Reported(events \o es, texts, msgs, session[p], p, len)
        /\ TextsAre(texts, msgs, p, len)
        /\ StopsIn(events \o es, p) = {}
        /\ reason = "stop_error" <=> Failed(msgs, len)
    <3>1. TextsAre(reader[p].finalText, msgs, p, n) /\ n \in Nat
      BY <1>1, <2>3 DEF Keeps, Reported
    <3>2. CASE /\ len \in 1..len /\ len = n + 1 /\ WholeLine(b, len)
               /\ NoneOwn(events, p)
      <4>1. /\ texts \in Seq(Texts) /\ TextsAre(texts, sent[p], p, len)
            /\ reason = ReasonAfter(sent[p][len].kind, reader[p].stopReason)
            /\ EventsOf(es, sent[p], session[p], p, len)
            /\ Output(p, b) \in [Ids -> Seq(Texts)]
        BY <1>1, <3>1, <3>2, LineHandled
      <4> HIDE DEF es, texts, reason, b, len
      <4>2. reason \in StopReasons \cup {"none"}
        BY <1>1, <4>1, ReaderTyped DEF ReasonAfter
      <4>3. "exited" \notin Done /\ sent[p] \in Seq(Messages) /\ len \in 1..Len(sent[p])
        BY <1>1, <3>2 DEF Done, len
      <4>4. Told(events \o es, texts, ReasonAfter(sent[p][len].kind, reader[p].stopReason),
                 sent[p], session[p], p, len)
        <5>1. /\ n \in Nat /\ len = n + 1 /\ events \in Seq(Events) /\ NoneOwn(events, p)
              /\ EventsOf(es, sent[p], session[p], p, len)
              /\ TextsAre(texts, sent[p], p, len)
          BY <1>1, <3>1, <3>2, <4>1
        <5> QED
          BY <2>3, <4>3, <5>1, ReportsMore
      <4> QED
        BY <4>1, <4>2, <4>4 DEF EventsOf, Told
    <3>3. CASE Len(b) # 2 /\ n = len
      <4>1. /\ texts = reader[p].finalText /\ reason = reader[p].stopReason
            /\ es = <<>> /\ Output(p, b) = output
        BY <1>1, <3>3, LineIgnored
      <4>2. events \o <<>> = events
        BY <1>1
      <4> HIDE DEF es, texts, reason, b, len
      <4>3. "exited" \notin Done
        BY DEF Done
      <4>4. /\ Reported(events, texts, msgs, session[p], p, len)
            /\ StopsIn(events, p) = {} /\ (reason = "stop_error" <=> Failed(msgs, len))
        BY <2>3, <3>3, <4>1, <4>3 DEF Keeps, Ended
      <4>5. /\ texts \in Seq(Texts) /\ reason \in StopReasons \cup {"none"}
            /\ output \in [Ids -> Seq(Texts)] /\ <<>> \in Seq(Events)
        BY <1>1, <4>1, ReaderTyped DEF TypeOK
      <4>6. TextsAre(texts, msgs, p, len)
        BY <4>4 DEF Reported
      <4> QED
        BY <4>1, <4>2, <4>4, <4>5, <4>6
    <3> QED
      <4>1. \/ /\ len \in 1..len /\ len = n + 1 /\ WholeLine(b, len)
               /\ NoneOwn(events, p)
            \/ Len(b) # 2 /\ n = len
        BY <1>1, <2>3, <2>4, LineLeft
      <4> QED
        BY <3>2, <3>3, <4>1
  <2>7. error \in Events /\ error.from = p /\ error.line = 0 /\ error.name = "error"
    <3>1. session[p] \in Ids
      BY <1>1
    <3> QED
      BY <3>1, OwnError
  <2> HIDE DEF es, texts, reason
  <2>8. /\ stop \in Events /\ stop.from = p /\ stop.line = 0 /\ stop.name = "stopped"
        /\ stop.session = session[p] /\ stop.response = texts
    <3>1. session[p] \in Ids /\ texts \in Seq(Texts)
      BY <1>1, <2>6
    <3> QED
      BY <3>1, OwnStopped
  <2> HIDE DEF error, stop
  <2>9. login \in Seq(Events) /\ \A k \in DOMAIN login : login[k] = error
    BY <2>7
  <2> HIDE DEF login
  <2>10. rd2 \in Readers /\ rd2.buffer = b /\ rd2.finalText = texts
         /\ rd2.stopReason = reason
    BY <1>1, <2>6 DEF Readers
  <2> HIDE DEF rd2, b
  <2>11. /\ events' \in Seq(Events) /\ events \o es \in Seq(Events)
         /\ \A o : o # p => SameFor(events, events', o)
    <3>1. /\ events \o es \in Seq(Events)
          /\ \A o : o # p => SameFor(events, events \o es, o)
      BY <1>1, <2>6, NotOthers
    <3>2. /\ (events \o es) \o login \in Seq(Events)
          /\ \A o : o # p => SameFor(events \o es, (events \o es) \o login, o)
      BY <2>7, <2>9, <3>1, NotOthers
    <3>3. /\ <<stop>> \in Seq(Events) /\ \A k \in DOMAIN <<stop>> : <<stop>>[k].from = p
      BY <2>8
    <3>4. /\ events' \in Seq(Events)
          /\ \A o : o # p => SameFor((events \o es) \o login, events', o)
      BY <2>1, <3>2, <3>3, NotOthers
    <3> QED
      BY <3>1, <3>2, <3>4 DEF SameFor
  <2>12. Keeps(p, len, events', session[p], "closed", msgs, <<>>, exit[p], rd2)
    <3>1. \A k \in From(login, p) : login[k].line = 0 /\ login[k].name = "error"
      BY <2>7, <2>9 DEF From
    <3>2. /\ \A i \in DOMAIN rd2.buffer : rd2.buffer[i].part # NewLine
          /\ Reported(events \o es, rd2.finalText, msgs, session[p], p, Len(msgs))
          /\ rd2.stopReason = "stop_error" <=> Failed(msgs, Len(msgs))
          /\ TextsAre(stop.response, msgs, p, Len(msgs))
      BY <2>4, <2>6, <2>8, <2>10
    <3> QED
      BY <1>1, <2>1, <2>6, <2>8, <2>9, <2>11, <3>1, <3>2, KeepsClosed
  <2>13. /\ reader'[p] = rd2 /\ reader' \in [Prompts -> Readers]
         /\ phase'[p] = "closed" /\ phase' \in [Prompts -> Phases]
         /\ \A o \in Prompts : o # p => reader'[o] = reader[o] /\ phase'[o] = phase[o]
    BY <1>1, <2>1, <2>2, <2>10 DEF TypeOK, Phases
  <2>14. TypeOK'
    BY <1>1, <2>1, <2>6, <2>11, <2>13 DEF TypeOK
  <2>15. Kept(p)'
    <3>1. len \in 0..Len(sent[p])
      BY <1>1
    <3> QED
      BY <2>1, <2>12, <2>13, <3>1 DEF Kept
  <2> QED
    BY <1>2, <2>1, <2>11, <2>13, <2>14, <2>15 DEF IInv
<1>11. ASSUME NEW p \in Prompts, Settle(p) PROVE IInv'
  <2> DEFINE e == Event("error", session[p], p, 0, <<>>)
  <2>1. /\ phase[p] = "closed" /\ UNCHANGED <<session, sent, pipe, exit, reader, output>>
        /\ \/ /\ exit[p] = "ok" /\ reader[p].stopReason # "stop_error"
              /\ phase' = [phase EXCEPT ![p] = "ok"] /\ events' = events
           \/ /\ ~(exit[p] = "ok" /\ reader[p].stopReason # "stop_error")
              /\ phase' = [phase EXCEPT ![p] = "failed"] /\ events' = Append(events, e)
    BY <1>11 DEF Settle, Succeeded
  <2>2. /\ e \in Events /\ e.from = p /\ e.line = 0 /\ e.name = "error"
        /\ e.session = session[p]
    <3>1. session[p] \in Ids
      BY <1>1
    <3> QED
      BY <3>1, OwnError
  <2> HIDE DEF e
  <2>3. Append(events, e) = events \o <<e>> /\ <<e>> \in Seq(Events)
        /\ \A k \in DOMAIN <<e>> : <<e>>[k].from = p
    <3>1. Append(events, e) = events \o <<e>>
      BY <1>1, <2>2
    <3>2. <<e>> \in Seq(Events) /\ \A k \in DOMAIN <<e>> : <<e>>[k].from = p
      BY <2>2
    <3> QED
      BY <3>1, <3>2
  <2>4. /\ events \o <<e>> \in Seq(Events)
        /\ \A o : o # p => SameFor(events, events \o <<e>>, o)
    BY <1>1, <2>3, NotOthers
  <2>5. PICK n \in 0..Len(sent[p]) :
           Keeps(p, n, events, session[p], "closed", sent[p], pipe[p], exit[p], reader[p])
    BY <2>1 DEF IInv, Kept
  <2>6. n \in Nat
    BY <1>1
  <2>7. CASE /\ exit[p] = "ok" /\ reader[p].stopReason # "stop_error"
             /\ phase' = [phase EXCEPT ![p] = "ok"] /\ events' = events
    <3>1. Keeps(p, n, events, session[p], "ok", sent[p], pipe[p], exit[p], reader[p])
      BY <1>1, <2>5, <2>6, <2>7, KeepsSettled
    <3>2. /\ phase'[p] = "ok" /\ phase' \in [Prompts -> Phases]
          /\ \A o \in Prompts : o # p => phase'[o] = phase[o]
      BY <1>1, <2>7 DEF TypeOK, Phases
    <3>3. TypeOK'
      BY <1>1, <2>1, <2>7, <3>2 DEF TypeOK
    <3>4. Kept(p)'
      BY <2>1, <2>7, <3>1, <3>2 DEF Kept
    <3> QED
      BY <1>2, <1>3, <2>1, <2>7, <3>2, <3>3, <3>4 DEF IInv
  <2>8. CASE /\ ~(exit[p] = "ok" /\ reader[p].stopReason # "stop_error")
             /\ phase' = [phase EXCEPT ![p] = "failed"] /\ events' = Append(events, e)
    <3>1. Keeps(p, n, events \o <<e>>, session[p], "failed", sent[p], pipe[p], exit[p],
                reader[p])
      BY <1>1, <2>2, <2>5, <2>6, <2>8, KeepsSettled
    <3>2. /\ phase'[p] = "failed" /\ phase' \in [Prompts -> Phases]
          /\ \A o \in Prompts : o # p => phase'[o] = phase[o]
      BY <1>1, <2>8 DEF TypeOK, Phases
    <3>3. events' = events \o <<e>>
      BY <2>3, <2>8
    <3>4. TypeOK'
      BY <1>1, <2>1, <2>4, <3>2, <3>3 DEF TypeOK
    <3>5. Kept(p)'
      BY <2>1, <3>1, <3>2, <3>3 DEF Kept
    <3> QED
      BY <1>2, <2>1, <2>4, <3>2, <3>3, <3>4, <3>5 DEF IInv
  <2> QED
    BY <2>1, <2>7, <2>8
<1>12. ASSUME NEW s \in Sessions, DeleteSession(s) PROVE IInv'
  <2>1. /\ output' = [output EXCEPT ![s] = <<>>]
        /\ UNCHANGED <<session, phase, sent, pipe, exit, reader, events>>
    BY <1>12 DEF DeleteSession
  <2>2. <<>> \in Seq(Texts)
    OBVIOUS
  <2>3. TypeOK'
    BY <1>1, <2>1, <2>2 DEF TypeOK
  <2> QED
    BY <2>1, <2>3 DEF IInv, Kept
<1>13. CASE UNCHANGED vars
  BY <1>13 DEF vars, IInv, TypeOK, Kept
<1> QED
  BY <1>4, <1>5, <1>6, <1>7, <1>8, <1>9, <1>10, <1>11, <1>12, <1>13 DEF Next

(* Nothing is sent, nothing is handled.                                    *)
LEMMA Start == Init => IInv
<1> SUFFICES ASSUME Init PROVE IInv
  OBVIOUS
<1>1. /\ <<>> \in Seq(Messages) /\ <<>> \in Seq(Symbols) /\ <<>> \in Seq(Events)
      /\ <<>> \in Seq(Texts)
  OBVIOUS
<1> DEFINE rd0 == [buffer |-> <<>>, finalText |-> <<>>, stopReason |-> "none"]
<1>2. rd0 \in Readers
  BY <1>1 DEF Readers
<1>3. TypeOK
  BY <1>1, <1>2 DEF Init, TypeOK, Phases, Exits
<1>4. ASSUME NEW p \in Prompts PROVE Kept(p)
  <2>1. /\ phase[p] = "idle" /\ sent[p] = <<>> /\ pipe[p] = <<>> /\ events = <<>>
        /\ reader[p].buffer = <<>> /\ reader[p].finalText = <<>>
        /\ reader[p].stopReason = "none"
    BY DEF Init
  <2>2. "idle" \notin Done /\ "idle" # "exited" /\ "idle" # "closed"
        /\ "idle" \notin {"ok", "failed"}
    BY DEF Done
  <2>3. <<>> \o <<>> = <<>> /\ Len(<<>>) = 0 /\ DOMAIN <<>> = {} /\ 1..0 = {}
    OBVIOUS
  <2>4. From(<<>>, p) = {}
    BY <2>3 DEF From
  <2>5. Lined(0, "idle", <<>>, <<>>, <<>>)
    BY <2>2, <2>3 DEF Lined, Continues
  <2>6. Begun(p, <<>>, "idle", <<>>)
    BY <2>4 DEF Begun
  <2>7. Reported(<<>>, <<>>, <<>>, session[p], p, 0)
    <3>1. TextsAre(<<>>, <<>>, p, 0)
      BY <2>3 DEF TextsAre, ToSet
    <3> QED
      BY <2>3, <2>4, <3>1 DEF Reported
  <2>8. ~Failed(<<>>, 0)
    BY DEF Failed
  <2>9. Ended(p, <<>>, session[p], "idle", <<>>, exit[p])
    BY <2>2, <2>4 DEF Ended, StopsIn
  <2>10. Keeps(p, 0, events, session[p], phase[p], sent[p], pipe[p], exit[p], reader[p])
    BY <2>1, <2>5, <2>6, <2>7, <2>8, <2>9 DEF Keeps
  <2> QED
    BY <2>1, <2>3, <2>10 DEF Kept
<1> QED
  BY <1>3, <1>4 DEF IInv

(* The invariant that the properties rest on.                              *)
THEOREM StreamInvariant == Spec => []IInv
<1> QED
  BY Start, Inductive, PTL DEF Spec

(* However the output of the children is cut into chunks, whatever others  *)
(* write meanwhile and wherever a child stopped: each message is reported  *)
(* once, whole and in order, and nothing else is.                          *)
THEOREM EachMessageOnce == Spec => []ChunkingInvisible
<1>1. IInv => ChunkingInvisible
  BY Implied
<1> QED
  BY <1>1, StreamInvariant, PTL

(* "stopped" comes once, after all the child reported and with the whole   *)
(* answer.                                                                 *)
THEOREM AnswerWithStopped == Spec => []StoppedCarriesAnswer
<1>1. IInv => StoppedCarriesAnswer
  BY Implied
<1> QED
  BY <1>1, StreamInvariant, PTL

(* A prompt that failed is told to have failed, after it stopped, and one  *)
(* that succeeded is not.                                                  *)
THEOREM FailureTold == Spec => []FailureReported
<1>1. IInv => FailureReported
  BY Implied
<1> QED
  BY <1>1, StreamInvariant, PTL
=============================================================================
