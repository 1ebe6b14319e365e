------------------------- MODULE ConversationProofs -------------------------
(***************************************************************************)
(* For any numbers of sessions, streams and clicks: as long as nothing     *)
(* disturbs the chat, each answer is shown in the message and the session  *)
(* it belongs to, and no second stream is begun beside one that is on.     *)
(***************************************************************************)
EXTENDS MCConversation, SequenceTheorems, FiniteSetTheorems, TLAPS

USE NoneOfThem, NoCallIsNone

Stream == [stage : {"unused", "fetching", "reading", "ended"},
           aborted : BOOLEAN, told : BOOLEAN]

\* What is said of a chat that nothing has disturbed.
Orderly ==
    /\ \A i \in DOMAIN shown :
         shown[i].words \subseteq {shown[i].for} /\ shown[i].of = current
    /\ Coming # {} => streaming /\ Coming = {abortRef}
    /\ ClicksInTurn /\ WritesToItsOwn

LEMMA OrderlyIsHInv == HInv <=> HTypeOK /\ (~disturbed => Orderly)
BY DEF HInv, Orderly, ShownIsOwn, StreamingIsKnown

-----------------------------------------------------------------------------
\* Streams and calls keep their types.
LEMMA AbortedType ==
    ASSUME HTypeOK
    PROVE  /\ Aborted \in [Streams -> Stream]
           /\ \A x \in Streams : /\ Aborted[x].stage = streams[x].stage
                                 /\ Aborted[x].told = streams[x].told
BY DEF HTypeOK, Aborted, Stream

LEMMA MovesType ==
    ASSUME HTypeOK, NEW x \in Streams, NEW told \in BOOLEAN,
           NEW stage \in {"reading", "ended"}, Moves(x, stage, told)
    PROVE  /\ streams' \in [Streams -> Stream]
           /\ \A y \in Streams \ {x} : streams'[y] = streams[y]
           /\ streams'[x].stage = stage
           /\ streams'[x].told = (streams[x].told \/ told)
<1>1. streams \in [Streams -> Stream] /\ streams[x] \in Stream
  BY DEF HTypeOK, Stream
<1>2. PICK t \in BOOLEAN : t = (streams[x].told \/ told)
  OBVIOUS
<1>3. streams' = [streams EXCEPT ![x].stage = stage, ![x].told = t]
  BY <1>2, Zenon DEF Moves
<1>4. QED BY <1>1, <1>2, <1>3 DEF Stream

\* A click that begins to wait is one of those waiting, the others are as they
\* were.
LEMMA AwaitsType ==
    ASSUME HTypeOK, NEW call \in Call, Awaits(call)
    PROVE  /\ calls' \in [Calls -> Call \cup {NoCall}]
           /\ \E c \in Calls \ Waiting : /\ Waiting' = Waiting \cup {c}
                                         /\ calls'[c] = call
<1>1. PICK c \in Calls \ Waiting : calls' = [calls EXCEPT ![c] = call]
  <2>1. \E c \in Calls : c \notin Waiting
    BY DEF Awaits, Waiting
  <2>2. QED BY <2>1 DEF Awaits
<1>2. QED BY <1>1 DEF HTypeOK, Waiting

LEMMA ReturnsType ==
    ASSUME HTypeOK, NEW c \in Calls, Returns(c)
    PROVE  calls' \in [Calls -> Call \cup {NoCall}] /\ Waiting' = Waiting \ {c}
BY DEF HTypeOK, Returns, Waiting

\* A message appended, and one written into.
LEMMA WrittenType ==
    ASSUME HTypeOK, NEW x \in Streams
    PROVE  /\ Written(x) \in Seq(Message) /\ Len(Written(x)) = Len(shown)
           /\ \A i \in 1..Len(shown) :
                /\ Written(x)[i].of = shown[i].of /\ Written(x)[i].for = shown[i].for
                /\ Written(x)[i].words \subseteq
                     shown[i].words \cup (IF i = Len(shown) THEN {x} ELSE {})
<1>1. shown \in Seq(Message) /\ \A i \in 1..Len(shown) : shown[i] \in Message
  BY DEF HTypeOK
<1>2. CASE Written(x) = shown
  BY <1>1, <1>2
<1>3. CASE /\ shown # <<>>
           /\ Written(x) = [shown EXCEPT ![Len(shown)].words = @ \cup {x}]
  <2> DEFINE n == Len(shown)
             m == [shown[n] EXCEPT !.words = @ \cup {x}]
  <2>1. n \in 1..Len(shown)
    BY <1>1, <1>3, EmptySeq
  <2>2. m \in Message /\ m.of = shown[n].of /\ m.for = shown[n].for
        /\ m.words = shown[n].words \cup {x}
    BY <1>1, <2>1 DEF Message
  <2>3. Written(x) = [shown EXCEPT ![n] = m]
    BY <1>3
  <2> HIDE DEF m
  <2>4. Written(x) \in Seq(Message) /\ Len(Written(x)) = Len(shown)
    BY <1>1, <2>1, <2>2, <2>3
  <2>5. ASSUME NEW i \in 1..Len(shown)
        PROVE  Written(x)[i] = IF i = n THEN m ELSE shown[i]
    BY <1>1, <2>3, <2>5
  <2>6. QED BY <2>2, <2>4, <2>5
<1>4. QED BY <1>2, <1>3 DEF Written

LEMMA StartsType ==
    ASSUME HTypeOK, NEW s \in ChatSessions, Starts(s)
    PROVE  /\ streams' \in [Streams -> Stream]
           /\ shown' \in Seq(Message) /\ shown' # <<>>
           /\ streaming' = TRUE /\ abortRef' \in Streams
           /\ Coming' \subseteq Coming \cup {abortRef'}
           /\ \A i \in DOMAIN shown' :
                \/ i \in DOMAIN shown /\ shown'[i] = shown[i]
                \/ shown'[i].words = {} /\ shown'[i].of = s
           /\ shown'[Len(shown')].for = abortRef'
<1> DEFINE x == CHOOSE y \in Unused : TRUE
           says(r) == [role |-> r, of |-> s, for |-> x, words |-> {}]
           two == <<says("user"), says("assistant")>>
<1>1. /\ x \in Streams /\ Unused # {}
      /\ streams' = [streams EXCEPT ![x].stage = "fetching"]
      /\ shown' = shown \o two /\ streaming' = TRUE /\ abortRef' = x
  BY DEF Starts, Unused
<1> HIDE DEF x
<1>2. streams' \in [Streams -> Stream] /\ Coming' \subseteq Coming \cup {x}
  BY <1>1 DEF HTypeOK, Stream, Coming
<1>3. says("user") \in Message /\ says("assistant") \in Message
  BY <1>1 DEF Message
<1>4. /\ two \in Seq(Message) /\ Len(two) = 2
      /\ two[1] = says("user") /\ two[2] = says("assistant")
  <2> HIDE DEF says
  <2>1. QED BY <1>3
<1>5. \A i \in 1..2 : two[i].words = {} /\ two[i].of = s /\ two[i].for = x
  BY <1>4
<1> HIDE DEF two
<1>6. /\ shown' \in Seq(Message) /\ Len(shown') = Len(shown) + 2 /\ Len(shown) \in Nat
      /\ \A i \in 1..(Len(shown) + 2) :
           shown'[i] = IF i <= Len(shown) THEN shown[i] ELSE two[i - Len(shown)]
  <2>1. shown \in Seq(Message) /\ Len(shown) \in Nat
    BY DEF HTypeOK
  <2>2. two \in Seq(Message) /\ Len(two) = 2 /\ shown' = shown \o two
    BY <1>1, <1>4
  <2>3. /\ shown \o two \in Seq(Message)
        /\ Len(shown \o two) = Len(shown) + Len(two)
        /\ \A i \in 1..(Len(shown) + Len(two)) :
             (shown \o two)[i] = IF i <= Len(shown) THEN shown[i] ELSE two[i - Len(shown)]
    BY <2>1, <2>2, ConcatProperties
  <2>4. QED BY <2>1, <2>2, <2>3
<1>7. shown' # <<>> /\ shown'[Len(shown')].for = x
  BY <1>5, <1>6
<1>8. ASSUME NEW i \in DOMAIN shown'
      PROVE  \/ i \in DOMAIN shown /\ shown'[i] = shown[i]
             \/ shown'[i].words = {} /\ shown'[i].of = s
  <2>1. i \in 1..Len(shown') /\ DOMAIN shown = 1..Len(shown)
    BY <1>6 DEF HTypeOK
  <2>2. CASE i <= Len(shown)
    BY <1>6, <2>1, <2>2
  <2>3. CASE ~(i <= Len(shown))
    <3>1. i - Len(shown) \in 1..2
      BY <1>6, <2>1, <2>3
    <3>2. QED BY <1>5, <1>6, <2>1, <2>3, <3>1
  <2>4. QED BY <2>2, <2>3
<1>9. QED BY <1>1, <1>2, <1>6, <1>7, <1>8

LEMMA CreatesType ==
    ASSUME HTypeOK, Creates
    PROVE  current' \in ChatSessions /\ made' \subseteq ChatSessions
<1>1. \E s \in ChatSessions : s \notin made
  BY DEF HTypeOK, Creates
<1>2. QED BY <1>1 DEF HTypeOK, Creates

\* What is shown of a history.
LEMMA HistoryType ==
    ASSUME NEW s \in ChatSessions
    PROVE  LET says(r) == [role |-> r, of |-> s, for |-> NoStream, words |-> {}]
               h == <<says("user"), says("assistant")>>
           IN  /\ h \in Seq(Message)
               /\ \A i \in DOMAIN h : h[i].of = s /\ h[i].words = {}
<1> DEFINE says(r) == [role |-> r, of |-> s, for |-> NoStream, words |-> {}]
<1>1. \A r \in {"user", "assistant"} :
        says(r) \in Message /\ says(r).of = s /\ says(r).words = {}
  BY DEF Message
<1> DEFINE u == says("user")
           a == says("assistant")
<1>2. /\ u \in Message /\ u.of = s /\ u.words = {}
      /\ a \in Message /\ a.of = s /\ a.words = {}
  BY <1>1
<1> SUFFICES <<u, a>> \in Seq(Message) /\ \A i \in DOMAIN <<u, a>> :
               <<u, a>>[i].of = s /\ <<u, a>>[i].words = {}
  OBVIOUS
<1> HIDE DEF u, a
<1>3. QED BY <1>2

\* Both messages are shown, in the session the customer is in, and theirs is
\* the only stream that is on.
LEMMA StartsOrderly ==
    ASSUME HTypeOK, HTypeOK', NEW s \in ChatSessions, Starts(s), current' = s,
           Coming = {}, Waiting' = {},
           \A i \in DOMAIN shown :
             shown[i].words \subseteq {shown[i].for} /\ shown[i].of = s
    PROVE  Orderly'
<1>1. /\ streaming' = TRUE /\ abortRef' \in Streams
      /\ Coming' \subseteq {abortRef'}
      /\ shown' # <<>> /\ shown'[Len(shown')].for = abortRef'
  BY StartsType
<1>2. \A i \in DOMAIN shown' :
        shown'[i].words \subseteq {shown'[i].for} /\ shown'[i].of = current'
  BY StartsType
<1>3. Coming' # {} => Coming' = {abortRef'}
  BY <1>1
<1>4. ClicksInTurn' /\ WritesToItsOwn'
  BY <1>1 DEF ClicksInTurn, WritesToItsOwn
<1>5. QED BY <1>1, <1>2, <1>3, <1>4 DEF Orderly

\* A click that begins to wait, the only one, with no stream on.
LEMMA AwaitsOrderly ==
    ASSUME HTypeOK, NEW call \in Call, Awaits(call), Waiting = {}, Coming' = {},
           \A i \in DOMAIN shown' :
             shown'[i].words \subseteq {shown'[i].for} /\ shown'[i].of = current',
           call.kind = "send" => current' = NoSession,
           call.kind = "load" => call.of = current'
    PROVE  Orderly'
<1>1. PICK c \in Calls : Waiting' = {c} /\ calls'[c] = call
  BY AwaitsType
<1>2. ClicksInTurn'
  BY <1>1 DEF ClicksInTurn
<1>3. QED BY <1>2 DEF Orderly, WritesToItsOwn

\* The only click that waited has been answered; no stream is on.
LEMMA ReturnsOrderly ==
    ASSUME HTypeOK, NEW c \in Calls, Returns(c), Waiting \subseteq {c}, Coming' = {},
           \A i \in DOMAIN shown' :
             shown'[i].words \subseteq {shown'[i].for} /\ shown'[i].of = current'
    PROVE  Orderly'
<1>1. Waiting' = {}
  BY ReturnsType
<1>2. QED BY <1>1 DEF Orderly, ClicksInTurn, WritesToItsOwn

-----------------------------------------------------------------------------
LEMMA SendStep ==
    ASSUME HInv, Send
    PROVE  HTypeOK' /\ (~disturbed' => Orderly')
<1>0. HTypeOK /\ (~disturbed => Orderly)
  BY OrderlyIsHInv
<1>1. /\ ~streaming /\ disturbed' \in BOOLEAN
      /\ ~disturbed' => ~disturbed /\ Waiting = {} /\ Coming = {} /\ Orderly
  BY <1>0 DEF Send, HTypeOK, Orderly
<1>2. CASE current # NoSession /\ Starts(current) /\ UNCHANGED <<made, current, calls>>
  <2>1. current \in ChatSessions
    BY <1>0, <1>2 DEF HTypeOK
  <2>2. HTypeOK'
    BY <1>0, <1>1, <1>2, <2>1, StartsType DEF HTypeOK, Stream
  <2>3. Waiting' = Waiting
    BY <1>2 DEF Waiting
  <2>4. ASSUME ~disturbed' PROVE Orderly'
    BY <1>0, <1>1, <1>2, <2>1, <2>2, <2>3, <2>4, StartsOrderly DEF Orderly
  <2>5. QED BY <2>2, <2>4
<1>3. CASE /\ current = NoSession /\ Awaits([kind |-> "send"])
           /\ UNCHANGED <<made, current, shown, streaming, abortRef, streams>>
  <2>1. [kind |-> "send"] \in Call
    BY DEF Call
  <2>2. HTypeOK'
    BY <1>0, <1>1, <1>3, <2>1, AwaitsType DEF HTypeOK
  <2>3. Coming' = Coming
    BY <1>3 DEF Coming
  <2>4. ASSUME ~disturbed' PROVE Orderly'
    <3>1. /\ Waiting = {} /\ Coming' = {}
          /\ \A i \in DOMAIN shown' :
               shown'[i].words \subseteq {shown'[i].for} /\ shown'[i].of = current'
      BY <1>1, <1>3, <2>3, <2>4 DEF Orderly
    <3>2. QED BY <1>0, <1>3, <2>1, <3>1, AwaitsOrderly
  <2>5. QED BY <2>2, <2>4
<1>4. QED BY <1>2, <1>3 DEF Send

\* The clicks by which the customer leaves: they are in order when no answer
\* is coming and no click is waiting.
LEMMA LeaveStep ==
    ASSUME HInv, NewSession \/ \E s \in ChatSessions : SwitchSession(s) \/ DeleteSession(s)
    PROVE  HTypeOK' /\ (~disturbed' => Orderly')
<1>0. HTypeOK /\ (~disturbed => Orderly) /\ Aborted \in [Streams -> Stream]
  BY OrderlyIsHInv, AbortedType
<1>1. ASSUME Disturbs
      PROVE  /\ disturbed' \in BOOLEAN
             /\ ~disturbed' => ~disturbed /\ Waiting = {} /\ Coming = {} /\ Orderly
  BY <1>0, <1>1 DEF Disturbs, HTypeOK
<1>2. streams' \in {streams, Aborted} => Coming' = Coming
  BY <1>0, AbortedType DEF Coming
<1>3. CASE NewSession
  <2>1. [kind |-> "new"] \in Call
    BY DEF Call
  <2>2. /\ Awaits([kind |-> "new"]) /\ streams' = Aborted /\ Disturbs
        /\ UNCHANGED <<made, current, shown, streaming, abortRef>>
    BY <1>3 DEF NewSession
  <2>3. HTypeOK'
    BY <1>0, <1>1, <2>1, <2>2, AwaitsType DEF HTypeOK, Stream
  <2>4. ASSUME ~disturbed' PROVE Orderly'
    BY <1>0, <1>1, <1>2, <2>1, <2>2, <2>4, AwaitsOrderly DEF Orderly
  <2>5. QED BY <2>3, <2>4
<1>4. ASSUME NEW s \in ChatSessions, SwitchSession(s)
      PROVE  HTypeOK' /\ (~disturbed' => Orderly')
  <2> DEFINE call == [kind |-> "load", of |-> s]
  <2>1. call \in Call /\ call.kind = "load" /\ call.of = s
    BY DEF Call
  <2>2. /\ Awaits(call) /\ streams' = Aborted /\ current' = s /\ shown' = <<>>
        /\ Disturbs /\ UNCHANGED <<made, streaming, abortRef>>
    BY <1>4 DEF SwitchSession
  <2> HIDE DEF call
  <2>3. HTypeOK'
    BY <1>0, <1>1, <2>1, <2>2, AwaitsType DEF HTypeOK, Stream
  <2>4. ASSUME ~disturbed' PROVE Orderly'
    BY <1>0, <1>1, <1>2, <2>1, <2>2, <2>4, AwaitsOrderly
  <2>5. QED BY <2>3, <2>4
<1>5. ASSUME NEW s \in ChatSessions, DeleteSession(s)
      PROVE  HTypeOK' /\ (~disturbed' => Orderly')
  <2>1. PICK here \in BOOLEAN : Awaits([kind |-> "delete", of |-> s, here |-> here])
    BY <1>5 DEF DeleteSession
  <2> DEFINE call == [kind |-> "delete", of |-> s, here |-> here]
  <2>2. call \in Call /\ call.kind = "delete"
    BY DEF Call
  <2>3. /\ Awaits(call) /\ Disturbs
        /\ UNCHANGED <<made, current, shown, streaming, abortRef, streams>>
    BY <1>5, <2>1 DEF DeleteSession
  <2> HIDE DEF call
  <2>4. HTypeOK'
    BY <1>0, <1>1, <2>2, <2>3, AwaitsType DEF HTypeOK
  <2>5. ASSUME ~disturbed' PROVE Orderly'
    BY <1>0, <1>1, <1>2, <2>2, <2>3, <2>5, AwaitsOrderly DEF Orderly
  <2>6. QED BY <2>4, <2>5
<1>6. QED BY <1>3, <1>4, <1>5

\* The server answers a click.
LEMMA AnswerStep ==
    ASSUME HInv, NEW c \in Calls,
           \/ SendGoesOn(c) \/ HistoryComes(c) \/ NewSessionComes(c)
           \/ SessionIsDeleted(c) \/ CallFails(c)
    PROVE  HTypeOK' /\ (~disturbed' => Orderly')
<1>0. HTypeOK /\ (~disturbed => Orderly)
  BY OrderlyIsHInv
<1>1. /\ Returns(c) /\ disturbed' = disturbed /\ c \in Waiting /\ calls[c] \in Call
  BY <1>0 DEF SendGoesOn, HistoryComes, NewSessionComes, SessionIsDeleted, CallFails,
              Waiting, HTypeOK, Call
<1>2. calls' \in [Calls -> Call \cup {NoCall}] /\ Waiting' = Waiting \ {c}
  BY <1>0, <1>1, ReturnsType
<1>3. ~disturbed =>
        /\ Orderly /\ Waiting = {c} /\ Coming = {}
        /\ calls[c].kind = "send" => current = NoSession
        /\ calls[c].kind = "load" => calls[c].of = current
  BY <1>0, <1>1 DEF Orderly, ClicksInTurn
<1>4. CASE SendGoesOn(c)
  <2>1. Creates /\ Starts(current') /\ calls[c].kind = "send"
    BY <1>4 DEF SendGoesOn
  <2>2. current' \in ChatSessions /\ made' \subseteq ChatSessions
    BY <1>0, <2>1, CreatesType
  <2>3. PICK s \in ChatSessions : s = current' /\ Starts(s)
    BY <2>1, <2>2
  <2>4. HTypeOK'
    BY <1>0, <1>1, <1>2, <2>2, <2>3, StartsType DEF HTypeOK, Stream
  <2>5. ASSUME ~disturbed' PROVE Orderly'
    <3>1. shown = <<>>
      <4>1. DOMAIN shown = {}
        <5>1. \A i \in DOMAIN shown : shown[i] \in Message
          BY <1>0 DEF HTypeOK
        <5>2. \A i \in DOMAIN shown : shown[i].of = NoSession
          BY <1>1, <1>3, <2>1, <2>5 DEF Orderly
        <5>3. QED BY <5>1, <5>2 DEF Message
      <4>2. QED BY <1>0, <4>1 DEF HTypeOK
    <3>2. Coming = {} /\ Waiting' = {}
      BY <1>1, <1>2, <1>3, <2>5
    <3>3. QED BY <1>0, <2>3, <2>4, <3>1, <3>2, StartsOrderly
  <2>6. QED BY <2>4, <2>5
<1>5. CASE HistoryComes(c)
  <2>1. calls[c].kind = "load" /\ calls[c].of \in ChatSessions
    BY <1>1, <1>5 DEF HistoryComes, Call
  <2>2. /\ shown' \in Seq(Message)
        /\ \A i \in DOMAIN shown' : shown'[i].of = calls[c].of /\ shown'[i].words = {}
        /\ UNCHANGED <<made, current, streaming, abortRef, streams, disturbed>>
    <3>1. PICK s \in ChatSessions : s = calls[c].of
      BY <2>1
    <3>2. CASE shown' = <<>>
      BY <1>5, <3>2 DEF HistoryComes
    <3>3. CASE shown' # <<>>
      BY <1>5, <3>1, <3>3, HistoryType DEF HistoryComes
    <3>4. QED BY <3>2, <3>3
  <2>3. HTypeOK' /\ Coming' = Coming
    BY <1>0, <1>2, <2>2 DEF HTypeOK, Coming
  <2>4. ASSUME ~disturbed' PROVE Orderly'
    BY <1>0, <1>1, <1>3, <2>1, <2>2, <2>3, <2>4, ReturnsOrderly
  <2>5. QED BY <2>3, <2>4
<1>6. CASE NewSessionComes(c)
  <2>1. /\ Creates /\ shown' = <<>>
        /\ UNCHANGED <<streaming, abortRef, streams, disturbed>>
    BY <1>6 DEF NewSessionComes
  <2>2. HTypeOK'
    <3>1. current' \in ChatSessions \cup {NoSession} /\ made' \subseteq ChatSessions
      BY <1>0, <2>1, CreatesType
    <3>2. shown' \in Seq(Message)
      BY <2>1, EmptySeq
    <3>3. QED BY <1>0, <1>2, <2>1, <3>1, <3>2 DEF HTypeOK
  <2>3. Coming' = Coming
    <3>1. streams' = streams
      BY <2>1
    <3>2. QED BY <3>1 DEF Coming
  <2>4. ASSUME ~disturbed' PROVE Orderly'
    BY <1>0, <1>1, <1>3, <2>1, <2>2, <2>3, <2>4, ReturnsOrderly
  <2>5. QED BY <2>2, <2>4
<1>7. CASE SessionIsDeleted(c) \/ CallFails(c)
  <2>1. /\ made' \subseteq ChatSessions
        /\ \/ current' = NoSession /\ shown' = <<>>
           \/ UNCHANGED <<current, shown>>
        /\ UNCHANGED <<streaming, abortRef, streams, disturbed>>
    BY <1>0, <1>7 DEF SessionIsDeleted, CallFails, HTypeOK
  <2>2. HTypeOK' /\ Coming' = Coming
    <3>1. shown' \in Seq(Message)
      BY <1>0, <2>1, EmptySeq DEF HTypeOK
    <3>2. HTypeOK'
      BY <1>0, <1>2, <2>1, <3>1 DEF HTypeOK
    <3>3. streams' = streams
      BY <2>1
    <3>4. Coming' = Coming
      BY <3>3 DEF Coming
    <3>5. QED BY <3>2, <3>4
  <2>3. ASSUME ~disturbed' PROVE Orderly'
    <3>1. \A i \in DOMAIN shown' :
            shown'[i].words \subseteq {shown'[i].for} /\ shown'[i].of = current'
      BY <1>1, <1>3, <2>1, <2>3 DEF Orderly
    <3>2. QED BY <1>0, <1>1, <1>3, <2>2, <2>3, <3>1, ReturnsOrderly
  <2>4. QED BY <2>2, <2>3
<1>8. QED BY <1>4, <1>5, <1>6, <1>7

\* A stream that is on writes into the message it was made for.
LEMMA WrittenOrderly ==
    ASSUME HTypeOK, Orderly, NEW x \in Coming, shown' \in {shown, Written(x)},
           UNCHANGED <<current, abortRef, calls>>,
           Coming' = {} \/ (Coming' = Coming /\ streaming' = streaming)
    PROVE  Orderly'
<1>1. /\ x \in Streams /\ shown # <<>> /\ shown \in Seq(Message)
      /\ shown[Len(shown)].for = x /\ abortRef = x
  BY DEF Orderly, WritesToItsOwn, Coming, HTypeOK
<1>2. Len(shown) \in 1..Len(shown)
  BY <1>1, EmptySeq
<1>3. /\ Written(x) \in Seq(Message) /\ Len(Written(x)) = Len(shown)
      /\ \A i \in 1..Len(shown) :
           /\ Written(x)[i].of = shown[i].of /\ Written(x)[i].for = shown[i].for
           /\ Written(x)[i].words \subseteq
                shown[i].words \cup (IF i = Len(shown) THEN {x} ELSE {})
  BY <1>1, WrittenType
<1>4. /\ Len(shown') = Len(shown) /\ shown' \in Seq(Message)
      /\ \A i \in 1..Len(shown) :
           /\ shown'[i].of = shown[i].of /\ shown'[i].for = shown[i].for
           /\ shown'[i].words \subseteq
                shown[i].words \cup (IF i = Len(shown) THEN {x} ELSE {})
  BY <1>1, <1>3
<1>5. \A i \in DOMAIN shown' :
        shown'[i].words \subseteq {shown'[i].for} /\ shown'[i].of = current'
  BY <1>1, <1>4 DEF Orderly
<1>6. Waiting = {} /\ Waiting' = {}
  BY DEF Orderly, ClicksInTurn, Waiting
<1>7. shown' # <<>> /\ shown'[Len(shown')].for = abortRef'
  BY <1>1, <1>2, <1>4, EmptySeq
<1>8. QED BY <1>5, <1>6, <1>7 DEF Orderly, ClicksInTurn, WritesToItsOwn

LEMMA StreamStepKeeps ==
    ASSUME HInv, NEW x \in Streams, StreamStep(x)
    PROVE  HTypeOK' /\ (~disturbed' => Orderly')
<1>0. HTypeOK /\ (~disturbed => Orderly)
  BY OrderlyIsHInv
<1>1. PICK stage \in {"reading", "ended"}, told \in BOOLEAN : Moves(x, stage, told)
  BY DEF StreamStep, FetchReturns, Closes, Chunk, Breaks
<1>2. /\ streams' \in [Streams -> Stream]
      /\ \A y \in Streams \ {x} : streams'[y] = streams[y]
      /\ streams'[x].stage = stage
      /\ streams'[x].told = (streams[x].told \/ told)
      /\ streams[x].stage \in {"fetching", "reading"}
  BY <1>0, <1>1, MovesType DEF StreamStep, FetchReturns, Closes, Chunk, Breaks
<1>3. Coming' = Coming \/ Coming' = Coming \ {x}
  BY <1>2 DEF Coming
<1>4. /\ UNCHANGED <<made, current, abortRef, calls>>
      /\ shown' \in {shown, Written(x)}
      /\ streaming' \in BOOLEAN /\ disturbed' \in BOOLEAN
      /\ disturbed => disturbed'
  BY <1>0 DEF StreamStep, FetchReturns, Closes, Chunk, Breaks, HTypeOK
<1>5. HTypeOK'
  BY <1>0, <1>2, <1>4, WrittenType DEF HTypeOK, Stream
<1>6. ASSUME ~disturbed' PROVE Orderly'
  <2>1. ~disturbed /\ Orderly
    BY <1>0, <1>4, <1>6
  <2>2. CASE x \in Coming
    <3>1. Coming = {x}
      BY <2>1, <2>2 DEF Orderly
    <3>2. Coming' = {} \/ (Coming' = Coming /\ streaming' = streaming)
      <4>1. CASE FetchReturns(x) \/ Closes(x)
        BY <1>3, <3>1, <4>1 DEF FetchReturns, Closes
      <4>2. CASE \E done \in BOOLEAN : Chunk(x, done)
        <5>1. PICK done \in BOOLEAN : Chunk(x, done)
          BY <4>2
        <5>2. CASE done
          <6>1. streams'[x].told
            BY <1>0, <5>1, <5>2, MovesType DEF Chunk
          <6>2. x \notin Coming'
            BY <6>1 DEF Coming
          <6>3. QED BY <1>3, <3>1, <6>2
        <5>3. CASE ~done
          <6>1. streaming' = streaming
            BY <1>0, <5>1, <5>3 DEF Chunk, HTypeOK
          <6>2. QED BY <1>3, <3>1, <6>1
        <5>4. QED BY <5>2, <5>3
      <4>3. CASE \E refused \in BOOLEAN : Breaks(x, refused)
        <5>1. streams'[x].stage = "ended"
          BY <1>0, <4>3, MovesType DEF Breaks
        <5>2. x \notin Coming'
          BY <5>1 DEF Coming
        <5>3. QED BY <1>3, <3>1, <5>2
      <4>4. QED BY <4>1, <4>2, <4>3 DEF StreamStep
    <3>3. QED BY <1>0, <1>4, <2>1, <2>2, <3>2, WrittenOrderly
  <2>3. CASE x \notin Coming
    <3>1. streams[x].told
      BY <1>2, <2>3 DEF Coming
    <3>2. UNCHANGED <<shown, streaming>>
      BY <1>6, <3>1 DEF StreamStep, FetchReturns, Closes, Chunk, Breaks
    <3>3. Coming' = Coming /\ Waiting' = Waiting
      BY <1>3, <1>4, <2>3 DEF Waiting
    <3>4. QED BY <1>4, <2>1, <3>2, <3>3 DEF Orderly, ClicksInTurn, WritesToItsOwn
  <2>4. QED BY <2>2, <2>3
<1>7. QED BY <1>5, <1>6

LEMMA ClientStep == HInv /\ [HNext]_hvars => HInv'
<1> SUFFICES ASSUME HInv, [HNext]_hvars PROVE HTypeOK' /\ (~disturbed' => Orderly')
  BY DEF HInv, Orderly, ShownIsOwn, StreamingIsKnown
<1>1. CASE UNCHANGED hvars
  BY <1>1, OrderlyIsHInv
  DEF hvars, HTypeOK, Orderly, ClicksInTurn, WritesToItsOwn, Coming, Waiting
<1>2. QED BY <1>1, SendStep, LeaveStep, AnswerStep, StreamStepKeeps DEF HNext, Click

LEMMA ClientInit == HInit => HInv
<1> SUFFICES ASSUME HInit PROVE HTypeOK /\ Orderly
  BY OrderlyIsHInv
<1>1. Coming = {} /\ Waiting = {}
  BY DEF HInit, NotUsed, Coming, Waiting
<1>2. HTypeOK
  <2>1. shown \in Seq(Message)
    BY EmptySeq DEF HInit
  <2>2. QED BY <2>1 DEF HInit, NotUsed, HTypeOK
<1>3. QED BY <1>1, <1>2 DEF HInit, Orderly, ClicksInTurn, WritesToItsOwn

-----------------------------------------------------------------------------
\* The inductive invariant of the chat.
THEOREM ClientInvariant == HSpec => []HInv
BY ClientInit, ClientStep, PTL DEF HSpec

\* While nothing disturbs the chat, each message shown is one of the session
\* the customer is in and holds the words of its own stream only.
THEOREM ShownIsAlwaysOwn == HSpec => []ShownIsOwn
<1>1. HInv => ShownIsOwn
  BY DEF HInv
<1>2. QED BY <1>1, ClientInvariant, PTL

\* And the chat knows of the one stream that is on.
THEOREM StreamingAlwaysKnown == HSpec => []StreamingIsKnown
<1>1. HInv => StreamingIsKnown
  BY DEF HInv
<1>2. QED BY <1>1, ClientInvariant, PTL

\* A stream not used yet has told nothing.
LockInv == HTypeOK /\ LockIsOfLatest /\ \A x \in Unused : ~streams[x].told

LEMMA LockOfStart ==
    ASSUME LockInv, NEW s \in ChatSessions, Starts(s), HTypeOK'
    PROVE  LockInv'
<1>1. PICK x \in Unused : /\ streams' = [streams EXCEPT ![x].stage = "fetching"]
                          /\ abortRef' = x
  BY DEF Starts
<1>2. x \in Streams /\ x # NoStream /\ streams \in [Streams -> Stream]
  BY <1>1 DEF Unused, LockInv, HTypeOK, Stream
<1>3. /\ \A y \in Streams : streams'[y].told = streams[y].told
      /\ \A y \in Streams : streams'[y].stage = "unused" => streams[y].stage = "unused"
  BY <1>1, <1>2 DEF Stream
<1>4. ~streams'[x].told
  BY <1>1, <1>2, <1>3 DEF LockInv
<1>5. LockIsOfLatest'
  BY <1>1, <1>2, <1>4 DEF LockIsOfLatest
<1>6. QED BY <1>3, <1>5 DEF LockInv, Unused

LEMMA LockStep == LockInv /\ HInv /\ HInv' /\ [HNext]_hvars => LockInv'
<1> SUFFICES ASSUME LockInv, HInv, HInv', [HNext]_hvars PROVE LockInv'
  OBVIOUS
<1>0. /\ HTypeOK /\ HTypeOK' /\ Aborted \in [Streams -> Stream]
      /\ streams \in [Streams -> Stream] /\ NoStream \notin Streams
  BY AbortedType DEF HInv, HTypeOK, Stream
<1>1. ASSUME NEW s \in ChatSessions, Starts(s) PROVE LockInv'
  BY <1>0, <1>1, LockOfStart
\* Most steps leave both as they are, or abort.
<1>2. ASSUME streaming' = streaming, abortRef' = abortRef, streams' \in {streams, Aborted}
      PROVE  LockInv'
  <2>1. \A x \in Streams : /\ streams'[x].told = streams[x].told
                           /\ streams'[x].stage = streams[x].stage
    BY <1>0, <1>2, AbortedType
  <2>2. QED BY <1>0, <1>2, <2>1 DEF LockInv, LockIsOfLatest, Unused, HTypeOK
\* A stream moves: one that tells ends the lock, another tells nothing new.
<1>3. ASSUME NEW x \in Streams, NEW told \in BOOLEAN, NEW stage \in {"reading", "ended"},
             Moves(x, stage, told), abortRef' = abortRef,
             streaming' => streaming /\ ~told
      PROVE  LockInv'
  <2>1. /\ \A y \in Streams \ {x} : streams'[y] = streams[y]
        /\ streams'[x].stage = stage /\ streams'[x].told = (streams[x].told \/ told)
    BY <1>0, <1>3, MovesType
  <2>2. LockIsOfLatest'
    BY <1>0, <1>3, <2>1 DEF LockInv, LockIsOfLatest, HTypeOK
  <2>3. \A y \in Unused' : y \in Unused /\ streams'[y] = streams[y]
    BY <1>3, <2>1 DEF Unused
  <2>4. QED BY <1>0, <2>2, <2>3 DEF LockInv
<1>4. CASE UNCHANGED hvars
  BY <1>2, <1>4 DEF hvars
<1>5. CASE Click
  <2>1. CASE Send
    <3>1. CASE current # NoSession /\ Starts(current)
      <4>1. current \in ChatSessions
        BY <1>0, <3>1 DEF HTypeOK
      <4>2. QED BY <1>1, <3>1, <4>1
    <3>2. QED BY <1>2, <2>1, <3>1 DEF Send
  <2>2. CASE NewSession
    BY <1>2, <2>2 DEF NewSession
  <2>3. CASE \E s \in ChatSessions : SwitchSession(s) \/ DeleteSession(s)
    BY <1>2, <2>3 DEF SwitchSession, DeleteSession
  <2>4. QED BY <1>5, <2>1, <2>2, <2>3 DEF Click
<1>6. ASSUME NEW c \in Calls,
             \/ SendGoesOn(c) \/ HistoryComes(c) \/ NewSessionComes(c)
             \/ SessionIsDeleted(c) \/ CallFails(c)
      PROVE  LockInv'
  <2>1. CASE SendGoesOn(c)
    <3>1. Creates /\ Starts(current')
      BY <2>1 DEF SendGoesOn
    <3>2. PICK s \in ChatSessions : Starts(s)
      BY <1>0, <3>1, CreatesType
    <3>3. QED BY <1>1, <3>2
  <2>2. QED BY <1>2, <1>6, <2>1 DEF HistoryComes, NewSessionComes, SessionIsDeleted, CallFails
<1>7. ASSUME NEW x \in Streams, StreamStep(x) PROVE LockInv'
  <2>1. CASE FetchReturns(x)
    BY <1>3, <2>1 DEF FetchReturns
  <2>2. CASE Closes(x)
    BY <1>3, <2>2 DEF Closes
  <2>3. ASSUME NEW b \in BOOLEAN, Chunk(x, b) PROVE LockInv'
    BY <1>3, <2>3 DEF Chunk
  <2>4. ASSUME NEW b \in BOOLEAN, Breaks(x, b) PROVE LockInv'
    <3>1. \/ Moves(x, "ended", FALSE) /\ streaming' = streaming
          \/ Moves(x, "ended", TRUE) /\ streaming' = FALSE
      BY <2>4 DEF Breaks
    <3>2. abortRef' = abortRef
      BY <2>4 DEF Breaks
    <3>3. CASE Moves(x, "ended", FALSE) /\ streaming' = streaming
      BY <1>3, <3>2, <3>3
    <3>4. CASE Moves(x, "ended", TRUE) /\ streaming' = FALSE
      BY <1>3, <3>2, <3>4
    <3>5. QED BY <3>1, <3>3, <3>4
  <2>5. QED BY <1>7, <2>1, <2>2, <2>3, <2>4 DEF StreamStep
<1>8. QED BY <1>4, <1>5, <1>6, <1>7 DEF HNext

\* The latest stream has not reported yet while the chat is locked.
THEOREM LockAlwaysOfLatest == HSpec => []LockIsOfLatest
<1>1. HInit => LockInv
  BY ClientInit DEF HInit, HInv, LockInv, LockIsOfLatest, NotUsed, Unused
<1>2. LockInv => LockIsOfLatest
  BY DEF LockInv
<1>3. QED BY <1>1, <1>2, LockStep, ClientInvariant, PTL DEF HSpec

-----------------------------------------------------------------------------
\* Answering.  The first and the last place of a sequence that one looks for
\* are places of it.
Least(S) == IF S = {} THEN 0 ELSE CHOOSE i \in S : \A j \in S : i <= j

LEMMA LeastExists ==
    ASSUME NEW S, S \subseteq Nat, S # {}
    PROVE  \E x \in S : \A y \in S : x <= y
<1>1. DEFINE before == {p \in Nat \X Nat : p[1] < p[2]}
<1>2. IsWellFoundedOn(before, Nat)
  BY NatLessThanWellFounded DEF OpToRel
<1> HIDE DEF before
<1>3. PICK x \in S : \A y \in S : ~(<<y, x>> \in before)
  BY <1>2, WFMin
<1>4. \A y \in S : ~(y < x)
  BY <1>3 DEF before
<1>5. QED BY <1>4

LEMMA LeastIsThere ==
    ASSUME NEW S, S \subseteq Nat
    PROVE  S # {} => Least(S) \in S /\ \A j \in S : Least(S) <= j
BY LeastExists DEF Least

LEMMA LastIntentType ==
    ASSUME NEW s \in Seq(Intents \cup {None})
    PROVE  LastIntent(s) \in Intents \cup {None}
<1> DEFINE said == {i \in DOMAIN s : s[i] # None}
           fromEnd == {Len(s) - i : i \in said}
<1>1. CASE said = {}
  BY <1>1 DEF LastIntent
<1>2. CASE said # {}
  <2>1. fromEnd \subseteq Nat /\ fromEnd # {}
    BY <1>2
  <2>2. PICK x \in fromEnd : \A y \in fromEnd : x <= y
    BY <2>1, LeastExists
  <2>3. PICK k \in said : x = Len(s) - k
    BY <2>2
  <2>4. \A j \in said : j <= k
    <3>1. \A j \in said : Len(s) - j \in fromEnd /\ j \in Nat /\ Len(s) \in Nat
      OBVIOUS
    <3> HIDE DEF said, fromEnd
    <3>2. QED BY <2>2, <2>3, <3>1
  <2>5. (CHOOSE i \in said : \A j \in said : j <= i) \in said
    BY <2>4
  <2>6. QED BY <1>2, <2>5 DEF LastIntent
<1>3. QED BY <1>1, <1>2

LEMMA FirstIntentIs ==
    ASSUME NEW s \in Seq(Intents \cup {None})
    PROVE  /\ FirstIntent(s) \in Intents
           /\ Len(s) = 3 /\ s[1] = None /\ s[2] = "tracking" => FirstIntent(s) = "tracking"
<1> DEFINE said == {i \in DOMAIN s : s[i] # None}
<1>1. FirstWith(s, LAMBDA intent : intent # None) = Least(said)
  BY DEF FirstWith, Least
<1>2. said \subseteq Nat
  OBVIOUS
<1>3. said = {} => Least(said) = 0
  BY DEF Least
<1>4. said # {} => Least(said) \in said /\ \A j \in said : Least(said) <= j
  BY <1>2, LeastIsThere
<1>5. FirstIntent(s) = IF Least(said) = 0 THEN "general" ELSE s[Least(said)]
  BY <1>1 DEF FirstIntent
<1>6. "general" \in Intents
  BY DEF Intents
<1>7. FirstIntent(s) \in Intents
  BY <1>3, <1>4, <1>5, <1>6 DEF None
<1>8. ASSUME Len(s) = 3, s[1] = None, s[2] = "tracking"
      PROVE  FirstIntent(s) = "tracking"
  <2>1. 2 \in said /\ 1 \notin said
    BY <1>8 DEF None
  <2>2. Least(said) = 2
    <3>1. said \subseteq 1..3
      BY <1>8
    <3> HIDE DEF said
    <3>2. Least(said) \in 1..3 /\ Least(said) <= 2 /\ Least(said) # 1
      BY <1>4, <2>1, <3>1
    <3>3. QED BY <3>2
  <2>3. QED BY <1>5, <1>8, <2>2
<1>9. QED BY <1>7, <1>8

\* What is routed to an answer node is an intent; "Where is it?" goes to
\* answer_tracking when an order is under discussion.
LEMMA DiscussedType ==
    ASSUME NEW e \in Entities
    PROVE  /\ Discussed(e) \in Intents \cup {None}
           /\ e.order # None => Discussed(e) = "tracking"
BY DEF Discussed, Intents, Choosing, None

LEMMA FollowUpType ==
    ASSUME NEW q \in Question, NEW last \in Intents \cup {None}
    PROVE  /\ FollowUp(q, last) \in Intents \cup {None}
           /\ q.followUps = <<>> => FollowUp(q, last) = None
<1>1. q.followUps \in Seq(Intents)
  BY DEF Question
<1>2. CASE q.followUps = <<>>
  BY <1>2 DEF FollowUp
<1>3. CASE q.followUps # <<>>
  <2>1. q.followUps[1] \in Intents
    BY <1>1, <1>3
  <2>2. FollowUp(q, last) \in {last, q.followUps[1]}
    BY <1>3 DEF FollowUp
  <2>3. QED BY <1>3, <2>1, <2>2
<1>4. QED BY <1>2, <1>3

LEMMA IntentType ==
    ASSUME NEW q \in Question, NEW e \in Entities, NEW last \in Intents \cup {None}
    PROVE  /\ IntentOf(q, e, last) \in Intents
           /\ q.pronoun /\ q.followUps = <<>> /\ e.order # None =>
                IntentOf(q, e, last) = "tracking"
<1> DEFINE S == Intents \cup {None}
           by1 == <<FollowUp(q, last), Discussed(e), last>>
           by2 == <<IF q.trackingLike THEN "tracking" ELSE None, q.direct,
                    IF Discussed(e) \in ToSet(q.followUps) THEN Discussed(e) ELSE None>>
<1>1. FollowUp(q, last) \in S /\ Discussed(e) \in S /\ last \in S
  BY DiscussedType, FollowUpType
<1>2. by1 \in Seq(S) /\ Len(by1) = 3 /\ by1[1] = FollowUp(q, last) /\ by1[2] = Discussed(e)
  BY <1>1
<1>3. q.direct \in S /\ None \in S /\ "tracking" \in S
  BY DEF Question, Intents, Choosing
<1>4. by2 \in Seq(S)
  BY <1>1, <1>3
<1>5. IntentOf(q, e, last) = IF q.pronoun THEN FirstIntent(by1) ELSE FirstIntent(by2)
  BY DEF IntentOf
<1> HIDE DEF by1, by2
<1>6. IntentOf(q, e, last) \in Intents
  BY <1>2, <1>4, <1>5, FirstIntentIs
<1>7. ASSUME q.pronoun, q.followUps = <<>>, e.order # None
      PROVE  IntentOf(q, e, last) = "tracking"
  BY <1>2, <1>5, <1>7, FirstIntentIs, DiscussedType, FollowUpType
<1>8. QED BY <1>6, <1>7

\* What an answer node tells: of the customer's own, and of what is discussed
\* next.
Teller == [by : {"node"}, kind : Intents, about : SUBSET Number]

LEMMA TellsOf ==
    ASSUME NEW kind \in Intents, NEW about \in SUBSET Number, NEW e \in Entities
    PROVE  /\ Told(kind, about, e) \in [answer : Teller, entities : Entities]
           /\ Told(kind, about, e).answer.kind = kind
           /\ Told(kind, about, e).answer.about = about
           /\ Told(kind, about, e).entities = e
BY DEF Told, Teller

LEMMA CustomerHas ==
    ASSUME NEW c \in Customer
    PROVE  /\ Own(c) \subseteq Number /\ None \notin Own(c)
           /\ c.orders \in Seq(CustomerOrder) /\ c.tickets \in Seq(Number)
           /\ c.shipments \in Seq(CustomerShipment)
           /\ \A i \in DOMAIN c.orders : c.orders[i].number \in Numbers(c.orders)
           /\ \A i \in DOMAIN c.shipments : c.shipments[i].number \in Numbers(c.shipments)
           /\ \A i \in DOMAIN c.tickets : c.tickets[i] \in ToSet(c.tickets)
<1>1. /\ c.orders \in Seq(CustomerOrder) /\ c.tickets \in Seq(Number)
      /\ c.shipments \in Seq(CustomerShipment)
  BY DEF Customer
<1>2. \A i \in DOMAIN c.orders : c.orders[i].number \in Number
  <2>1. \A i \in DOMAIN c.orders : c.orders[i] \in CustomerOrder
    BY <1>1
  <2>2. \A o \in CustomerOrder : o.number \in Number
    BY DEF CustomerOrder
  <2>3. QED BY <2>1, <2>2
<1>3. \A i \in DOMAIN c.shipments : c.shipments[i].number \in Number
  <2>1. \A i \in DOMAIN c.shipments : c.shipments[i] \in CustomerShipment
    BY <1>1
  <2>2. \A p \in CustomerShipment : p.number \in Number
    BY DEF CustomerShipment
  <2>3. QED BY <2>1, <2>2
<1>4. \A i \in DOMAIN c.tickets : c.tickets[i] \in Number
  BY <1>1
<1>5. /\ Numbers(c.orders) \subseteq Number /\ Numbers(c.shipments) \subseteq Number
      /\ ToSet(c.tickets) \subseteq Number
  BY <1>2, <1>3, <1>4 DEF Numbers, ToSet
<1>6. c.methods \subseteq Number /\ c.plans \subseteq Number /\ {c.tier} \ {None} \subseteq Number
  BY DEF Customer, OrNone
<1>7. Own(c) \subseteq Number /\ None \notin Number
  BY <1>5, <1>6 DEF Own, Number
<1>8. QED BY <1>1, <1>7 DEF Numbers, ToSet

\* answer_tracking
LEMMA TrackingTells ==
    ASSUME NEW q \in Question, NEW c \in Customer, NEW e \in Entities
    PROVE  LET t == AnswerTracking(q, c, e)
               own == {s \in ToSet(c.shipments) : s.order = e.order} IN
           /\ t \in [answer : Teller, entities : Entities]
           /\ t.answer.kind = "tracking" /\ t.answer.about \subseteq Own(c)
           /\ q.shipments = {} /\ e.order # None /\ own # {} =>
                /\ t.answer.about \subseteq {s.number : s \in own}
                /\ t.answer.about # {} /\ t.entities.order = e.order
           /\ q.shipments \cap Numbers(c.shipments) # {} =>
                /\ t.answer.about = {t.entities.tracking}
                /\ t.entities.tracking \in q.shipments
<1> DEFINE t == AnswerTracking(q, c, e)
           own == {s \in ToSet(c.shipments) : s.order = e.order}
           naming == {i \in DOMAIN c.shipments : c.shipments[i].number \in q.shipments}
           ofOrder == {i \in DOMAIN c.shipments :
                         c.shipments[i].order = e.order /\ e.order # None}
           i == IF Least(naming) # 0 THEN Least(naming)
                ELSE IF Least(ofOrder) # 0 THEN Least(ofOrder) ELSE 1
           s == c.shipments[i]
           after == [e EXCEPT !.tracking = s.number,
                              !.order = IF s.order # None THEN s.order ELSE @]
<1>1. /\ c.shipments \in Seq(CustomerShipment)
      /\ Own(c) \subseteq Number /\ Numbers(c.shipments) \subseteq Own(c)
      /\ \A k \in DOMAIN c.shipments :
           c.shipments[k].number \in Numbers(c.shipments) /\ c.shipments[k].number # None
  BY CustomerHas DEF Own
<1>2. "tracking" \in Intents
  BY DEF Intents, Choosing
<1>3. t = IF Len(c.shipments) = 0 THEN Told("tracking", {}, e)
          ELSE Told("tracking", {s.number}, after)
  BY DEF AnswerTracking, FirstWith, Least
<1>4. CASE Len(c.shipments) = 0
  <2>1. t = Told("tracking", {}, e) /\ own = {}
    BY <1>1, <1>3, <1>4 DEF ToSet
  <2>2. Numbers(c.shipments) = {}
    BY <1>1, <1>4 DEF Numbers
  <2>3. QED BY <1>2, <2>1, <2>2, TellsOf
<1>5. CASE Len(c.shipments) # 0
  <2>1. naming \subseteq Nat /\ ofOrder \subseteq Nat /\ 1 \in DOMAIN c.shipments
    BY <1>1, <1>5
  <2>2. i \in DOMAIN c.shipments
    <3>1. Least(naming) # 0 => Least(naming) \in naming
      BY <2>1, LeastIsThere DEF Least
    <3>2. Least(ofOrder) # 0 => Least(ofOrder) \in ofOrder
      BY <2>1, LeastIsThere DEF Least
    <3>3. QED BY <2>1, <3>1, <3>2
  <2>3. s \in CustomerShipment /\ s.order \in OrNone /\ s.number \in Own(c) /\ s.number \in Number
    <3> HIDE DEF i
    <3>1. s \in CustomerShipment /\ s.number \in Own(c)
      BY <1>1, <2>2
    <3>2. QED BY <1>1, <3>1 DEF CustomerShipment
  <2>4. /\ after \in Entities
        /\ after.order = IF s.order # None THEN s.order ELSE e.order
        /\ after.tracking = s.number
    BY <2>3 DEF Entities, OrNone
  <2>5. /\ t \in [answer : Teller, entities : Entities]
        /\ t.answer.kind = "tracking" /\ t.answer.about = {s.number}
        /\ t.entities = after
    <3> HIDE DEF s, after, t
    <3>1. t = Told("tracking", {s.number}, after) /\ {s.number} \in SUBSET Number
      BY <1>3, <1>5, <2>3
    <3>2. QED BY <1>2, <2>4, <3>1, TellsOf
  <2>6. ASSUME q.shipments = {}, e.order # None, own # {}
        PROVE  s \in own
    <3>1. naming = {} /\ Least(naming) = 0
      BY <1>1, <2>6 DEF Least
    <3>2. ofOrder # {}
      BY <2>6 DEF ToSet
    <3>3. Least(ofOrder) \in ofOrder /\ Least(ofOrder) # 0
      <4>1. Least(ofOrder) \in ofOrder
        BY <2>1, <3>2, LeastIsThere
      <4>2. 0 \notin ofOrder
        BY <1>1
      <4> HIDE DEF ofOrder
      <4>3. QED BY <4>1, <4>2
    <3>4. QED BY <3>1, <3>3 DEF ToSet
  <2>7. ASSUME q.shipments = {}, e.order # None, own # {}
        PROVE  /\ t.answer.about \subseteq {p.number : p \in own}
               /\ t.answer.about # {} /\ t.entities.order = e.order
    BY <2>4, <2>5, <2>6, <2>7
  <2>8. ASSUME q.shipments \cap Numbers(c.shipments) # {}
        PROVE  /\ t.answer.about = {t.entities.tracking}
               /\ t.entities.tracking \in q.shipments
    <3>1. naming # {}
      BY <2>8 DEF Numbers
    <3>2. Least(naming) \in naming
      BY <2>1, <3>1, LeastIsThere
    <3>3. 0 \notin naming
      BY <1>1
    <3>4. i = Least(naming)
      <4> HIDE DEF naming, ofOrder
      <4>1. QED BY <3>2, <3>3
    <3>5. s.number \in q.shipments
      BY <3>2, <3>4
    <3>6. QED BY <2>4, <2>5, <3>5
  <2>9. QED BY <2>3, <2>5, <2>7, <2>8
<1>6. QED BY <1>1, <1>4, <1>5

\* answer_order_status
LEMMA OrderStatusTells ==
    ASSUME NEW q \in Question, NEW c \in Customer, NEW e \in Entities
    PROVE  LET t == AnswerOrderStatus(q, c, e) IN
           /\ t \in [answer : Teller, entities : Entities]
           /\ t.answer.kind = "order_status" /\ t.answer.about \subseteq Own(c)
           /\ q.order \in Numbers(c.orders) =>
                t.answer.about = {q.order} /\ t.entities.order = q.order
<1> DEFINE t == AnswerOrderStatus(q, c, e)
           o == ResolveOrderNumber(q, c, e)
           about == IF o \in Numbers(c.orders) THEN {o} ELSE Numbers(c.orders)
           after == [e EXCEPT !.order = o]
<1>1. /\ c.orders \in Seq(CustomerOrder)
      /\ Own(c) \subseteq Number /\ Numbers(c.orders) \subseteq Own(c)
      /\ None \notin Numbers(c.orders)
      /\ \A k \in DOMAIN c.orders : c.orders[k].number \in Numbers(c.orders)
  BY CustomerHas DEF Own
<1>2. "order_status" \in Intents
  BY DEF Intents, Choosing
<1>3. t = IF Len(c.orders) = 0 THEN Told("order_status", {}, e)
          ELSE Told("order_status", about, after)
  BY DEF AnswerOrderStatus
<1>4. CASE Len(c.orders) = 0
  <2>1. t = Told("order_status", {}, e) /\ Numbers(c.orders) = {}
    BY <1>1, <1>3, <1>4 DEF Numbers
  <2>2. QED BY <1>2, <2>1, TellsOf
<1>5. CASE Len(c.orders) # 0
  <2>1. c.orders[1].number \in Numbers(c.orders)
    BY <1>1, <1>5
  <2>2. /\ o \in OrNone
        /\ q.order # None => o = q.order
    BY <1>1, <2>1 DEF ResolveOrderNumber, Question, Entities, OrNone
  <2>3. about \subseteq Own(c) /\ about \in SUBSET Number
    BY <1>1
  <2>4. after \in Entities /\ after.order = o
    BY <2>2 DEF Entities
  <2>5. /\ t \in [answer : Teller, entities : Entities]
        /\ t.answer.kind = "order_status" /\ t.answer.about = about
        /\ t.entities = after
    <3>1. t = Told("order_status", about, after)
      BY <1>3, <1>5
    <3> HIDE DEF about, after, t
    <3>2. QED BY <1>2, <2>3, <2>4, <3>1, TellsOf
  <2>6. q.order \in Numbers(c.orders) =>
          t.answer.about = {q.order} /\ t.entities.order = q.order
    BY <1>1, <2>2, <2>4, <2>5
  <2>7. QED BY <2>3, <2>5, <2>6
<1>6. QED BY <1>4, <1>5

\* answer_ticket
LEMMA TicketTells ==
    ASSUME NEW q \in Question, NEW c \in Customer, NEW e \in Entities
    PROVE  LET t == AnswerTicket(q, c, e) IN
           /\ t \in [answer : Teller, entities : Entities]
           /\ t.answer.kind = "ticket" /\ t.answer.about \subseteq Own(c)
           /\ q.ticket \in ToSet(c.tickets) =>
                t.answer.about = {q.ticket} /\ t.entities.ticket = q.ticket
<1> DEFINE t == AnswerTicket(q, c, e)
           wanted == IF q.ticket # None THEN q.ticket ELSE e.ticket
           first == {c.tickets[i] : i \in {j \in DOMAIN c.tickets : j <= 5}}
<1>1. /\ ToSet(c.tickets) \subseteq Own(c) /\ Own(c) \subseteq Number
      /\ None \notin ToSet(c.tickets)
  BY CustomerHas DEF Own
<1>2. "ticket" \in Intents /\ {} \in SUBSET Number
  BY DEF Intents, Choosing
<1>3. t = IF ToSet(c.tickets) = {} THEN Told("ticket", {}, e)
          ELSE IF wanted \in ToSet(c.tickets)
               THEN Told("ticket", {wanted}, [e EXCEPT !.ticket = wanted])
               ELSE Told("ticket", first, [e EXCEPT !.ticket = None])
  BY DEF AnswerTicket, ToSet
<1>4. CASE ToSet(c.tickets) = {}
  <2>1. t = Told("ticket", {}, e)
    BY <1>3, <1>4
  <2>2. QED BY <1>2, <1>4, <2>1, TellsOf
<1>5. CASE wanted \in ToSet(c.tickets)
  <2> DEFINE after == [e EXCEPT !.ticket = wanted]
  <2>1. t = Told("ticket", {wanted}, after)
    BY <1>3, <1>5
  <2>2. {wanted} \in SUBSET Number /\ {wanted} \subseteq Own(c)
    BY <1>1, <1>5
  <2>3. after \in Entities /\ after.ticket = wanted
    BY <2>2 DEF Entities, OrNone
  <2>4. q.ticket \in ToSet(c.tickets) => wanted = q.ticket
    BY <1>1
  <2>5. /\ t \in [answer : Teller, entities : Entities] /\ t.answer.kind = "ticket"
        /\ t.answer.about = {wanted} /\ t.entities = after
    <3> HIDE DEF after, wanted, t
    <3>1. QED BY <1>2, <2>1, <2>2, <2>3, TellsOf
  <2>6. QED BY <2>2, <2>3, <2>4, <2>5
<1>6. CASE ToSet(c.tickets) # {} /\ wanted \notin ToSet(c.tickets)
  <2>1. t = Told("ticket", first, [e EXCEPT !.ticket = None])
    BY <1>3, <1>6
  <2>2. first \subseteq Own(c) /\ first \in SUBSET Number
    BY <1>1 DEF ToSet
  <2>3. [e EXCEPT !.ticket = None] \in Entities
    BY DEF Entities, OrNone
  <2>4. q.ticket \notin ToSet(c.tickets)
    BY <1>1, <1>6
  <2>5. QED BY <1>2, <2>1, <2>2, <2>3, <2>4, TellsOf
<1>7. QED BY <1>4, <1>5, <1>6

\* The others tell of some of the orders, or of the account.
LEMMA ListsAreOwn ==
    ASSUME NEW c \in Customer
    PROVE  /\ AnswerShipping(c) \subseteq Own(c) /\ AnswerRefund(c) \subseteq Own(c)
           /\ AnswerReturnPolicy(c) \subseteq Own(c) /\ AnswerExchange(c) \subseteq Own(c)
           /\ AnswerLicensing(c) \subseteq Own(c) /\ AnswerWarranty(c) \subseteq Own(c)
           /\ AnswerInvoice(c) \subseteq Own(c)
           /\ AnswerBilling(c) \subseteq Own(c) /\ AnswerUpgrade(c) \subseteq Own(c)
           /\ AnswerCancellation(c) \subseteq Own(c) /\ AnswerContact(c) \subseteq Own(c)
           /\ AnswerPricing(c) \subseteq Own(c) /\ AnswerLoyalty(c) \subseteq Own(c)
<1>1. Numbers(c.orders) \subseteq Own(c)
  BY DEF Own
<1>2. \A statuses, n : FirstInStatus(c, statuses, n) \subseteq Numbers(c.orders)
  BY DEF FirstInStatus, Numbers
<1>3. /\ AnswerShipping(c) \subseteq Numbers(c.orders)
      /\ AnswerRefund(c) \subseteq Numbers(c.orders)
      /\ AnswerReturnPolicy(c) \subseteq Numbers(c.orders)
  BY <1>2 DEF AnswerShipping, AnswerRefund, AnswerReturnPolicy
<1>4. /\ AnswerExchange(c) \subseteq Numbers(c.orders)
      /\ AnswerLicensing(c) \subseteq Numbers(c.orders)
      /\ AnswerWarranty(c) \subseteq Numbers(c.orders)
  BY DEF AnswerExchange, AnswerLicensing, AnswerWarranty, Numbers, ToSet
<1>5. AnswerInvoice(c) \subseteq Numbers(c.orders)
  BY DEF AnswerInvoice, FirstNumbers, Numbers
<1>6. /\ AnswerBilling(c) \subseteq Own(c) /\ AnswerUpgrade(c) \subseteq Own(c)
      /\ AnswerCancellation(c) \subseteq Own(c)
  BY DEF Own, AnswerBilling, AnswerUpgrade, AnswerCancellation
<1>7. /\ AnswerContact(c) \subseteq Own(c) /\ AnswerPricing(c) \subseteq Own(c)
      /\ AnswerLoyalty(c) \subseteq Own(c)
  BY DEF Own, AnswerContact, AnswerPricing, AnswerLoyalty, None
<1>8. QED BY <1>1, <1>3, <1>4, <1>5, <1>6, <1>7

\* What the node of an intent tells.
LEMMA NodeTells ==
    ASSUME NEW q \in Question, NEW c \in Customer, NEW e \in Entities,
           NEW intent \in Intents
    PROVE  LET t == AnswerOf(intent, q, c, e)
               own == {s \in ToSet(c.shipments) : s.order = e.order} IN
           /\ t \in [answer : Teller, entities : Entities]
           /\ t.answer.kind = intent /\ t.answer.about \subseteq Own(c)
           /\ intent = "order_status" /\ q.order \in Numbers(c.orders) =>
                t.answer.about = {q.order} /\ t.entities.order = q.order
           /\ intent = "ticket" /\ q.ticket \in ToSet(c.tickets) =>
                t.answer.about = {q.ticket} /\ t.entities.ticket = q.ticket
           /\ intent = "tracking" /\ q.shipments = {} /\ e.order # None /\ own # {} =>
                /\ t.answer.about \subseteq {s.number : s \in own}
                /\ t.answer.about # {} /\ t.entities.order = e.order
           /\ intent = "tracking" /\ q.shipments \cap Numbers(c.shipments) # {} =>
                /\ t.answer.about = {t.entities.tracking}
                /\ t.entities.tracking \in q.shipments
<1> DEFINE t == AnswerOf(intent, q, c, e)
<1>1. CASE intent = "tracking"
  <2>1. t = AnswerTracking(q, c, e)
    BY <1>1 DEF AnswerOf, Policies
  <2>2. QED BY <1>1, <2>1, TrackingTells
<1>2. CASE intent = "order_status"
  <2>1. t = AnswerOrderStatus(q, c, e)
    BY <1>2 DEF AnswerOf, Policies
  <2>2. QED BY <1>2, <2>1, OrderStatusTells
<1>3. CASE intent = "ticket"
  <2>1. t = AnswerTicket(q, c, e)
    BY <1>3 DEF AnswerOf, Policies
  <2>2. QED BY <1>3, <2>1, TicketTells
<1>4. CASE intent \notin {"tracking", "order_status", "ticket"}
  <2>1. \E about \in SUBSET Own(c) : t = Told(intent, about, e)
    <3>1. t \in {Told(intent, a, e) : a \in {AnswerShipping(c), AnswerRefund(c),
                    AnswerReturnPolicy(c), AnswerExchange(c), AnswerLicensing(c),
                    AnswerWarranty(c), AnswerInvoice(c), AnswerBilling(c),
                    AnswerUpgrade(c), AnswerCancellation(c), AnswerContact(c),
                    AnswerPricing(c), AnswerLoyalty(c), {}}}
      <4>1. CASE intent \in Listing
        BY <4>1 DEF AnswerOf, Listing, Policies
      <4>2. CASE intent \in Accounting
        BY <4>2 DEF AnswerOf, Accounting, Policies
      <4>3. CASE intent \in Policies \cup {"general"}
        BY <4>3 DEF AnswerOf, Policies
      <4>4. QED BY <1>4, <4>1, <4>2, <4>3 DEF Intents, Choosing
    <3>2. QED BY <3>1, ListsAreOwn
  <2>2. PICK about \in SUBSET Own(c) : t = Told(intent, about, e)
    BY <2>1
  <2>3. about \in SUBSET Number
    BY CustomerHas
  <2>4. QED BY <1>4, <2>2, <2>3, TellsOf
<1>5. QED BY <1>1, <1>2, <1>3, <1>4

-----------------------------------------------------------------------------
\* One step of the graph.
LEMMA TurnType ==
    ASSUME AnTypeOK, node # "idle"
    PROVE  /\ turn \in Turn /\ turn.question \in Question /\ turn.customer \in Customer
           /\ turn.before \in Entities /\ turn.entities \in Entities
           /\ turn.last \in Intents \cup {None} /\ turn.docs \in BOOLEAN
           /\ turn.intent \in Intents \cup {None, "greeting"}
BY TalkIsTyped DEF AnTypeOK, Turn

LEMMA HintType ==
    ASSUME NEW a, a.kind \in Intents \cup {None, "greeting", "no_info"}
    PROVE  HintsOf(a) \subseteq Intents \cup {None}
<1> DEFINE words == {"contact", "refund", "shipping", "order_status", "tracking", "ticket",
                     "billing", "privacy", "pricing", "nonprofit", "return_policy"}
<1>1. words \subseteq Intents
  BY DEF Intents, Choosing, Listing, Accounting, Policies
<1>2. \/ HintsOf(a) \subseteq words \cup {None} \cup Suggested
      \/ HintsOf(a) = {a.kind} /\ a.kind \notin {"greeting", "no_info"}
  BY DEF HintsOf
<1> HIDE DEF words
<1>3. QED BY <1>1, <1>2, SuggestedAreIntents DEF None

LEMMA RememberedType ==
    ASSUME NEW s \in Seq(Intents \cup {None}), Len(s) <= HistoryTurns,
           NEW hint \in Intents \cup {None}
    PROVE  /\ Remembered(s, hint) \in Seq(Intents \cup {None})
           /\ Len(Remembered(s, hint)) <= HistoryTurns
<1> DEFINE S == Intents \cup {None}
           t == Append(s, hint)
<1>1. t \in Seq(S) /\ Len(t) = Len(s) + 1 /\ Len(s) \in Nat /\ t # <<>>
  BY AppendProperties, LenProperties
<1>2. Tail(t) \in Seq(S) /\ Len(Tail(t)) = Len(t) - 1
  BY <1>1, HeadTailProperties
<1>3. Remembered(s, hint) = IF Len(t) <= HistoryTurns THEN t ELSE Tail(t)
  BY DEF Remembered
<1> HIDE DEF t
<1>4. QED BY <1>1, <1>2, <1>3, AnswerBounds

LEMMA AskKeeps ==
    ASSUME AnTypeOK, NEW q \in Questions, NEW c \in Customers, Ask(q, c)
    PROVE  AnInv'
<1>1. q \in Question /\ q.direct \in Intents \cup {None}
  BY TalkIsTyped DEF Question
<1>2. hints' \in Seq(Intents \cup {None}) /\ Len(hints') <= HistoryTurns
  BY <1>1, RememberedType DEF Ask, AnTypeOK
<1>3. PICK last \in {LastIntent(hints'), None}, e \in {entities, Nothing} :
        turn' = [question |-> q, customer |-> c, last |-> last, before |-> e,
                 entities |-> e, docs |-> FALSE, intent |-> None, answer |-> NoAnswer]
  BY DEF Ask
<1>4. last \in Intents \cup {None} /\ e \in Entities
  BY <1>2, LastIntentType DEF AnTypeOK, Nothing, Entities, OrNone
<1>5. turn' \in Turn
  BY <1>3, <1>4 DEF Turn, NoAnswer
<1>6. node' = "classify" /\ UNCHANGED entities /\ asked' \in 0..MaxQuestions
  BY AnswerBounds DEF Ask, AnTypeOK
<1>7. AnTypeOK'
  BY <1>2, <1>5, <1>6 DEF AnTypeOK, Node
<1>8. QED BY <1>6, <1>7
         DEF AnInv, AnswersAreOwn, NamedIsAnswered, PronounKeepsOrder, RoutedAsAsked,
             HasAnswer

\* Before there is an answer nothing is said of it.
LEMMA BecomesTyped ==
    ASSUME AnTypeOK, NEW next \in Node, NEW t \in Turn, Becomes(next, t)
    PROVE  AnTypeOK'
BY DEF Becomes, AnTypeOK

LEMMA NotYetSettled ==
    ASSUME node' \notin {"answer", "generate", "done"}, AnTypeOK',
           node' = "respond_greeting" => turn'.question.greeting
    PROVE  AnInv'
BY DEF AnInv, AnswersAreOwn, NamedIsAnswered, PronounKeepsOrder, RoutedAsAsked,
       HasAnswer

\* An answer of no kind about nothing settles what it is asked of nothing.
LEMMA UntoldSettles ==
    ASSUME AnTypeOK', node' \in {"generate", "done"},
           turn'.answer.kind \in {None, "greeting"}, turn'.answer.about = {},
           node' = "done" => turn'.answer # NoAnswer,
           turn'.answer.by = "unavailable" \/ PronounKeepsOrder'
    PROVE  AnInv'
<1>1. AnswersAreOwn' /\ RoutedAsAsked'
  BY DEF AnswersAreOwn, RoutedAsAsked
<1>2. turn'.answer.kind \notin {"order_status", "ticket", "tracking"}
  BY DEF None
<1>3. NamedIsAnswered'
  BY <1>2 DEF NamedIsAnswered
<1>4. PronounKeepsOrder'
  BY DEF PronounKeepsOrder, HasAnswer
<1>5. QED BY <1>1, <1>3, <1>4 DEF AnInv

LEMMA ClassifyKeeps == ASSUME AnInv, Classify \/ Retrieve PROVE AnInv'
<1>1. AnTypeOK /\ turn \in Turn /\ node # "idle"
  BY TurnType DEF AnInv, Classify, Retrieve
<1>2. \A found \in BOOLEAN : [turn EXCEPT !.docs = found] \in Turn
  BY <1>1 DEF Turn
<1>3. [turn EXCEPT !.intent = "greeting"] \in Turn
  BY <1>1 DEF Turn
<1>4. \E next \in {"respond_greeting", "route", "retrieve"}, t \in Turn :
        Becomes(next, t) /\ (next = "respond_greeting" => t.question.greeting)
  BY <1>1, <1>2, <1>3 DEF Classify, Retrieve, Turn
<1>5. PICK next \in {"respond_greeting", "route", "retrieve"}, t \in Turn :
        Becomes(next, t) /\ (next = "respond_greeting" => t.question.greeting)
  BY <1>4
<1>6. AnTypeOK' /\ node' = next /\ turn' = t
  BY <1>1, <1>5, BecomesTyped DEF Node, Becomes
<1>7. QED BY <1>5, <1>6, NotYetSettled

LEMMA RouteKeeps == ASSUME AnInv, Route PROVE AnInv'
<1>1. AnTypeOK /\ turn \in Turn /\ node # "idle"
  BY TurnType DEF AnInv, Route
<1> DEFINE intent == IntentOf(turn.question, turn.before, turn.last)
           t == [turn EXCEPT !.intent = intent]
<1>2. intent \in Intents
  BY <1>1, TurnType, IntentType
<1>3. t \in Turn /\ t.question = turn.question /\ t.before = turn.before /\ t.last = turn.last
      /\ t.intent = intent
  BY <1>1, <1>2 DEF Turn
<1>4. Becomes("answer", t)
  BY DEF Route
<1>5. AnTypeOK' /\ node' = "answer" /\ turn' = t
  BY <1>1, <1>3, <1>4, BecomesTyped DEF Node, Becomes
<1>6. RoutedAsAsked'
  BY <1>3, <1>5 DEF RoutedAsAsked
<1>7. QED BY <1>5, <1>6
         DEF AnInv, AnswersAreOwn, NamedIsAnswered, PronounKeepsOrder, HasAnswer

LEMMA GreetingKeeps == ASSUME AnInv, RespondGreeting PROVE AnInv'
<1>1. AnTypeOK /\ turn \in Turn /\ node # "idle" /\ turn.question.greeting
  BY TurnType DEF AnInv, RoutedAsAsked, RespondGreeting
<1>2. PICK a \in {NoAnswer, [NoAnswer EXCEPT !.by = "llm"],
                  [NoAnswer EXCEPT !.by = "node", !.kind = "greeting"]} :
        Becomes("generate", [turn EXCEPT !.answer = a])
  BY DEF RespondGreeting
<1> DEFINE t == [turn EXCEPT !.answer = a]
<1>3. /\ a.kind \in {None, "greeting"} /\ a.about = {}
      /\ a \in [by : {"nobody", "node", "llm", "fallback", "unavailable"},
               kind : Intents \cup {None, "greeting", "no_info"}, about : SUBSET Number]
  <2>1. CASE a = NoAnswer
    BY <2>1 DEF NoAnswer
  <2>2. CASE a = [NoAnswer EXCEPT !.by = "llm"]
    BY <2>2 DEF NoAnswer
  <2>3. CASE a = [NoAnswer EXCEPT !.by = "node", !.kind = "greeting"]
    BY <2>3 DEF NoAnswer
  <2>4. QED BY <1>2, <2>1, <2>2, <2>3
<1>4. t \in Turn /\ t.answer = a /\ t.question = turn.question
  BY <1>1, <1>3 DEF Turn
<1>5. AnTypeOK' /\ node' = "generate" /\ turn' = t
  BY <1>1, <1>2, <1>4, BecomesTyped DEF Node, Becomes
<1>6. PronounKeepsOrder'
  BY <1>1, <1>4, <1>5 DEF PronounKeepsOrder
<1>7. QED BY <1>3, <1>4, <1>5, <1>6, UntoldSettles

LEMMA AnswerKeeps == ASSUME AnInv, AnswerNode PROVE AnInv'
<1> DEFINE q == turn.question
           c == turn.customer
           e == turn.before
           told == AnswerOf(turn.intent, q, c, e)
           answer == IF turn.intent = "general" /\ ~turn.docs
                     THEN [told.answer EXCEPT !.kind = "no_info"] ELSE told.answer
           t == [turn EXCEPT !.answer = answer, !.entities = told.entities]
           own == {s \in ToSet(c.shipments) : s.order = e.order}
<1>1. /\ AnTypeOK /\ turn \in Turn /\ node = "answer"
      /\ q \in Question /\ c \in Customer /\ e \in Entities /\ turn.last \in Intents \cup {None}
      /\ turn.intent = IntentOf(q, e, turn.last)
  BY TurnType DEF AnInv, RoutedAsAsked, AnswerNode
<1>2. /\ turn.intent \in Intents
      /\ q.pronoun /\ q.followUps = <<>> /\ e.order # None => turn.intent = "tracking"
  BY <1>1, IntentType
<1>3. /\ told \in [answer : Teller, entities : Entities]
      /\ told.answer.kind = turn.intent /\ told.answer.about \subseteq Own(c)
      /\ turn.intent = "order_status" /\ q.order \in Numbers(c.orders) =>
           told.answer.about = {q.order} /\ told.entities.order = q.order
      /\ turn.intent = "ticket" /\ q.ticket \in ToSet(c.tickets) =>
           told.answer.about = {q.ticket} /\ told.entities.ticket = q.ticket
      /\ turn.intent = "tracking" /\ q.shipments = {} /\ e.order # None /\ own # {} =>
           /\ told.answer.about \subseteq {s.number : s \in own}
           /\ told.answer.about # {} /\ told.entities.order = e.order
      /\ turn.intent = "tracking" /\ q.shipments \cap Numbers(c.shipments) # {} =>
           /\ told.answer.about = {told.entities.tracking}
           /\ told.entities.tracking \in q.shipments
  BY <1>1, <1>2, NodeTells
<1> HIDE DEF told
<1>4. /\ answer.by = "node" /\ answer.about = told.answer.about
      /\ answer.kind \in Intents \cup {"no_info"}
      /\ answer.kind \in {"order_status", "ticket", "tracking"} => answer.kind = turn.intent
      /\ answer \in [by : {"nobody", "node", "llm", "fallback", "unavailable"},
                     kind : Intents \cup {None, "greeting", "no_info"}, about : SUBSET Number]
  BY <1>2, <1>3 DEF Teller
<1> HIDE DEF answer
<1>5. /\ t \in Turn /\ t.answer = answer /\ t.entities = told.entities
      /\ t.question = q /\ t.customer = c /\ t.before = e
  BY <1>1, <1>3, <1>4 DEF Turn
<1>6. AnTypeOK' /\ node' = "generate" /\ turn' = t
  <2>1. Becomes("generate", t)
    BY DEF AnswerNode, told, answer
  <2>2. QED BY <1>1, <1>5, <2>1, BecomesTyped DEF Node, Becomes
<1> HIDE DEF t
<1>7. AnswersAreOwn' /\ RoutedAsAsked'
  BY <1>3, <1>4, <1>5, <1>6 DEF AnswersAreOwn, RoutedAsAsked
<1>8. NamedIsAnswered'
  BY <1>3, <1>4, <1>5, <1>6 DEF NamedIsAnswered
<1>9. PronounKeepsOrder'
  BY <1>2, <1>3, <1>4, <1>5, <1>6 DEF PronounKeepsOrder
<1>10. QED BY <1>6, <1>7, <1>8, <1>9 DEF AnInv

LEMMA GenerateKeeps == ASSUME AnInv, Generate PROVE AnInv'
<1>1. AnTypeOK /\ turn \in Turn /\ node = "generate"
  BY TurnType DEF AnInv, Generate
<1>2. CASE turn.answer # NoAnswer
  <2>1. Becomes("done", turn)
    BY <1>2 DEF Generate
  <2>2. AnTypeOK' /\ node' = "done" /\ turn' = turn
    BY <1>1, <2>1, BecomesTyped DEF Node, Becomes
  <2>3. QED BY <1>1, <1>2, <2>2
    DEF AnInv, AnswersAreOwn, NamedIsAnswered, PronounKeepsOrder, RoutedAsAsked,
        HasAnswer
<1>3. CASE turn.answer = NoAnswer
  <2>1. PICK a \in {[NoAnswer EXCEPT !.by = "llm"], [NoAnswer EXCEPT !.by = "unavailable"],
                    [NoAnswer EXCEPT !.by = "fallback"]} :
          Becomes("done", [turn EXCEPT !.answer = a])
    BY <1>3 DEF Generate
  <2> DEFINE t == [turn EXCEPT !.answer = a]
  <2>2. a.kind = None /\ a.about = {} /\ a # NoAnswer
    BY DEF NoAnswer
  <2>3. /\ t \in Turn /\ t.answer = a /\ t.question = turn.question
        /\ t.customer = turn.customer /\ t.before = turn.before
    BY <1>1 DEF Turn, NoAnswer
  <2>4. AnTypeOK' /\ node' = "done" /\ turn' = t
    BY <1>1, <2>1, <2>3, BecomesTyped DEF Node, Becomes
  <2>5. turn.answer.about = {} /\ HasAnswer /\ PronounKeepsOrder
    BY <1>1, <1>3 DEF NoAnswer, HasAnswer, AnInv
  <2>6. PronounKeepsOrder'
    BY <2>3, <2>4, <2>5 DEF PronounKeepsOrder
  <2>7. QED BY <2>2, <2>3, <2>4, <2>6, UntoldSettles
<1>4. QED BY <1>2, <1>3

LEMMA FailsKeeps == ASSUME AnInv, GraphFails PROVE AnInv'
<1> DEFINE a == [NoAnswer EXCEPT !.by = "unavailable"]
           t == [turn EXCEPT !.answer = a, !.entities = Nothing]
<1>1. AnTypeOK /\ turn \in Turn
  BY TurnType DEF AnInv, GraphFails
<1>2. a.kind = None /\ a.about = {} /\ a.by = "unavailable" /\ a # NoAnswer
  BY DEF NoAnswer
<1>3. t \in Turn /\ t.answer = a
  BY <1>1 DEF Turn, NoAnswer, Nothing, Entities, OrNone
<1>4. AnTypeOK' /\ node' = "done" /\ turn' = t
  <2>1. Becomes("done", t)
    BY DEF GraphFails
  <2>2. QED BY <1>1, <1>3, <2>1, BecomesTyped DEF Node, Becomes
<1>5. QED BY <1>2, <1>3, <1>4, UntoldSettles

LEMMA FinishKeeps == ASSUME AnInv, Finish PROVE AnInv'
<1>1. AnTypeOK /\ turn \in Turn /\ node = "done" /\ turn.entities \in Entities
  BY TurnType DEF AnInv, Finish
<1>2. turn.answer.kind \in Intents \cup {None, "greeting", "no_info"}
  BY <1>1 DEF Turn
<1>3. HintsOf(turn.answer) \subseteq Intents \cup {None}
  BY <1>2, HintType
<1>4. hints' \in Seq(Intents \cup {None}) /\ Len(hints') <= HistoryTurns
  BY <1>1, <1>3, RememberedType DEF Finish, AnTypeOK
<1>5. entities' \in Entities /\ node' = "idle" /\ asked' = asked
  BY <1>1 DEF Finish, AnTypeOK
<1>6. AnTypeOK'
  BY <1>1, <1>4, <1>5 DEF AnTypeOK, Node
<1>7. QED BY <1>5, <1>6, NotYetSettled

LEMMA AnNextInv == AnInv /\ [AnNext]_anvars => AnInv'
<1> SUFFICES ASSUME AnInv, [AnNext]_anvars PROVE AnInv'
  OBVIOUS
<1>1. CASE UNCHANGED anvars
  BY <1>1 DEF anvars, AnInv, AnTypeOK, AnswersAreOwn, NamedIsAnswered, PronounKeepsOrder,
              RoutedAsAsked, HasAnswer
<1>2. ASSUME NEW q \in Questions, NEW c \in Customers, Ask(q, c) PROVE AnInv'
  BY <1>2, AskKeeps DEF AnInv
<1>3. QED BY <1>1, <1>2, ClassifyKeeps, GreetingKeeps, RouteKeeps, AnswerKeeps,
             GenerateKeeps, FailsKeeps, FinishKeeps DEF AnNext

LEMMA AnInitInv == AnInit => AnInv
<1> SUFFICES ASSUME AnInit PROVE AnInv
  OBVIOUS
<1>1. hints \in Seq(Intents \cup {None}) /\ Len(hints) = 0
  BY EmptySeq DEF AnInit
<1>2. AnTypeOK
  BY <1>1, AnswerBounds DEF AnInit, AnTypeOK, Node, Nothing, Entities, OrNone
<1>3. QED BY <1>2 DEF AnInit, AnInv, AnswersAreOwn, NamedIsAnswered, PronounKeepsOrder,
                      RoutedAsAsked, HasAnswer

-----------------------------------------------------------------------------
\* The inductive invariant of a conversation.
THEOREM TalkInvariant == AnSpec => []AnInv
BY AnInitInv, AnNextInv, PTL DEF AnSpec

\* Whatever fails, the customer is told something, and nothing of another's.
THEOREM AnswersAlwaysOwn == AnSpec => []AnswersAreOwn
<1>1. AnInv => AnswersAreOwn
  BY DEF AnInv
<1>2. QED BY <1>1, TalkInvariant, PTL

\* The order, ticket or shipment that a question of its kind names is the one
\* it is answered about.
THEOREM NamedAlwaysAnswered == AnSpec => []NamedIsAnswered
<1>1. AnInv => NamedIsAnswered
  BY DEF AnInv
<1>2. QED BY <1>1, TalkInvariant, PTL

\* A question that says `it' stays with the order under discussion.
THEOREM PronounsKeepOrder == AnSpec => []PronounKeepsOrder
<1>1. AnInv => PronounKeepsOrder
  BY DEF AnInv
<1>2. QED BY <1>1, TalkInvariant, PTL

-----------------------------------------------------------------------------
\* Side by side, as module MCConversation runs them, both keep their types.
THEOREM TalkKeepsTypes == TalkSpec => []TalkTypeOK
<1>1. TalkInit => AnInv /\ HInv
  BY AnInitInv, ClientInit DEF TalkInit
<1>2. AnInv /\ HInv /\ [TalkNext]_<<anvars, hvars, part>> => AnInv' /\ HInv'
  <2>1. [TalkNext]_<<anvars, hvars, part>> => [AnNext]_anvars /\ [HNext]_hvars
    BY DEF TalkNext
  <2>2. QED BY <2>1, AnNextInv, ClientStep
<1>3. AnInv /\ HInv => TalkTypeOK
  BY DEF AnInv, HInv, TalkTypeOK
<1>4. QED BY <1>1, <1>2, <1>3, PTL DEF TalkSpec
=============================================================================
