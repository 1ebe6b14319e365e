----------------------------- MODULE ChatClient -----------------------------
(***************************************************************************)
(* The chat of the React frontend: the hook useChat with streamChat of     *)
(* api/client.ts.  What the customer clicks runs to its first await, and   *)
(* goes on when the server has answered; meanwhile other clicks are taken. *)
(* A click reads the state as last rendered.                               *)
(*                                                                         *)
(* The server is what its answers can be: a request fails or not, and a    *)
(* stream of events ends with `done', or without (an `error' event, or the *)
(* connection closed), or breaks off.                                      *)
(***************************************************************************)
EXTENDS Naturals, Sequences, FiniteSets

CONSTANTS ChatSessions, Streams, Calls, NoSession, NoStream, NoCall

ASSUME NoneOfThem == NoSession \notin ChatSessions /\ NoStream \notin Streams

VARIABLES
    made,      \* the sessions there are on the server
    current,   \* currentSessionId
    shown,     \* messages
    streaming, \* isStreaming
    abortRef,  \* the stream abortRef.current would abort
    streams,   \* streams[x]: the call x of streamChat
    calls,     \* calls[c]: a click that awaits the server
    disturbed  \* something has come between, see Disturbs and Breaks

hvars == <<made, current, shown, streaming, abortRef, streams, calls, disturbed>>

\* A message, whose session it is of, which stream it was made for, and the
\* streams whose tokens or error it holds.
Message == [role : {"user", "assistant"}, of : ChatSessions,
            for : Streams \cup {NoStream}, words : SUBSET Streams]

\* A click that awaits the server, with what it remembers of when it was made.
Call == [kind : {"send", "new"}] \cup [kind : {"load"}, of : ChatSessions]
        \cup [kind : {"delete"}, of : ChatSessions, here : BOOLEAN]

ASSUME NoCallIsNone == NoCall \notin Call

\* told: onComplete or onError has been called.
NotUsed == [stage |-> "unused", aborted |-> FALSE, told |-> FALSE]

HTypeOK ==
    /\ made \subseteq ChatSessions
    /\ current \in ChatSessions \cup {NoSession}
    /\ shown \in Seq(Message)
    /\ streaming \in BOOLEAN
    /\ abortRef \in Streams \cup {NoStream}
    /\ streams \in [Streams -> [stage : {"unused", "fetching", "reading", "ended"},
                                aborted : BOOLEAN, told : BOOLEAN]]
    /\ calls \in [Calls -> Call \cup {NoCall}]
    /\ disturbed \in BOOLEAN

HInit ==
    /\ made \in SUBSET ChatSessions
    /\ current = NoSession /\ shown = <<>>
    /\ streaming = FALSE /\ abortRef = NoStream
    /\ streams = [x \in Streams |-> NotUsed]
    /\ calls = [c \in Calls |-> NoCall]
    /\ disturbed = FALSE

-----------------------------------------------------------------------------
Coming == {x \in Streams : streams[x].stage \in {"fetching", "reading"} /\ ~streams[x].told}
Waiting == {c \in Calls : calls[c] # NoCall}

\* A click awaits the server.  Which of the free names a call, a stream or a
\* session of the server's gets makes no difference.
Awaits(call) ==
    /\ Waiting # Calls
    /\ calls' = [calls EXCEPT ![CHOOSE c \in Calls \ Waiting : TRUE] = call]

\* createSession has answered: the customer is in the new session.
Creates ==
    /\ made # ChatSessions
    /\ current' = CHOOSE s \in ChatSessions \ made : TRUE
    /\ made' = made \cup {current'}

Returns(c) == calls' = [calls EXCEPT ![c] = NoCall]

\* abortRef.current?.()
Aborted == IF abortRef = NoStream THEN streams
           ELSE [streams EXCEPT ![abortRef].aborted = TRUE]

Unused == {x \in Streams : streams[x].stage = "unused"}

\* The part of send after ensureSession: both messages are shown, and the
\* stream takes the place of what abortRef would have aborted.
Starts(s) ==
    /\ Unused # {}
    /\ LET x == CHOOSE y \in Unused : TRUE
           says(r) == [role |-> r, of |-> s, for |-> x, words |-> {}] IN
       /\ streams' = [streams EXCEPT ![x].stage = "fetching"]
       /\ shown' = shown \o <<says("user"), says("assistant")>>
       /\ streaming' = TRUE /\ abortRef' = x

\* send, which a stream that is on refuses
SendAnyway ==          \* mutant: isStreaming not looked at
    /\ disturbed' = (disturbed \/ Waiting # {})
    /\ \/ /\ current # NoSession /\ Starts(current)
          /\ UNCHANGED <<made, current, calls>>
       \/ /\ current = NoSession /\ Awaits([kind |-> "send"])
          /\ UNCHANGED <<made, current, shown, streaming, abortRef, streams>>

Send ==
    /\ ~streaming
    /\ disturbed' = (disturbed \/ Waiting # {})
    /\ \/ /\ current # NoSession /\ Starts(current)
          /\ UNCHANGED <<made, current, calls>>
       \/ /\ current = NoSession /\ Awaits([kind |-> "send"])
          /\ UNCHANGED <<made, current, shown, streaming, abortRef, streams>>

\* createSession has answered ensureSession: send goes on, whatever has been
\* clicked meanwhile.
SendGoesOn(c) ==
    /\ calls[c] = [kind |-> "send"] /\ Returns(c)
    /\ Creates /\ Starts(current')
    /\ UNCHANGED disturbed

\* The customer leaves while an answer is coming or a click is waiting.
Disturbs == disturbed' = (disturbed \/ Waiting # {} \/ Coming # {})

\* switchSession
KeepsMessages(s) ==    \* mutant: setMessages([]) forgotten
    /\ s \in made /\ Awaits([kind |-> "load", of |-> s])
    /\ streams' = Aborted /\ current' = s /\ Disturbs
    /\ UNCHANGED <<made, shown, streaming, abortRef>>

SwitchSession(s) ==
    /\ s \in made /\ Awaits([kind |-> "load", of |-> s])
    /\ streams' = Aborted /\ current' = s /\ shown' = <<>> /\ Disturbs
    /\ UNCHANGED <<made, streaming, abortRef>>

\* and its history, shown in whatever session the customer is by then; a
\* history that is empty, or cannot be had, shows nothing
HistoryComes(c) ==
    /\ calls[c] # NoCall /\ calls[c].kind = "load" /\ Returns(c)
    /\ LET says(r) == [role |-> r, of |-> calls[c].of, for |-> NoStream, words |-> {}]
       IN  shown' \in {<<>>, <<says("user"), says("assistant")>>}
    /\ UNCHANGED <<made, current, streaming, abortRef, streams, disturbed>>

\* newSession, which first aborts, and when the session is made goes to it
NewSession ==
    /\ Awaits([kind |-> "new"])
    /\ streams' = Aborted /\ Disturbs
    /\ UNCHANGED <<made, current, shown, streaming, abortRef>>

NewSessionComes(c) ==
    /\ calls[c] = [kind |-> "new"] /\ Returns(c)
    /\ Creates
    /\ shown' = <<>>
    /\ UNCHANGED <<streaming, abortRef, streams, disturbed>>

\* deleteSessionById: whether the session is the one shown is what it was at
\* the click; a stream of it goes on.
DeleteSession(s) ==
    /\ s \in made
    /\ Awaits([kind |-> "delete", of |-> s, here |-> current = s])
    /\ Disturbs
    /\ UNCHANGED <<made, current, shown, streaming, abortRef, streams>>

SessionIsDeleted(c) ==
    /\ calls[c] # NoCall /\ calls[c].kind = "delete" /\ Returns(c)
    /\ made' = made \ {calls[c].of}
    /\ IF calls[c].here THEN current' = NoSession /\ shown' = <<>>
                        ELSE UNCHANGED <<current, shown>>
    /\ UNCHANGED <<streaming, abortRef, streams, disturbed>>

\* A request to make or delete a session fails: the click comes to nothing.
CallFails(c) ==
    /\ calls[c] # NoCall /\ calls[c].kind \in {"send", "new", "delete"} /\ Returns(c)
    /\ UNCHANGED <<made, current, shown, streaming, abortRef, streams, disturbed>>

-----------------------------------------------------------------------------
\* onEvent and onError write into the last message shown, if that is an
\* assistant's.
Written(x) ==
    IF shown # <<>> /\ shown[Len(shown)].role = "assistant"
    THEN [shown EXCEPT ![Len(shown)].words = @ \cup {x}] ELSE shown

Moves(x, stage, told) ==
    streams' = [streams EXCEPT ![x].stage = stage, ![x].told = @ \/ told]

\* The response has come; an aborted stream does not begin to read.
FetchReturns(x) ==
    /\ streams[x].stage = "fetching"
    /\ Moves(x, IF streams[x].aborted THEN "ended" ELSE "reading", FALSE)
    /\ UNCHANGED <<made, current, shown, streaming, abortRef, calls, disturbed>>

\* A chunk has been read, with tokens and perhaps `done': all of it is taken,
\* aborted or not, and the loop is left when aborted.
ChunkWithoutComplete(x, done) ==       \* mutant: onComplete not called
    /\ streams[x].stage = "reading" /\ ~streams[x].told
    /\ shown' = Written(x)
    /\ Moves(x, IF streams[x].aborted THEN "ended" ELSE "reading", done)
    /\ UNCHANGED <<made, current, streaming, abortRef, calls, disturbed>>

Chunk(x, done) ==
    /\ streams[x].stage = "reading" /\ ~streams[x].told
    /\ shown' = Written(x)
    /\ streaming' = (streaming /\ ~done)
    /\ Moves(x, IF streams[x].aborted THEN "ended" ELSE "reading", done)
    /\ UNCHANGED <<made, current, abortRef, calls, disturbed>>

\* The stream is at its end, with or without a `done' before: no callback.
Closes(x) ==
    /\ streams[x].stage = "reading"
    /\ Moves(x, "ended", FALSE)
    /\ UNCHANGED <<made, current, shown, streaming, abortRef, calls, disturbed>>

\* The request is refused (HTTP 4xx, 5xx), or it or a read fails: onError,
\* but for a failure of an aborted one.  It may come after `done', when the next
\* stream has begun: then it ends the streaming of that.
Breaks(x, refused) ==
    /\ streams[x].stage \in IF refused THEN {"fetching"} ELSE {"fetching", "reading"}
    /\ IF streams[x].aborted /\ ~refused
       THEN Moves(x, "ended", FALSE) /\ UNCHANGED <<shown, streaming>>
       ELSE Moves(x, "ended", TRUE) /\ streaming' = FALSE /\ shown' \in {shown, Written(x)}
    /\ disturbed' = (disturbed \/ streams[x].told)
    /\ UNCHANGED <<made, current, abortRef, calls>>

StreamStep(x) ==
    \/ FetchReturns(x) \/ Closes(x)
    \/ \E b \in BOOLEAN : Chunk(x, b) \/ Breaks(x, b)

Click ==
    \/ Send \/ NewSession
    \/ \E s \in ChatSessions : SwitchSession(s) \/ DeleteSession(s)

HNext ==
    \/ Click
    \/ \E c \in Calls : \/ SendGoesOn(c) \/ HistoryComes(c) \/ NewSessionComes(c)
                        \/ SessionIsDeleted(c) \/ CallFails(c)
    \/ \E x \in Streams : StreamStep(x)

HSpec == HInit /\ [][HNext]_hvars

-----------------------------------------------------------------------------
\* As long as the customer leaves no session while an answer is coming, does
\* not click while a click is waiting, and no stream breaks after its `done', a
\* message holds no words but those of the stream it was made for, and is one
\* of the session the customer is in: that send refuses while streaming is
\* enough, and an answer to an earlier click, or one to a session deleted
\* since, replaces nothing.
\* (Otherwise a late chunk is written into another session's last message.)
ShownIsOwn ==
    ~disturbed =>
      \A i \in DOMAIN shown :
        shown[i].words \subseteq {shown[i].for} /\ shown[i].of = current

\* While a stream is on that nobody aborted and no other has taken the place
\* of, isStreaming says so, so that a second one is not begun.
StreamingIsKnown ==
    ~disturbed /\ Coming # {} => streaming /\ Coming = {abortRef}

\* What makes these two inductive: undisturbed, one click at most is waiting,
\* with no stream on, and it is about the session the customer is in; and a
\* stream that is on was made for the last message shown.
ClicksInTurn ==
    \A c \in Waiting :
      /\ Waiting = {c} /\ Coming = {}
      /\ calls[c].kind = "send" => current = NoSession
      /\ calls[c].kind = "load" => calls[c].of = current

WritesToItsOwn ==
    Coming # {} => shown # <<>> /\ shown[Len(shown)].for = abortRef

HInv ==
    /\ HTypeOK /\ ShownIsOwn /\ StreamingIsKnown
    /\ ~disturbed => ClicksInTurn /\ WritesToItsOwn

\* Whatever has come between, isStreaming, which refuses the next question, is
\* that of the latest stream: once this has reported `done' or an error, the
\* customer can send again.  (A stream that ends without `done', or that the
\* customer has left, reports nothing: the chat stays locked.)
LockIsOfLatest ==
    streaming => abortRef # NoStream /\ ~streams[abortRef].told
=============================================================================
