------------------------------- MODULE Sockets -------------------------------
(***************************************************************************)
(* The notification sockets: the class ConnectionManager of                *)
(* enterprise/websocket/manager.py, the handler of /ws/notifications that  *)
(* registers a user's sockets in it, and POST /notifications/send, which   *)
(* awaits one send after the other to a copy of the user's sockets.        *)
(*                                                                         *)
(* All of it runs on one event loop; a step is what runs between two       *)
(* awaits.  A handler ends when its client has gone, and also on any other *)
(* exception in its loop, while the client is there: JSON that is a list   *)
(* has no get.  The sockets of /ws/chat have a table of their own, not     *)
(* modelled.                                                               *)
(***************************************************************************)
EXTENDS Naturals, FiniteSets

CONSTANTS Users, Sockets,
          Sends,        \* calls of send_to_user
          Nobody        \* the owner of a socket not yet used

ASSUME NobodyIsNoUser == Nobody \notin Users

VARIABLES
    table,     \* _connections: a defaultdict, here a function from its keys
    owner,     \* owner[w]: the user of socket w
    handler,   \* handler[w]: where the handler of w is
    left,      \* the sockets whose client has gone away
    send,      \* send[x]: the call x of send_to_user
    reached    \* reached[x]: the sockets whose client was sent x's message

wvars == <<table, owner, handler, left, send, reached>>

\* "new" before accept, "looping" in `async for', "ended" after the finally
Handler == {"new", "accepting", "looping", "ended"}

NotSent == [stage |-> "idle", user |-> Nobody, all |-> {}, rest |-> {}]

WTypeOK ==
    /\ DOMAIN table \subseteq Users
    /\ table \in [DOMAIN table -> SUBSET Sockets]
    /\ owner \in [Sockets -> Users \cup {Nobody}]
    /\ handler \in [Sockets -> Handler]
    /\ left \subseteq Sockets
    /\ send \in [Sends -> [stage : {"idle", "sending", "done"},
                           user : Users \cup {Nobody},
                           all : SUBSET Sockets, rest : SUBSET Sockets]]
    /\ reached \in [Sends -> SUBSET Sockets]

WInit ==
    /\ table = <<>>
    /\ owner = [w \in Sockets |-> Nobody]
    /\ handler = [w \in Sockets |-> "new"]
    /\ left = {}
    /\ send = [x \in Sends |-> NotSent]
    /\ reached = [x \in Sends |-> {}]

\* _connections[u], which makes the key when it is missing; and with the set
\* under it replaced.
Of(u) == IF u \in DOMAIN table THEN table[u] ELSE {}
Under(u, set) == [v \in DOMAIN table \cup {u} |-> IF v = u THEN set ELSE table[v]]

\* The handler has decoded the token and calls connect, which awaits accept.
Handshake(w, u) ==
    /\ handler[w] = "new"
    /\ owner' = [owner EXCEPT ![w] = u]
    /\ handler' = [handler EXCEPT ![w] = "accepting"]
    /\ UNCHANGED <<table, left, send, reached>>

\* accept has returned: the socket is registered before anything else runs.
Connect(w) ==
    /\ handler[w] = "accepting"
    /\ table' = Under(owner[w], Of(owner[w]) \cup {w})
    /\ handler' = [handler EXCEPT ![w] = "looping"]
    /\ UNCHANGED <<owner, left, send, reached>>

\* accept raises when the client has gone: connect is outside the try.
AcceptFails(w) ==
    /\ handler[w] = "accepting" /\ w \in left
    /\ handler' = [handler EXCEPT ![w] = "ended"]
    /\ UNCHANGED <<table, owner, left, send, reached>>

\* The client goes away; the handler learns of it later.
ClientLeaves(w) ==
    /\ handler[w] \in {"accepting", "looping"} /\ w \notin left
    /\ left' = left \cup {w}
    /\ UNCHANGED <<table, owner, handler, send, reached>>

DropsUser(w) ==        \* mutant: the emptiness check forgotten
    /\ handler[w] = "looping"
    /\ table' = [u \in DOMAIN table \ {owner[w]} |-> table[u]]
    /\ handler' = [handler EXCEPT ![w] = "ended"]
    /\ UNCHANGED <<owner, left, send, reached>>

\* The loop ends, because the client has left or by an exception of its body;
\* the finally calls disconnect: the key goes with the user's last socket.
Disconnect(w) ==
    LET others == Of(owner[w]) \ {w} IN
    /\ handler[w] = "looping"
    /\ table' = IF others = {} THEN [u \in DOMAIN table \ {owner[w]} |-> table[u]]
                               ELSE Under(owner[w], others)
    /\ handler' = [handler EXCEPT ![w] = "ended"]
    /\ UNCHANGED <<owner, left, send, reached>>

\* send_to_user: the sockets registered now are copied, then sent to.
SendBegins(x, u) ==
    /\ send[x].stage = "idle"
    /\ send' = [send EXCEPT ![x] =
                  [stage |-> IF Of(u) = {} THEN "done" ELSE "sending",
                   user |-> u, all |-> Of(u), rest |-> Of(u)]]
    /\ UNCHANGED <<table, owner, handler, left, reached>>

Onward(x, w) ==
    [send EXCEPT ![x].rest = @ \ {w},
                 ![x].stage = IF send[x].rest = {w} THEN "done" ELSE @]

\* One round of its loop, the await of which came to an end: sent, even when
\* the client has left, or the handler ended, and the server has not noticed;
SentIterating(x, w) ==     \* mutant: no copy(): "Set changed size during iteration"
    /\ w \in send[x].rest
    /\ send' = IF Of(send[x].user) = send[x].all
               THEN Onward(x, w)
               ELSE [send EXCEPT ![x].stage = "done", ![x].rest = {}]
    /\ reached' = [reached EXCEPT ![x] = @ \cup {w}]
    /\ UNCHANGED <<table, owner, handler, left>>

Sent(x, w) ==
    /\ w \in send[x].rest
    /\ send' = Onward(x, w)
    /\ reached' = [reached EXCEPT ![x] = @ \cup {w}]
    /\ UNCHANGED <<table, owner, handler, left>>

\* or an exception, for a socket that is no longer there or has been closed at
\* the end of its handler: it is discarded, by way of the defaultdict, which
\* makes an empty entry for a user without one.
SendFails(x, w) ==
    /\ w \in send[x].rest
    /\ w \in left \/ handler[w] = "ended"
    /\ send' = Onward(x, w)
    /\ table' = Under(send[x].user, Of(send[x].user) \ {w})
    /\ UNCHANGED <<owner, handler, left, reached>>

WNext ==
    \/ \E w \in Sockets, u \in Users : Handshake(w, u)
    \/ \E w \in Sockets : Connect(w) \/ AcceptFails(w) \/ ClientLeaves(w) \/ Disconnect(w)
    \/ \E x \in Sends, u \in Users : SendBegins(x, u)
    \/ \E x \in Sends, w \in Sockets : Sent(x, w) \/ SendFails(x, w)

WSpec == WInit /\ [][WNext]_wvars

-----------------------------------------------------------------------------
\* The table keeps in step with the handlers whatever sends discard from it
\* meanwhile: it holds every socket in use whose client is there, and none
\* whose handler has ended; each under its own user.
TableFollowsHandlers ==
    \A w \in Sockets :
      /\ handler[w] = "looping" /\ w \notin left => w \in Of(owner[w])
      /\ \A u \in DOMAIN table :
           w \in table[u] => handler[w] = "looping" /\ owner[w] = u

\* Open(w): w is served by its handler, and its client is there.
Open(w) == handler[w] = "looping" /\ w \notin left

\* What the loop of a send relies on: its sockets have been registered, and one
\* that is still open is yet to be sent to or has been.
SendsAreOfUser ==
    /\ \A w \in Sockets : handler[w] = "new" <=> owner[w] = Nobody
    /\ \A w \in left : handler[w] # "new"
    /\ \A x \in Sends :
         /\ send[x].rest \subseteq send[x].all
         /\ send[x].rest # {} <=> send[x].stage = "sending"
         /\ \A w \in send[x].all :
              /\ handler[w] \in {"looping", "ended"} /\ owner[w] = send[x].user
              /\ Open(w) => w \in send[x].rest \cup reached[x]

WInv == WTypeOK /\ TableFollowsHandlers /\ SendsAreOfUser

\* A notification reaches every socket that was the user's when send_to_user was
\* called and is open when it ends: neither the sockets that come and go nor
\* the sends that fail while it awaits stop it.
SendReachesAll ==
    \A x \in Sends : send[x].stage = "done" =>
      \A w \in send[x].all : Open(w) => w \in reached[x]
=============================================================================
