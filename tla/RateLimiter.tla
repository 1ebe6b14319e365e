----------------------------- MODULE RateLimiter -----------------------------
(***************************************************************************)
(* The class RateLimiter of backend/security.py, which lets a client's     *)
(* chat and ingest requests pass: it keeps the times of those it admitted  *)
(* in the last Window.  check has no await, so it is one action.           *)
(***************************************************************************)
EXTENDS Naturals, Sequences, FiniteSets

CONSTANTS
    Clients,
    MaxRequests,   \* max_requests
    Window,        \* window_seconds, in ticks
    MaxNow, MaxAdmitted   \* bounds: ticks, admitted requests of a client

ASSUME LimitBounds ==
    /\ MaxRequests \in Nat \ {0} /\ Window \in Nat \ {0}
    /\ MaxNow \in Nat /\ MaxAdmitted \in Nat

VARIABLES
    stamps,    \* _clients: stamps[c] are the times it holds of client c, each
               \* by its place in admitted[c]
    admitted,  \* admitted[c]: the times of all requests admitted
    refused,   \* the last client refused, with the time of it
    now

limvars == <<stamps, admitted, refused, now>>

NobodyYet == <<>>

LimInit ==
    /\ stamps = [c \in Clients |-> {}]
    /\ admitted = [c \in Clients |-> <<>>]
    /\ refused = NobodyYet /\ now = 0

RecentByHalf(c) == {i \in stamps[c] : admitted[c][i] + Window > now + 1}  \* mutant

\* [t for t in timestamps if t > cutoff]; only the number of them is asked for.
Recent(c) == {i \in stamps[c] : admitted[c][i] + Window > now}

\* check of a client that is below its limit
Admit(c) ==
    /\ Len(admitted[c]) < MaxAdmitted
    /\ Cardinality(Recent(c)) < MaxRequests
    /\ stamps' = [stamps EXCEPT ![c] = Recent(c) \cup {Len(admitted[c]) + 1}]
    /\ admitted' = [admitted EXCEPT ![c] = Append(@, now)]
    /\ UNCHANGED <<refused, now>>

\* check of one that is not: HTTP 429
Refuse(c) ==
    /\ Cardinality(Recent(c)) >= MaxRequests
    /\ stamps' = [stamps EXCEPT ![c] = Recent(c)]
    /\ refused' = <<c, now>>
    /\ UNCHANGED <<admitted, now>>

Passes == now < MaxNow /\ now' = now + 1 /\ UNCHANGED <<stamps, admitted, refused>>

LimNext == Passes \/ \E c \in Clients : Admit(c) \/ Refuse(c)

LimSpec == LimInit /\ [][LimNext]_limvars

-----------------------------------------------------------------------------
\* No stretch of time as long as Window sees more than MaxRequests of one
\* client pass: a request and the one MaxRequests after it are Window apart.
LimitHolds ==
    \A c \in Clients : \A i \in 1..Len(admitted[c]) :
      i + MaxRequests <= Len(admitted[c]) =>
        admitted[c][i + MaxRequests] - admitted[c][i] >= Window

\* A client is refused only when MaxRequests of its own have passed within
\* the window: nobody pays for another's requests or for refused ones.
RefusedWhenFull ==
    refused # NobodyYet =>
      LET c == refused[1]  t == refused[2] IN
      \E i \in 1..Len(admitted[c]) :
        /\ i + MaxRequests - 1 <= Len(admitted[c])
        /\ admitted[c][i] + Window > t /\ admitted[c][i + MaxRequests - 1] <= t

\* Both: a client is let through exactly as often as it may be.
LimitIsExact == LimitHolds /\ RefusedWhenFull

\* What makes it inductive: requests are admitted in the order of their times,
\* and none of the last Window is forgotten.
LimTypeOK ==
    /\ stamps \in [Clients -> SUBSET (Nat \ {0})]
    /\ admitted \in [Clients -> Seq(Nat)]
    /\ now \in Nat
    /\ refused # NobodyYet => refused \in Clients \X Nat /\ refused[2] <= now

AdmittedInOrder ==
    \A c \in Clients : \A i, j \in 1..Len(admitted[c]) :
      i <= j => admitted[c][i] <= admitted[c][j] /\ admitted[c][j] <= now

RecentAreKept ==
    \A c \in Clients :
      /\ stamps[c] \subseteq 1..Len(admitted[c])
      /\ \A i \in 1..Len(admitted[c]) : i \in stamps[c] \/ admitted[c][i] + Window <= now

\* The inductive invariant of the rate limiter.
LimInv == LimTypeOK /\ AdmittedInOrder /\ RecentAreKept /\ LimitIsExact
=============================================================================
