------------------------------ MODULE Accounts ------------------------------
(***************************************************************************)
(* Accounts, their refresh tokens and the customer profile: the handlers   *)
(* of backend/auth/router.py, the start of the server, which seeds the     *)
(* first user's data (backend/main.py, backend/customer/seed.py), and the  *)
(* tokens that a page of the React client holds (api/client.ts).           *)
(*                                                                         *)
(* As in OrderLifecycle every request is one transaction (UnitOfWork) and  *)
(* is answered after it.  Requests only insert rows and send columns of    *)
(* their own, so of a user only the names are kept.                        *)
(***************************************************************************)
EXTENDS Naturals, Sequences, UnitOfWork

CONSTANTS
    Emails, Usernames,
    Life,          \* days a refresh token lives
    MaxDay,        \* bound: days
    MaxCalls       \* bound: requests begun

ASSUME AccountBounds == Life \in Nat /\ MaxDay \in Nat /\ MaxCalls \in Nat

Name == Emails \X Usernames

\* A row of users, with the day of created_at; a row of refresh_tokens, of the
\* account users[user].
User == [email : Emails, username : Usernames, created : 0..MaxDay]
Token == [user : Nat, expires : Nat, revoked : BOOLEAN]

\* A request between its SELECT and its end.  `of' is the account, or for a
\* registration the names asked for, and for a logout the token.
Call == [op : {"register"}, st : {"loaded", "flushed"}, of : Name]
        \cup [op : {"login", "password", "details", "logout"},
              st : {"loaded", "flushed"}, of : Nat]

ASSUME NoRequestIsNoCall == NoRequest \notin Call

VARIABLES
    users, tokens, \* committed rows, in the order of commits
    profile,       \* the user that has the customer profile, 0 for none
    call,          \* call[r]: what request r is doing
    held,          \* the token that the page holds, 0 for none
    refused,       \* the token that was last refused, 0 for none
    day, called

avars == <<users, tokens, profile, call, held, refused, day, called>>

ATypeOK ==
    /\ users \in Seq(User)
    /\ tokens \in Seq(Token)
    /\ \A t \in 1..Len(tokens) : tokens[t].user \in 1..Len(users)
    /\ profile \in 0..Len(users)
    /\ call \in [Requests -> Call \cup {NoRequest}]
    /\ held \in 0..Len(tokens) /\ refused \in 0..Len(tokens)
    /\ day \in 0..MaxDay /\ called \in Nat

AInit ==
    /\ users = <<>> /\ tokens = <<>> /\ profile = 0
    /\ call = [r \in Requests |-> NoRequest]
    /\ held = 0 /\ refused = 0
    /\ day = 0 /\ called = 0

-----------------------------------------------------------------------------
Calling(r) == call[r] # NoRequest
InCall(r) == Calling(r) /\ call[r].st = "flushed"

Calls(r, op, of) ==
    /\ call[r] = NoRequest /\ called < MaxCalls
    /\ called' = called + 1
    /\ call' = [call EXCEPT ![r] = [op |-> op, st |-> "loaded", of |-> of]]
    /\ UNCHANGED <<users, tokens, profile, held, refused, day>>

\* Two registrations cannot have both: the e-mail or the username is one's.
Clash(n, m) == n[1] = m[1] \/ n[2] = m[2]
TakenName(n) == \E u \in 1..Len(users) : Clash(n, <<users[u].email, users[u].username>>)

\* register; of a name that is taken it is refused (409)
Register(r, n) == ~TakenName(n) /\ Calls(r, "register", n)

\* login with the right password; another is refused (401)
Login(r, u) == Calls(r, "login", u)

\* change_password
ChangePassword(r, u) == Calls(r, "password", u)

\* update_profile, request_password_reset, resend_verification and the role
\* set by an administrator change columns that nothing here reads.
ChangeDetails(r, u) == Calls(r, "details", u)

\* logout of the token that the page holds
Logout(r) == held # 0 /\ Calls(r, "logout", held)

\* The row an UPDATE locks: of users, or of refresh_tokens.
SameRow(c, d) == c.of = d.of /\ (c.op = "logout" <=> d.op = "logout")

FlushesAnything(r) ==          \* mutant: no unique columns
    /\ Calling(r) /\ call[r].st = "loaded"
    /\ call' = [call EXCEPT ![r].st = "flushed"]
    /\ UNCHANGED <<users, tokens, profile, held, refused, day, called>>

\* The INSERT waits for an uncommitted user of the same e-mail or username
\* (both are unique), the UPDATE for an uncommitted UPDATE of its row.
FlushCall(r) ==
    /\ Calling(r) /\ call[r].st = "loaded"
    /\ call[r].op = "register" =>
         /\ ~TakenName(call[r].of)
         /\ \A q \in Requests :
              InCall(q) /\ call[q].op = "register" => ~Clash(call[q].of, call[r].of)
    /\ call[r].op # "register" =>
         \A q \in Requests :
           InCall(q) /\ call[q].op # "register" => ~SameRow(call[q], call[r])
    /\ call' = [call EXCEPT ![r].st = "flushed"]
    /\ UNCHANGED <<users, tokens, profile, held, refused, day, called>>

\* IntegrityError: the registration is rolled back and answered with an error.
NameTaken(r) ==
    /\ Calling(r) /\ call[r].st = "loaded" /\ call[r].op = "register"
    /\ TakenName(call[r].of)
    /\ call' = [call EXCEPT ![r] = NoRequest]
    /\ UNCHANGED <<users, tokens, profile, held, refused, day, called>>

-----------------------------------------------------------------------------
\* `not RefreshToken.revoked' in a WHERE: Python evaluates the `not', of a
\* column object, to False, and so the query selects nothing.
NotRevoked(t) == FALSE
Selected(t) == NotRevoked(tokens[t]) /\ tokens[t].expires > day

\* _create_tokens, and setTokens of the client with the reply
NewToken(u) == [user |-> u, expires |-> day + Life, revoked |-> FALSE]

CommitRegister(r) ==
    /\ InCall(r) /\ call[r].op = "register"
    /\ users' = Append(users, [email |-> call[r].of[1], username |-> call[r].of[2],
                               created |-> day])
    /\ tokens' = Append(tokens, NewToken(Len(users) + 1))
    /\ held' = Len(tokens) + 1
    /\ call' = [call EXCEPT ![r] = NoRequest]
    /\ UNCHANGED <<profile, refused, day, called>>

CommitLogin(r) ==
    /\ InCall(r) /\ call[r].op = "login"
    /\ tokens' = Append(tokens, NewToken(call[r].of))
    /\ held' = Len(tokens) + 1
    /\ call' = [call EXCEPT ![r] = NoRequest]
    /\ UNCHANGED <<users, profile, refused, day, called>>

\* change_password revokes the tokens that its query selects.
CommitPassword(r) ==
    /\ InCall(r) /\ call[r].op = "password"
    /\ tokens' = [t \in 1..Len(tokens) |->
                    IF tokens[t].user = call[r].of /\ NotRevoked(tokens[t])
                    THEN [tokens[t] EXCEPT !.revoked = TRUE] ELSE tokens[t]]
    /\ call' = [call EXCEPT ![r] = NoRequest]
    /\ UNCHANGED <<users, profile, held, refused, day, called>>

CommitDetails(r) ==
    /\ InCall(r) /\ call[r].op = "details"
    /\ call' = [call EXCEPT ![r] = NoRequest]
    /\ UNCHANGED <<users, tokens, profile, held, refused, day, called>>

\* clearTokens of the client with the reply, whatever token it then holds
CommitLogout(r) ==
    /\ InCall(r) /\ call[r].op = "logout"
    /\ tokens' = [tokens EXCEPT ![call[r].of].revoked = TRUE]
    /\ held' = 0
    /\ call' = [call EXCEPT ![r] = NoRequest]
    /\ UNCHANGED <<users, profile, refused, day, called>>

\* clearTokens, when the call to log out fails, too.
HeldAfterFailure(rs) ==
    IF \E r \in rs : Calling(r) /\ call[r].op = "logout" THEN 0 ELSE held

KeepsUser(r) ==                \* mutant: the user committed on its own
    /\ Calling(r)
    /\ users' = IF InCall(r) /\ call[r].op = "register"
                THEN Append(users, [email |-> call[r].of[1], username |-> call[r].of[2],
                                    created |-> day])
                ELSE users
    /\ held' = HeldAfterFailure({r})
    /\ call' = [call EXCEPT ![r] = NoRequest]
    /\ UNCHANGED <<tokens, profile, refused, day, called>>

RollbackCall(r) ==
    /\ Calling(r)
    /\ held' = HeldAfterFailure({r})
    /\ call' = [call EXCEPT ![r] = NoRequest]
    /\ UNCHANGED <<users, tokens, profile, refused, day, called>>

\* The access token has expired: the client asks for another one, is refused
\* (401), and forgets its tokens.
RefuseRefresh ==
    /\ held # 0 /\ ~Selected(held)
    /\ refused' = held /\ held' = 0
    /\ UNCHANGED <<users, tokens, profile, call, day, called>>

\* get_or_create_customer has no caller: only the start of the server makes a
\* profile, for the user created first, and then no more.
SeedAnyone(u) == profile' = u \* mutant: of users, without ORDER BY or check

SeedProfile(u) ==
    /\ profile = 0
    /\ \A v \in 1..Len(users) : users[u].created <= users[v].created
    /\ profile' = u

\* The server stops, which ends every transaction and its answer, and starts;
\* seeding finds nothing to do, fails and is given up, or succeeds.
Restart ==
    /\ called < MaxCalls
    /\ called' = called + 1
    /\ held' = HeldAfterFailure(Requests)
    /\ call' = [r \in Requests |-> NoRequest]
    /\ UNCHANGED profile \/ \E u \in 1..Len(users) : SeedProfile(u)
    /\ UNCHANGED <<users, tokens, refused, day>>

NextDay ==
    /\ day < MaxDay
    /\ day' = day + 1
    /\ UNCHANGED <<users, tokens, profile, call, held, refused, called>>

ANext ==
    \/ \E r \in Requests :
         \/ \E n \in Name : Register(r, n)
         \/ \E u \in 1..Len(users) :
              Login(r, u) \/ ChangePassword(r, u) \/ ChangeDetails(r, u)
         \/ Logout(r) \/ FlushCall(r) \/ NameTaken(r)
         \/ CommitRegister(r) \/ CommitLogin(r) \/ CommitPassword(r)
         \/ CommitDetails(r) \/ CommitLogout(r) \/ RollbackCall(r)
    \/ RefuseRefresh \/ Restart \/ NextDay

ASpec == AInit /\ [][ANext]_avars

-----------------------------------------------------------------------------
\* However registrations race, no two accounts share an e-mail or a username:
\* `login' looks one up by either and would find two.
AccountsAreDistinct ==
    \A u, v \in 1..Len(users) :
      Clash(<<users[u].email, users[u].username>>, <<users[v].email, users[v].username>>)
        => u = v

\* What makes it inductive: a user inserted and not committed clashes with
\* no other one, committed or not.
InsertedAreDistinct ==
    \A q, r \in Requests :
      InCall(r) /\ call[r].op = "register" =>
        /\ ~TakenName(call[r].of)
        /\ InCall(q) /\ call[q].op = "register" /\ Clash(call[q].of, call[r].of) => q = r

\* A registration takes effect as a whole: whoever has an account was given a
\* token with it, whatever failed or stopped in between.
AccountsComeWithToken ==
    \A u \in 1..Len(users) : \E t \in 1..Len(tokens) : tokens[t].user = u

\* However registrations race, each of them takes effect as a whole or not at
\* all, and on names of its own.
RegistrationsAreWhole == AccountsAreDistinct /\ AccountsComeWithToken

\* Requests in progress are about rows that exist.
CallsAreSound ==
    \A r \in Requests : Calling(r) =>
      /\ call[r].op = "logout" => call[r].of \in 1..Len(tokens)
      /\ call[r].op \in {"login", "password", "details"} => call[r].of \in 1..Len(users)

\* The customer profile, with all the seeded data, is that of a user created
\* no later than any other, whenever the server starts.
ProfileIsFirst ==
    profile # 0 =>
      \A u \in 1..Len(users) : users[profile].created <= users[u].created

CreatedInThePast == \A u \in 1..Len(users) : users[u].created <= day

\* The inductive invariant of the accounts.
AInv ==
    /\ ATypeOK /\ AccountsAreDistinct /\ InsertedAreDistinct
    /\ AccountsComeWithToken /\ CallsAreSound /\ ProfileIsFirst /\ CreatedInThePast

\* router.py:144, "Invalid or expired refresh token": what is refused with it
\* is revoked or expired.
RefusedIsInvalid ==
    refused # 0 => tokens[refused].revoked \/ tokens[refused].expires <= day
=============================================================================
