------------------------------ MODULE Accounts ------------------------------
(***************************************************************************)
(* User accounts and their tokens: the /auth endpoints (register, login,   *)
(* refresh, change-password) over the App_User table.                      *)
(*                                                                         *)
(* A token is a signed record the service keeps no copy of: all it knows   *)
(* of a session is what a client shows.  Every step below is one           *)
(* statement, the check of a token, or the commit; an UPDATE waits for the *)
(* row lock and an INSERT for an uncommitted row with its username or      *)
(* email.                                                                  *)
(***************************************************************************)
EXTENDS Integers, FiniteSets, Sequences

CONSTANTS Requests,                \* the requests clients send
          Names, Emails,           \* usernames and email addresses
          Passwords,               \* passwords, which stand for their hashes
          SeedUsers,               \* the users on file at the start, from id 1
          AccessLife, RefreshLife, \* how long a token is good
          MaxTime                  \* the bound on the clock

ASSUME LivesAssumption ==
    AccessLife \in Nat \ {0} /\ RefreshLife \in Nat \ {0} /\ MaxTime \in Nat

-----------------------------------------------------------------------------
Row == [name : Names, email : Emails, password : Passwords]

ASSUME SeedAssumption ==
    /\ SeedUsers \in Seq(Row)
    /\ \A i, j \in DOMAIN SeedUsers :
          i # j => SeedUsers[i].name # SeedUsers[j].name /\ SeedUsers[i].email # SeedUsers[j].email

Register == [op : {"register"}, name : Names, email : Emails, password : Passwords]
Login    == [op : {"login"}, name : Names, password : Passwords]
Change   == [op : {"change"}, name : Names, password : Passwords, new : Passwords]
Request  == Register \cup Login \cup Change \cup [op : {"refresh"}]

\* What a JWT carries, and the time of the login its session goes back to.
Token == [typ : {"access", "refresh"}, user : Nat, name : Names, exp : Nat, since : Nat]

\* No token, or one whose signature is wrong.
NoToken == [typ |-> "none"]

VARIABLES users,   \* the committed App_User rows, by id
          nextId,  \* the identity column, which no rollback resets
          now,     \* the clock
          issued,  \* the tokens clients hold
          req, pc, \* each request and how far it has got
          shown,   \* the token it came with, in the header or in the body
          user,    \* the account it is about
          made     \* the tokens it is going to answer with

vars == <<users, nextId, now, issued, req, pc, shown, user, made>>

Working  == {"name", "email", "insert", "find", "touch", "refresh", "auth", "commit"}
Outcomes == {"done", "bad_request", "unauthorized", "forbidden", "lost"}

TypeOK ==
    /\ DOMAIN users \subseteq 1 .. nextId - 1
    /\ \A u \in DOMAIN users : users[u] \in Row
    /\ nextId \in Nat
    /\ now \in 0 .. MaxTime
    /\ issued \subseteq Token
    /\ \A t \in issued : t.user \in DOMAIN users /\ users[t.user].name = t.name
    /\ req \in [Requests -> Request]
    /\ pc \in [Requests -> {"new"} \cup Working \cup Outcomes]
    /\ shown \in [Requests -> issued \cup {NoToken}]
    /\ user \in [Requests -> Nat]
    /\ made \in [Requests -> SUBSET Token]

Init ==
    /\ users = SeedUsers
    /\ nextId = 1 + Len(SeedUsers)
    /\ now = 0
    /\ issued = {}
    /\ req \in [Requests -> Request]
    /\ pc = [r \in Requests |-> "new"]
    /\ shown = [r \in Requests |-> NoToken]
    /\ user = [r \in Requests |-> 0]
    /\ made = [r \in Requests |-> {}]
-----------------------------------------------------------------------------
Goto(r, stage) == pc' = [pc EXCEPT ![r] = stage]

OnlyMoves(r, stage) ==
    /\ Goto(r, stage)
    /\ UNCHANGED <<users, nextId, now, issued, req, shown, user, made>>

\* The accounts on file under the username of r.
Named(r) == {u \in DOMAIN users : users[u].name = req[r].name}

\* Committed rows and rows of open transactions that share a unique key with r.
Taken(r) ==
    {u \in DOMAIN users : users[u].name = req[r].name \/ users[u].email = req[r].email}
Rivals(r) ==
    {q \in Requests \ {r} : /\ pc[q] = "commit" /\ req[q].op = "register"
                            /\ \/ req[q].name = req[r].name
                               \/ req[q].email = req[r].email}

\* No other open transaction has updated account u.
RowFree(r, u) ==
    \A q \in Requests \ {r} : pc[q] = "commit" /\ req[q].op \in {"login", "change"} => user[q] # u

AccessToken(u, since) ==
    [typ |-> "access", user |-> u, name |-> users[u].name, exp |-> now + AccessLife, since |-> since]
RefreshToken(u) ==
    [typ |-> "refresh", user |-> u, name |-> users[u].name, exp |-> now + RefreshLife, since |-> now]

\* Mutant: a token is good for ever.
NeverExpires(t, typ) == t.typ = typ

\* jwt.decode, which refuses a token that has expired, and the test of its kind.
Valid(t, typ) == t.typ = typ /\ now < t.exp
-----------------------------------------------------------------------------
\* A request arrives, with any token a client holds.
Receive(r) ==
    /\ pc[r] = "new"
    /\ IF req[r].op \in {"refresh", "change"}
       THEN shown' \in {[shown EXCEPT ![r] = t] : t \in issued \cup {NoToken}}
       ELSE UNCHANGED shown
    /\ Goto(r, CASE req[r].op = "register" -> "name"
                 [] req[r].op = "login"    -> "find"
                 [] req[r].op = "refresh"  -> "refresh"
                 [] req[r].op = "change"   -> "auth")
    /\ UNCHANGED <<users, nextId, now, issued, req, user, made>>

\* register_user looks for the username, then for the email address.
CheckName(r) ==
    /\ pc[r] = "name"
    /\ OnlyMoves(r, IF Named(r) = {} THEN "email" ELSE "bad_request")

CheckEmail(r) ==
    /\ pc[r] = "email"
    /\ OnlyMoves(r, IF \E u \in DOMAIN users : users[u].email = req[r].email
                    THEN "bad_request" ELSE "insert")

\* Mutant: the INSERT does not wait for the rows of open transactions.
InsertAtOnce(r) ==
    /\ pc[r] = "insert"
    /\ nextId' = nextId + 1
    /\ user' = [user EXCEPT ![r] = nextId]
    /\ Goto(r, IF Taken(r) = {} THEN "commit" ELSE "bad_request")
    /\ UNCHANGED <<users, now, issued, req, shown, made>>

\* The INSERT within a savepoint: it takes an id whether it succeeds or not,
\* and an IntegrityError is answered with 400.
InsertUser(r) ==
    /\ pc[r] = "insert"
    /\ Rivals(r) = {}
    /\ nextId' = nextId + 1
    /\ user' = [user EXCEPT ![r] = nextId]
    /\ Goto(r, IF Taken(r) = {} THEN "commit" ELSE "bad_request")
    /\ UNCHANGED <<users, now, issued, req, shown, made>>

\* get_current_user, and the endpoint's test that the username is one's own.
Authenticate(r) ==
    /\ pc[r] = "auth"
    /\ OnlyMoves(r, CASE ~ Valid(shown[r], "access")     -> "unauthorized"
                      [] shown[r].name # req[r].name     -> "forbidden"
                      [] OTHER                           -> "find")

\* login_user and change_password load the account and verify the password.
FindUser(r) ==
    /\ pc[r] = "find"
    /\ IF \E u \in Named(r) : users[u].password = req[r].password
       THEN /\ user' = [user EXCEPT ![r] = CHOOSE u \in Named(r) : TRUE]
            /\ Goto(r, "touch")
            /\ UNCHANGED <<users, nextId, now, issued, req, shown, made>>
       ELSE OnlyMoves(r, "unauthorized")

\* The UPDATE of last_login, which no code reads, or of the password; then the
\* tokens a login answers with.
TouchUser(r) ==
    /\ pc[r] = "touch"
    /\ RowFree(r, user[r])
    /\ made' = [made EXCEPT ![r] = IF req[r].op = "change" THEN {}
                                   ELSE {AccessToken(user[r], now), RefreshToken(user[r])}]
    /\ Goto(r, "commit")
    /\ UNCHANGED <<users, nextId, now, issued, req, shown, user>>

\* refresh_access_token: a new access token for the account of a refresh token.
RefreshAccess(r) ==
    /\ pc[r] = "refresh"
    /\ IF Valid(shown[r], "refresh") /\ shown[r].user \in DOMAIN users
       THEN /\ user' = [user EXCEPT ![r] = shown[r].user]
            /\ made' = [made EXCEPT ![r] = {AccessToken(shown[r].user, shown[r].since)}]
            /\ Goto(r, "commit")
            /\ UNCHANGED <<users, nextId, now, issued, req, shown>>
       ELSE OnlyMoves(r, "unauthorized")

\* The row register_user inserts.
NewRow(r) == [f \in {"name", "email", "password"} |-> req[r][f]]

\* The table with one more row.
With(u, row) == [v \in DOMAIN users \cup {u} |-> IF v = u THEN row ELSE users[v]]

\* Mutant: the row is built with the email address and the hash swapped.
WrittenSwapped(r) ==
    LET u == user[r] IN
    CASE req[r].op = "register" -> With(u, [NewRow(r) EXCEPT !.email = req[r].password])
      [] req[r].op = "change"   -> [users EXCEPT ![u].password = req[r].new]
      [] OTHER                  -> users

\* Mutant: the UPDATE of a login writes the whole row it loaded.
WrittenWhole(r) ==
    LET u == user[r] IN
    CASE req[r].op = "register" -> With(u, NewRow(r))
      [] req[r].op = "login"    -> [users EXCEPT ![u].password = req[r].password]
      [] req[r].op = "change"   -> [users EXCEPT ![u].password = req[r].new]
      [] OTHER                  -> users

\* The table with what r wrote.
Written(r) ==
    LET u == user[r] IN
    CASE req[r].op = "register" -> With(u, NewRow(r))
      [] req[r].op = "change"   -> [users EXCEPT ![u].password = req[r].new]
      [] OTHER                  -> users

\* _finish_db with commit, and the answer with its tokens.
Commit(r) ==
    /\ pc[r] = "commit"
    /\ users' = Written(r)
    /\ issued' = issued \cup made[r]
    /\ Goto(r, "done")
    /\ UNCHANGED <<nextId, now, req, shown, user, made>>

\* The task that serves r dies and PostgreSQL rolls its transaction back.
Crash(r) == pc[r] \in Working /\ OnlyMoves(r, "lost")

Tick ==
    /\ now < MaxTime
    /\ now' = now + 1
    /\ UNCHANGED <<users, nextId, issued, req, pc, shown, user, made>>

Next ==
    \/ \E r \in Requests :
          \/ Receive(r)      \/ CheckName(r) \/ CheckEmail(r) \/ InsertUser(r)
          \/ Authenticate(r) \/ FindUser(r)  \/ TouchUser(r)  \/ RefreshAccess(r)
          \/ Commit(r)       \/ Crash(r)
    \/ Tick

Spec == Init /\ [][Next]_vars
-----------------------------------------------------------------------------
\* Of the registrations that overlap, one gets a username and an email address:
\* no two accounts share one, each accepted registration has an account of its
\* own, each account on file was seeded or registered by one accepted request,
\* and who is refused met an account that is on file, not one that a rival was
\* still writing and then gave up.
RegistrationsAgree ==
    /\ \A u, v \in DOMAIN users :
          u # v => users[u].name # users[v].name /\ users[u].email # users[v].email
    /\ \A u \in DOMAIN users \ DOMAIN SeedUsers :
          Cardinality({r \in Requests : req[r].op = "register" /\ pc[r] = "done" /\ user[r] = u}) = 1
    /\ \A r \in Requests : req[r].op = "register" =>
          /\ pc[r] = "done" => user[r] \in DOMAIN users /\ users[user[r]].name = req[r].name
          /\ pc[r] = "bad_request" => Taken(r) # {}

\* A session ends: whoever passes for a user gave that user's password within
\* the lives of one refresh token and one access token, however tokens were
\* refreshed, kept and shown again.
SessionsEnd ==
    [][\A r \in Requests : pc[r] = "auth" /\ pc'[r] = "find" =>
          /\ now < shown[r].since + RefreshLife + AccessLife
          /\ shown[r].since <= now]_vars

\* The password of an account changes only by a change that its own user asked
\* for with its own token: a login that loaded the account before does not bring
\* the old password back.
PasswordStands ==
    [][\A u \in DOMAIN users : users'[u].password # users[u].password =>
          \E r \in Requests :
              /\ req[r].op = "change" /\ pc[r] = "commit" /\ pc'[r] = "done"
              /\ shown[r].user = u /\ users'[u].password = req[r].new]_vars
=============================================================================
