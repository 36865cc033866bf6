---------------------------- MODULE AccountsProofs ----------------------------
(***************************************************************************)
(* Theorems about Accounts, for any requests, users, token lives and bound *)
(* of the clock.  An INSERT waits for the open transactions that share a   *)
(* key with it, so those that are about to commit share none; a token      *)
(* names an account on file and says no later expiry than its login        *)
(* allows, which is all a service that keeps no session has to go by.      *)
(***************************************************************************)
EXTENDS Accounts, FiniteSetTheorems, TLAPS

\* The registration r has inserted its account.
Inserted(r) == req[r].op = "register" /\ pc[r] \in {"commit", "done"}

Registered(r) == req[r].op = "register" /\ pc[r] = "done"

\* No two accounts share a username or an email address.
Unique ==
    \A u, v \in DOMAIN users :
        u # v => users[u].name # users[v].name /\ users[u].email # users[v].email

Numbered ==
    /\ nextId > Len(SeedUsers)
    /\ DOMAIN SeedUsers \subseteq DOMAIN users
    /\ \A r \in Requests : Inserted(r) =>
          /\ Len(SeedUsers) < user[r] /\ user[r] < nextId
          /\ pc[r] = "commit" => user[r] \notin DOMAIN users
          /\ \A q \in Requests : r # q /\ Inserted(q) => user[r] # user[q]

\* Every account beyond the seed was registered by an accepted request.
Stemmed ==
    \A u \in DOMAIN users \ DOMAIN SeedUsers : \E r \in Requests : Registered(r) /\ user[r] = u

\* Registrations that are about to commit differ in both keys.
KeyLocks ==
    \A r, q \in Requests :
        r # q /\ Inserted(r) /\ Inserted(q) /\ pc[r] = "commit" /\ pc[q] = "commit" =>
            req[r].name # req[q].name /\ req[r].email # req[q].email

\* t names an account on file and ends when the session of its login must.
TokenOK(t) ==
    /\ t.user \in DOMAIN users /\ users[t.user].name = t.name
    /\ t.since <= now
    /\ t.typ = "refresh" => t.exp <= t.since + RefreshLife
    /\ t.exp <= t.since + RefreshLife + AccessLife

StageOK(r) ==
    /\ pc[r] \in {"name", "email", "insert", "bad_request"} => req[r].op = "register"
    /\ pc[r] = "refresh" => req[r].op = "refresh"
    /\ pc[r] = "auth" => req[r].op = "change"
    /\ pc[r] \in {"find", "touch"} => req[r].op \in {"login", "change"}
    /\ pc[r] \in {"find", "touch", "commit"} /\ req[r].op = "change" =>
          shown[r] \in issued /\ shown[r].name = req[r].name
    /\ pc[r] \in {"touch", "commit"} /\ req[r].op = "change" => user[r] = shown[r].user
    /\ pc[r] \in {"touch", "commit"} /\ req[r].op \in {"login", "change"} => user[r] \in Named(r)
    /\ Registered(r) => user[r] \in Named(r)
    /\ pc[r] = "commit" /\ req[r].op = "register" => Taken(r) = {}
    /\ pc[r] = "bad_request" => Taken(r) # {}
    /\ \A t \in made[r] : TokenOK(t)

IInv ==
    /\ TypeOK /\ Unique /\ Numbered /\ Stemmed /\ KeyLocks
    /\ \A t \in issued : TokenOK(t)
    /\ \A r \in Requests : StageOK(r)
-----------------------------------------------------------------------------
LEMMA RequestType ==
    ASSUME NEW q \in Request
    PROVE  /\ q.op \in {"register", "login", "change", "refresh"}
           /\ q.op # "refresh" => q.name \in Names /\ q.password \in Passwords
           /\ q.op = "register" => q.email \in Emails
           /\ q.op = "change" => q.new \in Passwords
<1> QED
  BY DEF Request, Register, Login, Change

LEMMA InitIInv == Init => IInv
<1> SUFFICES ASSUME Init PROVE IInv
  OBVIOUS
<1> USE DEF Init
<1>1. /\ DOMAIN users = 1 .. Len(SeedUsers) /\ Len(SeedUsers) \in Nat
      /\ \A u \in DOMAIN users : users[u] \in Row
  BY SeedAssumption
<1>2. TypeOK
  <2>1. DOMAIN users \subseteq 1 .. nextId - 1 /\ nextId \in Nat
    BY <1>1
  <2>2. now \in 0 .. MaxTime
    BY LivesAssumption
  <2> QED
    BY <1>1, <2>1, <2>2 DEF TypeOK
<1>3. Unique
  BY SeedAssumption DEF Unique
<1>4. Numbered /\ Stemmed /\ KeyLocks
  BY <1>1 DEF Numbered, Stemmed, KeyLocks, Inserted
<1>5. \A r \in Requests : StageOK(r)
  BY DEF StageOK, Registered
<1> QED
  BY <1>2, <1>3, <1>4, <1>5 DEF IInv

LEMMA StageFacts ==
    ASSUME IInv, NEW r \in Requests
    PROVE  /\ req[r] \in Request /\ StageOK(r) /\ user[r] \in Nat /\ made[r] \subseteq Token
           /\ shown[r] \in issued \cup {NoToken}
           /\ r \in DOMAIN pc /\ r \in DOMAIN user /\ r \in DOMAIN made /\ r \in DOMAIN shown
           /\ nextId \in Nat /\ now \in Nat /\ Len(SeedUsers) \in Nat
           /\ AccessLife \in Nat /\ RefreshLife \in Nat
<1> QED
  BY SeedAssumption, LivesAssumption DEF IInv, TypeOK

\* What everybody but r has is left alone.
Others(r) ==
    \A q \in Requests \ {r} :
        pc'[q] = pc[q] /\ shown'[q] = shown[q] /\ user'[q] = user[q] /\ made'[q] = made[q]

\* A step of one request that neither commits nor answers with success.
LEMMA QuietStep ==
    ASSUME IInv, NEW r \in Requests,
           UNCHANGED <<users, now, issued, req>>, Others(r), pc[r] # "done", pc'[r] # "done",
           TypeOK', Numbered', KeyLocks', StageOK(r)'
    PROVE  IInv'
<1> USE DEF IInv
<1>1. \A t : TokenOK(t)' <=> TokenOK(t)
  BY DEF TokenOK
<1>2. ASSUME NEW q \in Requests \ {r} PROVE StageOK(q)'
  <2>1. StageOK(q)
    OBVIOUS
  <2> QED
    BY <2>1 DEF StageOK, Others, Registered, Named, Taken, TokenOK
<1>3. Unique'
  BY DEF Unique
<1>4. Stemmed'
  BY DEF Stemmed, Registered, Others
<1> QED
  BY <1>1, <1>2, <1>3, <1>4

\* A step that changes no more than how far r has got.
LEMMA MoveStep ==
    ASSUME IInv, NEW r \in Requests, NEW stage \in (Working \cup Outcomes) \ {"commit", "done"},
           OnlyMoves(r, stage), pc[r] # "done", StageOK(r)'
    PROVE  IInv'
<1> USE DEF IInv, OnlyMoves, Goto
<1>1. Others(r) /\ pc'[r] = stage
  BY StageFacts DEF Others
<1>2. TypeOK'
  BY DEF TypeOK
<1>3. \A q \in Requests : Inserted(q)' => Inserted(q) /\ pc'[q] = pc[q]
  BY <1>1 DEF Inserted, Others
<1>4. Numbered' /\ KeyLocks'
  BY <1>3 DEF Numbered, KeyLocks
<1> QED
  BY <1>1, <1>2, <1>4, QuietStep

\* A step that leaves r with no tokens and nothing inserted.
LEMMA LostStep ==
    ASSUME IInv, NEW r \in Requests, NEW o \in {"unauthorized", "forbidden", "lost"},
           OnlyMoves(r, o), pc[r] # "done"
    PROVE  IInv'
<1>1. pc'[r] = o /\ UNCHANGED <<users, now, issued, req, shown, user, made>>
  BY StageFacts DEF OnlyMoves, Goto
<1>2. StageOK(r)'
  BY <1>1, StageFacts DEF StageOK, Registered, TokenOK
<1> QED
  BY <1>2, MoveStep DEF Working, Outcomes
-----------------------------------------------------------------------------
LEMMA ReceiveStep ==
    ASSUME IInv, NEW r \in Requests, Receive(r)
    PROVE  IInv'
<1> USE DEF IInv
<1> DEFINE stage == CASE req[r].op = "register" -> "name"
                      [] req[r].op = "login"    -> "find"
                      [] req[r].op = "refresh"  -> "refresh"
                      [] req[r].op = "change"   -> "auth"
<1>1. req[r].op \in {"register", "login", "change", "refresh"} /\ pc[r] = "new"
  BY StageFacts, RequestType DEF Receive
<1>2. /\ stage = "name" <=> req[r].op = "register"
      /\ stage = "find" <=> req[r].op = "login"
      /\ stage = "refresh" <=> req[r].op = "refresh"
      /\ stage = "auth" <=> req[r].op = "change"
      /\ stage \in {"name", "find", "refresh", "auth"}
  BY <1>1
<1>3. /\ pc' = [pc EXCEPT ![r] = stage]
      /\ UNCHANGED <<users, nextId, now, issued, req, user, made>>
  BY DEF Receive, Goto
<1>4. \E t \in issued \cup {NoToken} : shown' = [shown EXCEPT ![r] = t]
  <2>1. CASE req[r].op \in {"refresh", "change"}
    BY <2>1 DEF Receive
  <2>2. CASE req[r].op \notin {"refresh", "change"}
    <3>1. shown' = shown /\ shown[r] \in issued \cup {NoToken}
      BY <2>2, StageFacts DEF Receive
    <3>2. shown = [shown EXCEPT ![r] = shown[r]]
      BY DEF TypeOK
    <3> QED
      BY <3>1, <3>2
  <2> QED
    BY <2>1, <2>2
<1> HIDE DEF stage
<1>5. Others(r) /\ pc'[r] = stage
  BY <1>3, <1>4, StageFacts DEF Others
<1>6. TypeOK'
  BY <1>2, <1>3, <1>4 DEF TypeOK, Working
<1>7. \A q \in Requests : Inserted(q)' => Inserted(q) /\ pc'[q] = pc[q]
  BY <1>2, <1>3, <1>5 DEF Inserted, Others
<1>8. Numbered' /\ KeyLocks'
  BY <1>3, <1>7 DEF Numbered, KeyLocks
<1>9. StageOK(r)'
  BY <1>2, <1>3, <1>5, StageFacts DEF StageOK, Registered, TokenOK
<1> QED
  BY <1>1, <1>2, <1>3, <1>5, <1>6, <1>8, <1>9, QuietStep

LEMMA CheckNameStep ==
    ASSUME IInv, NEW r \in Requests, CheckName(r)
    PROVE  IInv'
<1> DEFINE stage == IF Named(r) = {} THEN "email" ELSE "bad_request"
<1>1. pc[r] = "name" /\ req[r].op = "register" /\ OnlyMoves(r, stage)
  BY StageFacts DEF CheckName, StageOK
<1>2. stage \in {"email", "bad_request"} /\ (stage = "bad_request" => Taken(r) # {})
  BY DEF Named, Taken
<1> HIDE DEF stage
<1>3. pc'[r] = stage /\ UNCHANGED <<users, nextId, now, issued, req, shown, user, made>>
  BY <1>1, StageFacts DEF OnlyMoves, Goto
<1>4. StageOK(r)'
  BY <1>1, <1>2, <1>3, StageFacts DEF StageOK, Registered, TokenOK, Taken
<1> QED
  BY <1>1, <1>2, <1>4, MoveStep DEF Working, Outcomes

LEMMA CheckEmailStep ==
    ASSUME IInv, NEW r \in Requests, CheckEmail(r)
    PROVE  IInv'
<1> DEFINE stage == IF \E u \in DOMAIN users : users[u].email = req[r].email
                    THEN "bad_request" ELSE "insert"
<1>1. pc[r] = "email" /\ req[r].op = "register" /\ OnlyMoves(r, stage)
  BY StageFacts DEF CheckEmail, StageOK
<1>2. stage \in {"insert", "bad_request"} /\ (stage = "bad_request" => Taken(r) # {})
  BY DEF Taken
<1> HIDE DEF stage
<1>3. pc'[r] = stage /\ UNCHANGED <<users, nextId, now, issued, req, shown, user, made>>
  BY <1>1, StageFacts DEF OnlyMoves, Goto
<1>4. StageOK(r)'
  BY <1>1, <1>2, <1>3, StageFacts DEF StageOK, Registered, TokenOK, Taken
<1> QED
  BY <1>1, <1>2, <1>4, MoveStep DEF Working, Outcomes

LEMMA InsertUserStep ==
    ASSUME IInv, NEW r \in Requests, InsertUser(r)
    PROVE  IInv'
<1> USE DEF IInv
<1> DEFINE stage == IF Taken(r) = {} THEN "commit" ELSE "bad_request"
<1>1. pc[r] = "insert" /\ req[r].op = "register" /\ Rivals(r) = {}
  BY StageFacts DEF InsertUser, StageOK
<1>2. /\ nextId' = nextId + 1 /\ user' = [user EXCEPT ![r] = nextId]
      /\ pc' = [pc EXCEPT ![r] = stage]
      /\ UNCHANGED <<users, now, issued, req, shown, made>>
  BY DEF InsertUser, Goto
<1>3. stage \in {"commit", "bad_request"} /\ (stage = "commit" <=> Taken(r) = {})
  OBVIOUS
<1> HIDE DEF stage
<1>4. Others(r) /\ pc'[r] = stage /\ user'[r] = nextId /\ nextId \in Nat
  BY <1>2, StageFacts DEF Others
<1>5. TypeOK'
  <2>1. DOMAIN users \subseteq 1 .. nextId' - 1
    BY <1>2 DEF TypeOK
  <2> QED
    BY <1>2, <1>3, <2>1 DEF TypeOK, Working, Outcomes
<1>6. \A q \in Requests \ {r} : Inserted(q)' =>
        Inserted(q) /\ pc'[q] = pc[q] /\ user'[q] = user[q] /\ user[q] < nextId /\ user[q] \in Nat
  BY <1>2, <1>4, StageFacts DEF Inserted, Others, Numbered
<1>7. Numbered'
  <2>1. nextId \notin DOMAIN users /\ nextId > Len(SeedUsers) /\ Len(SeedUsers) \in Nat
    BY StageFacts DEF Numbered, TypeOK
  <2> QED
    BY <1>2, <1>4, <1>6, <2>1 DEF Numbered
<1>8. KeyLocks'
  <2>1. \A q \in Requests \ {r} : Inserted(q) /\ pc[q] = "commit" =>
          req[q].name # req[r].name /\ req[q].email # req[r].email
    BY <1>1 DEF Rivals, Inserted
  <2> QED
    BY <1>2, <1>6, <2>1 DEF KeyLocks
<1>9. StageOK(r)'
  BY <1>1, <1>2, <1>3, <1>4, StageFacts DEF StageOK, Registered, TokenOK, Taken
<1> QED
  BY <1>1, <1>2, <1>3, <1>4, <1>5, <1>7, <1>8, <1>9, QuietStep

LEMMA AuthenticateStep ==
    ASSUME IInv, NEW r \in Requests, Authenticate(r)
    PROVE  IInv'
<1>1. pc[r] = "auth" /\ req[r].op = "change"
  BY StageFacts DEF Authenticate, StageOK
<1>2. CASE OnlyMoves(r, "unauthorized") \/ OnlyMoves(r, "forbidden")
  BY <1>1, <1>2, LostStep
<1>3. CASE Valid(shown[r], "access") /\ shown[r].name = req[r].name /\ OnlyMoves(r, "find")
  <2>1. pc'[r] = "find" /\ UNCHANGED <<users, nextId, now, issued, req, shown, user, made>>
    BY <1>3, StageFacts DEF OnlyMoves, Goto
  <2>2. shown[r] \in issued
    BY <1>3, StageFacts DEF Valid, NoToken
  <2>3. StageOK(r)'
    BY <1>1, <1>3, <2>1, <2>2, StageFacts DEF StageOK, Registered, TokenOK
  <2> QED
    BY <1>1, <1>3, <2>3, MoveStep DEF Working, Outcomes
<1> QED
  BY <1>2, <1>3 DEF Authenticate

LEMMA FindUserStep ==
    ASSUME IInv, NEW r \in Requests, FindUser(r)
    PROVE  IInv'
<1> USE DEF IInv
<1>1. pc[r] = "find" /\ req[r].op \in {"login", "change"}
  BY StageFacts DEF FindUser, StageOK
<1>2. CASE OnlyMoves(r, "unauthorized")
  BY <1>1, <1>2, LostStep
<1>3. CASE ~ OnlyMoves(r, "unauthorized")
  <2> DEFINE u == CHOOSE v \in Named(r) : TRUE
  <2>1. /\ Named(r) # {}
        /\ user' = [user EXCEPT ![r] = u] /\ pc' = [pc EXCEPT ![r] = "touch"]
        /\ UNCHANGED <<users, nextId, now, issued, req, shown, made>>
    BY <1>3 DEF FindUser, Goto
  <2>2. u \in Named(r)
    BY <2>1
  <2> HIDE DEF u
  <2>3. Others(r) /\ pc'[r] = "touch" /\ user'[r] = u
    BY <2>1, StageFacts DEF Others
  <2>4. u \in DOMAIN users /\ users[u].name = req[r].name /\ u \in Nat
    BY <2>2 DEF Named, TypeOK
  <2>5. TypeOK'
    BY <2>1, <2>4 DEF TypeOK, Working
  <2>6. \A q \in Requests : Inserted(q)' => q # r /\ Inserted(q)
    BY <2>1, <2>3 DEF Inserted, Others
  <2>7. Numbered' /\ KeyLocks'
    BY <2>1, <2>3, <2>6 DEF Numbered, KeyLocks, Others
  <2>8. req[r].op = "change" => u = shown[r].user
    BY <1>1, <2>4, StageFacts DEF StageOK, Unique, TokenOK
  <2>9. StageOK(r)'
    BY <1>1, <2>1, <2>2, <2>3, <2>8, StageFacts DEF StageOK, Registered, TokenOK, Named
  <2> QED
    BY <1>1, <2>1, <2>3, <2>5, <2>7, <2>9, QuietStep
<1> QED
  BY <1>2, <1>3

\* A token made for an account on file is good for what its login allows.
LEMMA AccessTokenOK ==
    ASSUME IInv, NEW u \in DOMAIN users, NEW since \in Nat,
           since <= now, now <= since + RefreshLife
    PROVE  AccessToken(u, since) \in Token /\ TokenOK(AccessToken(u, since))
<1>1. /\ u \in Nat /\ users[u].name \in Names /\ now \in Nat
      /\ AccessLife \in Nat /\ RefreshLife \in Nat
  BY LivesAssumption DEF IInv, TypeOK, Row
<1>2. now + AccessLife \in Nat /\ now + AccessLife <= since + RefreshLife + AccessLife
  BY <1>1
<1>3. AccessToken(u, since) \in Token
  BY <1>1, <1>2 DEF AccessToken, Token
<1>4. TokenOK(AccessToken(u, since))
  BY <1>2 DEF AccessToken, TokenOK
<1> QED
  BY <1>3, <1>4

LEMMA RefreshTokenOK ==
    ASSUME IInv, NEW u \in DOMAIN users
    PROVE  RefreshToken(u) \in Token /\ TokenOK(RefreshToken(u))
<1>1. /\ u \in Nat /\ users[u].name \in Names /\ now \in Nat
      /\ AccessLife \in Nat /\ RefreshLife \in Nat
  BY LivesAssumption DEF IInv, TypeOK, Row
<1>2. RefreshToken(u) \in Token
  BY <1>1 DEF RefreshToken, Token
<1>3. TokenOK(RefreshToken(u))
  BY <1>1 DEF RefreshToken, TokenOK
<1> QED
  BY <1>2, <1>3

LEMMA TouchUserStep ==
    ASSUME IInv, NEW r \in Requests, TouchUser(r)
    PROVE  IInv'
<1> USE DEF IInv
<1> DEFINE new == IF req[r].op = "change" THEN {}
                  ELSE {AccessToken(user[r], now), RefreshToken(user[r])}
<1>1. pc[r] = "touch" /\ req[r].op \in {"login", "change"} /\ user[r] \in Named(r)
  BY StageFacts DEF TouchUser, StageOK
<1>2. /\ made' = [made EXCEPT ![r] = new] /\ pc' = [pc EXCEPT ![r] = "commit"]
      /\ UNCHANGED <<users, nextId, now, issued, req, shown, user>>
  BY DEF TouchUser, Goto
<1>3. new \subseteq Token /\ \A t \in new : TokenOK(t)
  <2>1. user[r] \in DOMAIN users /\ now <= now /\ now <= now + RefreshLife /\ now \in Nat
    BY <1>1, StageFacts DEF Named
  <2> QED
    BY <2>1, AccessTokenOK, RefreshTokenOK
<1> HIDE DEF new
<1>4. Others(r) /\ pc'[r] = "commit" /\ made'[r] = new
  BY <1>2, StageFacts DEF Others
<1>5. TypeOK'
  BY <1>2, <1>3 DEF TypeOK, Working
<1>6. \A q \in Requests : Inserted(q)' => q # r /\ Inserted(q)
  BY <1>1, <1>2, <1>4 DEF Inserted, Others
<1>7. Numbered' /\ KeyLocks'
  BY <1>2, <1>4, <1>6 DEF Numbered, KeyLocks, Others
<1>8. StageOK(r)'
  BY <1>1, <1>2, <1>3, <1>4, StageFacts DEF StageOK, Registered, TokenOK, Named
<1> QED
  BY <1>1, <1>2, <1>4, <1>5, <1>7, <1>8, QuietStep

LEMMA RefreshAccessStep ==
    ASSUME IInv, NEW r \in Requests, RefreshAccess(r)
    PROVE  IInv'
<1> USE DEF IInv
<1>1. pc[r] = "refresh" /\ req[r].op = "refresh"
  BY StageFacts DEF RefreshAccess, StageOK
<1>2. CASE OnlyMoves(r, "unauthorized")
  BY <1>1, <1>2, LostStep
<1>3. CASE ~ OnlyMoves(r, "unauthorized")
  <2> DEFINE u   == shown[r].user
             new == {AccessToken(u, shown[r].since)}
  <2>1. /\ Valid(shown[r], "refresh") /\ u \in DOMAIN users
        /\ user' = [user EXCEPT ![r] = u] /\ made' = [made EXCEPT ![r] = new]
        /\ pc' = [pc EXCEPT ![r] = "commit"]
        /\ UNCHANGED <<users, nextId, now, issued, req, shown>>
    BY <1>3 DEF RefreshAccess, Goto
  <2>2. shown[r] \in issued /\ shown[r] \in Token
    BY <2>1, StageFacts DEF Valid, NoToken, TypeOK
  <2>3. /\ shown[r].since \in Nat /\ shown[r].since <= now
        /\ now <= shown[r].since + RefreshLife
    <3>1. shown[r].since \in Nat /\ shown[r].exp \in Nat
      BY <2>2 DEF Token
    <3> QED
      BY <2>1, <2>2, <3>1, StageFacts DEF TokenOK, Valid
  <2>4. new \subseteq Token /\ \A t \in new : TokenOK(t)
    BY <2>1, <2>3, AccessTokenOK
  <2> HIDE DEF new
  <2>5. Others(r) /\ pc'[r] = "commit" /\ made'[r] = new
    BY <2>1, StageFacts DEF Others
  <2>6. TypeOK'
    <3>1. u \in Nat
      BY <2>1 DEF TypeOK
    <3> QED
      BY <2>1, <2>4, <3>1 DEF TypeOK, Working
  <2>7. \A q \in Requests : Inserted(q)' => q # r /\ Inserted(q)
    BY <1>1, <2>1, <2>5 DEF Inserted, Others
  <2>8. Numbered' /\ KeyLocks'
    BY <2>1, <2>5, <2>7 DEF Numbered, KeyLocks, Others
  <2>9. StageOK(r)'
    BY <1>1, <2>1, <2>4, <2>5, StageFacts DEF StageOK, Registered, TokenOK
  <2> QED
    BY <1>1, <2>1, <2>5, <2>6, <2>8, <2>9, QuietStep
<1> QED
  BY <1>2, <1>3

LEMMA CrashStep ==
    ASSUME IInv, NEW r \in Requests, Crash(r)
    PROVE  IInv'
<1> QED
  BY LostStep DEF Crash, Working

\* What a commit leaves of the accounts on file.
LEMMA CommitRows ==
    ASSUME IInv, NEW r \in Requests, Commit(r)
    PROVE  /\ Others(r) /\ pc[r] = "commit" /\ pc'[r] = "done"
           /\ UNCHANGED <<nextId, now, req, shown, user, made>>
           /\ DOMAIN users' = DOMAIN users \cup (IF req[r].op = "register" THEN {user[r]} ELSE {})
           /\ \A u \in DOMAIN users' : users'[u] \in Row
           /\ \A u \in DOMAIN users : users'[u].name = users[u].name /\ users'[u].email = users[u].email
           /\ \A u \in DOMAIN users : users'[u].password # users[u].password =>
                req[r].op = "change" /\ user[r] = u /\ users'[u].password = req[r].new
           /\ req[r].op = "register" =>
                /\ user[r] \notin DOMAIN users
                /\ users'[user[r]].name = req[r].name /\ users'[user[r]].email = req[r].email
<1> USE DEF IInv
<1> DEFINE u == user[r]
<1>1. /\ pc[r] = "commit" /\ users' = Written(r) /\ pc' = [pc EXCEPT ![r] = "done"]
      /\ UNCHANGED <<nextId, now, req, shown, user, made>>
  BY DEF Commit, Goto
<1>2. Others(r) /\ pc'[r] = "done"
  BY <1>1, StageFacts DEF Others
<1>3. req[r].op \in {"register", "login", "change", "refresh"}
  BY StageFacts, RequestType
<1>4. CASE req[r].op = "register"
  <2>1. u \notin DOMAIN users
    BY <1>1, <1>4 DEF Numbered, Inserted
  <2>2. users' = With(u, NewRow(r))
    BY <1>1, <1>4 DEF Written
  <2>3. /\ DOMAIN users' = DOMAIN users \cup {u} /\ users'[u] = NewRow(r)
        /\ \A v \in DOMAIN users : users'[v] = users[v]
    BY <2>1, <2>2 DEF With
  <2>4. /\ NewRow(r) = [f \in {"name", "email", "password"} |-> NewRow(r)[f]]
        /\ NewRow(r).name = req[r].name /\ NewRow(r).email = req[r].email
        /\ NewRow(r).password = req[r].password
    BY DEF NewRow
  <2>5. req[r].name \in Names /\ req[r].email \in Emails /\ req[r].password \in Passwords
    BY <1>4, StageFacts, RequestType
  <2>6. NewRow(r) \in Row
    BY <2>4, <2>5 DEF Row
  <2> QED
    BY <1>1, <1>2, <1>4, <2>1, <2>3, <2>4, <2>6 DEF TypeOK
<1>5. CASE req[r].op = "change"
  <2>1. u \in DOMAIN users
    BY <1>1, <1>5, StageFacts DEF StageOK, Named
  <2>2. users' = [users EXCEPT ![u].password = req[r].new]
    BY <1>1, <1>5 DEF Written
  <2>3. users[u] \in Row /\ req[r].new \in Passwords
    BY <1>5, <2>1, StageFacts, RequestType DEF TypeOK
  <2>4. /\ users'[u] \in Row /\ users'[u].name = users[u].name
        /\ users'[u].email = users[u].email /\ users'[u].password = req[r].new
    BY <2>1, <2>2, <2>3 DEF Row
  <2>5. DOMAIN users' = DOMAIN users /\ \A v \in DOMAIN users \ {u} : users'[v] = users[v]
    BY <2>2
  <2> QED
    BY <1>1, <1>2, <1>5, <2>4, <2>5 DEF TypeOK
<1>6. CASE req[r].op \in {"login", "refresh"}
  <2>1. users' = users
    BY <1>1, <1>6 DEF Written
  <2> QED
    BY <1>1, <1>2, <1>6, <2>1 DEF TypeOK
<1> QED
  BY <1>3, <1>4, <1>5, <1>6

LEMMA CommitStep ==
    ASSUME IInv, NEW r \in Requests, Commit(r)
    PROVE  IInv'
<1> USE DEF IInv
<1>1. /\ Others(r) /\ pc[r] = "commit" /\ pc'[r] = "done"
      /\ UNCHANGED <<nextId, now, req, shown, user, made>>
      /\ DOMAIN users' = DOMAIN users \cup (IF req[r].op = "register" THEN {user[r]} ELSE {})
      /\ \A u \in DOMAIN users : users'[u].name = users[u].name /\ users'[u].email = users[u].email
      /\ req[r].op = "register" =>
           /\ user[r] \notin DOMAIN users
           /\ users'[user[r]].name = req[r].name /\ users'[user[r]].email = req[r].email
  BY CommitRows
<1>2. /\ issued' = issued \cup made[r] /\ StageOK(r) /\ made[r] \subseteq Token
      /\ pc' = [pc EXCEPT ![r] = "done"]
  BY StageFacts DEF Commit, Goto
<1>3. \A t : TokenOK(t) => TokenOK(t)'
  BY <1>1 DEF TokenOK
<1>4. \A t \in issued' : TokenOK(t)'
  BY <1>2, <1>3 DEF StageOK
<1>5. TypeOK'
  <2>1. DOMAIN users' \subseteq 1 .. nextId' - 1
    BY <1>1, StageFacts DEF TypeOK, Numbered, Inserted
  <2>2. \A u \in DOMAIN users' : users'[u] \in Row
    BY CommitRows
  <2>3. issued' \subseteq Token /\ \A t \in issued' : t.user \in DOMAIN users' /\ users'[t.user].name = t.name
    BY <1>2, <1>4 DEF TypeOK, TokenOK
  <2>4. shown' \in [Requests -> issued' \cup {NoToken}]
    BY <1>1, <1>2 DEF TypeOK
  <2>5. pc' \in [Requests -> {"new"} \cup Working \cup Outcomes]
    BY <1>2 DEF TypeOK, Outcomes
  <2> QED
    BY <1>1, <2>1, <2>2, <2>3, <2>4, <2>5 DEF TypeOK
<1>6. Unique'
  <2>1. req[r].op = "register" =>
          \A u \in DOMAIN users : users[u].name # req[r].name /\ users[u].email # req[r].email
    BY <1>1, <1>2 DEF StageOK, Taken
  <2> QED
    BY <1>1, <2>1 DEF Unique
<1>7. \A q \in Requests : Inserted(q)' <=> Inserted(q)
  BY <1>1 DEF Inserted, Others
<1>8. Numbered'
  <2>1. \A q \in Requests : Inserted(q) /\ pc'[q] = "commit" => user[q] \notin DOMAIN users'
    BY <1>1 DEF Numbered, Inserted, Others
  <2> QED
    BY <1>1, <1>7, <2>1 DEF Numbered
<1>9. Stemmed'
  <2>1. ASSUME NEW u \in DOMAIN users' \ DOMAIN SeedUsers
        PROVE  \E q \in Requests : req[q].op = "register" /\ pc'[q] = "done" /\ user[q] = u
    BY <1>1, <2>1 DEF Stemmed, Registered, Others
  <2> QED
    BY <1>1, <2>1 DEF Stemmed, Registered
<1>10. KeyLocks'
  BY <1>1, <1>7 DEF KeyLocks, Others
<1>11. \A q \in Requests : Named(q) \subseteq Named(q)' /\ Taken(q) \subseteq Taken(q)'
  BY <1>1 DEF Named, Taken
<1>12. ASSUME NEW q \in Requests PROVE StageOK(q)'
  <2>1. CASE q = r
    <3>1. req[r].op = "register" => user[r] \in Named(r)'
      BY <1>1 DEF Named
    <3> QED
      BY <1>1, <1>2, <1>3, <2>1, <3>1 DEF StageOK, Registered
  <2>2. CASE q # r
    <3>1. StageOK(q) /\ pc'[q] = pc[q]
      BY <1>1, <2>2 DEF Others
    <3>2. pc[q] = "commit" /\ req[q].op = "register" => Taken(q)' = {}
      <4> HAVE pc[q] = "commit" /\ req[q].op = "register"
      <4>1. Taken(q) = {}
        BY <3>1 DEF StageOK
      <4>2. req[r].op = "register" => req[q].name # req[r].name /\ req[q].email # req[r].email
        BY <1>1, <2>2 DEF KeyLocks, Inserted
      <4> QED
        BY <1>1, <4>1, <4>2 DEF Taken
    <3> QED
      BY <1>1, <1>2, <1>3, <1>11, <2>2, <3>1, <3>2 DEF StageOK, Registered
  <2> QED
    BY <2>1, <2>2
<1> QED
  BY <1>4, <1>5, <1>6, <1>8, <1>9, <1>10, <1>12

LEMMA TickStep == IInv /\ Tick => IInv'
<1> SUFFICES ASSUME IInv, Tick PROVE IInv'
  OBVIOUS
<1> USE DEF IInv, Tick
<1>1. now' = now + 1 /\ now \in Nat /\ now' \in 0 .. MaxTime
  BY LivesAssumption DEF TypeOK
<1>2. \A t \in Token : TokenOK(t) => TokenOK(t)'
  <2> SUFFICES ASSUME NEW t \in Token, TokenOK(t) PROVE TokenOK(t)'
    OBVIOUS
  <2>1. t.since \in Nat
    BY DEF Token
  <2> QED
    BY <1>1, <2>1 DEF TokenOK
<1>3. TypeOK'
  BY <1>1 DEF TypeOK
<1>4. (Unique /\ Numbered /\ Stemmed /\ KeyLocks)'
  BY DEF Unique, Numbered, Stemmed, KeyLocks, Inserted, Registered
<1>5. \A t \in issued' : TokenOK(t)'
  BY <1>2 DEF TypeOK
<1>6. ASSUME NEW r \in Requests PROVE StageOK(r)'
  <2>1. StageOK(r) /\ \A t \in made[r] : TokenOK(t)'
    BY <1>2, StageFacts DEF StageOK
  <2> QED
    BY <2>1 DEF StageOK, Registered, Named, Taken
<1> QED
  BY <1>3, <1>4, <1>5, <1>6

LEMMA Inductive == IInv /\ [Next]_vars => IInv'
<1> SUFFICES ASSUME IInv, [Next]_vars PROVE IInv'
  OBVIOUS
<1>1. CASE UNCHANGED vars
  <2>1. (TypeOK /\ Unique /\ Numbered /\ Stemmed /\ KeyLocks)'
    BY <1>1 DEF vars, IInv, TypeOK, Unique, Numbered, Stemmed, KeyLocks, Inserted, Registered
  <2>2. \A t : TokenOK(t)' <=> TokenOK(t)
    BY <1>1 DEF vars, TokenOK
  <2>3. \A r \in Requests : StageOK(r)'
    BY <1>1, <2>2 DEF vars, IInv, StageOK, Registered, Named, Taken
  <2> QED
    BY <1>1, <2>1, <2>2, <2>3 DEF vars, IInv
<1> QED
  BY <1>1, ReceiveStep, CheckNameStep, CheckEmailStep, InsertUserStep, AuthenticateStep,
     FindUserStep, TouchUserStep, RefreshAccessStep, CommitStep, CrashStep, TickStep DEF Next

LEMMA Invariance == Spec => []IInv
<1> QED
  BY InitIInv, Inductive, PTL DEF Spec
-----------------------------------------------------------------------------
\* The state keeps its type: tokens name accounts on file by their username.
THEOREM TypeCorrect == Spec => []TypeOK
<1>1. IInv => TypeOK
  BY DEF IInv
<1> QED
  BY <1>1, Invariance, PTL

\* Accounts never share a username or an email address, accounts beyond the
\* seed and accepted registrations match one to one, and who is refused met an
\* account on file, however registrations overlap and die.
THEOREM OverlappingRegistrationsAgree == Spec => []RegistrationsAgree
<1>1. ASSUME IInv, NEW u \in DOMAIN users \ DOMAIN SeedUsers
      PROVE  Cardinality({r \in Requests : req[r].op = "register" /\ pc[r] = "done" /\ user[r] = u}) = 1
  <2>1. PICK q \in Requests : Registered(q) /\ user[q] = u
    BY <1>1 DEF IInv, Stemmed
  <2>2. \A r \in Requests : Registered(r) /\ user[r] = u => r = q
    BY <1>1, <2>1 DEF IInv, Numbered, Inserted, Registered
  <2>3. {r \in Requests : req[r].op = "register" /\ pc[r] = "done" /\ user[r] = u} = {q}
    BY <2>1, <2>2 DEF Registered
  <2> QED
    BY <2>3, FS_Singleton
<1>2. IInv => RegistrationsAgree
  <2> SUFFICES ASSUME IInv PROVE RegistrationsAgree
    OBVIOUS
  <2>1. \A r \in Requests : req[r].op = "register" =>
          /\ pc[r] = "done" => user[r] \in DOMAIN users /\ users[user[r]].name = req[r].name
          /\ pc[r] = "bad_request" => Taken(r) # {}
    BY DEF IInv, StageOK, Registered, Named
  <2>2. Unique
    BY DEF IInv
  <2> QED
    BY <1>1, <2>1, <2>2 DEF RegistrationsAgree, Unique
<1> QED
  BY <1>2, Invariance, PTL

\* Whoever is taken for a user gave that user's password within the lives of
\* one refresh token and one access token.
THEOREM SessionsDoEnd == Spec => SessionsEnd
<1>1. ASSUME IInv, NEW r \in Requests, [Next]_vars, pc[r] = "auth", pc'[r] = "find"
      PROVE  now < shown[r].since + RefreshLife + AccessLife /\ shown[r].since <= now
  <2>1. Authenticate(r)
    <3>1. pc' # pc
      BY <1>1
    <3>2. PICK q \in Requests :
            \/ Receive(q)      \/ CheckName(q) \/ CheckEmail(q) \/ InsertUser(q)
            \/ Authenticate(q) \/ FindUser(q)  \/ TouchUser(q)  \/ RefreshAccess(q)
            \/ Commit(q)       \/ Crash(q)
      BY <1>1, <3>1 DEF Next, vars, Tick
    <3>3. q = r
      BY <1>1, <3>2, StageFacts DEF Receive, CheckName, CheckEmail, InsertUser, Authenticate,
         FindUser, TouchUser, RefreshAccess, Commit, Crash, OnlyMoves, Goto
    <3> QED
      BY <1>1, <3>2, <3>3, StageFacts DEF Receive, CheckName, CheckEmail, InsertUser, FindUser,
         TouchUser, RefreshAccess, Commit, Crash, OnlyMoves, Goto
  <2>2. Valid(shown[r], "access")
    BY <1>1, <2>1, StageFacts DEF Authenticate, OnlyMoves, Goto
  <2>3. shown[r] \in issued /\ shown[r] \in Token
    BY <1>1, <2>2, StageFacts DEF Valid, NoToken, IInv, TypeOK
  <2>4. shown[r].since \in Nat /\ shown[r].exp \in Nat
    BY <2>3 DEF Token
  <2> QED
    BY <1>1, <2>2, <2>3, <2>4, StageFacts DEF IInv, TokenOK, Valid
<1>2. IInv /\ [Next]_vars =>
        [\A r \in Requests : pc[r] = "auth" /\ pc'[r] = "find" =>
            /\ now < shown[r].since + RefreshLife + AccessLife
            /\ shown[r].since <= now]_vars
  BY <1>1
<1> QED
  BY <1>2, Invariance, PTL DEF Spec, SessionsEnd

\* A password changes only by a change that the account's own user asked for
\* with its own token: no login that loaded the account before brings the old
\* one back.
THEOREM PasswordsStand == Spec => PasswordStands
<1>1. ASSUME IInv, [Next]_vars, NEW u \in DOMAIN users, users'[u].password # users[u].password
      PROVE  \E r \in Requests :
                 /\ req[r].op = "change" /\ pc[r] = "commit" /\ pc'[r] = "done"
                 /\ shown[r].user = u /\ users'[u].password = req[r].new
  <2>1. PICK r \in Requests : Commit(r)
    BY <1>1 DEF Next, vars, Tick, Receive, CheckName, CheckEmail, InsertUser, Authenticate,
       FindUser, TouchUser, RefreshAccess, Crash, OnlyMoves
  <2>2. /\ req[r].op = "change" /\ user[r] = u /\ users'[u].password = req[r].new
        /\ pc[r] = "commit" /\ pc'[r] = "done"
    BY <1>1, <2>1, CommitRows
  <2>3. user[r] = shown[r].user
    BY <1>1, <2>2, StageFacts DEF StageOK
  <2> QED
    BY <2>2, <2>3
<1>2. IInv /\ [Next]_vars =>
        [\A u \in DOMAIN users : users'[u].password # users[u].password =>
            \E r \in Requests :
                /\ req[r].op = "change" /\ pc[r] = "commit" /\ pc'[r] = "done"
                /\ shown[r].user = u /\ users'[u].password = req[r].new]_vars
  BY <1>1
<1> QED
  BY <1>2, Invariance, PTL DEF Spec, PasswordStands
==============================================================================
