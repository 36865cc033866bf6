---------------------------- MODULE ClientSession ----------------------------
(***************************************************************************)
(* The Streamlit frontend as a client of the service.  A press of a button *)
(* in a dialog makes one call that writes, or two: evidence and then its   *)
(* file.  A call that is answered 401 is sent once more with a refreshed   *)
(* token; one that is not answered in time is given up, though the service *)
(* may still carry it out.  Pickers search a replica that lags behind, and *)
(* keep what they found for 30 seconds.                                    *)
(*                                                                         *)
(* The access token of a session may run out at any time; one that was     *)
(* issued for a call outlives the call (15 minutes against 60 seconds).    *)
(***************************************************************************)
EXTENDS Naturals, Sequences

CONSTANTS Sessions,    \* the browser sessions
          MaxPresses   \* bound: how often a button is pressed, in all

ASSUME MaxPressesAssumption == MaxPresses \in Nat

-----------------------------------------------------------------------------
Presses == 1 .. MaxPresses
Parts   == {"person", "evidence", "file"}
Dialogs == {"new_person", "add_evidence", "add_evidence_with_file"}
Told    == {"nothing", "added", "half", "refused", "unauthorized", "unreachable", "dropped"}

Message == [session : Sessions, press : Presses, part : Parts,
            again : BOOLEAN, fresh : BOOLEAN]

VARIABLES log,       \* the writes the primary has committed, in order
          applied,   \* how many of them the replica has applied
          wire,      \* the requests on their way to the service
          dialog,    \* per press, the dialog it was made in
          told,      \* per press, what the user was told in the end
          phase, call,  \* per session, the stage of its call, its press and part
          loggedIn,  \* the sessions that hold tokens
          cached,    \* the sessions whose search is cached
          listed     \* how many of the writes the search of a session covers

sessionVars == <<log, applied, wire, dialog, told, phase, call, loggedIn, cached, listed>>

NoCall == [press |-> 0, part |-> "none"]

SessionTypeOK ==
    /\ log \in Seq(Presses \X Parts)
    /\ applied \in 0 .. Len(log)
    /\ wire \subseteq Message
    /\ dialog \in [Presses -> Dialogs \cup {"none"}]
    /\ told \in [Presses -> Told]
    /\ phase \in [Sessions -> {"idle", "first", "refreshing", "again"}]
    /\ call \in [Sessions -> [press : Presses, part : Parts] \cup {NoCall}]
    /\ loggedIn \subseteq Sessions /\ cached \subseteq Sessions
    /\ listed \in [Sessions -> 0 .. applied]

SessionInit ==
    /\ log = << >> /\ applied = 0 /\ wire = {}
    /\ dialog = [p \in Presses |-> "none"]
    /\ told = [p \in Presses |-> "nothing"]
    /\ phase = [s \in Sessions |-> "idle"]
    /\ call = [s \in Sessions |-> NoCall]
    /\ loggedIn = {} /\ cached = {}
    /\ listed = [s \in Sessions |-> 0]

page == <<loggedIn, cached, listed>>
-----------------------------------------------------------------------------
\* _send: a call goes out with the session's access token.
Send(s, press, part, next, rest) ==
    /\ wire' = rest \cup
         {[session |-> s, press |-> press, part |-> part,
           again |-> next = "again", fresh |-> next = "again"]}
    /\ call' = [call EXCEPT ![s] = [press |-> press, part |-> part]]
    /\ phase' = [phase EXCEPT ![s] = next]

\* The dialog ends, with a message or, on st.rerun() in _request, with none.
Tell(s, message, rest) ==
    /\ told' = [told EXCEPT ![call[s].press] = message]
    /\ call' = [call EXCEPT ![s] = NoCall]
    /\ phase' = [phase EXCEPT ![s] = "idle"]
    /\ wire' = rest

\* The user presses the button of a dialog.
Press(s, d) ==
    /\ phase[s] = "idle" /\ s \in loggedIn
    /\ \E p \in Presses :
        /\ dialog[p] = "none" /\ \A q \in Presses : q < p => dialog[q] # "none"
        /\ dialog' = [dialog EXCEPT ![p] = d]
        /\ Send(s, p, IF d = "new_person" THEN "person" ELSE "evidence", "first", wire)
    /\ UNCHANGED <<log, applied, told, page>>

\* Mutant: the dialog does not look at the error of its second call.
FailureIgnored(s, reason) == IF call[s].part = "file" THEN "added" ELSE reason

\* What a dialog says when its call fails: the evidence was created before its file.
Failure(s, reason) == IF call[s].part = "file" THEN "half" ELSE reason

HasFile(s) == dialog[call[s].press] = "add_evidence_with_file"

\* The answer to the call of s arrives.
Hear(s, answer, rest) ==
    \/ /\ answer = "ok" /\ call[s].part = "evidence" /\ HasFile(s)
       /\ Send(s, call[s].press, "file", "first", rest)
       /\ UNCHANGED told
    \/ /\ answer = "ok" /\ ~ (call[s].part = "evidence" /\ HasFile(s))
       /\ Tell(s, "added", rest)
    \/ /\ answer = "unauthorized" /\ phase[s] = "first"
       /\ phase' = [phase EXCEPT ![s] = "refreshing"] /\ wire' = rest
       /\ UNCHANGED <<call, told>>
    \/ /\ answer = "unauthorized" /\ phase[s] = "again"
       /\ Tell(s, "unauthorized", rest)
    \/ /\ answer = "refused"
       /\ Tell(s, Failure(s, "refused"), rest)

\* The session still waits for the answer to m.
Awaits(m) ==
    /\ phase[m.session] \in {"first", "again"}
    /\ call[m.session] = [press |-> m.press, part |-> m.part]
    /\ m.again = (phase[m.session] = "again")

\* The answer to m arrives, or is lost, or comes too late.
Answer(m, answer) ==
    /\ \/ Awaits(m) /\ Hear(m.session, answer, wire \ {m})
       \/ wire' = wire \ {m} /\ UNCHANGED <<phase, call, told>>
    /\ UNCHANGED <<applied, dialog, page>>

\* The service carries m out, on the primary.
Serve(m) ==
    /\ log' = Append(log, <<m.press, m.part>>)
    /\ Answer(m, "ok")

\* The token of m has run out: get_current_user raises before the handler runs.
Unauthorized(m) == ~ m.fresh /\ Answer(m, "unauthorized") /\ UNCHANGED log

\* Any other 4xx or 5xx, after which the middleware has rolled back; with its
\* answer lost, also a request that never reaches the service.
Refuse(m) == Answer(m, "refused") /\ UNCHANGED log

\* Mutant: the session retries a call that timed out.
TimeoutResends(s) ==
    /\ phase[s] \in {"first", "again"}
    /\ Send(s, call[s].press, call[s].part, phase[s], wire)
    /\ UNCHANGED <<log, applied, dialog, told, page>>

\* Mutant: requests.request without a timeout.
TimeoutNever(s) == FALSE

\* No answer in time, or no connection: RequestException.
Timeout(s) ==
    /\ phase[s] \in {"first", "again"}
    /\ Tell(s, Failure(s, "unreachable"), wire)
    /\ UNCHANGED <<log, applied, dialog, page>>

\* The cached search of s is forgotten: its key holds the access token.
Forget(s) == cached' = cached \ {s} /\ listed' = [listed EXCEPT ![s] = 0]

\* POST /auth/refresh succeeds: the call is sent once more.
Refresh(s) ==
    /\ phase[s] = "refreshing"
    /\ Send(s, call[s].press, call[s].part, "again", wire)
    /\ Forget(s)
    /\ UNCHANGED <<log, applied, dialog, told, loggedIn>>

\* It fails, or is not answered: the session drops its tokens and reruns the page.
RefreshFails(s) ==
    /\ phase[s] = "refreshing"
    /\ Tell(s, "dropped", wire)
    /\ loggedIn' = loggedIn \ {s}
    /\ Forget(s)
    /\ UNCHANGED <<log, applied, dialog>>

\* POST /auth/login from the home page.
Login(s) ==
    /\ s \notin loggedIn
    /\ loggedIn' = loggedIn \cup {s}
    /\ UNCHANGED <<log, applied, wire, dialog, told, phase, call, cached, listed>>

\* The replica applies the next write.
Replicate ==
    /\ applied < Len(log)
    /\ applied' = applied + 1
    /\ UNCHANGED <<log, wire, dialog, told, phase, call, page>>

Searching(s) == phase[s] = "idle" /\ s \in loggedIn \ cached

\* A picker searches, on the replica, and its result is cached.
Search(s) ==
    /\ Searching(s)
    /\ cached' = cached \cup {s}
    /\ listed' = [listed EXCEPT ![s] = applied]
    /\ UNCHANGED <<log, applied, wire, dialog, told, phase, call, loggedIn>>

\* A search that fails is cached as well, error and all.
SearchFails(s) ==
    /\ Searching(s)
    /\ cached' = cached \cup {s}
    /\ UNCHANGED <<log, applied, wire, dialog, told, phase, call, loggedIn, listed>>

\* A search answered 401 whose refresh fails drops the tokens.
SearchDrops(s) ==
    /\ Searching(s)
    /\ loggedIn' = loggedIn \ {s}
    /\ UNCHANGED <<log, applied, wire, dialog, told, phase, call, cached, listed>>

\* Mutant: @st.cache_data without its ttl.
ExpireNever(s) == FALSE

\* The 30 seconds of a cached search are over.
Expire(s) ==
    /\ s \in cached
    /\ Forget(s)
    /\ UNCHANGED <<log, applied, wire, dialog, told, phase, call, loggedIn>>

SessionNext ==
    \/ \E s \in Sessions :
        \/ \E d \in Dialogs : Press(s, d)
        \/ Timeout(s) \/ Refresh(s) \/ RefreshFails(s) \/ Login(s)
        \/ Search(s)  \/ SearchFails(s) \/ SearchDrops(s) \/ Expire(s)
    \/ \E m \in wire : Serve(m) \/ Unauthorized(m) \/ Refuse(m)
    \/ Replicate

SessionSpec == SessionInit /\ [][SessionNext]_sessionVars

\* Every call has a timeout, and so has the refresh.
Timeouts == \A s \in Sessions : WF_sessionVars(Timeout(s)) /\ WF_sessionVars(RefreshFails(s))

\* The replica catches up; caches expire; users sign in again and go on
\* searching, and not every search fails for ever.
Reading ==
    /\ WF_sessionVars(Replicate)
    /\ \A s \in Sessions :
          /\ WF_sessionVars(Login(s)) /\ WF_sessionVars(Expire(s))
          /\ SF_sessionVars(Search(s))

FairSpec == SessionSpec /\ Timeouts /\ Reading
-----------------------------------------------------------------------------
Written(p, part) == \E i \in DOMAIN log : log[i] = <<p, part>>

\* One press writes each of its parts once at most, although a call may be sent
\* twice and may be carried out after it was given up: a call is sent again only
\* when the service has refused it before its handler ran.
WrittenOnce == \A i, j \in DOMAIN log : log[i] = log[j] => i = j

\* What a dialog tells is so: "added" when all of it is on file, "created but file
\* failed" only when the evidence is, and an HTTP error when nothing is.
MessageIsTrue ==
    \A p \in Presses :
        /\ told[p] = "added" =>
              /\ Written(p, IF dialog[p] = "new_person" THEN "person" ELSE "evidence")
              /\ dialog[p] = "add_evidence_with_file" => Written(p, "file")
        /\ told[p] = "half" => Written(p, "evidence")
        /\ told[p] \in {"refused", "unauthorized"} => \A part \in Parts : ~ Written(p, part)

\* Every press comes to an end, though requests and answers are lost.
CallSettles == \A s \in Sessions : phase[s] # "idle" ~> phase[s] = "idle"

\* Once nobody writes (presses are bounded), the search of every session comes to
\* show all that was written, through the lag of the replica and the cache: no
\* cache keeps an old result for ever.
FoundInTheEnd == \A s \in Sessions : []<>(listed[s] = Len(log))
=============================================================================
