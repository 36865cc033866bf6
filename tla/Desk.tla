-------------------------------- MODULE Desk --------------------------------
(***************************************************************************)
(* People in use: sessions of the frontend, with the dialogs New Person    *)
(* and New Address, beside other clients of the service.                   *)
(*                                                                         *)
(* The address picker of New Person can save a new address with a call of  *)
(* its own; the session keeps its id, which outlives the dialog, until a   *)
(* dialog succeeds.  A call may be given up while the service carries it   *)
(* out, and the user may then press the button again.                      *)
(***************************************************************************)
EXTENDS People

CONSTANTS Sessions,     \* the browser sessions
          OtherClients, \* the requests other clients may send
          SomeName,     \* the name and the address that users type
          SomeAddress

\* Calls are numbered in the order they are made.
ASSUME CallsAssumption == Calls \subseteq Nat
ASSUME ClientsAssumption ==
    OtherClients \subseteq Request /\ SomeName \in Names /\ SomeAddress \in Address

VARIABLES dialog,  \* per session, the dialog that is open
          saved,   \* the address the picker has created and keeps
          call,    \* the call the session waits for, or Nil
          told,    \* per call, whether the user was told of it
          picked   \* the calls that submitted an address the picker kept

desk == <<dialog, saved, call, told, picked>>

DeskTypeOK ==
    /\ TypeOK
    /\ dialog \in [Sessions -> {"none", "new_address", "new_person"}]
    /\ saved \in [Sessions -> Given(Nat)]
    /\ call \in [Sessions -> Given(Calls)]
    /\ told \in [Calls -> {"nothing", "done", "failed"}]
    /\ picked \subseteq Calls

Init ==
    /\ PeopleInit
    /\ dialog = [s \in Sessions |-> "none"]
    /\ saved = [s \in Sessions |-> Nil]
    /\ call = [s \in Sessions |-> Nil]
    /\ told = [r \in Calls |-> "nothing"]
    /\ picked = {}
-----------------------------------------------------------------------------
\* The next call is made.
NextCall(r) == pc[r] = "new" /\ \A q \in Calls : q < r => pc[q] # "new"

NewAddress == [op |-> "create_address", id |-> 0, name |-> Nil, home |-> Nil, address |-> SomeAddress]
NewPerson(home) ==
    [op |-> "create_person", id |-> 0, name |-> SomeName, home |-> home, address |-> Nil]

Idle(s) == call[s] = Nil

\* A button opens a dialog; pickers keep what an earlier one created.
OpenDialog(s, d) ==
    /\ Idle(s) /\ dialog[s] = "none"
    /\ dialog' = [dialog EXCEPT ![s] = d]
    /\ UNCHANGED <<vars, saved, call, told, picked>>

Dismiss(s) ==
    /\ Idle(s) /\ dialog[s] # "none"
    /\ dialog' = [dialog EXCEPT ![s] = "none"]
    /\ UNCHANGED <<vars, saved, call, told, picked>>

\* The session makes the call q and waits for its answer.
Make(s, r, q) ==
    /\ Idle(s) /\ NextCall(r)
    /\ Receive(r, q)
    /\ call' = [call EXCEPT ![s] = r]
    /\ UNCHANGED <<dialog, saved, told>>

\* address_picker: "Save address", offered until an address is kept.
SaveAddress(s, r) ==
    /\ dialog[s] = "new_person" /\ saved[s] = Nil
    /\ Make(s, r, NewAddress)
    /\ UNCHANGED picked

\* "Create address" of the dialog New Address.
SubmitAddress(s, r) ==
    /\ dialog[s] = "new_address"
    /\ Make(s, r, NewAddress)
    /\ UNCHANGED picked

\* "Create person", with the address the picker keeps or with one of the list.
SubmitPerson(s, r) ==
    /\ dialog[s] = "new_person"
    /\ \/ /\ saved[s] # Nil
          /\ Make(s, r, NewPerson(saved[s]))
          /\ picked' = picked \cup {r}
       \/ /\ \E a \in DOMAIN addresses : Make(s, r, NewPerson(a))
          /\ UNCHANGED picked

Tell(s, how) ==
    /\ told' = [told EXCEPT ![call[s]] = how]
    /\ call' = [call EXCEPT ![s] = Nil]
    /\ UNCHANGED <<vars, picked>>

\* Only the picker's own call leaves the dialog open when it succeeds.
Saving(s) == dialog[s] = "new_person" /\ req[call[s]].op = "create_address"

\* The picker keeps the address, or _done clears the pickers and closes the
\* dialog.
HearSuccess(s) ==
    /\ Tell(s, "done")
    /\ IF Saving(s)
       THEN /\ saved' = [saved EXCEPT ![s] = aid[call[s]]]
            /\ UNCHANGED dialog
       ELSE /\ dialog' = [dialog EXCEPT ![s] = "none"]
            /\ saved' = [saved EXCEPT ![s] = Nil]

\* Mutant: the service answers before it commits.
HearEarly(s) == ~ Idle(s) /\ pc[call[s]] \in {"commit", "done"} /\ HearSuccess(s)

\* The service answers with success once it has committed.
HearDone(s) == ~ Idle(s) /\ pc[call[s]] = "done" /\ HearSuccess(s)

\* It failed, or its answer is lost or late: the dialog shows the error.
HearFailure(s) ==
    /\ ~ Idle(s)
    /\ Tell(s, "failed")
    /\ UNCHANGED <<dialog, saved>>

\* Another client of the API sends a request.
OtherClient(r) ==
    /\ NextCall(r)
    /\ \E q \in OtherClients : Receive(r, q)
    /\ UNCHANGED desk

Next ==
    \/ \E r \in Calls :
          \/ Serve(r) /\ UNCHANGED desk
          \/ OtherClient(r)
          \/ \E s \in Sessions : SaveAddress(s, r) \/ SubmitAddress(s, r) \/ SubmitPerson(s, r)
    \/ \E s \in Sessions :
          \/ OpenDialog(s, "new_address") \/ OpenDialog(s, "new_person")
          \/ Dismiss(s) \/ HearDone(s) \/ HearFailure(s)

Spec == Init /\ [][Next]_<<vars, desk>>
-----------------------------------------------------------------------------
\* The id that the picker keeps, through dismissed dialogs, failures and lost
\* answers, is good whenever it is submitted at last: the address is on file as
\* the user typed it, save for what accepted edits of it gave, and no person is
\* refused for it.  (It may be another person than the address was saved for.)
PickedIsSaved ==
    \A r \in picked :
        LET a == req[r].home IN
        /\ pc[r] # "not_found"
        /\ a \in DOMAIN addresses
        /\ \A f \in DOMAIN SomeAddress :
              \/ addresses[a][f] = SomeAddress[f]
              \/ \E q \in Calls : req[q].op # "create_address" /\ Gave(q, a, f)
=============================================================================
