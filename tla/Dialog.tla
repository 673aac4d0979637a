------------------------------- MODULE Dialog -------------------------------
(***************************************************************************)
(* What a file dialog promises its caller: a call either fails before a    *)
(* dialog is shown, or shows one, waits until the user has chosen in that  *)
(* dialog, and returns what was chosen there.  A cancelled dialog is one   *)
(* in which no file was chosen.                                            *)
(***************************************************************************)
CONSTANTS
  Calls,    \* the calls a program makes
  Selected,  \* the lists of files a user can choose
  NULL      \* no list of files

VARIABLES
  phase,    \* "idle", "open", "chosen", "returned" or "failed"
  choice,   \* what the user chose in the dialog of each call
  result    \* what each call returned

vars == <<phase, choice, result>>

Init ==
  /\ phase  = [c \in Calls |-> "idle"]
  /\ choice = [c \in Calls |-> NULL]
  /\ result = [c \in Calls |-> NULL]

Open(c) ==
  /\ phase[c] = "idle"
  /\ phase' = [phase EXCEPT ![c] = "open"]
  /\ UNCHANGED <<choice, result>>

Fail(c) ==
  /\ phase[c] = "idle"
  /\ phase' = [phase EXCEPT ![c] = "failed"]
  /\ UNCHANGED <<choice, result>>

Choose(c, files) ==
  /\ phase[c] = "open"
  /\ phase'  = [phase EXCEPT ![c] = "chosen"]
  /\ choice' = [choice EXCEPT ![c] = files]
  /\ UNCHANGED result

Return(c) ==
  /\ phase[c] = "chosen"
  /\ phase'  = [phase EXCEPT ![c] = "returned"]
  /\ result' = [result EXCEPT ![c] = choice[c]]
  /\ UNCHANGED choice

Next ==
  \E c \in Calls :
    \/ Open(c)
    \/ Fail(c)
    \/ \E files \in Selected : Choose(c, files)
    \/ Return(c)

Spec == Init /\ [][Next]_vars

=============================================================================
