----------------------------- MODULE LibcSearch -----------------------------
(***************************************************************************)
(* What find_libc (src/recon.c) promises wine_portal_init, and what        *)
(* Bootstrap assumes of it: while the process it looks at lives it may     *)
(* find that process's libc, or fault; it may fail at any time; and        *)
(* whether the errno offset it returns is the right one depends on the     *)
(* code of __errno_location alone.                                         *)
(***************************************************************************)

Forms   == {"errno", "other", "fs", "none"}
Results == {"searching", "right", "wrong", "failed", "fault"}

VARIABLES
  alive,   \* the process is there
  forms,   \* what its __errno_location may look like: the load of errno's
           \* offset comes first, or another load, or only the addition of
           \* fs is there, or neither
  result   \* what find_libc returned

svars == <<alive, forms, result>>

Init ==
  /\ alive = TRUE
  /\ forms \subseteq Forms
  /\ result = "searching"

Finds(r, shown) ==
  /\ result = "searching"
  /\ alive
  /\ forms \cap shown # {}
  /\ result' = r
  /\ UNCHANGED <<alive, forms>>

Fails ==
  /\ result = "searching"
  /\ result' = "failed"
  /\ UNCHANGED <<alive, forms>>

Ends ==
  /\ alive
  /\ alive' = FALSE
  /\ UNCHANGED <<forms, result>>

Next ==
  \/ Finds("right", {"errno", "other"})
  \/ Finds("wrong", {"other"})
  \/ Finds("fault", {"fs"})
  \/ Fails
  \/ Ends

Spec == Init /\ [][Next]_svars

=============================================================================
