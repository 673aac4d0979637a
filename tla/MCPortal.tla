------------------------------ MODULE MCPortal ------------------------------
(***************************************************************************)
(* Instances of Portal for TLC.  Three URIs: two convert to paths, one     *)
(* does not (path_URI_to_Unix returns NULL for it).                        *)
(***************************************************************************)
EXTENDS Portal, TLC

CONSTANTS u1, u2, bad, p1, p2

MCPathOf == u1 :> p1 @@ u2 :> p2 @@ bad :> NULL

(* Nothing, one file, one that does not convert, and several with the one  *)
(* that does not convert in front.                                         *)
MCSelections == {<<>>, <<u1>>, <<bad>>, <<bad, u1, u2>>}

(* For the runs that are about which answer arrives, not about its files.  *)
MCOneFile == {<<>>, <<u1>>}
MCNoFile  == {<<>>}

=============================================================================
