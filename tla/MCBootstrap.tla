----------------------------- MODULE MCBootstrap -----------------------------
(***************************************************************************)
(* Instances of Bootstrap for TLC: two processes that call                 *)
(* wine_portal_init.                                                       *)
(***************************************************************************)
EXTENDS Bootstrap, TLC

CONSTANTS p1, p2

(* The pid of p2 begins with the digits of the pid of p1.                  *)
MCPrefixed == p1 :> 32 @@ p2 :> 320

(* Two Wine prefixes gave their processes the same pid.                    *)
MCSame == p1 :> 32 @@ p2 :> 32

(* Address space randomisation puts every libc elsewhere, or is off.       *)
MCRandom == p1 :> 1 @@ p2 :> 2
MCFixed  == p1 :> 1 @@ p2 :> 1

(* Both have the __errno_location find_libc was written for, or one has    *)
(* another.                                                                *)
MCKnown   == [p \in Pids |-> {"load", "fs"}]
MCUnknown == p1 :> {"fs"} @@ p2 :> {"load", "fs"}

=============================================================================
