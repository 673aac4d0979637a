----------------------------- MODULE MCWrappers -----------------------------
(***************************************************************************)
(* Instances of Wrappers for TLC.                                          *)
(***************************************************************************)
EXTENDS Wrappers, TLC

Fil(name, pattern) == [name |-> name, pattern |-> pattern]

Arg(dir, name, title, filters) ==
  [dir |-> dir, name |-> name, title |-> title, filters |-> filters]

(* Every fate of every argument at least once, and filters with a name and *)
(* without, before and after one another.                                  *)
MCArgs ==
  {Arg("ok", "ok", "bad", <<Fil("ok", "ok"), Fil("null", "ok"), Fil("bad", "ok")>>),
   Arg("bad", "null", "ok", <<Fil("bad", "ok"), Fil("null", "null"), Fil("ok", "null")>>),
   Arg("null", "bad", "null", <<>>),
   Arg("http", "null", "null", <<>>)}

Slash == <<47>>
Pct   == 37

(* "/a%41", whose percent sign is escaped in its URI; the byte 255, with   *)
(* digits of either case; a URI that ends in the middle of an escape; the  *)
(* root, of which nothing is escaped; and a file that is not local.        *)
File(rest, path) == [uri |-> FileScheme \o rest, path |-> path]
Escaped == File(Slash \o <<97, Pct, 50, 53, 52, 49>>, Slash \o <<97, Pct, 52, 49>>)
HighByte == File(Slash \o <<Pct, 102, 70, 98>>, Slash \o <<255, 98>>)
Cut      == File(Slash \o <<Pct, 52>>, Slash \o <<Pct, 52>>)
Remote   == [uri |-> <<115, 102, 116, 112, 58, 47, 47, 47, 97>>, path |-> NULL]   \* sftp:///a
NoPath   == File(<<>>, <<>>)

MCAnswers ==
  {<<>>, <<Escaped>>, <<NoPath>>, <<Remote>>, <<Remote, HighByte>>, <<Cut, Remote, Escaped>>,
   <<HighByte, Cut>>}

=============================================================================
