--------------------------- MODULE MCPatternParser ---------------------------
(***************************************************************************)
(* Instances of PatternParser for TLC: two ordinary characters, the        *)
(* separator, a wide character whose lower byte is that of the separator   *)
(* (U+013B), and one whose lower byte is 0 (U+0100).                       *)
(***************************************************************************)
EXTENDS PatternParser, TLC

CONSTANTS star, dot, semicolon, U013B, U0100, nul

MCByte ==
  star :> star @@ dot :> dot @@ semicolon :> semicolon @@
  U013B :> semicolon @@ U0100 :> nul

=============================================================================
