---------------------------- MODULE MCParseCache ----------------------------
(***************************************************************************)
(* ParseCache with six file contents: an entry  of one file, a spare       *)
(* buffer retired by a second, misses on the others.                       *)
(***************************************************************************)
EXTENDS ParseCache

=============================================================================
