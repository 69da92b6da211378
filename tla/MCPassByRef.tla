---------------------------- MODULE MCPassByRef ----------------------------
(* Small instances of PassByRef for TLC. *)
EXTENDS PassByRef

CONSTANTS
  a, b, c,             \* units: a is the main program
  v, y, ys, w, z,      \* a's local variable, b's arguments and its variable in COMMON, c's argument
  entry,               \* the COMMON block's entry
  lib                  \* a library procedure

FilesSet  == {<<a, b, c>>, <<c, b, a>>}
FormalsFn == [u \in {a, b, c} |-> CASE u = a -> <<>> [] u = b -> <<y, ys>> [] OTHER -> <<z>>]
ScopeFn   == [u \in {a, b, c} |-> CASE u = a -> {v} [] u = b -> {y, ys, w} [] OTHER -> {z}]
BlockFn   == [n \in {v, y, ys, w, z} |-> IF n = w THEN entry ELSE NoBlock]
LibraryFn == [l \in {lib} |-> <<"wrapped">>]
Cycle     == {<<a, b>>, <<b, c>>, <<c, b>>}
=============================================================================
