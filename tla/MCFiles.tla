------------------------------ MODULE MCFiles ------------------------------
(* Two processes, two files and small tables for TLC. *)
EXTENDS Files, TLC

CONSTANTS P1, P2, F1, F2

TwoPsp == {P1, P2}
OneFile == {F1}
TwoFiles == {F1, F2}
FileSymmetry == Permutations(TwoFiles)

Mode(o, s) == [open |-> o, share |-> s, inherit |-> TRUE]
\* Deny none, for reading and writing.
LockFlags == {Mode(2, 4)}
\* Modes that the exceptions treat differently from the general rules, each
\* deny mode, "deny read" by a reader and by a writer; the last a handle that
\* no child inherits.
MixedFlags == {Mode(0, 2), Mode(1, 4), Mode(1, 3), Mode(0, 3), Mode(2, 1), [open |-> 0, share |-> 0, inherit |-> FALSE]}
NoRegions == {}
FirstByte == {<<0, 1>>}
\* With the largest offset 2, a region whose end wraps.
Wrapping == {<<1, 2>>}
\* A region and one strictly inside it.
Nested == {<<0, 3>>, <<1, 1>>}
=============================================================================
