------------------------------- MODULE MCFat -------------------------------
(***************************************************************************)
(* Instances of Fat for TLC.                                               *)
(***************************************************************************)
EXTENDS Fat, TLC

\* Bound: nothing is done after changes were dropped.
NotDamaged == ~damaged

\* Bound: two files are open only while the drive has not failed and there is no
\* directory.
OneOpen == \A s, t \in Slots \ FreeSlots : s = t
Bounded == NotDamaged /\ (OneOpen \/ (errors = 0 /\ \A d \in Dirs : ~dir[d].used))

\* The entry of an SFT slot, which a read or a write replaces by its node when it
\* ends, whatever happens.
Now(s) == IF call.op \in {"read", "write"} /\ call.slot = s THEN fn ELSE sft[s]

\* With Exclusive the directory entry of a file that is open and was written to
\* is not read before dos_close writes it, an SFT entry is known by its file
\* (which of the free ones an open takes does not matter), and only "full" is
\* asked of res.
Unread(f) == Exclusive /\ \E s \in OpenSlots(f) : ~Now(s).clean
View == <<fat, hint, nfree, [f \in Names |-> IF Unread(f) THEN NoEntry ELSE dir[f]],
          {Now(s) : s \in Slots}, fn, [call EXCEPT !.slot = 0],
          res = "full" /\ errors = 0, errors, damaged>>

Symmetry == Permutations(Files)
=============================================================================
