----------------------------- MODULE BlockStore -----------------------------
(***************************************************************************)
(* What the disk buffer cache of the kernel promises to its callers: a     *)
(* store of blocks, of which a part has reached the disk.                  *)
(*                                                                         *)
(* store[x] is what a read of block x returns, stable[x] what the disk     *)
(* holds and a crash leaves.  At any step the cache may write blocks back, *)
(* so stable[x] may become store[x]; it may never become anything else     *)
(* unless the block is written.                                            *)
(*                                                                         *)
(* out is the result of the last step: a value that was read, Nothing, the *)
(* Error of the drive, or Outside for what happens to the store from       *)
(* outside the file system (a crash, another medium, an absolute write).   *)
(*                                                                         *)
(* The promise ends where the drive fails.  A step in which the drive      *)
(* reports an error has out = Error and may make blocks "suspect": nothing *)
(* is promised about them until they have been written again.  Without an  *)
(* error no block becomes suspect, except the one that a program writes    *)
(* behind the cache with INT 26h, and the one that a crash meets in the    *)
(* middle of its write.                                                    *)
(***************************************************************************)
EXTENDS Naturals

CONSTANTS Blocks, Disks, DiskOf, Removable, Values, Nothing, Error, Outside

VARIABLES store, stable, suspect, out

vars == <<store, stable, suspect, out>>

On(d) == {x \in Blocks : DiskOf[x] = d}

Init == /\ stable \in [Blocks -> Values]
        /\ store = stable
        /\ suspect = {}
        /\ out = Nothing

\* The block keeps its content, and may have been written back.
Keeps(x) == /\ store'[x] = store[x]
            /\ stable'[x] \in {stable[x], store[x]}

\* Every block outside W that can be relied upon keeps its content.
KeepsAllBut(W) == \A x \in Blocks \ (suspect' \union W) : Keeps(x)

\* The drive reported an error, or no block became suspect.
Sound == out' # Error /\ suspect' \subseteq suspect

Read(b) ==
  /\ \/ out' = Error
     \/ out' \in Values /\ Sound /\ (out' = store[b] \/ b \in suspect)
  /\ KeepsAllBut({})

\* f gives the blocks that are written their new contents.
Write(f) ==
  /\ \/ /\ out' = Error
        /\ \A x \in DOMAIN f \ suspect' : store'[x] \in {store[x], f[x]}
     \/ /\ out' = Nothing /\ Sound
        /\ \A x \in DOMAIN f : store'[x] = f[x]
  /\ KeepsAllBut(DOMAIN f)

\* A whole sector written past the cache is on the disk at once.
WriteThrough(b, v) ==
  /\ \/ out' = Error /\ b \in suspect'
     \/ out' = Nothing /\ Sound /\ store'[b] = v /\ stable'[b] = v
  /\ KeepsAllBut({b})

\* After a flush that met no error the disk holds the store.
Flush(D) ==
  /\ \/ out' = Error
     \/ /\ out' = Nothing /\ Sound
        /\ \A x \in Blocks \ suspect' : DiskOf[x] \in D => stable'[x] = store[x]
  /\ KeepsAllBut({})

\* The kernel forgets what it holds of a drive: changes that were not flushed
\* are gone.  The medium of a removable drive may be another one.
Drop(d) ==
  /\ out' = Outside /\ Sound
  /\ \A x \in On(d) :
       /\ store'[x] = stable'[x]
       /\ stable'[x] = stable[x] \/ d \in Removable
  /\ \A x \in Blocks \ On(d) : store'[x] = store[x] /\ stable'[x] = stable[x]

\* INT 26h and INT 21h/7305h change the disk behind the cache, which may keep
\* its own copy of the block or drop all that it holds of the drive.
AbsoluteWrite(b, v) ==
  /\ out' = Outside
  /\ suspect' \subseteq suspect \union {b}
  /\ b \in suspect' \/ (store'[b] = v /\ stable'[b] = v)
  /\ \A x \in Blocks \ {b} :
       /\ stable'[x] = stable[x]
       /\ \/ store'[x] = store[x]
          \/ DiskOf[x] = DiskOf[b] /\ store'[x] = stable[x]

\* What was not on the disk is lost; one block may be hit in the middle of
\* its write.
Crash ==
  /\ out' = Outside
  /\ \E t \in Blocks : suspect' \subseteq suspect \union {t}
  /\ \A x \in Blocks \ suspect' :
       store'[x] = stable'[x] /\ stable'[x] \in {stable[x], store[x]}

Next == \/ \E b \in Blocks : Read(b)
        \/ \E b \in Blocks, v \in Values : \/ Write([x \in {b} |-> v])
                                           \/ WriteThrough(b, v)
                                           \/ AbsoluteWrite(b, v)
        \/ \E D \in SUBSET Disks : Flush(D)
        \/ \E d \in Disks : Drop(d)
        \/ Crash
        \/ \E b, c \in Blocks, v, w \in Values :
             b # c /\ Write([x \in {b, c} |-> IF x = b THEN v ELSE w])

Spec == Init /\ [][Next]_vars
=============================================================================
