----------------------------- MODULE BufferCache -----------------------------
(***************************************************************************)
(* The disk buffer cache of the kernel (blockio.c): a ring of buffers in   *)
(* the order of their last use, written back when a buffer is needed for   *)
(* another block, when a file is committed or the disks are reset.  It is  *)
(* used by the FAT, directory and data accesses of the file system, which  *)
(* set the flags of the buffers themselves, and it is bypassed by the      *)
(* transfers of whole sectors and by the absolute accesses of programs.    *)
(*                                                                         *)
(* The kernel is not reentrant and every call below runs to its end, so    *)
(* one call is one step.  The exception is the update of a FAT12 entry     *)
(* that lies in two sectors: it is two steps, since it holds a pointer to  *)
(* the first buffer while it asks for the second.                          *)
(*                                                                         *)
(* Any transfer may fail.  The critical error handler then answers "fail"  *)
(* or "abort" (dskxfer returns the error) or "ignore" (dskxfer reports     *)
(* success for a transfer that may not have happened); "retry" is a        *)
(* transfer that took longer.                                              *)
(***************************************************************************)
EXTENDS Naturals, FiniteSets, Sequences, FiniteSetsExt

CONSTANTS
  NBuffers,      \* the buffers that config_init_buffers links
  MinBuffers,    \* BUFFERS=, those below firstAvailableBuf at the start
  Disks,         \* the units
  Removable,     \* those whose medium may be changed
  Blocks,        \* the sectors that are accessed through the cache
  Fat,           \* those of the first copy of the FAT
  DiskOf,        \* the unit of each block
  Values,        \* what a sector may contain
  MaxSuspect,    \* bound on the blocks that are in doubt at a time
  Nothing, Error, Outside   \* results of a step that are not a value read

ASSUME CacheAssumption ==
  /\ NBuffers \in Nat /\ MinBuffers \in Nat /\ MaxSuspect \in Nat
  /\ 2 <= MinBuffers /\ MinBuffers <= NBuffers
  /\ Blocks # {} /\ Fat \subseteq Blocks
  /\ DiskOf \in [Blocks -> Disks] /\ Removable \subseteq Disks
  /\ Nothing \notin Values /\ Error \notin Values /\ Outside \notin Values
  /\ Nothing # Error /\ Nothing # Outside /\ Error # Outside

VARIABLES
  ring,      \* the buffers from firstbuf on, the most recently used one first
  disk,      \* the contents of the blocks on their disks
  mirror,    \* the contents of the second copies of the FAT blocks
  held,      \* the FAT blocks (at most one) whose buffer link_fat holds on to
  suspect,   \* history: blocks that an error of the drive left in doubt
  out        \* result of the last step

vars == <<ring, disk, mirror, held, suspect, out>>

\* extra is the place of the buffer in the array of config_init_buffers, counted
\* from firstAvailableBuf on: 0 for all of the BUFFERS= ones, which are before it.
Buffer == [extra : 0..(NBuffers - MinBuffers), blk : Blocks, data : Values \union {Nothing},
           valid : BOOLEAN, dirty : BOOLEAN, fat : BOOLEAN, uncache : BOOLEAN]

\* A buffer whose flags are 0, of the first unit: nothing looks at its block
\* number and its data.
Empty(k) == [extra |-> k, blk |-> CHOOSE b \in Blocks : TRUE, data |-> Nothing,
             valid |-> FALSE, dirty |-> FALSE, fat |-> FALSE, uncache |-> FALSE]

\* config_init_buffers, in memory that is filled with zeros.
EmptyRing == [i \in 1..NBuffers |-> Empty(IF i <= MinBuffers THEN 0 ELSE i - MinBuffers)]

Init ==
  /\ ring = EmptyRing
  /\ disk \in [Blocks -> Values]
  /\ mirror = [f \in Fat |-> disk[f]]
  /\ held = {}
  /\ suspect = {}
  /\ out = Nothing
-----------------------------------------------------------------------------
(* The ring *)

Positions == 1..Len(ring)

\* move_buffer and the new firstbuf: the buffer at position i, now r, is first.
ToFront(i, r) ==
  [j \in Positions |-> IF j = 1 THEN r ELSE IF j <= i THEN ring[j - 1] ELSE ring[j]]

\* The ring without the buffer at position i.
Unlink(i) ==
  [j \in 1..(Len(ring) - 1) |-> IF j < i THEN ring[j] ELSE ring[j + 1]]

\* Mutant: the search stops before the last buffer of the ring.
Holding_notLast(b) == {i \in 1..(Len(ring) - 1) : ring[i].valid /\ ring[i].blk = b}

\* Mutant: the search does not look at BFR_VALID.
Holding_notValid(b) == {i \in Positions : ring[i].blk = b}

Holding(b) == {i \in Positions : ring[i].valid /\ ring[i].blk = b}
Cached(b) == Holding(b) # {}

\* Mutant: the most recently used buffer is replaced.
Victim_first == 1

\* The buffer that is replaced when the block is not cached: the last one to be
\* released, or the last one that is not of the FAT, or the last one.
Victim ==
  LET uncache == {i \in Positions : ring[i].uncache}
      nonFat == {i \in Positions : ~ring[i].fat}
      fatCount == Cardinality(Positions \ nonFat)
  IN  IF uncache # {} THEN Max(uncache)
      ELSE IF ring[1].fat /\ fatCount < 3 /\ nonFat # {} THEN Max(nonFat)
      ELSE Len(ring)

\* The buffer that searchblock returns: a hit, or the one to be replaced.
searchblock(b) == IF Cached(b) THEN Min(Holding(b)) ELSE Victim

\* What a read of the block returns at this moment.
StoreOf(b) == IF Cached(b) THEN ring[Min(Holding(b))].data ELSE disk[b]
-----------------------------------------------------------------------------
(* Writing buffers *)

Outcomes == {"done", "failed", "ignored"}

Pending(S) == {i \in S : ring[i].valid /\ ring[i].dirty}
BlocksOf(S) == {ring[i].blk : i \in S}

\* flush1 on the buffers S: those of Pending(S) are written, each with the
\* outcome o[i].  A sector whose write was in error is on the disk or is not,
\* and so is its second copy.
Done(S, o) == {i \in Pending(S) : o[i] = "done"}
InError(S, o) == {i \in Pending(S) : o[i] # "done"}

flush1(S, o) ==
  LET fats == BlocksOf({i \in Pending(S) : ring[i].fat})
  IN  \E lost \in SUBSET BlocksOf(InError(S, o)) :
      \E lostCopy \in SUBSET (BlocksOf(InError(S, o)) \intersect fats) :
        /\ disk' = [y \in Blocks |-> IF y \in BlocksOf(Pending(S)) \ lost
                                     THEN StoreOf(y) ELSE disk[y]]
        /\ mirror' = [y \in Fat |-> IF y \in fats \ lostCopy
                                    THEN StoreOf(y) ELSE mirror[y]]

\* A buffer that is not valid keeps its other flags and its unit; nothing reads
\* its block number or its data again.
Invalid(r) ==
  [r EXCEPT !.dirty = FALSE, !.valid = FALSE, !.data = Nothing,
            !.blk = CHOOSE b \in Blocks : DiskOf[b] = DiskOf[r.blk]]

\* The flags of a buffer are set to 0.
Cleared(r) == [Invalid(r) EXCEPT !.fat = FALSE, !.uncache = FALSE]

\* The buffer after flush1.
Failed(i, o) == ring[i].dirty /\ o[i] = "failed"
Flushed(i, o) == IF ring[i].valid /\ ~Failed(i, o)
                 THEN [ring[i] EXCEPT !.dirty = FALSE]
                 ELSE Invalid(ring[i])

FlushedRing(S, o) == [i \in Positions |-> IF i \in S THEN Flushed(i, o) ELSE ring[i]]

\* A block that was written with no error can be relied upon, the others not.
Doubt(S) == Cardinality(S) <= MaxSuspect /\ suspect' = S
SuspectAfter(S, o) == (suspect \ BlocksOf(Done(S, o))) \union BlocksOf(InError(S, o))

Result(e, r) == out' = IF e THEN Error ELSE r
-----------------------------------------------------------------------------
(* getblk *)

\* getblk succeeds.  The buffer that searchblock found then holds d, and e says
\* whether the drive reported an error that was ignored.  With overwrite the
\* block is not read, and the caller does not use d.
getblk(b, overwrite, d, e) ==
  \/ /\ Cached(b)
     /\ d = StoreOf(b) /\ e = FALSE
     /\ UNCHANGED <<disk, mirror, suspect>>
  \/ /\ ~Cached(b)
     /\ \E o \in [Pending({Victim}) -> {"done", "ignored"}], unread \in BOOLEAN :
          /\ unread => ~overwrite
          /\ e = (unread \/ InError({Victim}, o) # {})
          /\ d = disk[b] \/ unread
          /\ Doubt(SuspectAfter({Victim}, o) \union (IF unread THEN {b} ELSE {}))
          /\ flush1({Victim}, o)

\* Mutant: the buffer of a FAT sector is not marked as such.
Got_noFat(b, d) ==
  LET old == ring[searchblock(b)]
  IN  [extra |-> old.extra, blk |-> b, data |-> d, valid |-> TRUE,
       dirty |-> Cached(b) /\ old.dirty, fat |-> FALSE, uncache |-> FALSE]

\* The buffer that getblk returns; getFATblock marks it as one of the FAT.
Got(b, d) ==
  LET old == ring[searchblock(b)]
  IN  [extra |-> old.extra, blk |-> b, data |-> d, valid |-> TRUE,
       dirty |-> Cached(b) /\ old.dirty,
       fat |-> b \in Fat \/ (Cached(b) /\ old.fat), uncache |-> FALSE]

\* getblk returns NULL: the buffer to be replaced could not be written, and is
\* not valid any more; or the block could not be read, and the buffer is what
\* it was before, except that the transfer went into its data.
getblkFails(b, overwrite) ==
  /\ ~Cached(b)
  /\ out' = Error
  /\ \E o \in [Pending({Victim}) -> Outcomes] :
       \/ /\ Pending({Victim}) # {} /\ Failed(Victim, o)
          /\ Doubt(SuspectAfter({Victim}, o))
          /\ ring' = ToFront(Victim, [Flushed(Victim, o) EXCEPT !.uncache = TRUE])
          /\ flush1({Victim}, o)
       \/ /\ Pending({Victim}) = {} \/ ~Failed(Victim, o)
          /\ ~overwrite
          /\ Doubt(SuspectAfter({Victim}, o) \union
                   (IF ring[Victim].valid THEN {ring[Victim].blk} ELSE {}))
          /\ \E junk \in IF ring[Victim].valid THEN Values ELSE {Nothing} :
               ring' = ToFront(Victim, [Flushed(Victim, o) EXCEPT !.uncache = TRUE,
                                                                   !.data = junk])
          /\ flush1({Victim}, o)
-----------------------------------------------------------------------------
(* The accesses of the file system *)

\* A data buffer that was read or written to its end is marked to be replaced
\* first (BFR_UNCACHE).
Released(b) == IF b \in Fat THEN {FALSE} ELSE BOOLEAN

\* A FAT, directory or data sector is read.
Read(b) ==
  /\ held = {}
  /\ UNCHANGED held
  /\ \/ \E d \in Values, e \in BOOLEAN :
          /\ getblk(b, FALSE, d, e)
          /\ \E u \in Released(b) :
               ring' = ToFront(searchblock(b), [Got(b, d) EXCEPT !.uncache = u])
          /\ Result(e, d)
     \/ getblkFails(b, FALSE)

\* A sector is changed to v; with overwrite, all of it.  What getblk read is
\* replaced by v.
Write(b, v, overwrite) ==
  /\ held = {}
  /\ UNCHANGED held
  /\ overwrite => b \notin Fat
  /\ \/ \E e \in BOOLEAN :
          /\ getblk(b, overwrite, StoreOf(b), e)
          /\ \E u \in Released(b) :
               ring' = ToFront(searchblock(b),
                               [Got(b, v) EXCEPT !.dirty = TRUE, !.uncache = u])
          /\ Result(e, Nothing)
     \/ getblkFails(b, overwrite)

\* link_fat, for a FAT12 entry in two sectors: the first of the two buffers, to
\* which it holds a pointer.
LinkFatFirst(f) ==
  /\ held = {}
  /\ \/ \E d \in Values, e \in BOOLEAN :
          /\ getblk(f, FALSE, d, e)
          /\ ring' = ToFront(searchblock(f), Got(f, d))
          /\ held' = {f}
          /\ Result(e, d)
     \/ getblkFails(f, FALSE) /\ UNCHANGED held

\* The second buffer; both are changed, each through its pointer.  The first
\* buffer was the first of the ring and is the second now, unless it was itself
\* taken for the second block.
LinkFatSecond(f, g, v, w) ==
  /\ held = {f}
  /\ g # f /\ DiskOf[g] = DiskOf[f]
  /\ held' = {}
  /\ \/ \E e \in BOOLEAN :
          /\ getblk(g, FALSE, StoreOf(g), e)
          /\ ring' = [ToFront(searchblock(g), [Got(g, w) EXCEPT !.dirty = TRUE])
                        EXCEPT ![IF searchblock(g) = 1 THEN 1 ELSE 2] =
                          [@ EXCEPT !.data = v, !.dirty = TRUE, !.valid = TRUE]]
          /\ Result(e, Nothing)
     \/ getblkFails(g, FALSE)
-----------------------------------------------------------------------------
(* Flushing *)

UnitBuffers(d) == {i \in Positions : DiskOf[ring[i].blk] = d}

\* The buffers of a unit are written.
flush_buffers(d) ==
  /\ held = {}
  /\ \E o \in [Pending(UnitBuffers(d)) -> Outcomes] :
       /\ Doubt(SuspectAfter(UnitBuffers(d), o))
       /\ flush1(UnitBuffers(d), o)
       /\ ring' = FlushedRing(UnitBuffers(d), o)
       /\ Result(InError(UnitBuffers(d), o) # {}, Nothing)
  /\ UNCHANGED held

\* The reset of all disks: all buffers are written, and none is valid.
flush ==
  /\ held = {}
  /\ \E o \in [Pending(Positions) -> Outcomes] :
       /\ Doubt(SuspectAfter(Positions, o))
       /\ flush1(Positions, o)
       /\ ring' = [i \in Positions |-> Invalid(ring[i])]
       /\ Result(InError(Positions, o) # {}, Nothing)
  /\ UNCHANGED held

\* The buffers from firstAvailableBuf on that no request has taken yet.
Additional == {i \in Positions : ring[i].extra > 0}

\* Mutant: a buffer that ends where the requested area begins is taken too.
AllocateHMASpace_touching(i) ==
  /\ held = {}
  /\ \A j \in Additional : ring[i].extra <= ring[j].extra
  /\ \E o \in [Pending({i}) -> Outcomes] :
       /\ Doubt(SuspectAfter({i}, o))
       /\ flush1({i}, o)
       /\ Result(InError({i}, o) # {}, Nothing)
  /\ ring' = Unlink(i)
  /\ UNCHANGED held

\* A request for memory of the HMA (INT 2Fh/4A02h) takes the buffer at
\* firstAvailableBuf, written first if it has changes.  A request that reaches
\* over several buffers is one such step for each.
AllocateHMASpace(i) ==
  /\ held = {}
  /\ i \in Additional /\ \A j \in Additional : ring[i].extra <= ring[j].extra
  /\ \E o \in [Pending({i}) -> Outcomes] :
       /\ Doubt(SuspectAfter({i}, o))
       /\ flush1({i}, o)
       /\ Result(InError({i}, o) # {}, Nothing)
  /\ ring' = Unlink(i)
  /\ UNCHANGED held
-----------------------------------------------------------------------------
(* Transfers past the cache *)

\* Mutant: a whole sector is read from the disk although the cache has changes.
DirectRead_noFlush(b) ==
  /\ held = {}
  /\ b \notin Fat
  /\ \E e \in BOOLEAN : Result(e, disk[b])
  /\ UNCHANGED <<ring, disk, mirror, held, suspect>>

\* rwblock reads a whole sector into the caller's memory, after
\* DeleteBlockInBufferCache has written what the cache holds of it.
DirectRead(b) ==
  /\ held = {}
  /\ b \notin Fat
  /\ \E o \in [Pending(Holding(b)) -> Outcomes], e \in BOOLEAN :
       /\ Doubt(SuspectAfter(Holding(b), o))
       /\ flush1(Holding(b), o)
       /\ ring' = FlushedRing(Holding(b), o)
       /\ Result(e \/ InError(Holding(b), o) # {}, disk'[b])
  /\ UNCHANGED held

\* Mutant: the cache keeps its copy of a sector that is written past it.
DirectWrite_keepCopy(b, v) ==
  /\ held = {}
  /\ b \notin Fat
  /\ \/ /\ disk' = [disk EXCEPT ![b] = v]
        /\ out' = Nothing
        /\ Doubt(suspect \ {b})
     \/ /\ disk' \in {disk, [disk EXCEPT ![b] = v]}
        /\ out' = Error
        /\ Doubt(suspect \union {b})
  /\ UNCHANGED <<ring, mirror, held>>

\* rwblock writes a whole sector, after the cache has dropped its copy.
DirectWrite(b, v) ==
  /\ held = {}
  /\ b \notin Fat
  /\ ring' = [i \in Positions |-> IF i \in Holding(b) THEN Cleared(ring[i]) ELSE ring[i]]
  /\ \/ /\ disk' = [disk EXCEPT ![b] = v]
        /\ out' = Nothing
        /\ Doubt(suspect \ {b})
     \/ /\ disk' \in {disk, [disk EXCEPT ![b] = v]}
        /\ out' = Error
        /\ Doubt(suspect \union {b})
  /\ UNCHANGED <<mirror, held>>

\* setinvld: the buffers of a unit are no longer valid, written or not.
setinvld(d) ==
  ring' = [i \in Positions |-> IF i \in UnitBuffers(d) THEN Cleared(ring[i]) ELSE ring[i]]

\* INT 26h: the sector is written behind the cache, which is invalidated when
\* the write FAILED.
AbsoluteWrite26(b, v) ==
  /\ held = {}
  /\ \/ /\ disk' = [disk EXCEPT ![b] = v]
        /\ Doubt(IF Cached(b) \/ b \in Fat THEN suspect \union {b} ELSE suspect)
        /\ UNCHANGED ring
     \/ /\ disk' \in {disk, [disk EXCEPT ![b] = v]}
        /\ Doubt(suspect \union {b})
        /\ setinvld(DiskOf[b])
  /\ out' = Outside
  /\ UNCHANGED <<mirror, held>>

\* INT 21h/7305h: the same, and the cache is invalidated when the write SUCCEEDED.
AbsoluteWrite7305(b, v) ==
  /\ held = {}
  /\ \/ /\ disk' = [disk EXCEPT ![b] = v]
        /\ Doubt(IF b \in Fat THEN suspect \union {b} ELSE suspect)
        /\ setinvld(DiskOf[b])
     \/ /\ disk' \in {disk, [disk EXCEPT ![b] = v]}
        /\ Doubt(suspect \union {b})
        /\ UNCHANGED ring
  /\ out' = Outside
  /\ UNCHANGED <<mirror, held>>
-----------------------------------------------------------------------------
(* Media changes and crashes *)

dirty_buffers(d) == Pending(UnitBuffers(d)) # {}

\* media_check: the driver does not know, and nothing waits to be written; the
\* buffers are dropped.
MediaUnknown(d) ==
  /\ held = {}
  /\ ~dirty_buffers(d)
  /\ setinvld(d)
  /\ out' = Outside
  /\ UNCHANGED <<disk, mirror, held, suspect>>

\* media_check: the medium is another one (with copies of its FAT that agree),
\* or the check is forced.
MediaChanged(d) ==
  /\ held = {}
  /\ setinvld(d)
  /\ \/ UNCHANGED <<disk, mirror, suspect>>
     \/ /\ d \in Removable
        /\ \E medium \in [{b \in Blocks : DiskOf[b] = d} -> Values] :
             /\ disk' = [b \in Blocks |-> IF DiskOf[b] = d THEN medium[b] ELSE disk[b]]
             /\ mirror' = [f \in Fat |-> IF DiskOf[f] = d THEN medium[f] ELSE mirror[f]]
        /\ Doubt({b \in suspect : DiskOf[b] # d})
  /\ out' = Outside
  /\ UNCHANGED held

\* The buffers that a call has written when it has come to position n: all of
\* the ring, those of a unit, or one.
FlushSets == {Positions} \union {UnitBuffers(d) : d \in Disks} \union {{i} : i \in Positions}
PartlyFlushed == {Pending({i \in U : i <= n}) : U \in FlushSets, n \in 0..Len(ring)}

\* The machine stops, perhaps in the middle of a flush, where the last buffer
\* may be on the disk or not, and starts again.
Crash ==
  /\ \E S \in PartlyFlushed : \E cut \in SUBSET {i \in S : \A j \in S : j <= i} :
       LET o == [i \in S |-> IF i \in cut THEN "failed" ELSE "done"]
       IN  Doubt(SuspectAfter(S, o)) /\ flush1(S, o)
  /\ ring' = EmptyRing
  /\ held' = {}
  /\ out' = Outside

Next ==
  \/ \E b \in Blocks : Read(b) \/ DirectRead(b)
  \/ \E b \in Blocks, v \in Values :
       \/ DirectWrite(b, v) \/ AbsoluteWrite26(b, v) \/ AbsoluteWrite7305(b, v)
       \/ \E overwrite \in BOOLEAN : Write(b, v, overwrite)
  \/ \E f \in Fat : LinkFatFirst(f)
  \/ \E f, g \in Fat, v, w \in Values : LinkFatSecond(f, g, v, w)
  \/ \E d \in Disks : flush_buffers(d) \/ MediaUnknown(d) \/ MediaChanged(d)
  \/ \E i \in Positions : AllocateHMASpace(i)
  \/ flush
  \/ Crash

Spec == Init /\ [][Next]_vars
-----------------------------------------------------------------------------
(* Properties *)

\* The variables have their types: what is on the disk and in a buffer is never
\* the data of a buffer that was not filled.
TypeOK ==
  /\ Len(ring) \in 0..NBuffers
  /\ ring \in [Positions -> Buffer]
  /\ disk \in [Blocks -> Values]
  /\ mirror \in [Fat -> Values]
  /\ held \subseteq Fat
  /\ suspect \subseteq Blocks
  /\ out \in Values \union {Nothing, Error, Outside}

\* The buffers that BUFFERS= asked for stay in the ring, however it has been
\* rearranged and however much of the HMA was requested; link_fat needs two.
BuffersKept == Cardinality(Positions \ Additional) = MinBuffers

\* No block is in two valid buffers, where a write would reach one and a read
\* or the write-back the other.
NoDuplicates ==
  \A i, j \in Positions :
    (ring[i].valid /\ ring[j].valid /\ ring[i].blk = ring[j].blk) => i = j

\* A valid buffer that is not dirty holds what the disk holds: to drop it loses
\* nothing.
CleanIsDisk ==
  \A i \in Positions :
    (ring[i].valid /\ ~ring[i].dirty /\ ring[i].blk \notin suspect)
      => ring[i].data = disk[ring[i].blk]

\* The second copy of each FAT sector agrees with the first one, unless a write
\* of that sector went wrong: every path that fills or writes a FAT buffer knows
\* that it is one.
MirrorsAgree == \A f \in Fat \ suspect : mirror[f] = disk[f]

\* While link_fat holds a pointer to the buffer of its first FAT sector, that
\* buffer is the first of the ring and is not the one that the second sector
\* will take ("blockio.c LRU logic ensures that bp != bp1", fattab.c:248).
HeldIsSafe ==
  \A f \in held : /\ ring[1].valid /\ ring[1].blk = f
                  /\ \A g \in Fat \ {f} : searchblock(g) # 1

\* The cache implements the store of blocks.
Store == [b \in Blocks |-> StoreOf(b)]
BS == INSTANCE BlockStore WITH store <- Store, stable <- disk
ImplementsBlockStore == BS!Spec

\* Reading a block, whether it succeeds or not, leaves every other block what
\* it was, on the disk or in the cache.
ReadSpoilsNothing ==
  [][\A b \in Blocks : Read(b) =>
       \A x \in Blocks \ {b} : StoreOf(x)' \in {StoreOf(x), disk'[x]}]_vars
=============================================================================
