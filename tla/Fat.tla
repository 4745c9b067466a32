-------------------------------- MODULE Fat --------------------------------
(***************************************************************************)
(* The FAT file system of the kernel (fatfs.c, fattab.c, fatdir.c) on one  *)
(* drive: the file allocation table, the free-space fields of the drive's  *)
(* parameter block (DPB), the directory entries, and the fields of the     *)
(* system file table (SFT) that hold the place of an open file.            *)
(*                                                                         *)
(* A call copies the SFT entry to fnode[0], works there and copies it back *)
(* when it ends.  One call runs at a time; each turn of its loops over the *)
(* clusters is a step here.  The tables are those that the buffer cache    *)
(* shows (BlockStore's store).  Any access may fail, and may then have     *)
(* dropped sectors of the table that were changed and not yet written.     *)
(* SHARE is installed, so that a file that is opened twice shares its      *)
(* changes.                                                                *)
(***************************************************************************)
EXTENDS Integers, FiniteSets, FiniteSetsExt

CONSTANTS
  Size,        \* dpb_size, the number of the last cluster
  CS,          \* sectors of a cluster; offsets and lengths count sectors
  Files, Dirs, \* the names of files and of directories
  NoName,
  SftCount,    \* entries of the SFT
  Exclusive,   \* programs use a file through one SFT entry at a time
  MaxLen,      \* bound on the length of a file and on a position in it
  MaxCount,    \* bound on the length of a transfer
  MaxErrors,   \* bound on the steps in which the drive is in error
  Stale        \* what the disk may have for an entry whose change was dropped

ASSUME FatAssumption ==
  /\ Size \in Nat /\ Size >= 2
  /\ CS \in Nat \ {0}
  /\ SftCount \in Nat /\ MaxLen \in Nat /\ MaxCount \in Nat /\ MaxErrors \in Nat
  /\ MaxLen <= CS * Size   \* so a position is in one of the clusters 0..Size of a file
  /\ Exclusive \in BOOLEAN
  /\ Files \intersect Dirs = {} /\ NoName \notin Files \union Dirs
  /\ IsFiniteSet(Files) /\ IsFiniteSet(Dirs)
  /\ Stale \subseteq 0..(Size + 1)

VARIABLES
  fat,       \* the table
  hint,      \* dpb_cluster: where the search for a free cluster starts
  nfree,     \* dpb_nfreeclst
  dir,       \* the directory entries
  sft,       \* the system file table
  fn,        \* fnode[0] during a call
  call,      \* the call that runs
  res,       \* how the last call ended
  errors,    \* history: steps in which the drive was in error
  damaged    \* history: changes of the table or of the directory were dropped

vars == <<fat, hint, nfree, dir, sft, fn, call, res, errors, damaged>>

Clusters == 2..Size
Names == Files \union Dirs
Slots == 1..SftCount

FREE == 0
BadLink == 1            \* link_fat and next_cluster in error
LAST == Size + 1        \* LONG_LAST_CLUSTER
UNKNCLUSTER == 0
UNKNCLSTFREE == -1      \* 0xffff, which is also what follows 0 when counting down

MaybeCluster == Clusters \union {FREE}

Entry == [used : BOOLEAN, start : MaybeCluster, len : 0..MaxLen]
NoEntry == [used |-> FALSE, start |-> FREE, len |-> 0]

Node == [file : Files \union {NoName}, start : MaybeCluster, len : 0..MaxLen,
         cur : MaybeCluster, rel : 0..Size, pos : 0..MaxLen, clean : BOOLEAN]
NoNode == [file |-> NoName, start |-> FREE, len |-> 0, cur |-> FREE, rel |-> 0,
           pos |-> 0, clean |-> TRUE]

\* op: the call; at: the place in it; name, slot: what it works on; st: the rest
\* of the chain to be freed; left, got: sectors still to be transferred, and
\* those of them that are gathered in one transfer; want: the cluster that
\* would continue the transfer.
NoCall == [op |-> "none", at |-> "none", name |-> NoName, slot |-> 0,
           st |-> LAST, left |-> 0, got |-> 0, want |-> 0]
Call == [op : {"none", "read", "write", "truncate", "create", "delete", "mkdir", "rename"},
         at : {"none", "extend", "data", "more", "shrink", "wipe", "slot"},
         name : Names \union {NoName}, slot : 0..SftCount,
         st : Clusters \union {LAST}, left : 0..MaxCount, got : 0..MaxCount,
         want : 0..LAST]

Init ==
  /\ fat = [c \in Clusters |-> FREE]
  /\ hint = UNKNCLUSTER /\ nfree = UNKNCLSTFREE
  /\ dir = [f \in Names |-> NoEntry]
  /\ sft = [s \in Slots |-> NoNode]
  /\ fn = NoNode /\ call = NoCall
  /\ res = "ok" /\ errors = 0 /\ damaged = FALSE
-----------------------------------------------------------------------------
(* The table *)

Free == {c \in Clusters : fat[c] = FREE}

\* A step in which the drive is in error, or is not.
Drive(e) == /\ e => errors < MaxErrors
            /\ errors' = errors + (IF e THEN 1 ELSE 0)

\* flush1: a changed sector that cannot be written is dropped, and what the disk
\* has for its entries is read again.
Dropped(g) ==
  {[c \in Clusters |-> IF c \in S THEN v[c] ELSE g[c]] :
     S \in SUBSET Clusters, v \in [Clusters -> Stale]}
Damage(g) == fat' \in Dropped(g) /\ damaged' = TRUE

\* The table becomes g; an error may drop changes of it, these or earlier ones.
Becomes(g, e) == \/ fat' = g /\ UNCHANGED damaged
                 \/ e /\ Damage(g)

\* Mutant: the count changes although it is not known.
Counted_always(g) ==
  nfree + Cardinality({c \in Clusters : g[c] = FREE}) - Cardinality(Free)
Counted(g) ==
  IF nfree = UNKNCLSTFREE THEN UNKNCLSTFREE
  ELSE nfree + Cardinality({c \in Clusters : g[c] = FREE}) - Cardinality(Free)

\* link_fat in write mode: the table becomes g, and the free count follows.
link_fat(g, e) == Becomes(g, e) /\ nfree' = Counted(g)

\* The successor of a cluster, BadLink when the chain runs into a free cluster.
NextIn(g, c) ==
  IF c \notin Clusters THEN BadLink
  ELSE IF g[c] \in Clusters /\ g[g[c]] = FREE THEN BadLink
  ELSE g[c]
next_cluster(c) == NextIn(fat, c)

\* find_fat_free: from the hint on, and around the end of the table, to the
\* first cluster that is free, or until the search is back where it started.
SearchStart == IF hint = UNKNCLUSTER THEN 2 ELSE hint

\* The cluster after n turns of the loop.
Search == LET idx[n \in 0..Size] == IF n = 0 THEN SearchStart
                                    ELSE IF idx[n - 1] + 1 > Size THEN 2 ELSE idx[n - 1] + 1
          IN  idx
\* Mutant: the search ends where it goes around.
Back_around(n) == n > 0 /\ Search[n] = 2
Back(n) == n > 0 /\ Search[n] = SearchStart

\* The cluster found, when those in S are seen to be free.
FirstFree(S) ==
  LET n == Min({k \in 0..Size : Search[k] \in S \/ Back(k)})
  IN  IF Search[n] \in S THEN Search[n] ELSE LAST

\* When sectors of the FAT cannot be read, their clusters count as used.
Seen(e) == IF e THEN SUBSET Free ELSE {Free}
find_fat_free(e) == {FirstFree(S) : S \in Seen(e)}
\* Mutant: the next search starts one cluster further.
HintAfter_next(c) == IF c = LAST THEN UNKNCLUSTER ELSE c + 1
HintAfter(c) == IF c = LAST THEN UNKNCLUSTER ELSE c
-----------------------------------------------------------------------------
(* extend: one more cluster after cluster cur, FREE for an empty file *)

\* The table once c is the last cluster, and then once cur is linked to it.
Marked(c) == [fat EXCEPT ![c] = LAST]

\* What an error between the two leaves.
\* Mutant: cur is linked first.
HalfDone_swapped(c, cur) == [fat EXCEPT ![cur] = c]
HalfDone(c, cur) == Marked(c)

Linked(c, cur) == IF cur = FREE THEN Marked(c) ELSE [Marked(c) EXCEPT ![cur] = c]

extend(cur, c, e) ==
  /\ c \in find_fat_free(e) \ {LAST}
  /\ cur # FREE => NextIn(Marked(c), cur) = LAST
  /\ hint' = HintAfter(c)
  /\ link_fat(Linked(c, cur), e)

\* It returns LONG_LAST_CLUSTER: the disk is full, a table sector cannot be
\* read or written, or cur is not the end of its chain ("FAT chain size bad!").
\* A cluster that was already marked is lost.
extendFails(cur, e) ==
  \E c \in find_fat_free(e) :
    /\ hint' = HintAfter(c)
    /\ \/ (c = LAST \/ e) /\ Becomes(fat, e) /\ UNCHANGED nfree
       \/ /\ c # LAST /\ cur # FREE
          /\ e \/ NextIn(Marked(c), cur) # LAST
          /\ link_fat(HalfDone(c, cur), e)
-----------------------------------------------------------------------------
(* The SFT and the directory *)

Idle == call = NoCall
OpenSlots(f) == {s \in Slots : sft[s].file = f}
FreeSlots == OpenSlots(NoName)
LockedBy(f) == Exclusive /\ OpenSlots(f) # {}

\* merge_file_changes, distributing: the other entries of the file get its start
\* and its length, and keep their place.  In the table t.
Merged(t, x, s) ==
  [o \in Slots |-> IF o # s /\ t[o].file = x.file
                   THEN [t[o] EXCEPT !.start = x.start, !.len = x.len] ELSE t[o]]

\* The call ends; with fnode_to_sft.
Return(r) == call' = NoCall /\ fn' = NoNode /\ res' = r
fnode_to_sft(t, x) == sft' = [t EXCEPT ![call.slot] = x]
ReturnNode(x, r) == Return(r) /\ fnode_to_sft(sft, x)

\* dir_write: the entry of the name f becomes x, and the buffers are flushed.
\* When the sector cannot be read or a buffer cannot be written, it may or may
\* not have changed.
dir_write(f, x, e) ==
  /\ Drive(e)
  /\ \/ dir' = [dir EXCEPT ![f] = x]
     \/ e /\ UNCHANGED dir
  /\ IF e THEN Damage(fat) ELSE UNCHANGED <<fat, damaged>>

EntryOf(x) == [used |-> TRUE, start |-> x.start, len |-> x.len]
-----------------------------------------------------------------------------
(* Calls that are one step *)

\* dos_open of a file that exists.  It collects the start and the length from
\* another entry of the file, if there is one; all are open for writing.
dos_open(f) ==
  /\ Idle /\ FreeSlots # {} /\ dir[f].used /\ ~LockedBy(f)
  /\ LET others == OpenSlots(f)
         from == IF others = {} THEN dir[f] ELSE sft[Min(others)]
     IN  sft' = [sft EXCEPT ![Min(FreeSlots)] =
                   [NoNode EXCEPT !.file = f, !.start = from.start, !.cur = from.start,
                                  !.len = from.len]]
  /\ res' = "ok"
  /\ UNCHANGED <<fat, hint, nfree, dir, fn, call, errors, damaged>>

\* dos_close: an entry that was written to goes to the directory, and the buffers
\* are flushed.  When that fails the SFT entry stays in use.
dos_close(s, commitonly, e) ==
  LET x == sft[s] IN
  /\ Idle /\ x.file # NoName
  /\ IF x.clean THEN Drive(e) /\ Becomes(fat, e) /\ UNCHANGED dir
     ELSE dir_write(x.file, EntryOf(x), e)
  /\ LET merged == IF x.clean THEN sft ELSE Merged(sft, x, s)
     IN  sft' = IF e \/ commitonly THEN merged ELSE [merged EXCEPT ![s] = NoNode]
  /\ res' = IF e THEN "error" ELSE "ok"
  /\ UNCHANGED <<hint, nfree, fn, call>>

\* SftSeek: only the position changes, to anything.
SftSeek(s, p) ==
  /\ Idle /\ sft[s].file # NoName /\ sft[s].pos # p
  /\ sft' = [sft EXCEPT ![s].pos = p]
  /\ UNCHANGED <<fat, hint, nfree, dir, fn, call, res, errors, damaged>>

\* dos_free: the clusters are counted unless the count is known; those of a
\* sector that cannot be read count as used.
dos_free(e) ==
  /\ Idle /\ nfree = UNKNCLSTFREE
  /\ \E S \in Seen(e) :
       /\ nfree' = Cardinality(S)
       /\ hint' = IF S = {} THEN hint ELSE Min(S)
  /\ Drive(e) /\ Becomes(fat, e)
  /\ UNCHANGED <<dir, sft, fn, call, res>>

\* A call that changes nothing else fails in the drive, a search of a directory
\* or a disk reset: to read a sector, or to flush, is to write changed ones.
ReadFails ==
  /\ Idle
  /\ Drive(TRUE) /\ Becomes(fat, TRUE)
  /\ res' = "error"
  /\ UNCHANGED <<hint, nfree, dir, sft, fn, call>>

\* bpb_to_dpb, when the driver does not know whether the medium was changed.
bpb_to_dpb ==
  /\ Idle
  /\ hint' = UNKNCLUSTER /\ nfree' = UNKNCLSTFREE
  /\ UNCHANGED <<fat, dir, sft, fn, call, res, errors, damaged>>
-----------------------------------------------------------------------------
(* rwblock: the calls start *)

Start(c, x) ==
  /\ Idle
  /\ call' = c /\ fn' = x /\ res' = "ok"
  /\ UNCHANGED <<fat, hint, nfree, dir, sft, errors, damaged>>

Read(s, n) ==
  /\ sft[s].file # NoName /\ sft[s].pos < sft[s].len
  /\ Start([NoCall EXCEPT !.op = "read", !.at = "data", !.slot = s, !.left = n], sft[s])

\* A write of no bytes truncates the file.
Write(s, n) ==
  LET x == sft[s] IN
  /\ x.file # NoName /\ x.pos + n <= MaxLen
  /\ Start([NoCall EXCEPT !.op = IF n = 0 THEN "truncate" ELSE "write", !.slot = s,
                          !.at = IF x.pos > x.len THEN "extend"
                                 ELSE IF n = 0 THEN "shrink" ELSE "data",
                          !.left = n],
           [x EXCEPT !.clean = FALSE,
                     !.len = IF n = 0 /\ x.pos <= x.len THEN x.pos ELSE @])
-----------------------------------------------------------------------------
(* map_cluster *)

\* The clusters that follow c in its chain, as next_cluster returns them.
Nth(c) == LET n[i \in 0..Size] == IF i = 0 THEN c ELSE next_cluster(n[i - 1])
          IN  n
ChainOf(c) == LET n == Nth(c) IN {n[i] : i \in 0..Size} \intersect Clusters

\* The cluster of the file, from 0, that is looked for.  shrink_file looks for
\* the one of the last byte.
\* Mutant: the byte before the position is looked for in all modes.
Offset_before == IF fn.pos > 0 THEN fn.pos - 1 ELSE fn.pos
Offset == IF call.at = "shrink" /\ fn.pos > 0 THEN fn.pos - 1 ELSE fn.pos
relcluster == Offset \div CS
Writing == call.op = "write" \/ call.at = "extend"

\* To a place before the current one the way is from the start.
Rewound == IF relcluster < fn.rel THEN [fn EXCEPT !.cur = fn.start, !.rel = 0] ELSE fn

\* The node after i links have been followed.
\* Mutant: the number of the cluster does not follow.
Reached_notCounted(i) == [Rewound EXCEPT !.cur = Nth(@)[i]]
Reached(i) == [Rewound EXCEPT !.cur = Nth(@)[i], !.rel = @ + i]
Links == relcluster - Rewound.rel
Ahead(i) == i = 0 \/ Nth(Rewound.cur)[i] \in Clusters

\* The node when map_cluster succeeds (at most one).
Found(at) ==
  {Reached(i) : i \in {k \in {Links} : call.at = at /\ fn.cur # FREE /\ Ahead(k)}}

\* The nodes when the search stops after i < Links links, because of the chain,
\* whose next link is then in Ends, or of an error e.
Stops(Ends, e) ==
  {i \in 0..Links : /\ fn.cur # FREE /\ i < Links /\ Ahead(i)
                    /\ e \/ Nth(Rewound.cur)[i + 1] \in Ends}

\* The nodes when map_cluster fails.
NotFound(at, e) ==
  IF call.at # at THEN {}
  ELSE {fn : i \in {k \in {0} : fn.cur = FREE /\ ~Writing /\ ~e}} \union
       {Reached(i) : i \in Stops({FREE, BadLink} \union (IF Writing THEN {} ELSE {LAST}), e)}

\* The node when the chain ends before the cluster that is to be written; the
\* file may have no clusters at all.
AtEnd ==
  IF ~Writing THEN {}
  ELSE IF fn.cur = FREE THEN {fn} ELSE {Reached(i) : i \in Stops({LAST}, FALSE)}

Mapping == {"extend", "data", "more", "shrink"}

\* One turn of the loop: the file gets a cluster.
MapExtend(e) ==
  /\ call.at \in Mapping
  /\ \E x \in AtEnd, c \in Clusters :
       /\ extend(x.cur, c, e)
       /\ Drive(e)
       /\ fn' = IF x.cur = FREE THEN [x EXCEPT !.start = c, !.cur = c]
                ELSE [x EXCEPT !.cur = c, !.rel = @ + 1]
  /\ UNCHANGED <<dir, sft, call, res>>
-----------------------------------------------------------------------------
(* rwblock: the transfer *)

\* got units, which end at the position of x, are transferred; the length follows
\* the position.  An error takes the position back.  t is the SFT so far.
Transfer(t, x, got, e) ==
  LET left == call.left - got
      write == call.op = "write"
      y == [x EXCEPT !.len = IF write THEN Max({@, x.pos}) ELSE @]
      merged == IF write THEN Merged(t, y, call.slot) ELSE t
      done == left = 0 \/ (~write /\ y.pos >= y.len)
  IN
  \/ e /\ fnode_to_sft(t, [x EXCEPT !.pos = @ - got]) /\ Return("error")
  \/ ~e /\ done /\ fnode_to_sft(merged, y) /\ Return("ok")
  \/ /\ ~e /\ ~done
     /\ sft' = merged /\ fn' = y
     /\ call' = [call EXCEPT !.at = "data", !.left = left, !.got = 0, !.want = 0]
     /\ UNCHANGED res

\* What can be transferred from the offset p on.
Wanted(p) == IF call.op = "read" THEN Min({call.left, fn.len - p}) ELSE call.left

\* got units from the offset p on are gathered; the next cluster, if there is
\* more to transfer, should be the one after that of x.
Gather(t, x, p, got, e) ==
  LET y == [x EXCEPT !.pos = p + got] IN
  \/ got >= Wanted(p) /\ Transfer(t, y, got, e)
  \/ /\ got < Wanted(p) /\ ~e
     /\ sft' = t /\ fn' = y
     /\ call' = [call EXCEPT !.at = "more", !.got = got, !.want = x.cur + 1]
     /\ UNCHANGED res

\* The first cluster of a transfer.
Located(e) ==
  /\ \E x \in Found("data") :
       Gather(IF call.op = "write" THEN Merged(sft, x, call.slot) ELSE sft,
              x, x.pos, Min({CS - (x.pos % CS), Wanted(x.pos)}), e)
  /\ Drive(e) /\ Becomes(fat, e)
  /\ UNCHANGED <<hint, nfree, dir>>

\* The next one: it is adjacent, or the transfer ends before it.  The table may
\* be in error, e, and the transfer, t.
Gathered(e, t) ==
  LET p == fn.pos - call.got IN
  /\ \/ \E x \in Found("more") :
          /\ ~e
          /\ IF x.cur = call.want THEN Gather(sft, x, p, Min({call.got + CS, Wanted(p)}), t)
             ELSE Transfer(sft, x, call.got, t)
     \/ \E x \in NotFound("more", e) : Transfer(sft, x, call.got, t)
  /\ Drive(e \/ t) /\ Becomes(fat, e)
  /\ UNCHANGED <<hint, nfree, dir>>

\* dos_extend: the file now ends at the position.
Extended ==
  /\ \E x \in Found("extend") :
       LET y == [x EXCEPT !.len = x.pos]
       IN  fn' = y /\ sft' = Merged(sft, y, call.slot)
  /\ call' = [call EXCEPT !.at = IF call.op = "truncate" THEN "shrink" ELSE "data"]
  /\ UNCHANGED <<fat, hint, nfree, dir, res, errors, damaged>>

\* map_cluster finds no cluster: what was transferred is all.
Ended(e) ==
  /\ \E x \in NotFound("extend", e) \union NotFound("data", e) : ReturnNode(x, "error")
  /\ Drive(e) /\ Becomes(fat, e)
  /\ UNCHANGED <<hint, nfree, dir>>

\* It can get none: what is gathered is transferred, and that is all.  An error t
\* of that transfer comes after those of the table.
Full(e, t) ==
  /\ \E x \in AtEnd :
       \/ /\ call.at \in {"extend", "data"} /\ ~t
          /\ extendFails(x.cur, e) /\ ReturnNode(x, "full")
       \/ /\ call.at = "more"
          /\ extendFails(x.cur, e) /\ Transfer(sft, x, call.got, t)
  /\ Drive(e \/ t)
  /\ UNCHANGED dir
-----------------------------------------------------------------------------
(* shrink_file and wipe_out_clusters *)

\* The file is empty already.
ShrinkNothing ==
  /\ call.at = "shrink" /\ fn.pos = 0 /\ fn.cur = FREE
  /\ ReturnNode(fn, "ok")
  /\ UNCHANGED <<fat, hint, nfree, dir, errors, damaged>>

\* The cluster of the last byte is not found, or the table is in error: the SFT
\* entry stays as it was.
ShrinkFails(e) ==
  /\ \/ NotFound("shrink", e) # {} /\ (fn.pos # 0 \/ fn.cur # FREE)
     \/ \E x \in Found("shrink") : e \/ next_cluster(x.cur) \in {FREE, BadLink}
  /\ Return("error")
  /\ Drive(e) /\ Becomes(fat, e)
  /\ UNCHANGED <<hint, nfree, dir, sft>>

Emptied(x) == [x EXCEPT !.cur = FREE, !.start = FREE]

\* It is found, and the file ends there, or has no clusters any more.
Shrink ==
  /\ \E x \in Found("shrink") :
       LET next == next_cluster(x.cur)
           none == fn.len = 0
       IN  /\ next \notin {FREE, BadLink}
           /\ \/ /\ next = LAST /\ ~none
                 /\ ReturnNode(x, "ok")
                 /\ UNCHANGED <<fat, nfree, damaged>>
              \/ /\ next # LAST \/ none
                 /\ link_fat([fat EXCEPT ![x.cur] = IF none THEN FREE ELSE LAST], FALSE)
                 /\ fn' = IF none THEN Emptied(x) ELSE x
                 /\ call' = [call EXCEPT !.at = "wipe", !.st = next]
                 /\ UNCHANGED <<sft, res>>
  /\ UNCHANGED <<hint, dir, errors>>

\* The clusters from st on are freed one by one.  The first error ends it, and
\* the others are lost.
Wipe(e) ==
  LET next == next_cluster(call.st) IN
  /\ call.at = "wipe" /\ call.st # LAST
  /\ Drive(e)
  /\ \/ /\ ~e /\ next > BadLink
        /\ link_fat([fat EXCEPT ![call.st] = FREE], e)
        /\ hint' = IF hint = UNKNCLUSTER \/ hint > call.st THEN call.st ELSE hint
        /\ call' = [call EXCEPT !.st = next]
     \/ /\ e \/ next <= BadLink
        /\ call' = [call EXCEPT !.st = LAST]
        /\ Becomes(fat, e) /\ UNCHANGED <<nfree, hint>>
  /\ UNCHANGED <<dir, sft, fn, res>>

Wiped(op) == call.op = op /\ call.at = "wipe" /\ call.st = LAST

\* The end of shrink_file.  When the buffers cannot be flushed, the SFT entry
\* is left as it was before the call.
Shrunk(e) ==
  /\ Wiped("truncate")
  /\ Drive(e)
  /\ IF e THEN Damage(fat) /\ Return("error") /\ UNCHANGED sft
     ELSE ReturnNode(fn, "ok") /\ UNCHANGED <<fat, damaged>>
  /\ UNCHANGED <<hint, nfree, dir>>
-----------------------------------------------------------------------------
(* Creating and deleting *)

\* wipe_out: the chain to be freed, which an empty file has not.
\* Mutant: none is.
Rest_none(c) == LAST
Rest(c) == IF c = FREE THEN LAST ELSE c

\* dos_open of a file that is replaced (O_TRUNC): wipe_out.
Replace(f) ==
  /\ FreeSlots # {} /\ dir[f].used /\ ~LockedBy(f)
  /\ Start([NoCall EXCEPT !.op = "create", !.at = "wipe", !.name = f,
                          !.slot = Min(FreeSlots), !.st = Rest(dir[f].start)], NoNode)

\* alloc_find_free: the directory has an unused entry, or must be extended, which
\* the root directory cannot be.
alloc_find_free == {"wipe"} \union {at \in {"slot"} : \E d \in Dirs : dir[d].used}

Create(f, at) ==
  /\ FreeSlots # {} /\ ~dir[f].used /\ ~LockedBy(f)
  /\ Start([NoCall EXCEPT !.op = "create", !.at = at, !.name = f,
                          !.slot = Min(FreeSlots)], NoNode)

dos_mkdir(d, at) ==
  /\ ~dir[d].used
  /\ Start([NoCall EXCEPT !.op = "mkdir", !.at = at, !.name = d], NoNode)

\* dos_delete, and dos_rmdir of an empty directory.
dos_delete(f) ==
  /\ dir[f].used /\ ~LockedBy(f)
  /\ Start([NoCall EXCEPT !.op = "delete", !.at = "wipe", !.name = f,
                          !.st = Rest(dir[f].start)], NoNode)

\* extend_dir, which flushes the buffers.  The last cluster of the directory is
\* the current one, or, after an error, one before it.
extend_dir(d, e) ==
  /\ call.at = "slot" /\ dir[d].used
  /\ Drive(e)
  /\ UNCHANGED <<dir, sft>>
  /\ \E cur \in ChainOf(dir[d].start) :
       /\ fat[cur] = LAST \/ e
       /\ \/ extendFails(cur, e) /\ Return("full")
          \/ /\ \E c \in Clusters : extend(cur, c, e)
             /\ \/ call' = [call EXCEPT !.at = "wipe"] /\ UNCHANGED <<fn, res>>
                \/ e /\ Return("error")

\* The new entry of a file is written, and the file is open.
Created(e) ==
  LET f == call.name
      x == [NoNode EXCEPT !.file = f]
  IN
  /\ Wiped("create")
  /\ dir_write(f, EntryOf(x), e)
  /\ IF e THEN Return("error") /\ UNCHANGED sft
     ELSE fnode_to_sft(Merged(sft, x, call.slot), x) /\ Return("ok")
  /\ UNCHANGED <<hint, nfree>>

Deleted(e) ==
  /\ Wiped("delete")
  /\ dir_write(call.name, NoEntry, e)
  /\ Return(IF e THEN "error" ELSE "ok")
  /\ UNCHANGED <<hint, nfree, sft>>

\* The cluster of a new directory is marked before its entry is written and the
\* buffers are flushed; an error between the two loses it.
MadeDir(e) ==
  /\ Wiped("mkdir")
  /\ UNCHANGED sft
  /\ Drive(e)
  /\ \E c \in find_fat_free(e) :
       /\ hint' = HintAfter(c)
       /\ \/ /\ c = LAST \/ e
             /\ Becomes(fat, e) /\ UNCHANGED <<nfree, dir>>
             /\ Return("full")
          \/ /\ c # LAST
             /\ link_fat(Marked(c), e)
             /\ \/ e /\ UNCHANGED dir
                \/ dir' = [dir EXCEPT ![call.name] = [NoEntry EXCEPT !.used = TRUE, !.start = c]]
             /\ Return(IF e THEN "error" ELSE "ok")
-----------------------------------------------------------------------------
(* dos_rename *)

dos_rename(f, at) ==
  /\ dir[f].used /\ ~LockedBy(f)
  /\ \E g \in Files : ~dir[g].used
  /\ Start([NoCall EXCEPT !.op = "rename", !.at = at, !.name = f], NoNode)

\* The entry is renamed in its directory; or it moves to another one, and is
\* deleted in the first before it is written in the second, so that an error
\* between the two loses the file.
Renamed(g, e) ==
  LET f == call.name IN
  /\ Wiped("rename") /\ ~dir[g].used
  /\ Drive(e) /\ Becomes(fat, e)
  /\ \/ dir' = [dir EXCEPT ![f] = NoEntry, ![g] = dir[f]]
     \/ e /\ dir' = [dir EXCEPT ![f] = NoEntry]
     \/ e /\ UNCHANGED dir
  /\ Return(IF e THEN "error" ELSE "ok")
  /\ UNCHANGED <<hint, nfree, sft>>
-----------------------------------------------------------------------------
\* A step of the call that runs.
Step ==
  \/ ShrinkNothing \/ Extended \/ Shrink
  \/ \E e \in BOOLEAN :
       \/ MapExtend(e) \/ Located(e) \/ Ended(e)
       \/ \E t \in BOOLEAN : Gathered(e, t) \/ Full(e, t)
       \/ ShrinkFails(e) \/ Wipe(e) \/ Shrunk(e)
       \/ Created(e) \/ Deleted(e) \/ MadeDir(e)
       \/ \E d \in Dirs : extend_dir(d, e)
       \/ \E g \in Files : Renamed(g, e)

\* A program calls.
Request ==
  \/ \E f \in Files :
       \/ dos_open(f) \/ Replace(f)
       \/ \E at \in alloc_find_free : Create(f, at) \/ dos_rename(f, at)
  \/ \E f \in Names : dos_delete(f)
  \/ \E d \in Dirs, at \in alloc_find_free : dos_mkdir(d, at)
  \/ \E s \in Slots, commitonly, e \in BOOLEAN : dos_close(s, commitonly, e)
  \/ \E s \in Slots, p \in 0..MaxLen : SftSeek(s, p)
  \/ \E s \in Slots, n \in 1..MaxCount : Read(s, n)
  \/ \E s \in Slots, n \in 0..MaxCount : Write(s, n)
  \/ \E e \in BOOLEAN : dos_free(e)
  \/ ReadFails \/ bpb_to_dpb

Next == Step \/ Request

Spec == Init /\ [][Next]_vars
-----------------------------------------------------------------------------
(* Properties *)

\* The variables have their types.
TypeOK ==
  /\ fat \in [Clusters -> 0..LAST]
  /\ hint \in MaybeCluster
  /\ nfree \in Int
  /\ dir \in [Names -> Entry]
  /\ sft \in [Slots -> Node]
  /\ fn \in Node /\ call \in Call
  /\ res \in {"ok", "full", "error"}
  /\ errors \in 0..MaxErrors /\ damaged \in BOOLEAN

\* Where the chains start: as the call that runs knows it, else as the SFT
\* entries of an open file do, else as the directory does.
InCall(f) == fn.file = f \/ (call.op \in {"create", "delete"} /\ call.name = f)
Starts(f) ==
  IF InCall(f) THEN {IF fn.file = f THEN fn.start ELSE FREE}
  ELSE IF OpenSlots(f) # {} THEN {sft[s].start : s \in OpenSlots(f)}
  ELSE IF dir[f].used THEN {dir[f].start} ELSE {}
Heads == (UNION {Starts(f) : f \in Names}) \union {call.st}
Successors == {fat[c] : c \in Clusters}

\* No cluster belongs to two chains: no two clusters have the same successor,
\* none leads to the start of a chain or to a free cluster, two files do not
\* start at the same cluster.  A call that is cut short by an error of the table
\* does not change that ("we only get a harmless lost cluster here",
\* fatfs.c:896); nothing is claimed once changed sectors have been dropped.
NoCrossLinks ==
  LET starts == [f \in Names |-> Starts(f)]
      heads == (UNION {starts[f] : f \in Names}) \union {call.st}
      next == {c \in Clusters : fat[c] \in Clusters}
  IN  ~damaged =>
        /\ \A c, d \in next : fat[c] = fat[d] => c = d
        /\ \A c \in Clusters : fat[c] # BadLink
        /\ \A c \in next : fat[c] \notin heads /\ fat[fat[c]] # FREE
        /\ \A c \in heads : c \in Clusters => fat[c] # FREE
        /\ \A f, g \in Names : f # g => starts[f] \intersect starts[g] \subseteq {FREE}
        /\ \A f \in Names : call.st \in Clusters => call.st \notin starts[f]

\* While the drive works, no cluster is lost: one that is not free is the start
\* of a chain or is linked from another cluster.
NothingLost ==
  errors = 0 => \A c \in Clusters : fat[c] # FREE => c \in Heads \union Successors

\* The count of free clusters, when known, is right; after errors of the drive it
\* may leave out clusters that dos_free could not see, but it never counts one
\* that is not free.
FreeCountExact ==
  (~damaged /\ nfree # UNKNCLSTFREE) =>
    /\ nfree <= Cardinality(Free)
    /\ errors = 0 => nfree = Cardinality(Free)

\* "Disk full" is the truth: while the drive works there is then no free cluster,
\* wherever the search of find_fat_free started.
FullIsTrue == (res = "full" /\ errors = 0) => Free = {}

\* The chain of an open file covers its length, and so does that of a closed one.
Covers(c, n) == n <= CS * Cardinality(ChainOf(c))
LengthCovered ==
  (~damaged /\ Idle) =>
    /\ \A s \in Slots : Covers(sft[s].start, sft[s].len)
    /\ \A f \in Files : (dir[f].used /\ OpenSlots(f) = {}) => Covers(dir[f].start, dir[f].len)

\* An SFT entry that remembers a cluster and its number in the file is right about
\* both: map_cluster may go on from there.
SftOnChain ==
  (~damaged /\ Idle) => \A s \in Slots : sft[s].cur = Nth(sft[s].start)[sft[s].rel]
=============================================================================
