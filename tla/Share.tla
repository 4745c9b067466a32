------------------------------- MODULE Share -------------------------------
(***************************************************************************)
(* SHARE, the resident program that keeps DOS programs out of each other's *)
(* files (share/share.c).  It keeps one entry per open file with the modes *)
(* of the open, and the locked regions of files.  The kernel calls it by   *)
(* INT 2Fh; its four services are operators here, applied by module Files. *)
(*                                                                         *)
(* The fields of an unused entry are never read and are reset here.  The   *)
(* two kinds of refusal, an error code or INT 24h, change the tables alike.*)
(***************************************************************************)
EXTENDS Integers, FiniteSetsExt

CONSTANTS
  File,            \* fully-qualified file names
  NoName,          \* the empty name of an unused entry
  Psp,             \* processes
  AnyPsp,          \* psp 0: locks of every process count
  file_table_size,
  lock_table_size,
  LongMax          \* largest file offset, 0xffffffff in the code

ASSUME ShareAssumption ==
  /\ NoName \notin File /\ AnyPsp \notin Psp
  /\ file_table_size \in Nat \ {0} /\ lock_table_size \in Nat \ {0}
  /\ LongMax \in Nat

VARIABLES file_table, lock_table
shareVars == <<file_table, lock_table>>

Filenos == 0 .. (file_table_size - 1)
LockNos == 0 .. (lock_table_size - 1)
Offset == 0 .. LongMax

SHARE_COMPAT == 0
SHARE_DENY_ALL == 1
SHARE_DENY_WRITE == 2
SHARE_DENY_READ == 3
SHARE_DENY_NONE == 4
OPEN_READ_ONLY == 0
OPEN_WRITE_ONLY == 1
OPEN_READ_WRITE == 2
ShareMode == 0 .. 4
OpenMode == 0 .. 2

FileEntry(n, o, s, fo, fs) ==
  [filename |-> n, openmode |-> o, sharemode |-> s,
   first_openmode |-> fo, first_sharemode |-> fs]
NoFile == FileEntry(NoName, 0, 0, 0, 0)
LockEntry(u, s, e, n, ps) ==
  [used |-> u, start |-> s, end |-> e, fileno |-> n, psp |-> ps]
NoLock == LockEntry(FALSE, 0, 0, 0, AnyPsp)

ShareInit ==
  /\ file_table = [n \in Filenos |-> NoFile]
  /\ lock_table = [i \in LockNos |-> NoLock]

-----------------------------------------------------------------------------
(* Opening.  Pairs (first, current) of sharing modes for which the open    *)
(* proceeds: the zeros of open_actions.                                    *)
open_actions == {<<0, 0>>, <<4, 4>>}

(* first_sharemode, first_openmode, current_sharemode, current_openmode of *)
(* the exceptions; each of them lets the open proceed.                     *)
open_exceptions ==
  {<<0, 0, 2, 0>>, <<0, 0, 4, 0>>, <<2, 0, 0, 0>>, <<2, 0, 2, 0>>, <<2, 0, 4, 0>>,
   <<3, 0, 2, 1>>, <<3, 0, 4, 1>>, <<3, 1, 4, 1>>, <<3, 2, 4, 1>>, <<4, 0, 0, 0>>,
   <<4, 0, 0, 1>>, <<4, 0, 0, 2>>, <<4, 0, 2, 0>>, <<4, 0, 2, 1>>, <<4, 0, 2, 2>>,
   <<4, 1, 3, 0>>, <<4, 1, 3, 1>>, <<4, 1, 3, 2>>}

EntriesOf(f) == {n \in Filenos : file_table[n].filename = f}

(* do_open_check compares with the first entry of the same name only, and  *)
(* with the modes of the open that entry was compared with.                *)
Proceeds_anyOpenmode(fs, fo, s, o) ==
  \/ \E any \in OpenMode : <<fs, fo, s, any>> \in open_exceptions
  \/ <<fs, s>> \in open_actions
Proceeds(fs, fo, s, o) == <<fs, fo, s, o>> \in open_exceptions \/ <<fs, s>> \in open_actions
do_open_check(f, o, s) ==
  \A n \in EntriesOf(f) :
    (\A m \in EntriesOf(f) : n <= m) =>
      Proceeds(file_table[n].first_sharemode, file_table[n].first_openmode, s, o)

NewEntry_ownModes(f, o, s) == FileEntry(f, o, s, o, s)
NewEntry(f, o, s) ==
  IF EntriesOf(f) = {} THEN FileEntry(f, o, s, o, s)
  ELSE LET p == file_table[Min(EntriesOf(f))] IN
       FileEntry(f, o, s, p.first_openmode, p.first_sharemode)

(* open_check succeeds when there is an unused entry, the lowest of which  *)
(* it takes, and the modes agree; otherwise it leaves the tables alone.    *)
NewFileno == Min(EntriesOf(NoName))
open_check(f, o, s) == EntriesOf(NoName) # {} /\ do_open_check(f, o, s)

Opened(f, o, s) == [file_table EXCEPT ![NewFileno] = NewEntry(f, o, s)]

(* close_file, for a set of entries. *)
FilesWithout(N) == [n \in Filenos |-> IF n \in N THEN NoFile ELSE file_table[n]]
LocksWithout_kept(N) == lock_table
LocksWithout(N) ==
  [i \in LockNos |-> IF lock_table[i].fileno \in N THEN NoLock ELSE lock_table[i]]
close_file(N) == file_table' = FilesWithout(N) /\ lock_table' = LocksWithout(N)

-----------------------------------------------------------------------------
(* Locks.  The region [ofs, EndOf(ofs, len)); the sum is taken in 32 bits  *)
(* and a region that wraps ends at the largest offset.                     *)
EndOf_noWrap(ofs, len) == ofs + len
EndOf(ofs, len) ==
  LET e == (ofs + len) % (LongMax + 1) IN IF e < ofs THEN LongMax ELSE e

Hits_closedEnd(ofs, e, l) == \/ ofs >= l.start /\ ofs <= l.end
                             \/ e > l.start /\ e <= l.end
Hits(ofs, e, l) == \/ ofs >= l.start /\ ofs < l.end
                   \/ e > l.start /\ e <= l.end

SameFile(n, l) == file_table[n].filename = file_table[l.fileno].filename

(* access_check returns a lock violation. *)
Violates(ps, n, ofs, len) ==
  LET e == EndOf(ofs, len) IN
  /\ e > ofs
  /\ \E i \in LockNos :
       LET l == lock_table[i] IN
       l.used /\ (ps = AnyPsp \/ l.psp # ps) /\ SameFile(n, l) /\ Hits(ofs, e, l)

(* access_check, called with allowcriter, frees the entry of the file      *)
(* before it raises INT 24h.                                               *)
access_check(ps, n, ofs, len) ==
  /\ Violates(ps, n, ofs, len)
  /\ file_table' = [file_table EXCEPT ![n] = NoFile]
  /\ UNCHANGED lock_table

(* lock_unlock, where it changes the table: a region of at least one byte, *)
(* no lock violation and room in the table.                                *)
FreeLocks == {i \in LockNos : ~lock_table[i].used}
lock(ps, n, ofs, len) ==
  /\ EndOf(ofs, len) > ofs
  /\ ~Violates(AnyPsp, n, ofs, len)
  /\ FreeLocks # {}
  /\ lock_table' = [lock_table EXCEPT ![Min(FreeLocks)] =
                      LockEntry(TRUE, ofs, EndOf(ofs, len), n, ps)]
  /\ UNCHANGED file_table

(* The search for the lock to release gives up at the first entry that is  *)
(* not the one, and so looks at entry 0 only.                              *)
Releases(ps, n, ofs, len) ==
  LET l == lock_table[0] IN
  l.used /\ l.psp = ps /\ l.fileno = n /\ l.start = ofs /\ l.end = EndOf(ofs, len)

unlock(ps, n, ofs, len) ==
  /\ EndOf(ofs, len) > ofs
  /\ Releases(ps, n, ofs, len)
  /\ lock_table' = [lock_table EXCEPT ![0] = NoLock]
  /\ UNCHANGED file_table

-----------------------------------------------------------------------------
ShareTypeOK ==
  /\ file_table \in [Filenos -> [filename : File \cup {NoName},
                                 openmode : OpenMode, sharemode : ShareMode,
                                 first_openmode : OpenMode, first_sharemode : ShareMode]]
  /\ lock_table \in [LockNos -> [used : BOOLEAN, start : Offset, end : Offset,
                                 fileno : Filenos, psp : Psp \cup {AnyPsp}]]

SameName(i, j) ==
  i # j /\ file_table[i].filename = file_table[j].filename /\ file_table[i].filename # NoName

(* All entries of a file remember the modes of the same first open, also   *)
(* after the program that made it closed the file.                         *)
FirstAgrees ==
  \A i, j \in Filenos : SameName(i, j) =>
    /\ file_table[i].first_sharemode = file_table[j].first_sharemode
    /\ file_table[i].first_openmode = file_table[j].first_openmode

(* The entry has the modes of the first open that it remembers. *)
IsFirst(e) == e.openmode = e.first_openmode /\ e.sharemode = e.first_sharemode

(* How others may open a file whose first open has the sharing mode fs. *)
Undenied(fs) == CASE fs = SHARE_DENY_ALL -> {}
                  [] fs = SHARE_DENY_WRITE -> {OPEN_READ_ONLY}
                  [] fs = SHARE_DENY_READ -> {OPEN_WRITE_ONLY}
                  [] OTHER -> OpenMode
Permitted(e) == e.openmode \in Undenied(e.first_sharemode)

(* The first open's sharing mode binds every later open, whatever was      *)
(* opened and closed in between: an entry that does what was denied is the *)
(* first open itself, one per file, and no two entries do it.  So "deny    *)
(* all" has the file alone, beside "deny write" the others only read,      *)
(* beside "deny read" they only write.  A first open that writes under     *)
(* "deny write" has the file alone, too.                                   *)
FirstDenyHonoured ==
  /\ \A n \in Filenos : file_table[n].filename # NoName =>
       IsFirst(file_table[n]) \/ Permitted(file_table[n])
  /\ \A i, j \in Filenos : SameName(i, j) =>
       /\ Permitted(file_table[i]) \/ Permitted(file_table[j])
       /\ file_table[i].first_sharemode = SHARE_DENY_WRITE =>
            file_table[i].first_openmode = OPEN_READ_ONLY

Bytes(l) == {b \in Offset : l.start <= b /\ b < l.end}
SameFileLocks(i, j) ==
  /\ i # j /\ lock_table[i].used /\ lock_table[j].used
  /\ SameFile(lock_table[i].fileno, lock_table[j])

(* share.c:461: "Returns zero if okay to access or lock (no portion of the *)
(* region is already locked)": no byte of a file is locked twice.          *)
LocksDisjoint ==
  \A i, j \in LockNos : SameFileLocks(i, j) =>
    Bytes(lock_table[i]) \cap Bytes(lock_table[j]) = {}

(* What lock_unlock does ensure: a second lock on a locked byte can only   *)
(* be one that contains the first with bytes to spare on both sides, and   *)
(* a lock belongs to a file that is open.                                  *)
LocksNested ==
  /\ \A i \in LockNos : lock_table[i].used =>
       file_table[lock_table[i].fileno].filename # NoName
  /\ \A i, j \in LockNos :
       SameFileLocks(i, j) /\ Bytes(lock_table[i]) \cap Bytes(lock_table[j]) # {}
       => LET a == lock_table[i]  b == lock_table[j] IN
          \/ a.start < b.start /\ b.end < a.end
          \/ b.start < a.start /\ a.end < b.end

(* share.c:543, where an unlock is refused: "Not already locked by us;     *)
(* can't unlock."  A process that holds a lock can release it.             *)
OwnerCanUnlock ==
  \A i \in LockNos :
    LET l == lock_table[i] IN
    l.used => Releases(l.psp, l.fileno, l.start, l.end - l.start)

(* access_check, as a test on intervals: a region is refused exactly when  *)
(* it meets a lock of another process on the file, except for a lock that  *)
(* lies strictly inside the region.                                        *)
AccessExact ==
  \A n \in Filenos, ofs \in Offset, len \in 0 .. LongMax :
    LET e == EndOf(ofs, len)
        met == {i \in LockNos :
                  LET l == lock_table[i] IN
                  /\ l.used /\ SameFile(n, l)
                  /\ ofs < e /\ ofs < l.end /\ l.start < e
                  /\ l.start <= ofs \/ e <= l.end}
    IN
    \A ps \in Psp : Violates(ps, n, ofs, len) <=> \E i \in met : lock_table[i].psp # ps
=============================================================================
