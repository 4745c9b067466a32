# A TLA+ verification of sdcboot

sdcboot builds the boot media that update firmware and start machines over a
serial console. What runs on them is a FreeDOS system: the kernel
(`src/freedos/source/kernel`), SHARE (`src/freedos/source/share`), the memory
managers and the command interpreter, and the repository's own programs under
`src/src`: the INT 14h serial service `int14.S` and the boot scripts. The
repository says of itself that no tests are available.

This directory holds TLA+ models of the parts that keep state, TLC
configurations that check them on small instances, and TLAPS proofs that every
safety property holds for instances of every size.

## 1. Inventory

### Components

| Component | Source | State it keeps | Operations | Here |
|---|---|---|---|---|
| Memory manager | `kernel/memmgr.c` | the chain of memory control blocks (MCBs) in memory itself, `uppermem_link`, `mem_access_mode` | INT 21h 48h, 49h, 4Ah, 5801h, 5803h; EXEC; termination | `MemMgr` |
| Handles and system file table | `kernel/dosfns.c`, `task.c`, `fatfs.c` | `ps_filetab` of each process, the SFT with its counts, `share_installed` | open, close, dup, force dup, inherit, terminate, lock, transfer, set attributes | `Files` (partly) |
| SHARE | `share/share.c` | `file_table`, `lock_table` | `open_check`, `close_file`, `access_check`, `lock_unlock` | `Share` |
| INT 14h service | `src/src/int14.S` | registers, the UART | `_start`, status, send, receive | `Int14` |
| Disk buffer cache | `kernel/blockio.c` | LRU ring of buffers with VALID, DIRTY, FAT, DATA, DIR flags | `getblk`, `flush1`, `flush_buffers`, `DeleteBlockInBufferCache`, `setinvld`, `dskxfer` | `BufferCache`, `BlockStore` |
| FAT file system | `kernel/fattab.c`, `fatdir.c`, `fatfs.c` | the FAT, directory entries, free cluster hint and count, the place of each open file | open, close, read, write, seek, extend, truncate, create, delete, rename | `Fat` (partly) |
| Program loader | `kernel/task.c` | PSPs, environment blocks | `DosComLoader`, `DosExeLoader`, termination | partly |
| INT 21h dispatcher | `kernel/inthndlr.c` | stacks, InDOS, error state | a switch over function numbers | through the callers |
| FCB calls | `kernel/fcbfns.c` | FCBs in user memory over the SFT | open, close, random and sequential I/O | no |
| Boot scripts | `src/src/autoexec.bat`, `default.ipxe`, `fdconfig.sys` | environment variables | choice of console, firmware loop | no |
| Configuration, drivers, national support, XMS/EMS managers, shell, GNU tools, build | see `PROJECT.json` | | | no |

### How they interact

* Programs call the kernel through INT 21h. DOS is not reentrant: one call runs
  at a time, and the kernel has no threads. What makes it hard is the
  *sequence*: any program may make any call with any argument, in any order,
  and the processes share the arena, the SFT, SHARE's tables and the UMB link.
* The loader and termination (`task.c`) call the memory manager
  (`ExecMemAlloc`, `FreeProcessMem`) and the handle layer (`CloneHandle` in
  `child_psp`, `DosClose` in `return_user`).
* The handle layer calls SHARE through INT 2Fh: at an open and at an attribute
  change (`share_open_check`), at the last close (`share_close_file`), at every
  transfer (`share_access_check`) and for locks (`share_lock_unlock`). Both keep
  tables of open files, joined by a number only (`sft_shroff`). SHARE may be
  started while files are open, and the kernel notices at its next call.
* The file system reads and writes FAT, directory and data sectors through the
  buffer cache and sets the flags of the buffers itself. Transfers of whole sectors
  (`rwblock`) and absolute accesses of programs (INT 26h, INT 21h/7305h) go past the
  cache, which must be flushed or invalidated by hand. A failing transfer ends in the
  critical error handler, whose answer decides what the cache is told.
* A file call copies the SFT entry to `fnode[0]`, works there and copies it back; with
  SHARE the other SFT entries of the same file are updated on the way
  (`merge_file_changes`).
* `int14.S` polls the UART, which shifts bytes in and out on its own while the
  handler runs.

### What is hard in this code

The list, with lines, is `hazards` in `PROJECT.json`. In short:

* *Memory*: the MCB chain lives in the memory it describes and is followed by
  address arithmetic in 16 bits; a size that is off by one corrupts somebody's
  program long afterwards. Blocks that were joined leave MCBs behind inside
  other blocks. Linking and unlinking upper memory rewrites the end mark of a
  chain that allocations split and join meanwhile. A failing resize has already
  changed the chain. Strategies with bit 80h change the global strategy while
  they search.
* *Files*: references are counted in the SFT, while SHARE has one entry for
  each open; closing can fail half-way; a refused transfer frees SHARE's entry;
  after the first opener is gone its sharing modes must go on binding the others.
* *Locks*: half-open regions, 32-bit ends that wrap, nested regions; a lock is
  found by the number of its file entry, which will be used again.
* *Serial port*: the UART moves between two register reads; the count-down
  races with the last poll; another program may have left DLAB set.
* *Buffer cache*: buffers are reused while callers hold pointers to them; direct
  transfers and the cache see the same sectors; a write may fail for one of the copies
  of the FAT; requests for HMA memory take buffers out of the ring by their address; a read may fail after it has overwritten a buffer; power may go at any time.
* *FAT*: a chain is changed by several writes, any of which may fail, and a failed
  write-back drops changes made by earlier calls; the search for free clusters starts
  from a hint and the count of free clusters is cached; an open
  file remembers a cluster and its number across seeks, truncations and the changes
  of others.

## 2. The modules

| Module | Models | |
|---|---|---|
| `MemMgr` | `memmgr.c`, and its callers in `inthndlr.c` and `task.c` | one step per loop iteration |
| `MCMemMgr` | arenas for TLC | |
| `MemMgrProofs` | theorems about `MemMgr`: the chain of MCBs | |
| `MemCallProofs` | theorems about `MemMgr`: what the calls promise | EXTENDS `MemMgrProofs` |
| `Share` | the tables and checks of `share.c` | operators on `file_table` and `lock_table` |
| `Files` | `dosfns.c` and `task.c` over `Share` | EXTENDS `Share`; one step per DOS call |
| `MCFiles` | processes, files and regions for TLC | |
| `FilesProofs` | theorems about `Files` and `Share`: types and sharing modes | |
| `LockProofs` | theorems about `Files` and `Share`: handles, entries, locks | EXTENDS `FilesProofs` |
| `BlockStore` | what the buffer cache promises: a store of blocks that survives crashes in part | abstract |
| `BufferCache` | `blockio.c`, and the buffer accesses of `fattab.c`, `fatdir.c`, `fatfs.c`, `inthndlr.c` | one step per call; refines `BlockStore` |
| `MCBufferCache` | two FAT sectors and a data sector for TLC | |
| `BufferCacheProofs` | theorems about `BufferCache`, and the refinement of `BlockStore` | |
| `Fat` | `fatfs.c`, `fattab.c`, the writing half of `fatdir.c` | one step per turn of a loop over clusters |
| `MCFat` | disks for TLC | |
| `FatProofs` | theorems about `Fat` that need no chains: types, free count, "disk full" | |
| `FatChainProofs` | theorems about the chains of `Fat` | EXTENDS `FatProofs` |
| `Int14` | `int14.S` and the UART | one step per register access |
| `MCInt14` | one port for TLC | |
| `Int14Proofs` | theorems about `Int14` | |

`map` in `PROJECT.json` gives the lines of every definition.

Each module also defines variants of some of its definitions (`CanJoin_any`,
`LastRefs_none`, `Timer_notSet`...), written before the definition they vary. They
are plausible mistakes in the code, `mutants` in `PROJECT.json` pairs every
property with one, and the property fails when the variant takes the place of
the definition. No specification uses them.

### MemMgr

The arena is `first_mcb .. Top - 1`, in paragraphs. Every paragraph can be read
as an MCB, as in the code: `m_type`, `m_psp` and `m_size` are functions on all
paragraphs, so stale MCBs inside blocks are part of the state and a program may
pass any of them to `DosMemFree` or `DosMemChange`. `m_type` is `"M"`, `"Z"` or
`"other"`, and `m_size = 0xffff` is the mark that `joinMCBs` leaves.

`pc` is the place in the code and `ret` where `joinMCBs`, `DosMemCheck` and
`DosUmbLink` return to. The loops advance by one iteration for each step:
`Scan`, `Fit`, `Advance`, `EndScan` are the search of `DosMemAlloc`
(`searchAgain` its second round through low memory), `Take` the split, `Grow` and
`Shrink` the halves of `DosMemChange`, `FreeWalk` that of `FreeProcessMem`,
`UmbWalk` and `UmbSet` those of `DosUmbLink`. `AllocFail`, `ExecFail` and `Retry`
are the second calls that the 48h handler and `ExecMemAlloc` make when the first
one fails. The programs are the actions `Int21Alloc`, `Int21Free`, `Int21Change`,
`ExecMemAlloc`, `FreeProcessMem`, `SetStrategy`, `Int21UmbLink`, and `UserWrite`,
by which a program overwrites the inside of a block it owns.

Assumptions about programs, which nothing in DOS enforces: a program writes
inside its own blocks only, and what it writes there does not look like an MCB.
It may free or resize any pointer except the kernel's own two MCBs
(`SystemMcbs`). The arena that `main.c` and `config.c` leave behind is `Init`: the
kernel's data block and a free block, and with upper memory the block over the
video hole and one free block above it.

### Share and Files

`Share` holds SHARE's two tables. `open_actions` and `open_exceptions` are the
tables of `share.c` as sets of the combinations that may proceed, `Proceeds` is
the decision of `do_open_check`, `NewEntry` the copy of the modes of the first
open, `EndOf` the 32-bit end of a region with its wrap, `Hits` the overlap test,
`Violates` the search of `access_check`, `lock` and `unlock` the two halves of
`lock_unlock`, and `Releases` the loop of the latter that never gets beyond
entry 0.

`Files` composes it with the handle tables and the SFT. Each DOS call is one step
(`DosOpen`, `DosOpenFails`, `CloseHandle`, `DosDup`, `DosForceDup`, `Exec`, `SetPsp`,
`DosLockUnlock`, `DosRWSft`, `DosSetFattr`); termination closes one handle per step
(`Terminate`, `CloseNext`), since each close may fail by itself. `InstallShare` may
happen at any time between calls; `resident` says that SHARE is there and
`share_installed` that the kernel knows. The file system below is nondeterministic:
`dos_open` and `dos_close` succeed or fail. A call that returns an error and changes
nothing is no step, and a transfer that SHARE allows changes none of this state.
Files are model values, and equal names mean equal files, as in `share.c`. Left
out are character devices, network files, FCBs, find first/next and contents.

Every PSP has as many handles as `Handles` (20 in the code, which `child_psp` clones one by
one); INT 21h/67h, which gives a process a longer table, is left out, and the new handle of a
force dup is one of the table, which `DosForceDup` does not check.

One assumption about programs: a task switcher that uses INT 21h/50h does not let
a process return to a parent that no longer exists (the guard of `Terminate`).

### BlockStore and BufferCache

`ring` is the LRU ring from `firstbuf` on, with the flags VALID, DIRTY, FAT and UNCACHE of
each buffer (DATA and DIR decide nothing) and, in `extra`, what is asked of its address: 0
for one of the `BUFFERS=` ones, and else its place from `firstAvailableBuf` on
(`config.c:1974`). `searchblock` returns the buffer that holds a
block or the `Victim`; `getblk` and `getblkFails` are the two ways in which the function of
that name ends; `Read` and `Write` are the accesses of the file system, with the
marks that `getFATblock` and the end of `rwblock` set. `DirectRead` and `DirectWrite` are
the transfers past the cache with `DeleteBlockInBufferCache`, `AbsoluteWrite26` and
`AbsoluteWrite7305` those of programs. `flush1` takes the outcome of each write as
a parameter: done, failed (the handler answered "fail" or "abort") or ignored (it
answered "ignore", and `dskxfer` returns success). A sector whose write was in error may
or may not be on the disk, and its second copy too. One call is one step, except that
`LinkFatFirst` and `LinkFatSecond` are the two halves of `link_fat` for a FAT12 entry that
lies in two sectors, since a pointer to the first buffer is held in between. `Crash` loses
all buffers, perhaps in the middle of a flush: some of the changed buffers have been written
in the order of the ring, and the last of them perhaps not to its end. `AllocateHMASpace` takes
the additional buffer with the lowest address, wherever it is in the ring; the caller
(`inthndlr.c:1713`) moves `firstAvailableBuf` behind it.

`BlockStore` says what callers may rely on. `store` is what a read returns, `stable` what the
disk holds. A read returns the store; a write that reports no error changes it and nothing
else; after a flush that reports no error the disk holds it; blocks reach the disk
only with contents that they have had; after a crash the store is what the disk
holds. An error makes a block `suspect`: nothing is promised about it until it was written
again. `ImplementsBlockStore` maps `store` to what a read of each block would find and
`stable` to `disk`; `suspect` and `out` are history variables of `BufferCache`.

Abstractions: a sector is one value; `b_copies` is 2; FAT sectors are accessed as such
only; an HMA request over several buffers is one step for each of them.

### Fat

`fat`, `hint` (`dpb_cluster`) and `nfree` (`dpb_nfreeclst`) are the table and the fields of
the DPB, `dir` the directory entries by name, `sft` the SFT, `fn` the `fnode[0]` and `call` the
place of the call that runs. Offsets and lengths count sectors; a cluster has `CS` of them.
`link_fat` (in write mode) changes the table and the count, `next_cluster` follows a link
and rejects one to a free cluster. `find_fat_free` is the loop from the hint around the end of the
table: `Search` gives the cluster after each turn and `Back` is the test that ends it; `extend`
and `extendFails` use it. The search of `map_cluster` along the chain is
done by operators (`Rewound`, `Nth`, `Found`, `NotFound`, `AtEnd`), since it changes nothing but
the node; each cluster that it allocates is a step (`MapExtend`). `rwblock` starts with
`Read` or `Write` and goes on with `Extended` (`dos_extend`), `Located` and `Gathered` (the clusters
of one transfer), `Ended` or `Full`; a write of no bytes is the truncation `Shrink`, `Wipe`,
`Shrunk`. `Replace`, `Create`, `dos_mkdir`, `dos_delete` (also `dos_rmdir`) and `dos_rename` start
the calls that change directories; a chain is freed cluster by cluster (`Wipe`) before the
entry is written (`Created`, `Deleted`); `extend_dir` gives a directory one more cluster.

Every step that touches the drive may be in error (`Drive`, at most `MaxErrors` times).
An error has two kinds of consequences. A sector that cannot be *read* cuts the call short: the table is
as it was at that point, and its clusters count as used in the search of `find_fat_free` and the count
of `dos_free` (`Seen`). A changed sector that cannot be *written* is dropped (`blockio.c:335-337`), and its entries
fall back to what the disk has (`Dropped`): changes of this call or of earlier ones, in any step that
may replace a buffer or flush (`Becomes`), also in a close of an unchanged file, `dir_write`, `extend_dir`, and a
search or a disk reset that changes nothing itself (`ReadFails`). `damaged` is then set. So it is when `dir_write` fails,
after which the directory or the SFT may disagree with the table. The properties
about chains say nothing of a damaged disk: the code has no means to keep them.
`bpb_to_dpb` may reset the hint and the count between any two calls.

`Exclusive` says that programs open a file again, replace, delete or rename it only when no
SFT entry refers to it. DOS does not enforce that, and the run `fat_shared` shows what
happens without it. The root directory has a fixed place on the disk; of a directory only the
chain is modelled, and whether an entry is free in it is left open (`alloc_find_free`).

### Int14

One step is one access to a UART register (`StatLcr`, `StatLsr`, `DataOut`, `DataIn`)
or the instructions between two of them (`int14_entry`, `Poll`, `Done`, `Iret`);
`_start` is `uart_init` of the ports the BIOS data area lists. The registers keep
their 16 bits. The UART is external and modelled from the registers the code
uses: `ShiftOut` and `ShiftIn` may happen between any two accesses, and a byte
that arrives before the last one was read overruns it. `SetDlab` is another program
that leaves DLAB set between two calls. `line` and `kept` record what left the UART
and what reached it without an overrun, `sent` and `got` what the calls reported.

## 3. The runs

| Run | Instance | Checks |
|---|---|---|
| `mem` | low and upper memory, two processes, every fit and every area | `TypeOK`, `NoMemIsTrue`, `ResizeRefusedIsTrue`, `FitRule`, `ArenaTiled`, `ChainEnds`, `NoPanic`, `ProcessMemFreed`, `StrategyKept`, `AllocatedUntouched`, `CallReturns` |
| `files_lock` | two processes, two files, nested lock regions, SHARE started at any time | `HandlesCounted`, `SlotPerOpenFile`, `LocksNested`, `AccessExact`, `LockKept` |
| `files_mode` | two processes, one file, readers and writers with every deny mode, refused transfers, attribute changes, a region that wraps | `TypeOK`, `FirstAgrees`, `FirstDenyHonoured` |
| `files_overlap` | nested lock regions | `LocksDisjoint` **is violated** |
| `files_unlock` | nested lock regions | `OwnerCanUnlock` **is violated** |
| `files_entry` | a locked byte and a transfer of it | `SlotPerOpenFile` **is violated** |
| `cache` | two FAT sectors of a hard disk, a sector of a diskette, three buffers of which one can be taken | `TypeOK`, `BuffersKept`, `NoDuplicates`, `CleanIsDisk`, `MirrorsAgree`, `HeldIsSafe`, `ImplementsBlockStore` |
| `cache_read` | the same | `ReadSpoilsNothing` **is violated** |
| `fat` | three clusters, two files, a directory, two SFT entries, one drive error, each file opened by one program | `TypeOK`, `NoCrossLinks`, `NothingLost`, `FreeCountExact`, `FullIsTrue`, `LengthCovered`, `SftOnChain` |
| `fat_shared` | one file opened twice, no errors | `SftOnChain` **is violated** |
| `int14` | one UART and three absent ports, commands 0 to 3, 5 and 81h | `TypeOK`, `SentInOrder`, `ReceivedInOrder`, `DivisorKept`, `CallReturns`, `ReadyIsServed` |
| `int14_command` | commands 3, 4, 5 | `BadCommandRefused` **is violated** |

What the passing runs show:

* *Memory.* After any sequence of calls the blocks tile the arena and the last
  one is marked as the last (`ArenaTiled`, `ChainEnds`); the kernel never halts on its
  own chain (`NoPanic`); no call changes an allocated block it is not about
  (`AllocatedUntouched`); termination frees everything in low and upper memory and
  puts the link back (`ProcessMemFreed`); the temporary strategies are undone
  (`StrategyKept`); "out of memory" is true, even counting neighbours that could be
  joined, and the size reported in BX is available (`NoMemIsTrue`), with one exception that the
  property names (`ChoseEmpty`): a request for 0 paragraphs is also refused when best or last
  fit chose an empty block (`memmgr.c:195`), although there may be a larger one; a resize is
  refused only when the block and the free blocks behind it are too small
  (`ResizeRefusedIsTrue`); the block taken is
  the one the strategy names (`FitRule`); every call returns (`CallReturns`).
* *Files.* No handle is left uncounted, so a file in use is never closed under a
  handle by the closes of others (`HandlesCounted`); two open files never share an
  entry of SHARE, and each has one (`SlotPerOpenFile`); a lock lasts until its
  owner unlocks it or its file's last reference is gone, so that closing one of several handles never
  ends it, whichever process closes (`LockKept`); locked regions on one file are disjoint or strictly nested, the most
  that the overlap test gives (`LocksNested`); access is refused exactly when a
  region meets another's lock otherwise than by containing it (`AccessExact`); all entries of a
  file remember the same first open (`FirstAgrees`), and its deny mode binds the later
  opens even when the first opener is gone: who reads where reading was denied, or writes where
  writing was, is the first open itself, and no two entries of a file do (`FirstDenyHonoured`).
  Attribute changes are part of `files_mode` and not of `files_lock`: the code means
  them to close files under the handles that refer to them, and then the properties
  of `files_lock` do not hold and are not meant to. Refused transfers are kept apart
  for the reason that `files_entry` shows.
* *Buffer cache.* The cache implements `BlockStore` (`ImplementsBlockStore`): cached and
  direct accesses see the same sectors, nothing but a drive error, a crash or an
  absolute write makes a block doubtful, and an error makes only the blocks doubtful that were being
  transferred, or whose buffer was; an absolute write may leave the block it wrote in
  doubt, since INT 26h keeps the cached copy, and no other. No HMA request takes a buffer that `BUFFERS=` asked for,
  so that `link_fat` finds two (`BuffersKept`). No block is in two buffers
  (`NoDuplicates`); dropping a clean buffer loses nothing (`CleanIsDisk`); the copies of the
  FAT agree unless a write of that sector went wrong (`MirrorsAgree`); the buffer that
  `link_fat` holds is never the one that its second access takes (`HeldIsSafe`), which
  the comment in `fattab.c:248` claims of a rule in another file.
* *FAT.* As long as no failed write has dropped changes, no cluster is in two chains and no chain leads to a
  free cluster, wherever an error cuts a call short (`NoCrossLinks`), and the cached free count
  is never too high (`FreeCountExact`). While the drive works no cluster is lost
  (`NothingLost`), the count is exact, and "disk full" is true wherever the hint is
  (`FullIsTrue`). After an error the count may be too low, since `dos_free` counts
  clusters that it cannot read as used. The chain of every file covers its length
  (`LengthCovered`), also after a write that stopped half-way and a truncation at a cluster boundary;
  the cluster that an open file remembers is the one at the remembered place of its
  chain (`SftOnChain`).
* *Serial port.* The bytes on the line are those that calls reported as sent, in
  order and once each (`SentInOrder`); the bytes that calls returned are those that
  arrived and were not overrun (`ReceivedInOrder`), also when the byte arrives on the
  last poll; no call disturbs the speed of a port (`DivisorKept`); every call returns
  (`CallReturns`), and one that finds the UART ready does not report a timeout
  (`ReadyIsServed`).

### Where the code disagrees with what it says

* `files_unlock`: the loop that looks for the lock to release returns from its first
  iteration (`share.c:544`); only the lock in entry 0 can ever be released.
* `files_overlap`: a lock around a locked region is granted (`share.c:490`), although
  the comment says that no portion of the region is locked.
* `files_entry`: a refused transfer frees SHARE's entry of a file that stays open
  (`share.c:500`); later opens are not compared with it, and the next one gets the
  same number.
* `cache_read`: `getblk` reads into a buffer that is still valid for its old block, and
  leaves it so when the read fails (`blockio.c:234`); the old block then has wrong contents.
* `fat_shared`: a write to an empty file that is open twice does not give the other SFT
  entry a current cluster (`fatfs.c:383`); its next write starts a second chain and the
  first one is lost.
* `int14_command`: command 4, one past the last, passes the range check and calls
  offset 0 of the segment (`int14.S:149`).

### Bounds

* *MemMgr.* The arena has six paragraphs (1 to 6, `Top` is 7), with `WordMax` 65535 as in
  the code, and upper memory begins at 5. That is room for allocated blocks between
  free ones in low memory and a block above, for empty blocks,
  exact fits and fits that leave an empty remainder, for stale MCBs inside blocks, and for
  best fit to have a choice when upper memory is linked. Requests are for 0, 1 or 2 paragraphs:
  with two, a loader can get the largest block and find that it is still too small. A larger arena
  adds blocks of kinds that are already there, and the proofs cover every arena.
* *Files.* Two entries in the SFT, in SHARE's file table and in each handle table, so
  that every table is full in some states and empty in others; two locks; offsets
  up to 3 (2 in `files_mode`), enough for a region, one strictly inside it, and one
  whose end wraps. `MaxCount` (3 in `files_lock`, 2 in `files_mode`) caps `sft_count`, which a close
  that fails never gives back; without it the count would grow for ever.
  Two processes are enough for inheriting, switching and a lock of somebody else.
* *BufferCache.* Three buffers while nothing has been taken, two afterwards, and three
  blocks: so every block is at some time replaced by every other one, and the two halves
  of a FAT entry compete for the last buffers with a data sector. Two values, interchangeable (`SYMMETRY`). At most one
  block is in doubt at a time (`MaxSuspect`); errors may follow each other once it has been
  written again. The additional buffer is given up while at most two buffers have been used and one is valid (`EarlyRequest`).
* *Fat.* `Size` 4 is three clusters: two files and a directory fill the disk, the hint wraps, and
  chains of two clusters can be adjacent or not. Lengths up to `MaxLen` 2 and transfers of up
  to `MaxCount` 2 sectors with one sector per cluster meet every boundary. One drive error
  (`MaxErrors`); two files are open at a time only before it and while there is no directory
  (`Bounded`); nothing is explored after `damaged` (`NotDamaged`), where most properties hold
  trivially. A dropped entry comes back as free (`Stale`). The two names of files are interchangeable. `View` hides the directory entry of a file that
  was written to and is still open, which nothing reads before `dos_close` overwrites it, the SFT entry that a running read or write
  will replace, the number of an SFT entry, and whether a call ended with "ok" or "error". Larger instances that take too long for every day held as well: clusters of two sectors
  (`CS` 2, `MaxLen` 4, one SFT entry), and four clusters with files of three (one SFT entry).
* *Int14.* `TIMEOUT` 3 and not 65535: the interesting cases are the first poll, the
  last one and one between them. `MaxBytes` 3 caps the bytes that arrive and that are
  sent; two byte values tell reordering from loss.

No deadlock is reported in the other runs, which check for it.

### Fairness

`MemMgr!FairSpec` assumes `WF_vars(Kernel)`, `Int14!Spec` `WF_vars(_start)` and
`WF_vars(Handler)`: the processor goes on executing the code it is in. Nothing can
take it away: DOS is not reentrant, and the INT 14h handler runs with interrupts
off. Nothing is assumed of the programs, which may stop calling, nor of the UART,
which may never become ready.

## 4. The proofs

The eight proof modules are checked by TLAPS with Z3, Zenon and LS4. They use the named
assumptions of the modules (`MemMgrAssumption`, `ShareAssumption`, `FilesAssumption`,
`CacheAssumption`, `FatAssumption`, `Int14Assumption`), which say no more than that the constants are
what their comments say, and hold for every arena, ring, disk and table, and any number of
processes, files, blocks and ports.

Where a theorem assumes more, it says so (`ASSUME ... PROVE`), and the reason is a
finding of section 3 or a path on which the code gives the property up on purpose:

| Theorems | Assume | Because |
|---|---|---|
| `HandlesAlwaysCounted` | `AttrFiles = {}`: no attribute change | `DosSetFattr` closes SFT entries behind the handles |
| `SlotPerOpenFileAlways`, `LocksAlwaysNested`, `LockAlwaysKept` | also `Transfers = {}`: no refused transfer | `files_entry`: a refused transfer frees SHARE's entry |
| all of `FatChainProofs` | `Exclusive` | `fat_shared`: two SFT entries of one file diverge |

These are the instances of the runs `files_lock` and `fat`. All other theorems hold
without them, `AccessAlwaysExact` and the theorems of `FilesProofs` and `FatProofs` included.

**`MemMgrProofs`.** `Invariance` proves the inductive invariant

    IInv == TypeOK /\ Shape /\ SearchInv /\ ChangeInv /\ UmbInv /\ PcInv

from which `TypeCorrect`, `ArenaAlwaysTiled`, `ChainAlwaysEnds`, `NeverPanics` and the
action property `OthersNeverTouched` follow. `ArenaTiled` is not inductive:

* `Shape` says that blocks do not overlap and that each ends where the next begins,
  over the three fields as functions, so that the ways in which the code rewrites MCBs are
  lemmas about functions: relabelling (`OwnedKeepsShape`, `TypedKeepsShape`), joining
  (`Join`) and splitting (`Split`). `JoinSize` shows that the 16-bit sum of
  `joinMCBs` does not overflow and never becomes the mark 0xffff.
* `PcInv` says at which places `p` is the head of a block. Following the chain is
  safe only from there (`Follow`).
* `SearchInv` says that `foundSeg` and `biggestSeg` stay heads of free blocks behind
  `p` while the search goes on joining blocks ahead of it. Without it `Take` might split a
  block that was joined away.
* `ChangeInv` does the same for `DosMemChange`, whose block is remembered in `op.para`
  while the remainder is joined, and `UmbInv` for the pointer `q` one block behind
  `p` in `DosUmbLink`.

There is one lemma for each action, and `NextKeeps` combines them.

**`FilesProofs`.** `TypeCorrect` proves that handles name SFT entries, SFT entries name
SHARE's entries, and regions and counts stay in range; its invariant adds that the current
process and all parents exist (`ParentLives`). `TableInvariance` proves

    TableInv == the file table is typed /\ FirstAgrees /\ EntriesAgree /\ OneFirst

`do_open_check` compares a new open with one earlier entry only. `FirstDenyHonoured`
follows because every entry either is the first open (`IsFirst`) or was let in by the modes it
remembers (`EntriesAgree`, from which `Permitted`), and two entries of a file are never both the former
(`OneFirst`). All steps of `Files` are three kinds of step on the table (`TableStep`), so
that the argument is made once for each kind. From it follow `FirstAlwaysAgrees` and
`FirstDenyAlwaysHonoured`.

**`MemCallProofs`.** What a call promises when it returns is proved from five
invariants that follow it, on top of `IInv`:

* `PhaseInv` follows the attempts of the 48h handler and `ExecMemAlloc`: in which of them bit
  80h is cleared, and what is searched for. `StrategyAlwaysKept` follows from it.
* `FreeInv` follows `FreeProcessMem`: no block below `p` belongs to the process while upper memory
  is linked, and none at all while the link is put back. It needs the position of `p` in the
  chain and the saved link state together: `ProcessMemAlwaysFreed`.
* `ScanInv` says what the search of `DosMemAlloc` knows of every free block it has passed (`Scanned`,
  `ScanRule`): that it has been joined with its successor, that `biggestSeg` is no smaller,
  and that `foundSeg` is the better choice. Joining ahead of `p` changes blocks under the
  quantifier; the lemma `ScanJoins` shows that those behind `p` are not among them.
  `FitAlwaysRuled` follows.
* `RefusedInv` carries what a failed search has shown through the retries: that no block fits is
  known from the first, and the size in BX from `DosMemLargest`, which looks at a
  different part of the chain for a strategy with bit 80h. It needs that
  a search for the largest block finds nothing to join (`RefusedJoin`), since otherwise what
  the first search has shown would no longer hold. For a request of 0 paragraphs it keeps that the
  block which the search chose is empty (`FoundIsChoice`): `NoMemAlwaysTrue`.
* `ResizeInv` follows `DosMemChange`, which joins the block with its free successors before it
  knows whether they suffice: when it refuses, the block has no free successor left
  (`Stuck`): `ResizeRefusalAlwaysTrue`.

**`LockProofs`.** `Counted` says that the handles of an SFT entry are a finite set no larger
than its count. Finiteness is part of the invariant, so that the number of processes
need not be bounded. `SlotInv` adds to `SlotPerOpenFile` that unused SFT entries have no entry of
SHARE, and that the kernel knows of SHARE once it has used it (`SftsKnown`), which is not
obvious since SHARE may be started at any time. `LockInv` combines them with `LocksNested`. A lock
ends in `unlock` or in `close_file`; the latter is called only when the count becomes
0, and by `Counted` no handle is left then; the former is a step in which the owner releases that very region (`LockAlwaysKept`). `AccessAlwaysExact` compares the
test of `share.c` with intersection of intervals, and needs the types only.

**`BufferCacheProofs`.** The invariant is

    CacheInv == TypeOK /\ BuffersKept /\ NoDuplicates /\ Marked /\ CleanIsDisk /\ MirrorsAgree /\ HeldInv

`Marked` says what the accesses rely on without saying so: only a valid buffer is dirty, and a
buffer of a FAT sector is flagged as such, or its second copy would not be written. `BuffersKept` is what makes
the ring long enough for `HeldInv` (`TwoBuffers`). Every
action writes some buffers to the disk (`DiskStep`) and makes of the old ring a new one in which each buffer
is an old one, cleaned if it was written, or has new contents (`RingStep`). What follows from these
two for each conjunct, and for what a read of each block returns, is proved once; the actions
are then shown to be such steps, among them the permutations by which `getblk` moves a
buffer to the front, and the removal of an additional buffer, after which the origin of
each buffer is still a bijection on the `BUFFERS=` ones. `Refinement` is the theorem
`Spec => ImplementsBlockStore`, with the store of each block read through the ring.

**`FatProofs`.** `FatInv` is the type of every field at every place of a call, with
`FreeCountExact` and `FullIsTrue`. The bounds on the place in a file need that a position is in
one of the clusters `0..Size` of a file (`MaxLen <= CS * Size` in `FatAssumption`), which `rel`
could otherwise leave. `FullIsTrue` needs that the loop of `find_fat_free` visits every cluster
before it is back at the hint: `Search[n]` is the hint plus `n`, around the end of the table,
wherever the hint is. `FreeCountExact` is two statements, since `dos_free` may store a count that is
too low; later changes are added to it and keep the difference.

**`FatChainProofs`.** The properties are about chains of any length. `ChainInv` avoids
walking them: it says that the clusters *can be labelled*, each with a file and its number in the
file, or with no file, so that a link leads to the next number, no two clusters have the same label, number 0
is where the file starts, and a cluster of no file is free, about to be freed (`call.st`), or was
lost in a drive error. The start of a file is what the `fnode` of the running call says, or else
the SFT, or else the directory (`HeadsAre`). The steps of the code are then a few changes of labels: a chain grows by
one (`ChainGrows`), is cut, loses its first cluster while it is freed, changes its name. `ChainInvariant`
proves it; the four theorems follow with induction along the labels (`Reaches`, `Below`: the `n`-th
cluster of a file is what `n` links lead to). That induction is over a set of
numbers (`SetInduction`) and needs no induction theorem with an operator as a parameter. Once a
failed write has dropped changes (`damaged`) the invariant, like the properties, says nothing; after other
errors (`errors # 0`) it gives up `NothingLost` only.

**`Int14Proofs`.** The status that a poll has read is stale when the data register is accessed.
`CallInv` says what is still true of it: a UART only empties its transmit register and
fills its receive register by itself, and DLAB was cleared after the last program that could set
it. `SentAt` and `ReceivedAt` add the byte that is in a register, or in the hands of the call, to
the two sequences of `SentInOrder` and `ReceivedInOrder`, which makes them inductive.

**Only model-checked.** `CallReturns` (of `MemMgr` and `Int14`) and `ReadyIsServed` are liveness
properties and out of the prover's reach. Every other property of a passing run is
proved. The properties of the other runs are violated, as section 3 says.

## 5. Plan

Done: all six models (`MemMgr`, `Share` and `Files`, `Int14`, `BufferCache` over
`BlockStore`, `Fat`), their runs, and proofs of all safety and action properties and of the refinement.

What would add most, in this order:

1. What is true of the chains when files are shared: which of the properties of `FatChainProofs`
   survive without `Exclusive` when the programs that share a file do not extend it.
2. A version of `SlotPerOpenFile` and `LockKept` that survives refused transfers, for the files that
   were not refused one.
3. `FullIsTrue` and `FreeCountExact` carry over to a disk behind the cache; the composition of `Fat`
   with `BlockStore` would show which orders of writes a crash can leave.

## 6. What is not modelled, and why

The map covers the core of the kernel, SHARE and the serial service. Most of the
repository's lines are vendored programs that run on top of DOS (network tools, the 4DOS shell, archivers, editors,
the GNU tools), each a sequential program of its own and none of them part of the system's logic.

Of the kernel, the loaders `DosComLoader` and `DosExeLoader` are straight-line code between
calls that are modelled; their error paths are listed as hazards. FCB calls convert old control
blocks to the calls that `Files` and `Fat` model. The contents of directories, the information sector of
FAT32 and the dates and attributes of files are left out of `Fat`. `Fat` works on the store that
`BlockStore` promises and is not composed with `BufferCache`: the code accepts that a
crash can leave the table and the directories at different times (`fatfs.c:616`).
The boot scripts run once from top to bottom.

The drivers, path parsing and national language tables convert data or touch hardware and
keep no state that a property could be about. The kernel's start and `config.c` run once
and sequentially; their result is `MemMgr`'s initial state. The XMS and EMS managers,
the command interpreter and the GNU tools are vendored programs of their own. The build
has no state at run time. `show_chain`, `mcb_print` and other output is left out,
as are the modem status and the error bits other than overrun in `Int14`, and SHARE's
command line.
