---------------------------- MODULE MemMgrProofs ----------------------------
(***************************************************************************)
(* For every arena, every set of processes, sizes and strategies: the MCBs *)
(* tile memory, the chain ends where it must, and the kernel never panics. *)
(*                                                                         *)
(* The inductive invariant IInv adds to the arena's shape what each place  *)
(* in the code knows about its pointers.  The arena's shape is written     *)
(* over the three fields of the MCBs as functions (Arena), so that the     *)
(* ways in which the code rewrites MCBs, relabelling, joining and          *)
(* splitting, are three lemmas about functions.                            *)
(***************************************************************************)
EXTENDS MemMgr, TLAPS

Types == [Para -> {"M", "Z", "other"}]
Sized == [Para -> 0 .. WordMax]

(* t, o and z stand for m_type, m_psp and m_size; l for uppermem_link. *)
Hd(t, z, a) == a \in Para /\ z[a] # WordMax /\ t[a] # "other"
Nx(z, a) == a + z[a] + 1
Last(z, l, a) == Nx(z, a) = Top \/ (HasUmb /\ l = 0 /\ Nx(z, a) = uppermem_root)

Tiled(t, z) ==
  /\ Hd(t, z, first_mcb)
  /\ HasUmb => Hd(t, z, uppermem_root)
  /\ \A a \in Para : Hd(t, z, a) => Nx(z, a) = Top \/ Hd(t, z, Nx(z, a))
  /\ \A a, b \in Para : Hd(t, z, a) /\ Hd(t, z, b) /\ a < b => Nx(z, a) <= b
Ends(t, z, l) == \A a \in Para : Hd(t, z, a) => (t[a] = "Z" <=> Last(z, l, a))
Sys(o) == o[first_mcb] = SysPsp /\ (HasUmb => o[uppermem_root] = SysPsp)
Arena(t, o, z, l) == Tiled(t, z) /\ Ends(t, z, l) /\ Sys(o)

-----------------------------------------------------------------------------
(* The shape of the arena under the ways of rewriting MCBs. *)

(* The constants as plain arithmetic. *)
LEMMA Layout ==
  /\ first_mcb \in Para /\ first_mcb > 0 /\ Top \in Nat /\ WordMax \in Nat /\ Top < WordMax
  /\ \A a : a \in Para <=> a \in Int /\ first_mcb <= a /\ a < Top
  /\ HasUmb => /\ uppermem_root \in Para /\ first_mcb < uppermem_root
BY MemMgrAssumption DEF Para, HasUmb, NoUmb, Low0, Upper0

(* Every block ends inside the arena. *)
LEMMA BlockInside ==
  ASSUME NEW t, NEW z \in Sized, Tiled(t, z), NEW a, Hd(t, z, a)
  PROVE  /\ a \in Para /\ z[a] \in Nat /\ Nx(z, a) \in Int
         /\ a < Nx(z, a) /\ Nx(z, a) <= Top
BY Layout DEF Sized, Tiled, Hd, Nx

(* The size that joinMCBs computes does not overflow, nor reach the mark. *)
LEMMA JoinSize ==
  ASSUME NEW t, NEW z \in Sized, Tiled(t, z), NEW a, Hd(t, z, a), Hd(t, z, Nx(z, a))
  PROVE  /\ z[a] + z[Nx(z, a)] + 1 \in 0 .. (WordMax - 1)
         /\ z[a] + z[Nx(z, a)] + 1 \in Nat /\ z[Nx(z, a)] \in Nat
         /\ a + (z[a] + z[Nx(z, a)] + 1) + 1 = Nx(z, Nx(z, a))
<1>1. a \in Int /\ a > 0 /\ z[a] \in Nat /\ Nx(z, a) = a + z[a] + 1
  BY BlockInside, Layout DEF Nx
<1>2. PICK n : n = Nx(z, a)
  OBVIOUS
<1>3. z[n] \in Nat /\ Nx(z, n) = n + z[n] + 1 /\ Nx(z, n) <= Top
  BY <1>2, BlockInside DEF Nx
<1>4. z[a] + z[n] + 1 \in 0 .. (WordMax - 1) /\ a + (z[a] + z[n] + 1) + 1 = Nx(z, n)
  BY <1>1, <1>2, <1>3, Layout
<1> QED
  BY <1>1, <1>2, <1>3, <1>4

(* joinMCBs merges the free block after a into a. *)
LEMMA Join ==
  ASSUME NEW t \in Types, NEW z \in Sized, NEW t2, NEW z2, NEW l,
         Tiled(t, z), Ends(t, z, l),
         NEW a, Hd(t, z, a), NEW n, n = Nx(z, a), Hd(t, z, n),
         n # first_mcb, HasUmb => n # uppermem_root,
         \A x \in Para : x # a => t2[x] = t[x],
         \A x \in Para : x # a /\ x # n => z2[x] = z[x],
         t2[a] = t[n], z2[a] = z[a] + z[n] + 1, z2[n] = WordMax
  PROVE  /\ Tiled(t2, z2) /\ Ends(t2, z2, l)
         /\ \A x \in Para : Hd(t2, z2, x) <=> Hd(t, z, x) /\ x # n
<1>1. a \in Para /\ n \in Para /\ a < n
  BY BlockInside
<1>2. z2[a] \in 0 .. (WordMax - 1) /\ z2[a] # WordMax /\ Nx(z2, a) = Nx(z, n)
  BY JoinSize, Layout DEF Nx
<1>3. Nx(z, n) <= Top /\ n < Nx(z, n) /\ Nx(z, n) \in Int
  BY BlockInside
<1>6. \A x \in Para : Hd(t2, z2, x) <=> Hd(t, z, x) /\ x # n
  BY <1>1, <1>2 DEF Hd
<1>7. \A x \in Para : x # a /\ x # n => Nx(z2, x) = Nx(z, x)
  BY DEF Nx
<1>8. Hd(t2, z2, first_mcb) /\ (HasUmb => Hd(t2, z2, uppermem_root))
  BY <1>6, Layout DEF Tiled
<1>9. ASSUME NEW x \in Para, Hd(t2, z2, x) PROVE Nx(z2, x) = Top \/ Hd(t2, z2, Nx(z2, x))
  <2>1. Hd(t, z, x) /\ x # n
    BY <1>9, <1>6
  <2>2. CASE x = a
    <3>1. Nx(z, n) = Top \/ Hd(t, z, Nx(z, n))
      BY <1>1 DEF Tiled
    <3>2. Hd(t, z, Nx(z, n)) => Nx(z, n) \in Para
      BY DEF Hd
    <3> QED
      BY <2>2, <3>1, <3>2, <1>1, <1>2, <1>3, <1>6, Layout
  <2>3. CASE x # a
    <3>1. Nx(z2, x) = Nx(z, x)
      BY <2>1, <2>3, <1>7
    <3>2. Nx(z, x) # n
      <4>1. x < a => Nx(z, x) <= a
        BY <2>1, <1>1 DEF Tiled
      <4>2. a < x => n <= x
        BY <2>1, <1>1 DEF Tiled
      <4> QED
        BY <4>1, <4>2, <2>1, <2>3, <1>1, BlockInside, Layout
    <3>3. Nx(z, x) = Top \/ Hd(t, z, Nx(z, x))
      BY <2>1 DEF Tiled
    <3>4. Hd(t, z, Nx(z, x)) => Nx(z, x) \in Para
      BY DEF Hd
    <3> QED
      BY <3>1, <3>2, <3>3, <3>4, <1>6
  <2> QED
    BY <2>2, <2>3
<1>10. ASSUME NEW x \in Para, NEW y \in Para, Hd(t2, z2, x), Hd(t2, z2, y), x < y
       PROVE  Nx(z2, x) <= y
  <2>1. Hd(t, z, x) /\ Hd(t, z, y) /\ x # n /\ y # n
    BY <1>10, <1>6
  <2>2. Nx(z, x) <= y
    BY <1>10, <2>1 DEF Tiled
  <2>3. CASE x = a
    <3>1. n < y
      BY <2>1, <2>2, <2>3, <1>1, Layout
    <3>2. Nx(z, n) <= y
      BY <3>1, <2>1, <1>1 DEF Tiled
    <3> QED
      BY <3>2, <2>3, <1>2
  <2> QED
    BY <2>1, <2>2, <2>3, <1>7
<1>11. ASSUME NEW x \in Para, Hd(t2, z2, x) PROVE t2[x] = "Z" <=> Last(z2, l, x)
  <2>1. Hd(t, z, x) /\ x # n
    BY <1>11, <1>6
  <2>2. CASE x = a
    BY <2>2, <1>1, <1>2 DEF Ends, Last
  <2>3. CASE x # a
    BY <2>1, <2>3, <1>7 DEF Ends, Last
  <2> QED
    BY <2>2, <2>3
<1> QED
  BY <1>6, <1>8, <1>9, <1>10, <1>11 DEF Tiled, Ends

(* DosMemAlloc and DosMemChange cut the block f in two at x. *)
LEMMA Split ==
  ASSUME NEW t \in Types, NEW z \in Sized, NEW t2, NEW z2, NEW l,
         Tiled(t, z), Ends(t, z, l),
         NEW f, Hd(t, z, f), NEW x \in Int, f < x, x < Nx(z, f),
         \A y \in Para : y # f /\ y # x => t2[y] = t[y] /\ z2[y] = z[y],
         t2[f] = "M", t2[x] = t[f], z2[f] = x - f - 1, z2[x] = z[f] - (x - f)
  PROVE  /\ x \in Para /\ z2[x] \in 0 .. (WordMax - 1) /\ z2[f] \in 0 .. (WordMax - 1)
         /\ Tiled(t2, z2) /\ Ends(t2, z2, l)
         /\ \A y \in Para : Hd(t2, z2, y) <=> Hd(t, z, y) \/ y = x
<1>1. f \in Para /\ f \in Int /\ f > 0 /\ z[f] \in Nat /\ Nx(z, f) = f + z[f] + 1 /\ Nx(z, f) <= Top
  BY BlockInside, Layout DEF Nx
<1>2. x \in Para
  BY <1>1, Layout
<1>3. /\ z2[f] \in 0 .. (WordMax - 1) /\ z2[x] \in 0 .. (WordMax - 1)
      /\ f + z2[f] + 1 = x /\ x + z2[x] + 1 = Nx(z, f)
  BY <1>1, Layout
<1>4. Nx(z2, f) = x /\ Nx(z2, x) = Nx(z, f)
  BY <1>3 DEF Nx
<1>5. \A y \in Para : y # f /\ y # x => Nx(z2, y) = Nx(z, y)
  BY DEF Nx
<1>6. ~Hd(t, z, x)
  BY <1>1, <1>2 DEF Tiled
<1>7. \A y \in Para : Hd(t2, z2, y) <=> Hd(t, z, y) \/ y = x
  <2>1. Hd(t2, z2, f) /\ Hd(t2, z2, x)
    BY <1>1, <1>2, <1>3, Layout DEF Hd
  <2>2. \A y \in Para : y # f /\ y # x => (Hd(t2, z2, y) <=> Hd(t, z, y))
    BY DEF Hd
  <2> QED
    BY <2>1, <2>2
<1>8. Hd(t2, z2, first_mcb) /\ (HasUmb => Hd(t2, z2, uppermem_root))
  BY <1>7, Layout DEF Tiled
<1>9. ASSUME NEW y \in Para, Hd(t2, z2, y) PROVE Nx(z2, y) = Top \/ Hd(t2, z2, Nx(z2, y))
  <2>1. \A w : Hd(t, z, w) => w \in Para /\ Hd(t2, z2, w)
    BY <1>7 DEF Hd
  <2>2. CASE y = f
    BY <2>2, <1>2, <1>4, <1>7
  <2>3. CASE y = x
    BY <2>1, <2>3, <1>1, <1>4 DEF Tiled
  <2>4. CASE y # x /\ y # f
    BY <2>1, <2>4, <1>5, <1>7, <1>9 DEF Tiled
  <2> QED
    BY <2>2, <2>3, <2>4
<1>10. ASSUME NEW y \in Para, NEW w \in Para, Hd(t2, z2, y), Hd(t2, z2, w), y < w
       PROVE  Nx(z2, y) <= w
  <2>1. CASE y = x
    <3>1. Hd(t, z, w) /\ f < w
      BY <2>1, <1>1, <1>2, <1>7, <1>10, Layout
    <3> QED
      BY <3>1, <2>1, <1>1, <1>4 DEF Tiled
  <2>2. CASE y = f /\ w # x
    <3>1. Nx(z, f) <= w
      BY <2>2, <1>1, <1>7, <1>10 DEF Tiled
    <3> QED
      BY <3>1, <2>2, <1>1, <1>4, Layout
  <2>3. CASE y # f /\ y # x /\ w = x
    <3>1. Hd(t, z, y) /\ Nx(z2, y) = Nx(z, y)
      BY <2>3, <1>5, <1>7, <1>10
    <3>2. f < y => Nx(z, f) <= y
      BY <3>1, <1>1 DEF Tiled
    <3>3. y < f => Nx(z, y) <= f
      BY <3>1, <1>1 DEF Tiled
    <3>4. Nx(z, y) \in Int
      BY <3>1, BlockInside
    <3> QED
      BY <3>1, <3>2, <3>3, <3>4, <2>3, <1>1, <1>10, Layout
  <2>4. CASE y # f /\ y # x /\ w # x
    BY <2>4, <1>5, <1>7, <1>10 DEF Tiled
  <2>5. CASE y = f /\ w = x
    BY <2>5, <1>4
  <2> QED
    BY <2>1, <2>2, <2>3, <2>4, <2>5
<1>11. ASSUME NEW y \in Para, Hd(t2, z2, y) PROVE t2[y] = "Z" <=> Last(z2, l, y)
  <2>1. CASE y = f
    <3>1. x # Top /\ (HasUmb => x # uppermem_root)
      BY <1>1, <1>2, <1>6, Layout DEF Tiled
    <3> QED
      BY <2>1, <3>1, <1>4 DEF Last
  <2>2. CASE y = x
    BY <2>2, <1>1, <1>4 DEF Ends, Last
  <2>3. CASE y # f /\ y # x
    BY <2>3, <1>5, <1>7, <1>11 DEF Ends, Last
  <2> QED
    BY <2>1, <2>2, <2>3
<1> QED
  BY <1>2, <1>3, <1>7, <1>8, <1>9, <1>10, <1>11 DEF Tiled, Ends

-----------------------------------------------------------------------------
(* The inductive invariant: the types, the arena, and what each place in   *)
(* the code knows about its pointers.                                      *)
Head(x) == Hd(m_type, m_size, x)
Candidate(x) == Head(x) /\ m_psp[x] = FREE_PSP

Searching == pc \in {"scan", "fit", "advance", "endscan"} \/ (pc = "join" /\ ret = "fit")
Changing ==
  \/ pc \in {"change", "grow", "shrink", "setpsp", "changefail"}
  \/ pc = "join" /\ ret \in {"grow", "setpsp"}
  \/ pc = "check" /\ ret = "change"

SearchInv ==
  /\ Searching /\ foundSeg # 0 =>
       Candidate(foundSeg) /\ foundSeg <= p /\ m_size[foundSeg] >= size
  /\ Searching /\ biggestSeg # 0 => Candidate(biggestSeg) /\ biggestSeg <= p
  /\ pc = "take" => Candidate(foundSeg) /\ m_size[foundSeg] >= size
  /\ pc = "fit" \/ (pc = "join" /\ ret \in {"fit", "setpsp"}) => m_psp[p] = FREE_PSP
  /\ pc = "execfree" => m_psp[p] = op.psp

ChangeInv ==
  /\ Changing => op.name = "change" /\ op.para \in Para \ SystemMcbs
  /\ pc \in {"change", "grow", "shrink"} \/ (pc = "join" /\ ret = "grow") => p = op.para
  /\ pc = "setpsp" => Head(op.para)
  /\ pc = "join" /\ ret = "setpsp" => Head(op.para) /\ op.para < p

UmbInv ==
  pc = "umbwalk" =>
    /\ HasUmb /\ size \in {0, 1} /\ size # uppermem_link
    /\ p <= uppermem_root
    /\ uppermem_link = 0 => p < uppermem_root
    /\ uppermem_link = 1 /\ p # first_mcb => Head(q) /\ Nx(m_size, q) = p

PcInv ==
  /\ pc = "idle" => p = first_mcb /\ ret = "done" /\ rc = "SUCCESS"
  /\ pc \in {"scan", "join", "fit", "advance", "endscan", "grow", "shrink", "check",
             "freewalk", "umbwalk", "execfree"} => Head(p)
  /\ pc = "join" => ret \in {"fit", "grow", "setpsp"}
  /\ pc = "check" => ret \in {"change", "done"}
  /\ pc \in {"umblink", "umbwalk"} => ret \in {"freewalk", "done"}
  /\ pc = "freewalk" \/ (pc \in {"umblink", "umbwalk"} /\ ret = "freewalk") =>
       op.name = "freeproc"
  /\ NoPanic

Shape == Arena(m_type, m_psp, m_size, uppermem_link)

IInv == TypeOK /\ Shape /\ SearchInv /\ ChangeInv /\ UmbInv /\ PcInv

(* Following the chain from a block that is not the last. *)
LEMMA Follow ==
  ASSUME IInv, NEW a, Head(a)
  PROVE  /\ a \in Para /\ mcbValid(a) /\ m_type[a] \in {"M", "Z"}
         /\ nxtMCB(a) = Nx(m_size, a) /\ nxtMCB(a) \in Int /\ a < nxtMCB(a)
         /\ m_type[a] = "M" => Head(nxtMCB(a)) /\ nxtMCB(a) \in Para
<1>1. m_type \in Types /\ m_size \in Sized /\ Tiled(m_type, m_size) /\ Ends(m_type, m_size, uppermem_link)
  BY DEF IInv, TypeOK, Types, Sized, Shape, Arena
<1>2. a \in Para /\ Nx(m_size, a) \in Int /\ a < Nx(m_size, a)
  BY <1>1, BlockInside DEF Head
<1>3. nxtMCB(a) = Nx(m_size, a)
  BY DEF nxtMCB, nxtMCBsize, Nx
<1>4. m_type[a] \in {"M", "Z"} /\ mcbValid(a)
  BY <1>1, <1>2 DEF Types, Head, Hd, mcbValid, mcbFreeable, FAKE
<1>5. m_type[a] = "M" => Head(Nx(m_size, a))
  BY <1>1, <1>2 DEF Tiled, Ends, Last, Head
<1>6. Head(Nx(m_size, a)) => Nx(m_size, a) \in Para
  BY DEF Head, Hd
<1> QED
  BY <1>2, <1>3, <1>4, <1>5, <1>6

LEMMA ValidIsHead == \A a \in Para : IInv => (mcbValid(a) <=> Head(a))
BY DEF IInv, TypeOK, mcbValid, mcbFreeable, Head, Hd, FAKE

LEMMA SearchAgainKeeps == IInv /\ searchAgain => IInv'
<1> SUFFICES ASSUME IInv, searchAgain PROVE IInv'
  OBVIOUS
<1>1. ScanStart(mode) \in Para /\ Head(ScanStart(mode))
  BY Layout DEF ScanStart, IInv, Shape, Arena, Tiled, Head
<1> QED
  BY <1>1, Layout DEF searchAgain, IInv, TypeOK, Shape, SearchInv, ChangeInv, UmbInv, PcInv, NoPanic, Head,
     Candidate, Searching, Changing, globals, mcbs, caller, args, found, sizes, locals

LEMMA ScanKeeps == IInv /\ Scan => IInv'
<1> SUFFICES ASSUME IInv, Scan PROVE IInv'
  OBVIOUS
<1>1. Head(p) /\ p \in Para /\ mcbValid(p)
  <2>1. Head(p)
    BY DEF IInv, PcInv, Scan
  <2> QED
    BY <2>1, Follow
<1> QED
  BY <1>1, Layout DEF mcbFree, Scan, IInv, TypeOK, Shape, SearchInv, ChangeInv, UmbInv, PcInv, NoPanic, Head,
     Candidate, Searching, Changing, globals, mcbs, caller, args, found, sizes, locals

LEMMA FitKeeps == IInv /\ Fit => IInv'
<1> SUFFICES ASSUME IInv, Fit PROVE IInv'
  OBVIOUS
<1>1. Head(p) /\ p \in Para /\ mcbValid(p)
  <2>1. Head(p)
    BY DEF IInv, PcInv, Fit
  <2> QED
    BY <2>1, Follow
<1> QED
  BY <1>1, Layout DEF BlockFits, Better, LARGEST, Strat, Fit, IInv, TypeOK, Shape, SearchInv, ChangeInv, UmbInv, PcInv, NoPanic, Head,
     Candidate, Searching, Changing, globals, mcbs, caller, args, found, sizes, locals

LEMMA AdvanceKeeps == IInv /\ Advance => IInv'
<1> SUFFICES ASSUME IInv, Advance PROVE IInv'
  OBVIOUS
<1>1. Head(p) /\ p \in Para /\ mcbValid(p)
  <2>1. Head(p)
    BY DEF IInv, PcInv, Advance
  <2> QED
    BY <2>1, Follow
<1>2. m_type[p] # "Z" => Head(nxtMCB(p)) /\ nxtMCB(p) \in Para /\ p < nxtMCB(p)
  BY <1>1, Follow
<1> QED
  BY <1>1, <1>2, Layout DEF Advance, IInv, TypeOK, Shape, SearchInv, ChangeInv, UmbInv, PcInv, NoPanic, Head,
     Candidate, Searching, Changing, globals, mcbs, caller, args, found, sizes, locals

LEMMA EndScanKeeps == IInv /\ EndScan => IInv'
<1> SUFFICES ASSUME IInv, EndScan PROVE IInv'
  OBVIOUS
<1>1. Head(p) /\ p \in Para /\ mcbValid(p)
  <2>1. Head(p)
    BY DEF IInv, PcInv, EndScan
  <2> QED
    BY <2>1, Follow
<1> QED
  BY <1>1, Layout DEF SearchLow, Fails, LARGEST, Strat, Strategy, EndScan, IInv, TypeOK, Shape, SearchInv, ChangeInv, UmbInv, PcInv, NoPanic, Head,
     Candidate, Searching, Changing, globals, mcbs, caller, args, found, sizes, locals

LEMMA AllocFailKeeps == IInv /\ AllocFail => IInv'
<1> SUFFICES ASSUME IInv, AllocFail PROVE IInv'
  OBVIOUS
<1>1. Head(first_mcb)
  BY DEF IInv, Shape, Arena, Tiled, Head
<1> QED
  BY <1>1, Layout DEF Retry, ClearUpper, SetUpper, LARGEST, Strat, Strategy, AllocFail, IInv, TypeOK, Shape, SearchInv, ChangeInv, UmbInv, PcInv, NoPanic, Head,
     Candidate, Searching, Changing, globals, mcbs, caller, args, found, sizes, locals

LEMMA ExecFailKeeps == IInv /\ ExecFail => IInv'
<1> SUFFICES ASSUME IInv, ExecFail PROVE IInv'
  OBVIOUS
<1> QED
  BY Layout DEF Retry, ClearUpper, SetUpper, LARGEST, Strat, Strategy, ExecFail, IInv, TypeOK, Shape, SearchInv, ChangeInv, UmbInv, PcInv, NoPanic, Head,
     Candidate, Searching, Changing, globals, mcbs, caller, args, found, sizes, locals

LEMMA DosMemCheckKeeps == IInv /\ DosMemCheck => IInv'
<1> SUFFICES ASSUME IInv, DosMemCheck PROVE IInv'
  OBVIOUS
<1>1. Head(p) /\ p \in Para /\ mcbValid(p)
  <2>1. Head(p)
    BY DEF IInv, PcInv, DosMemCheck
  <2> QED
    BY <2>1, Follow
<1>2. m_type[p] \in {"M", "Z"} /\ (m_type[p] = "M" => Head(nxtMCB(p)) /\ nxtMCB(p) \in Para)
  BY <1>1, Follow
<1> QED
  BY <1>1, <1>2, Layout DEF DosMemCheck, IInv, TypeOK, Shape, SearchInv, ChangeInv, UmbInv, PcInv, NoPanic, Head,
     Candidate, Searching, Changing, globals, mcbs, caller, args, found, sizes, locals

LEMMA DosMemChangeKeeps == IInv /\ DosMemChange => IInv'
<1> SUFFICES ASSUME IInv, DosMemChange PROVE IInv'
  OBVIOUS
<1>1. p \in Para /\ (mcbValid(p) <=> Head(p))
  <2>1. p \in Para
    BY DEF IInv, ChangeInv, Changing, DosMemChange
  <2> QED
    BY <2>1, ValidIsHead
<1> QED
  BY <1>1, Layout DEF DosMemChange, IInv, TypeOK, Shape, SearchInv, ChangeInv, UmbInv, PcInv, NoPanic, Head,
     Candidate, Searching, Changing, globals, mcbs, caller, args, found, sizes, locals

LEMMA GrowKeeps == IInv /\ Grow => IInv'
<1> SUFFICES ASSUME IInv, Grow PROVE IInv'
  OBVIOUS
<1>1. Head(p) /\ p \in Para /\ mcbValid(p)
  <2>1. Head(p)
    BY DEF IInv, PcInv, Grow
  <2> QED
    BY <2>1, Follow
<1> QED
  BY <1>1, Layout DEF Grow, IInv, TypeOK, Shape, SearchInv, ChangeInv, UmbInv, PcInv, NoPanic, Head,
     Candidate, Searching, Changing, globals, mcbs, caller, args, found, sizes, locals

LEMMA ChangeFailKeeps == IInv /\ ChangeFail => IInv'
<1> SUFFICES ASSUME IInv, ChangeFail PROVE IInv'
  OBVIOUS
<1>1. Head(first_mcb)
  BY DEF IInv, Shape, Arena, Tiled, Head
<1> QED
  BY <1>1, Layout DEF ChangeFail, IInv, TypeOK, Shape, SearchInv, ChangeInv, UmbInv, PcInv, NoPanic, Head,
     Candidate, Searching, Changing, globals, mcbs, caller, args, found, sizes, locals

LEMMA DosUmbLinkKeeps == IInv /\ DosUmbLink => IInv'
<1> SUFFICES ASSUME IInv, DosUmbLink PROVE IInv'
  OBVIOUS
<1>1. Head(first_mcb)
  BY DEF IInv, Shape, Arena, Tiled, Head
<1> QED
  BY <1>1, Layout DEF DosUmbLink, IInv, TypeOK, Shape, SearchInv, ChangeInv, UmbInv, PcInv, NoPanic, Head,
     Candidate, Searching, Changing, globals, mcbs, caller, args, found, sizes, locals

LEMMA ReturnKeeps == IInv /\ Return => IInv'
<1> SUFFICES ASSUME IInv, Return PROVE IInv'
  OBVIOUS
<1> QED
  BY Layout DEF LocalsReset, Nobody, LARGEST, Strat, Return, IInv, TypeOK, Shape, SearchInv, ChangeInv, UmbInv, PcInv, NoPanic, Head,
     Candidate, Searching, Changing, globals, mcbs, caller, args, found, sizes, locals

(* Giving a block that is not the kernel's another owner. *)
LEMMA OwnedKeepsShape ==
  ASSUME IInv, NEW a \in Para \ SystemMcbs, NEW o \in Psp \cup {FREE_PSP, SysPsp},
         Owned(a, o), uppermem_link' = uppermem_link
  PROVE  /\ Shape' /\ m_psp' \in [Para -> Psp \cup {FREE_PSP, SysPsp}]
         /\ m_type' = m_type /\ m_size' = m_size
         /\ m_psp'[a] = o /\ \A x \in Para : x # a => m_psp'[x] = m_psp[x]
<1>1. m_type' = m_type /\ m_size' = m_size
  BY DEF Owned
<1>2. m_psp' \in [Para -> Psp \cup {FREE_PSP, SysPsp}]
  BY DEF Owned, IInv, TypeOK
<1>3. m_psp'[a] = o /\ \A x \in Para : x # a => m_psp'[x] = m_psp[x]
  BY DEF Owned, IInv, TypeOK
<1>4. Sys(m_psp')
  BY <1>3, Layout DEF Sys, IInv, Shape, Arena, SystemMcbs
<1> QED
  BY <1>1, <1>2, <1>3, <1>4 DEF IInv, Shape, Arena

(* A block whose owner is not the kernel is not one of the kernel's. *)
LEMMA NotSystem ==
  ASSUME IInv, NEW a \in Para, m_psp[a] # SysPsp
  PROVE  a \in Para \ SystemMcbs
<1>1. uppermem_root \in Para => HasUmb
  BY Layout DEF HasUmb, NoUmb
<1> QED
  BY <1>1 DEF IInv, Shape, Arena, Sys, SystemMcbs

LEMMA SetPspKeeps == IInv /\ SetPsp => IInv'
<1> SUFFICES ASSUME IInv, SetPsp PROVE IInv'
  OBVIOUS
<1>1. op.para \in Para \ SystemMcbs /\ op.psp \in Psp \cup {FREE_PSP, SysPsp}
  BY DEF IInv, TypeOK, ChangeInv, Changing, SetPsp
<1>2. Owned(op.para, op.psp) /\ uppermem_link' = uppermem_link
  BY DEF SetPsp
<1>3. Shape' /\ m_psp' \in [Para -> Psp \cup {FREE_PSP, SysPsp}] /\ m_type' = m_type /\ m_size' = m_size
  BY <1>1, <1>2, OwnedKeepsShape
<1> QED
  BY <1>3, Layout DEF SetPsp, IInv, TypeOK, SearchInv, ChangeInv, UmbInv, PcInv, NoPanic, Head,
     Candidate, Searching, Changing, globals, mcbs, caller, args, found, sizes, locals

LEMMA ExecFreeKeeps == IInv /\ ExecFree => IInv'
<1> SUFFICES ASSUME IInv, ExecFree PROVE IInv'
  OBVIOUS
<1>1. p \in Para \ SystemMcbs
  <2>1. Head(p) /\ m_psp[p] = op.psp /\ op.psp \in Psp \cup {FREE_PSP}
    BY DEF IInv, TypeOK, PcInv, SearchInv, ExecFree
  <2> QED
    BY <2>1, NotSystem, MemMgrAssumption, Follow
<1>2. Owned(p, FREE_PSP) /\ uppermem_link' = uppermem_link
  BY DEF ExecFree
<1>3. Shape' /\ m_psp' \in [Para -> Psp \cup {FREE_PSP, SysPsp}] /\ m_type' = m_type /\ m_size' = m_size
  BY <1>1, <1>2, OwnedKeepsShape
<1> QED
  BY <1>3, Layout DEF ExecFree, IInv, TypeOK, SearchInv, ChangeInv, UmbInv, PcInv, NoPanic, Head,
     Candidate, Searching, Changing, globals, mcbs, caller, args, found, sizes, locals

LEMMA FreeWalkKeeps == IInv /\ FreeWalk => IInv'
<1> SUFFICES ASSUME IInv, FreeWalk PROVE IInv'
  OBVIOUS
<1>1. Head(p) /\ p \in Para /\ mcbValid(p) /\ m_type[p] \in {"M", "Z"}
      /\ (m_type[p] = "M" => Head(nxtMCB(p)) /\ nxtMCB(p) \in Para)
  <2>1. Head(p)
    BY DEF IInv, PcInv, FreeWalk
  <2> QED
    BY <2>1, Follow
<1>2. Shape' /\ m_psp' \in [Para -> Psp \cup {FREE_PSP, SysPsp}] /\ m_type' = m_type /\ m_size' = m_size
  <2>1. CASE m_psp[p] = op.psp
    <3>1. op.psp \in Psp \cup {FREE_PSP}
      BY DEF IInv, TypeOK
    <3>2. p \in Para \ SystemMcbs
      BY <1>1, <2>1, <3>1, NotSystem, MemMgrAssumption
    <3>3. Owned(p, FREE_PSP) /\ uppermem_link' = uppermem_link
      BY <1>1, <2>1 DEF FreeWalk
    <3> QED
      BY <3>2, <3>3, OwnedKeepsShape
  <2>2. CASE m_psp[p] # op.psp
    BY <1>1, <2>2 DEF FreeWalk, mcbs, IInv, TypeOK, Shape
  <2> QED
    BY <2>1, <2>2
<1> QED
  BY <1>1, <1>2, Layout DEF FreeWalk, IInv, TypeOK, SearchInv, ChangeInv, UmbInv, PcInv, NoPanic, Head,
     Candidate, Searching, Changing, globals, mcbs, caller, args, found, sizes, locals

LEMMA JoinMCBsKeeps == IInv /\ joinMCBs => IInv'
<1> SUFFICES ASSUME IInv, joinMCBs PROVE IInv'
  OBVIOUS
<1>1. Head(p) /\ p \in Para /\ pc = "join"
  <2>1. Head(p) /\ pc = "join"
    BY DEF IInv, PcInv, joinMCBs
  <2> QED
    BY <2>1, Follow
<1>2. PICK n : n = nxtMCB(p)
  OBVIOUS
<1>3. CASE CanJoin(p)
  <2>1. Head(n) /\ n \in Para /\ mcbValid(n) /\ n = Nx(m_size, p) /\ p < n /\ m_psp[n] = FREE_PSP
    <3>1. m_type[p] = "M" /\ m_psp[n] = FREE_PSP
      BY <1>2, <1>3 DEF CanJoin, mcbFree
    <3> QED
      BY <1>1, <1>2, <3>1, Follow
  <2>2. n \in Para \ SystemMcbs
    BY <2>1, NotSystem, MemMgrAssumption
  <2>3. /\ m_type' = [m_type EXCEPT ![p] = m_type[n]]
        /\ m_size' = [m_size EXCEPT ![p] = m_size[p] + m_size[n] + 1, ![n] = WordMax]
        /\ m_psp' = m_psp /\ uppermem_link' = uppermem_link
    BY <1>2, <1>3, <2>1 DEF joinMCBs, Joined, FAKE
  <2>4. m_type \in Types /\ m_size \in Sized /\ Tiled(m_type, m_size)
        /\ Ends(m_type, m_size, uppermem_link) /\ Sys(m_psp)
    BY DEF IInv, TypeOK, Types, Sized, Shape, Arena
  <2>5. m_size[p] + m_size[n] + 1 \in 0 .. (WordMax - 1) /\ m_size[n] \in Nat /\ m_size[p] \in Nat
    BY <1>1, <2>1, <2>4, JoinSize, BlockInside DEF Head
  <2>6. m_size' \in Sized /\ m_type' \in Types
    BY <2>1, <2>3, <2>4, <2>5, <1>1, Layout DEF Sized, Types
  <2>7. /\ \A x \in Para : x # p => m_type'[x] = m_type[x]
        /\ \A x \in Para : x # p /\ x # n => m_size'[x] = m_size[x]
        /\ m_type'[p] = m_type[n] /\ m_size'[p] = m_size[p] + m_size[n] + 1
        /\ m_size'[n] = WordMax
    BY <2>1, <2>3, <2>4, <1>1, Layout DEF Sized, Types
  <2>8. n # first_mcb /\ (HasUmb => n # uppermem_root)
    BY <2>2 DEF SystemMcbs
  <2>9. /\ Tiled(m_type', m_size') /\ Ends(m_type', m_size', uppermem_link)
        /\ \A x \in Para : Hd(m_type', m_size', x) <=> Hd(m_type, m_size, x) /\ x # n
    BY <1>1, <2>1, <2>4, <2>7, <2>8, Join DEF Head
  <2>10. Shape' /\ \A x \in Para : Head(x)' <=> Head(x) /\ x # n
    BY <2>3, <2>4, <2>9 DEF Shape, Arena, Head
  <2>11. \A x \in Para : Candidate(x) /\ x <= p => Candidate(x)' /\ m_size'[x] >= m_size[x]
    BY <1>1, <2>1, <2>3, <2>4, <2>5, <2>7, <2>10, Layout DEF Candidate, Sized
  <2>12. UNCHANGED <<mem_access_mode, ret, op, locals, pc, rc>>
    BY <1>2, <1>3, <2>1 DEF joinMCBs
  <2>13. Head(p)' /\ m_psp' = m_psp
    <3>1. p' = p
      BY <2>12 DEF locals
    <3> QED
      <4>1. Hd(m_type', m_size', p)
        BY <1>1, <2>1, <2>9, Layout DEF Head
      <4> QED
        BY <3>1, <4>1, <2>3 DEF Head
  <2>14. TypeOK'
    BY <2>3, <2>6, <2>12 DEF IInv, TypeOK, Types, Sized, locals, args, found, sizes
  <2>15. SearchInv'
    <3>1. foundSeg # 0 /\ ret = "fit" => Candidate(foundSeg)' /\ m_size'[foundSeg] >= size
      <4> SUFFICES ASSUME foundSeg # 0, ret = "fit"
                   PROVE  Candidate(foundSeg)' /\ m_size'[foundSeg] >= size
        BY <2>12 DEF locals, found, args
      <4>1. Candidate(foundSeg) /\ foundSeg <= p /\ m_size[foundSeg] >= size /\ size \in Int
        BY <1>1 DEF IInv, SearchInv, Searching, TypeOK
      <4>2. foundSeg \in Para /\ m_size[foundSeg] \in Int /\ foundSeg' = foundSeg
        BY <4>1, <2>4, <2>12 DEF Candidate, Head, Hd, Sized, locals, found
      <4>3. m_size'[foundSeg] \in Int
        BY <4>2, <2>6 DEF Sized
      <4> QED
        BY <4>1, <4>2, <4>3, <2>11 DEF Candidate, Head
    <3>2. biggestSeg # 0 /\ ret = "fit" => Candidate(biggestSeg)'
      BY <1>1, <2>11, <2>12 DEF IInv, SearchInv, Searching, Candidate, Head, Hd, locals, found
    <3> QED
      BY <1>1, <2>3, <2>12, <3>1, <3>2 DEF IInv, SearchInv, Searching, locals, args, found
  <2>16. ChangeInv'
    BY <1>1, <2>1, <2>10, <2>12, Layout DEF IInv, ChangeInv, Changing, locals
  <2> QED
    BY <1>1, <2>3, <2>10, <2>13, <2>12, <2>14, <2>15, <2>16
    DEF IInv, UmbInv, PcInv, NoPanic, locals, args
<1>4. CASE ~CanJoin(p)
  BY <1>1, <1>4, Layout DEF joinMCBs, IInv, TypeOK, Shape, SearchInv, ChangeInv, UmbInv, PcInv, NoPanic, Head,
     Candidate, Searching, Changing, globals, mcbs, caller, args, found, sizes, locals
<1> QED
  BY <1>3, <1>4

(* Cutting the block f in two at x, for owners that keep the kernel's.     *)
LEMMA SplitKeepsShape ==
  ASSUME IInv, NEW f, Head(f), f \notin SystemMcbs, NEW x \in Int, f < x, x < Nx(m_size, f),
         NEW o1 \in Psp \cup {FREE_PSP, SysPsp}, NEW o2 \in Psp \cup {FREE_PSP, SysPsp},
         SplitAt(f, x, o1, o2), uppermem_link' = uppermem_link
  PROVE  /\ Shape' /\ m_type' \in Types /\ m_size' \in Sized
         /\ m_psp' \in [Para -> Psp \cup {FREE_PSP, SysPsp}]
         /\ f \in Para /\ x \in Para /\ m_psp'[f] = o1 /\ m_psp'[x] = o2
         /\ \A y \in Para : Hd(m_type', m_size', y) <=> Head(y) \/ y = x
<1>1. m_type \in Types /\ m_size \in Sized /\ Tiled(m_type, m_size)
      /\ Ends(m_type, m_size, uppermem_link) /\ Sys(m_psp)
      /\ m_psp \in [Para -> Psp \cup {FREE_PSP, SysPsp}]
  BY DEF IInv, TypeOK, Types, Sized, Shape, Arena
<1>2. f \in Para /\ x \in Para /\ f # x /\ Nx(m_size, f) \in Int
  BY <1>1, BlockInside, Layout DEF Head
<1>3. /\ \A y \in Para : y # f /\ y # x => m_type'[y] = m_type[y] /\ m_size'[y] = m_size[y]
      /\ m_type'[f] = "M" /\ m_type'[x] = m_type[f]
      /\ m_size'[f] = x - f - 1 /\ m_size'[x] = m_size[f] - (x - f)
  BY <1>1, <1>2 DEF SplitAt, Types, Sized
<1>4. /\ m_size'[x] \in 0 .. (WordMax - 1) /\ m_size'[f] \in 0 .. (WordMax - 1)
      /\ Tiled(m_type', m_size') /\ Ends(m_type', m_size', uppermem_link)
      /\ \A y \in Para : Hd(m_type', m_size', y) <=> Hd(m_type, m_size, y) \/ y = x
  BY <1>1, <1>3, Split DEF Head
<1>5. m_type' \in Types /\ m_psp' \in [Para -> Psp \cup {FREE_PSP, SysPsp}]
  BY <1>1, <1>2 DEF SplitAt, Types
<1>6. m_size' \in Sized
  <2>1. x - f - 1 \in 0 .. WordMax /\ m_size[f] - (x - f) \in 0 .. WordMax
    BY <1>3, <1>4, Layout
  <2> QED
    BY <1>1, <1>2, <2>1 DEF SplitAt, Sized
<1>7. m_psp'[f] = o1 /\ m_psp'[x] = o2 /\ \A y \in Para : y # f /\ y # x => m_psp'[y] = m_psp[y]
  BY <1>1, <1>2 DEF SplitAt
<1>8. ~Head(x)
  BY <1>1, <1>2, Layout DEF Head, Tiled
<1>9. Sys(m_psp')
  BY <1>1, <1>7, <1>8, Layout DEF Sys, SystemMcbs, Tiled, Head
<1> QED
  BY <1>1, <1>2, <1>4, <1>5, <1>6, <1>7, <1>9 DEF Shape, Arena, Head

LEMMA TakeKeeps == IInv /\ Take => IInv'
<1> SUFFICES ASSUME IInv, Take PROVE IInv'
  OBVIOUS
<1>1. /\ Head(foundSeg) /\ m_psp[foundSeg] = FREE_PSP /\ m_size[foundSeg] >= size
      /\ size \in Nat /\ op.psp \in Psp \cup {FREE_PSP, SysPsp} /\ op.psp # SysPsp
      /\ uppermem_link' = uppermem_link /\ Carve(foundSeg) /\ p' = Carved(foundSeg)
  BY MemMgrAssumption DEF IInv, SearchInv, Candidate, Take, TypeOK
<1>2. foundSeg \in Para \ SystemMcbs /\ Nx(m_size, foundSeg) = foundSeg + m_size[foundSeg] + 1
      /\ foundSeg \in Int /\ m_size[foundSeg] \in Int
  <2>1. foundSeg \in Para /\ foundSeg \in Int
    BY <1>1, Layout DEF Head, Hd
  <2> QED
    BY <1>1, <2>1, NotSystem, MemMgrAssumption DEF Nx, IInv, TypeOK
<1>3. /\ Shape' /\ m_type' \in Types /\ m_size' \in Sized
      /\ m_psp' \in [Para -> Psp \cup {FREE_PSP, SysPsp}]
      /\ p' \in Para /\ Hd(m_type', m_size', p') /\ m_psp'[p'] = op.psp
  <2>1. CASE mode = LARGEST \/ size = m_size[foundSeg]
    <3>1. Owned(foundSeg, op.psp) /\ p' = foundSeg
      BY <1>1, <2>1 DEF Carve, Carved, LARGEST, Strat
    <3> QED
      BY <1>1, <1>2, <2>1, <3>1, OwnedKeepsShape DEF Head, IInv, TypeOK, Types, Sized
  <2>2. CASE ~(mode = LARGEST \/ size = m_size[foundSeg]) /\ mode.fit = "last"
    <3>1. p' = foundSeg + m_size[foundSeg] - size /\ SplitAt(foundSeg, p', FREE_PSP, op.psp)
      BY <1>1, <2>2 DEF Carve, Carved
    <3>2. p' \in Int /\ foundSeg < p' /\ p' < Nx(m_size, foundSeg)
      BY <1>1, <1>2, <2>2, <3>1
    <3> QED
      BY <1>1, <1>2, <3>1, <3>2, SplitKeepsShape
  <2>3. CASE ~(mode = LARGEST \/ size = m_size[foundSeg]) /\ mode.fit # "last"
    <3>1. PICK x : x = foundSeg + size + 1
      OBVIOUS
    <3>2. p' = foundSeg /\ SplitAt(foundSeg, x, op.psp, FREE_PSP)
      BY <1>1, <2>3, <3>1 DEF Carve, Carved, nxtMCBsize
    <3>3. x \in Int /\ foundSeg < x /\ x < Nx(m_size, foundSeg)
      <4>1. size # m_size[foundSeg]
        BY <2>3
      <4> QED
        BY <1>1, <1>2, <3>1, <4>1
    <3> QED
      BY <1>1, <1>2, <3>2, <3>3, SplitKeepsShape
  <2> QED
    BY <2>1, <2>2, <2>3
<1>4. Head(p)'
  BY <1>3 DEF Head
<1>5. TypeOK'
  BY <1>3 DEF Take, SetUpper, Strat, Strategy, IInv, TypeOK, Types, Sized, caller, args, found,
     sizes
<1> QED
  BY <1>3, <1>4, <1>5 DEF Take, IInv, SearchInv, ChangeInv, UmbInv, PcInv, NoPanic,
     Searching, Changing, caller

LEMMA ShrinkKeeps == IInv /\ Shrink => IInv'
<1> SUFFICES ASSUME IInv, Shrink PROVE IInv'
  OBVIOUS
<1>1. /\ Head(p) /\ p = op.para /\ p \in Para \ SystemMcbs /\ op.name = "change"
      /\ p \in Int /\ m_size[p] \in Int /\ size \in Nat
      /\ m_psp[p] \in Psp \cup {FREE_PSP, SysPsp}
  <2>1. Head(p) /\ p = op.para /\ p \in Para \ SystemMcbs /\ op.name = "change"
    BY DEF IInv, PcInv, ChangeInv, Changing, Shrink
  <2> QED
    BY <2>1, Layout DEF IInv, TypeOK
<1>2. CASE size < m_size[p]
  <2>1. PICK x : x = p + size + 1
    OBVIOUS
  <2>2. /\ SplitAt(p, x, m_psp[p], FREE_PSP) /\ p' = x /\ uppermem_link' = uppermem_link
        /\ pc' = "join" /\ ret' = "setpsp"
    BY <1>2, <2>1 DEF Shrink, nxtMCBsize
  <2>3. x \in Int /\ p < x /\ x < Nx(m_size, p)
    BY <1>1, <1>2, <2>1 DEF Nx
  <2>4. /\ Shape' /\ m_type' \in Types /\ m_size' \in Sized
        /\ m_psp' \in [Para -> Psp \cup {FREE_PSP, SysPsp}] /\ x \in Para /\ m_psp'[x] = FREE_PSP
        /\ \A y \in Para : Hd(m_type', m_size', y) <=> Head(y) \/ y = x
    BY <1>1, <2>2, <2>3, SplitKeepsShape
  <2>5. Head(p)' /\ Hd(m_type', m_size', op.para)
    BY <1>1, <2>2, <2>4 DEF Head
  <2>6. TypeOK'
    BY <2>2, <2>4 DEF Shrink, IInv, TypeOK, Types, Sized, caller, args, found, sizes
  <2>7. UNCHANGED <<op, rc>>
    BY DEF Shrink, caller
  <2> QED
    BY <1>1, <2>2, <2>3, <2>4, <2>5, <2>6, <2>7 DEF IInv, SearchInv, ChangeInv, UmbInv,
       PcInv, NoPanic, Searching, Changing, Head
<1>3. CASE ~(size < m_size[p])
  BY <1>1, <1>3, Layout DEF Shrink, IInv, TypeOK, Shape, SearchInv, ChangeInv, UmbInv, PcInv, NoPanic, Head,
     Candidate, Searching, Changing, globals, mcbs, caller, args, found, sizes, locals
<1> QED
  BY <1>2, <1>3


LEMMA UmbWalkKeeps == IInv /\ UmbWalk => IInv'
<1> SUFFICES ASSUME IInv, UmbWalk PROVE IInv'
  OBVIOUS
<1>1. Head(p) /\ pc = "umbwalk" /\ p # uppermem_root /\ m_type[p] # "Z"
  BY DEF IInv, PcInv, UmbWalk
<1>2. p \in Para /\ mcbValid(p) /\ nxtMCB(p) = Nx(m_size, p) /\ Head(nxtMCB(p)) /\ nxtMCB(p) \in Para
      /\ p < nxtMCB(p) /\ m_type[p] = "M"
  BY <1>1, Follow
<1>3. HasUmb /\ p <= uppermem_root /\ uppermem_root \in Para /\ uppermem_link \in {0, 1}
  BY <1>1, Layout DEF IInv, UmbInv, TypeOK
<1>4. nxtMCB(p) <= uppermem_root
  BY <1>1, <1>2, <1>3, Layout DEF IInv, Shape, Arena, Tiled, Head
<1>5. uppermem_link = 0 => nxtMCB(p) # uppermem_root
  BY <1>1, <1>2, <1>3 DEF IInv, Shape, Arena, Ends, Last, Head
<1>6. q' = p /\ p' = nxtMCB(p) /\ UNCHANGED <<pc, ret, op, size, mcbs, uppermem_link, rc>>
  BY <1>2 DEF UmbWalk, globals, caller, args
<1>7. TypeOK'
  BY <1>2, <1>6 DEF UmbWalk, IInv, TypeOK, globals, mcbs, caller, args, found, sizes
<1>8. UmbInv'
  BY <1>1, <1>2, <1>3, <1>4, <1>5, <1>6, Layout DEF IInv, UmbInv, mcbs, Head
<1> QED
  BY <1>1, <1>2, <1>6, <1>7, <1>8 DEF IInv, Shape, SearchInv, ChangeInv, PcInv, NoPanic,
     Searching, Changing, Head, mcbs

(* Setting the type of the block below the UMB root is linking or          *)
(* unlinking upper memory.                                                 *)
LEMMA TypedKeepsShape ==
  ASSUME IInv, HasUmb, NEW a, Head(a), Nx(m_size, a) = uppermem_root, NEW l \in {0, 1},
         NEW ty, ty = (IF l = 0 THEN "Z" ELSE "M"), Typed(a, ty), uppermem_link' = l
  PROVE  /\ Shape' /\ m_type' \in Types /\ m_size' = m_size /\ m_psp' = m_psp
         /\ \A x \in Para : Hd(m_type', m_size', x) <=> Head(x)
<1>1. m_type \in Types /\ m_size \in Sized /\ Tiled(m_type, m_size)
      /\ Ends(m_type, m_size, uppermem_link) /\ Sys(m_psp)
  BY DEF IInv, TypeOK, Types, Sized, Shape, Arena
<1>2. a \in Para /\ uppermem_root \in Para /\ ty \in {"M", "Z"} /\ m_type[a] # "other"
  BY Layout DEF Head, Hd
<1>3. m_size' = m_size /\ m_psp' = m_psp /\ m_type' \in Types
  BY <1>1, <1>2 DEF Typed, Types
<1>4. m_type'[a] = ty /\ \A x \in Para : x # a => m_type'[x] = m_type[x]
  BY <1>1, <1>2 DEF Typed, Types
<1>5. \A x \in Para : Hd(m_type', m_size', x) <=> Hd(m_type, m_size, x)
  BY <1>2, <1>3, <1>4 DEF Hd, Head
<1>6. Tiled(m_type', m_size')
  <2>1. \A x : Hd(m_type', m_size', x) <=> Hd(m_type, m_size, x)
    BY <1>5 DEF Hd
  <2> QED
    BY <1>1, <1>3, <2>1 DEF Tiled
<1>7. ASSUME NEW x \in Para, Hd(m_type, m_size, x), x # a PROVE Nx(m_size, x) # uppermem_root
  <2>1. x < a => Nx(m_size, x) <= a
    BY <1>1, <1>2, <1>7 DEF Tiled, Head
  <2>2. a < x => Nx(m_size, a) <= x
    BY <1>1, <1>2, <1>7 DEF Tiled, Head
  <2>3. a < uppermem_root /\ x < Nx(m_size, x) /\ Nx(m_size, x) \in Int
    BY <1>1, <1>7, BlockInside DEF Head
  <2> QED
    BY <2>1, <2>2, <2>3, <1>2, <1>7, Layout
<1>8. Ends(m_type', m_size', l)
  <2>1. uppermem_root # Top
    BY <1>2, Layout
  <2>2. ASSUME NEW x \in Para, Hd(m_type', m_size', x)
        PROVE  m_type'[x] = "Z" <=> Last(m_size', l, x)
    <3>1. CASE x = a
      BY <3>1, <2>1, <1>3, <1>4 DEF Last
    <3>2. CASE x # a
      BY <3>2, <2>2, <1>1, <1>3, <1>4, <1>5, <1>7 DEF Last, Ends
    <3> QED
      BY <3>1, <3>2
  <2> QED
    BY <2>2 DEF Ends
<1> QED
  BY <1>1, <1>3, <1>5, <1>6, <1>8 DEF Shape, Arena, Head

LEMMA UmbSetKeeps == IInv /\ UmbSet => IInv'
<1> SUFFICES ASSUME IInv, UmbSet PROVE IInv'
  OBVIOUS
<1>1. /\ Head(p) /\ pc = "umbwalk" /\ HasUmb /\ uppermem_root \in Para /\ p <= uppermem_root
      /\ size \in {0, 1} /\ uppermem_link \in {0, 1} /\ size # uppermem_link
      /\ (p = uppermem_root \/ m_type[p] = "Z") /\ p \in Para
  <2>1. Head(p)
    BY DEF IInv, PcInv, UmbSet
  <2> QED
    BY <2>1, Layout, Follow DEF IInv, UmbInv, UmbSet, TypeOK
<1>2. m_size \in Sized /\ Tiled(m_type, m_size) /\ Ends(m_type, m_size, uppermem_link)
      /\ Head(first_mcb)
  BY DEF IInv, TypeOK, Sized, Shape, Arena, Tiled, Head
<1>3. /\ Shape' /\ m_type' \in Types /\ m_size' = m_size /\ m_psp' = m_psp
      /\ \A x \in Para : Hd(m_type', m_size', x) <=> Head(x)
      /\ uppermem_link' = size
  <2>1. CASE size = 0
    <3>1. p = uppermem_root
      <4>1. ASSUME p # uppermem_root PROVE FALSE
        <5>1. p < uppermem_root /\ m_type[p] = "Z" /\ uppermem_link = 1
          BY <1>1, <2>1, <4>1, Layout
        <5>2. Nx(m_size, p) = Top
          BY <5>1, <1>1, <1>2 DEF Ends, Last, Head
        <5>3. Nx(m_size, p) <= uppermem_root
          BY <5>1, <1>1, <1>2 DEF Tiled, Head
        <5> QED
          BY <5>2, <5>3, <1>1, Layout
      <4> QED
        BY <4>1
    <3>2. Head(q) /\ Nx(m_size, q) = uppermem_root
      BY <3>1, <1>1, <2>1, Layout DEF IInv, UmbInv
    <3>3. m_type[q] = "M"
      <4>1. m_type[q] # "Z"
        BY <3>2, <1>1, <1>2, <2>1, Layout DEF Ends, Last, Head, Hd
      <4> QED
        BY <3>2, <4>1, Follow
    <3>4. Typed(q, "Z") /\ uppermem_link' = 0
      BY <3>1, <3>3, <2>1 DEF UmbSet
    <3> QED
      BY <3>2, <3>4, <1>1, <2>1, TypedKeepsShape
  <2>2. CASE size = 1
    <3>1. p < uppermem_root /\ uppermem_link = 0 /\ m_type[p] = "Z"
      BY <1>1, <2>2, Layout DEF IInv, UmbInv
    <3>2. Nx(m_size, p) = uppermem_root
      <4>1. Nx(m_size, p) = Top \/ Nx(m_size, p) = uppermem_root
        BY <3>1, <1>1, <1>2 DEF Ends, Last, Head
      <4>2. Nx(m_size, p) <= uppermem_root
        BY <3>1, <1>1, <1>2 DEF Tiled, Head
      <4> QED
        BY <4>1, <4>2, <1>1, Layout
    <3>3. Typed(p, "M") /\ uppermem_link' = 1
      BY <3>1, <2>2 DEF UmbSet
    <3> QED
      BY <3>2, <3>3, <1>1, <2>2, TypedKeepsShape
  <2> QED
    BY <1>1, <2>1, <2>2
<1>4. pc = "umbwalk" /\ Hd(m_type', m_size', first_mcb) /\ pc' = ret /\ p' = first_mcb /\ ret' = ret
      /\ UNCHANGED <<op, rc>>
  BY <1>2, <1>3, Layout DEF UmbSet, caller
<1>5. TypeOK'
  BY <1>1, <1>3, <1>4, Layout DEF UmbSet, IInv, TypeOK, Types, caller, args, found, sizes, PcInv
<1>6. ret \in {"freewalk", "done"} /\ (ret = "freewalk" => op.name = "freeproc")
      /\ (rc = "DE_MCBDESTRY" => op.name = "change")
  BY <1>4 DEF IInv, PcInv, NoPanic
<1> QED
  BY <1>3, <1>4, <1>5, <1>6 DEF IInv, SearchInv, ChangeInv, UmbInv, PcInv, NoPanic,
     Searching, Changing, Head

(* The calls: a program may name any paragraph but the kernel's blocks.    *)
LEMMA AllocCallKeeps ==
  ASSUME IInv, NEW ps \in Psp, NEW s \in Sizes, Int21Alloc(ps, s) \/ ExecMemAlloc(ps, s)
  PROVE  IInv'
<1>1. s \in 0 .. WordMax
  BY MemMgrAssumption
<1> QED
  BY <1>1, Layout DEF Int21Alloc, ExecMemAlloc, Call, IInv, TypeOK, Shape, SearchInv, ChangeInv, UmbInv, PcInv, NoPanic, Head,
     Candidate, Searching, Changing, globals, mcbs, caller, args, found, sizes, locals

LEMMA ChangeCallKeeps ==
  ASSUME IInv, NEW ps \in Psp, NEW a \in Para \ SystemMcbs, NEW s \in Sizes,
         Int21Change(ps, a, s)
  PROVE  IInv'
<1>1. s \in 0 .. WordMax /\ Head(first_mcb)
  BY MemMgrAssumption DEF IInv, Shape, Arena, Tiled, Head
<1> QED
  BY <1>1, Layout DEF Int21Change, Call, IInv, TypeOK, Shape, SearchInv, ChangeInv, UmbInv, PcInv, NoPanic, Head,
     Candidate, Searching, Changing, globals, mcbs, caller, args, found, sizes, locals

LEMMA OtherCallKeeps ==
  ASSUME IInv, \/ \E ps \in Psp : FreeProcessMem(ps)
               \/ \E m \in Strategies : SetStrategy(m)
               \/ \E n \in 0 .. 2 : Int21UmbLink(n)
  PROVE  IInv'
<1>1. CASE \E ps \in Psp : FreeProcessMem(ps)
  <2>1. 1 \in 0 .. WordMax
    BY Layout
  <2> QED
    BY <1>1, <2>1, Layout DEF FreeProcessMem, Call, IInv, TypeOK, Shape, SearchInv, ChangeInv, UmbInv, PcInv, NoPanic, Head,
     Candidate, Searching, Changing, globals, mcbs, caller, args, found, sizes, locals
<1>2. CASE \E m \in Strategies : SetStrategy(m)
  BY <1>2, MemMgrAssumption DEF SetStrategy, IInv, TypeOK, Shape, SearchInv, ChangeInv, UmbInv, PcInv, NoPanic, Head,
     Candidate, Searching, Changing, globals, mcbs, caller, args, found, sizes, locals
<1>3. CASE \E n \in 0 .. 2 : Int21UmbLink(n)
  <2>1. 0 .. 2 \subseteq 0 .. WordMax
    BY MemMgrAssumption DEF Low0, Upper0, NoUmb
  <2> QED
    BY <1>3, <2>1, Layout DEF Int21UmbLink, Call, IInv, TypeOK, Shape, SearchInv, ChangeInv, UmbInv, PcInv, NoPanic, Head,
     Candidate, Searching, Changing, globals, mcbs, caller, args, found, sizes, locals
<1> QED
  BY <1>1, <1>2, <1>3

LEMMA Int21FreeKeeps ==
  ASSUME IInv, NEW ps \in Psp, NEW a \in Para \ SystemMcbs, Int21Free(ps, a)
  PROVE  IInv'
<1>1. Head(first_mcb) /\ 0 \in 0 .. WordMax
  BY Layout DEF IInv, Shape, Arena, Tiled, Head
<1>2. CASE a # 0 /\ mcbFreeable(a)
  <2>1. Owned(a, FREE_PSP) /\ uppermem_link' = uppermem_link
    BY <1>2 DEF Int21Free
  <2>2. Shape' /\ m_psp' \in [Para -> Psp \cup {FREE_PSP, SysPsp}] /\ m_type' = m_type /\ m_size' = m_size
    BY <2>1, OwnedKeepsShape
  <2> QED
    BY <1>1, <1>2, <2>2, Layout DEF Int21Free, Call, IInv, TypeOK, SearchInv, ChangeInv, UmbInv, PcInv, NoPanic, Head,
     Candidate, Searching, Changing, globals, mcbs, caller, args, found, sizes, locals
<1>3. CASE ~(a # 0 /\ mcbFreeable(a))
  BY <1>1, <1>3, Layout DEF Int21Free, Call, IInv, TypeOK, Shape, SearchInv, ChangeInv, UmbInv, PcInv, NoPanic, Head,
     Candidate, Searching, Changing, globals, mcbs, caller, args, found, sizes, locals
<1> QED
  BY <1>2, <1>3

(* A program that writes inside its block destroys no MCB of the chain.    *)
LEMMA UserWriteKeeps ==
  ASSUME IInv, NEW b \in Para, UserWrite(b)
  PROVE  IInv'
<1>1. Head(b) /\ uppermem_link' = uppermem_link /\ nxtMCB(b) = Nx(m_size, b)
  BY ValidIsHead, Follow DEF UserWrite
<1>2. m_type \in Types /\ m_size \in Sized /\ Tiled(m_type, m_size)
      /\ Ends(m_type, m_size, uppermem_link) /\ Sys(m_psp)
      /\ m_psp \in [Para -> Psp \cup {FREE_PSP, SysPsp}]
  BY DEF IInv, TypeOK, Types, Sized, Shape, Arena
<1>3. m_type' \in Types /\ m_size' \in Sized /\ m_psp' \in [Para -> Psp \cup {FREE_PSP, SysPsp}]
  BY <1>2, Layout DEF UserWrite, Types, Sized
<1>4. \A x \in Para : Hd(m_type, m_size, x) => ~(b < x /\ x < nxtMCB(b))
  <2>1. Nx(m_size, b) \in Int
    BY <1>1, <1>2, BlockInside DEF Head
  <2> QED
    BY <1>1, <1>2, <2>1, Layout DEF Tiled, Head
<1>5. \A x \in Para : Hd(m_type, m_size, x) =>
        m_type'[x] = m_type[x] /\ m_size'[x] = m_size[x] /\ m_psp'[x] = m_psp[x]
  BY <1>4 DEF UserWrite
<1>6. \A x : Hd(m_type', m_size', x) <=> Hd(m_type, m_size, x)
  BY <1>4 DEF UserWrite, Hd
<1>7. \A x \in Para : Hd(m_type, m_size, x) => Nx(m_size', x) = Nx(m_size, x)
  BY <1>5 DEF Nx
<1>8. Tiled(m_type', m_size') /\ Ends(m_type', m_size', uppermem_link)
  BY <1>2, <1>5, <1>6, <1>7 DEF Tiled, Ends, Last
<1>9. Sys(m_psp')
  BY <1>2, <1>5, Layout DEF Sys, Tiled
<1>10. Shape' /\ Head(first_mcb)
  BY <1>1, <1>2, <1>8, <1>9 DEF Shape, Arena, Tiled, Head
<1> QED
  BY <1>1, <1>3, <1>10 DEF UserWrite, Types, Sized, IInv, TypeOK, SearchInv, ChangeInv, UmbInv, PcInv, NoPanic, Head,
     Candidate, Searching, Changing, globals, mcbs, caller, args, found, sizes, locals

-----------------------------------------------------------------------------
(* The arena that boot hands over. *)
LEMMA InitShape == Init => IInv
<1> SUFFICES ASSUME Init PROVE IInv
  OBVIOUS
<1>1. /\ first_mcb \in Int /\ first_mcb > 0 /\ Low0 \in Int /\ first_mcb < Low0 /\ Low0 < Top
      /\ Low0 = first_mcb + DosData + 1 /\ DosData \in Nat /\ Hole \in Nat
      /\ HasUmb => /\ uppermem_root \in Int /\ Upper0 \in Int /\ Low0 < uppermem_root
                   /\ uppermem_root < Upper0 /\ Upper0 < Top
                   /\ Upper0 = uppermem_root + Hole + 1
      /\ ~HasUmb => uppermem_root \notin Para
  BY MemMgrAssumption, Layout DEF Low0, Upper0, HasUmb, NoUmb
<1>2. PICK e : e = (IF HasUmb THEN uppermem_root ELSE Top)
  OBVIOUS
<1>3. e \in Int /\ Low0 < e /\ e <= Top
  BY <1>1, <1>2, Layout
<1>4. /\ \A a \in Para : m_type[a] = IF a \in SystemMcbs THEN "M"
                                     ELSE IF a \in BootFree THEN "Z" ELSE "other"
      /\ m_type \in Types
  BY DEF Init, BootMcbs, Types
<1>5. /\ m_psp \in [Para -> Psp \cup {FREE_PSP, SysPsp}]
      /\ \A a \in SystemMcbs \cap Para : m_psp[a] = SysPsp
  BY DEF Init, BootMcbs
<1>6. /\ m_size[first_mcb] = DosData /\ m_size[Low0] = e - Low0 - 1
      /\ HasUmb => m_size[uppermem_root] = Hole /\ m_size[Upper0] = Top - Upper0 - 1
      /\ m_size \in Sized
  <2>1. first_mcb \in Para /\ Low0 \in Para /\ (HasUmb => uppermem_root \in Para /\ Upper0 \in Para)
    BY <1>1, Layout
  <2>2. m_size[first_mcb] = DosData
    BY <2>1 DEF Init, BootMcbs
  <2>3. m_size[Low0] = e - Low0 - 1
    BY <2>1, <1>1, <1>2 DEF Init, BootMcbs
  <2>4. HasUmb => m_size[uppermem_root] = Hole
    BY <2>1, <1>1 DEF Init, BootMcbs
  <2>5. HasUmb => m_size[Upper0] = Top - Upper0 - 1
    BY <2>1, <1>1 DEF Init, BootMcbs
  <2>6. DosData \in 0 .. WordMax /\ e - Low0 - 1 \in 0 .. WordMax
        /\ (HasUmb => Hole \in 0 .. WordMax /\ Top - Upper0 - 1 \in 0 .. WordMax)
    BY <1>1, <1>3, Layout
  <2>7. m_size \in Sized
    BY <2>6, <1>2, Layout DEF Init, BootMcbs, Sized
  <2> QED
    BY <2>2, <2>3, <2>4, <2>5, <2>7
<1>7. \A a \in Para : Hd(m_type, m_size, a) <=>
        a = first_mcb \/ a = Low0 \/ (HasUmb /\ (a = uppermem_root \/ a = Upper0))
  BY <1>1, <1>3, <1>4, <1>6, Layout DEF Hd, SystemMcbs, BootFree
<1>8. /\ Nx(m_size, first_mcb) = Low0 /\ Nx(m_size, Low0) = e
      /\ HasUmb => Nx(m_size, uppermem_root) = Upper0 /\ Nx(m_size, Upper0) = Top
  BY <1>1, <1>3, <1>6, Layout DEF Nx
<1>9. Tiled(m_type, m_size)
  <2>1. \A a : Hd(m_type, m_size, a) => a \in Para
    BY DEF Hd
  <2>2. Low0 \in Para /\ first_mcb \in Para /\ (HasUmb => uppermem_root \in Para /\ Upper0 \in Para)
    BY <1>1, Layout
  <2> QED
    BY <1>1, <1>2, <1>3, <1>7, <1>8, <2>1, <2>2, Layout DEF Tiled
<1>10. Ends(m_type, m_size, uppermem_link)
  <2>1. uppermem_link = 0
    BY DEF Init
  <2>2. m_type[first_mcb] = "M" /\ m_type[Low0] = "Z"
        /\ (HasUmb => m_type[uppermem_root] = "M" /\ m_type[Upper0] = "Z")
    BY <1>1, <1>4, Layout DEF SystemMcbs, BootFree
  <2> QED
    BY <1>1, <1>2, <1>3, <1>7, <1>8, <2>1, <2>2, Layout DEF Ends, Last
<1>11. Sys(m_psp)
  BY <1>5, Layout DEF Sys, SystemMcbs
<1>12. TypeOK
  BY <1>4, <1>5, <1>6, Layout DEF Init, TypeOK, Types, Sized, Nobody, LARGEST, Strat, Strategy
<1> QED
  BY <1>9, <1>10, <1>11, <1>12 DEF Init, IInv, Shape, Arena, SearchInv, ChangeInv, UmbInv,
     PcInv, NoPanic, Searching, Changing

(* Every step of the kernel and of the programs keeps the invariant. *)
LEMMA NextKeeps == IInv /\ [Next]_vars => IInv'
<1> SUFFICES ASSUME IInv, [Next]_vars PROVE IInv'
  OBVIOUS
<1>1. CASE Kernel
  BY <1>1, SearchAgainKeeps, ScanKeeps, FitKeeps, AdvanceKeeps, EndScanKeeps, AllocFailKeeps,
     ExecFailKeeps, DosMemCheckKeeps, DosMemChangeKeeps, GrowKeeps, ChangeFailKeeps,
     DosUmbLinkKeeps, ReturnKeeps, SetPspKeeps, ExecFreeKeeps, FreeWalkKeeps, JoinMCBsKeeps,
     TakeKeeps, ShrinkKeeps, UmbWalkKeeps, UmbSetKeeps DEF Kernel
<1>2. CASE Program
  <2>1. CASE \E ps \in Psp, a \in Para \ SystemMcbs : Int21Free(ps, a)
    BY <2>1, Int21FreeKeeps
  <2>2. CASE \E b \in Para : UserWrite(b)
    BY <2>2, UserWriteKeeps
  <2>3. CASE \E ps \in Psp, s \in Sizes : Int21Alloc(ps, s) \/ ExecMemAlloc(ps, s)
    BY <2>3, AllocCallKeeps
  <2>4. CASE \E ps \in Psp, a \in Para \ SystemMcbs, s \in Sizes : Int21Change(ps, a, s)
    BY <2>4, ChangeCallKeeps
  <2>5. CASE \/ \E ps \in Psp : FreeProcessMem(ps)
             \/ \E m \in Strategies : SetStrategy(m)
             \/ \E n \in 0 .. 2 : Int21UmbLink(n)
    BY <2>5, OtherCallKeeps
  <2> QED
    BY <1>2, <2>1, <2>2, <2>3, <2>4, <2>5 DEF Program
<1>3. CASE UNCHANGED vars
  BY <1>3 DEF vars, IInv, TypeOK, Shape, SearchInv, ChangeInv, UmbInv, PcInv, NoPanic, Head,
     Candidate, Searching, Changing, globals, mcbs, caller, args, found, sizes, locals
<1> QED
  BY <1>1, <1>2, <1>3 DEF Next

(* The invariant holds in every reachable state, whatever the constants.   *)
THEOREM Invariance == Spec => []IInv
<1>1. Init => IInv
  BY InitShape
<1>2. IInv /\ [Next]_vars => IInv'
  BY NextKeeps
<1> QED
  BY <1>1, <1>2, PTL DEF Spec

(* memmgr.c's pointers and counters stay in their types: no size computed  *)
(* by joinMCBs or by a split leaves 0 .. 0xffff.                           *)
THEOREM TypeCorrect == Spec => []TypeOK
<1>1. IInv => TypeOK
  BY DEF IInv
<1> QED
  BY <1>1, Invariance, PTL

(* The MCB chain tiles the arena after any sequence of calls. *)
THEOREM ArenaAlwaysTiled == Spec => []ArenaTiled
<1>1. IInv => ArenaTiled
  <2> SUFFICES ASSUME IInv PROVE ArenaTiled
    OBVIOUS
  <2>1. \A a \in Para : a \in Heads <=> Hd(m_type, m_size, a)
    BY ValidIsHead DEF Heads, Head
  <2>2. first_mcb \in Heads /\ (HasUmb => uppermem_root \in Heads)
    BY <2>1, Layout DEF IInv, Shape, Arena, Tiled
  <2>3. ASSUME NEW a \in Heads
        PROVE  /\ nxtMCB(a) \in Heads \cup {Top}
               /\ \A b \in Para : a < b /\ b < nxtMCB(a) => ~mcbValid(b)
    <3>1. a \in Para /\ Head(a)
      BY <2>1, <2>3 DEF Heads, Head
    <3>2. nxtMCB(a) = Nx(m_size, a) /\ nxtMCB(a) \in Int
      BY <3>1, Follow
    <3>3. Nx(m_size, a) = Top \/ Hd(m_type, m_size, Nx(m_size, a))
      BY <3>1 DEF IInv, Shape, Arena, Tiled, Head
    <3>4. Hd(m_type, m_size, Nx(m_size, a)) => Nx(m_size, a) \in Heads
      BY <2>1 DEF Hd
    <3>5. ASSUME NEW b \in Para, a < b, b < nxtMCB(a), mcbValid(b) PROVE FALSE
      <4>1. Head(b)
        BY <3>5, ValidIsHead
      <4>2. Nx(m_size, a) <= b
        BY <3>1, <3>5, <4>1 DEF IInv, Shape, Arena, Tiled, Head
      <4> QED
        BY <3>2, <3>5, <4>2, Layout
    <3> QED
      BY <3>2, <3>3, <3>4, <3>5
  <2> QED
    BY <2>2, <2>3 DEF ArenaTiled
<1> QED
  BY <1>1, Invariance, PTL

(* The walks of the chain stop exactly at the end of what is linked. *)
THEOREM ChainAlwaysEnds == Spec => []ChainEnds
<1>1. IInv => ChainEnds
  <2> SUFFICES ASSUME IInv, NEW a \in Heads
               PROVE  m_type[a] = "Z" <=> \/ nxtMCB(a) = Top
                                          \/ HasUmb /\ uppermem_link = 0 /\ nxtMCB(a) = uppermem_root
    BY DEF ChainEnds
  <2>1. a \in Para /\ Head(a)
    BY ValidIsHead DEF Heads
  <2>2. nxtMCB(a) = Nx(m_size, a)
    BY <2>1, Follow
  <2> QED
    BY <2>1, <2>2 DEF IInv, Shape, Arena, Ends, Last, Head
<1> QED
  BY <1>1, Invariance, PTL

(* "MCB chain corrupted" is never printed: inthndlr.c's panic is dead code *)
(* as long as programs write only into their own blocks.                   *)
THEOREM NeverPanics == Spec => []NoPanic
<1>1. IInv => NoPanic
  BY DEF IInv, PcInv
<1> QED
  BY <1>1, Invariance, PTL

-----------------------------------------------------------------------------
(* Which MCBs a step rewrites.  A split writes its new MCB inside a block, *)
(* where no block begins.                                                  *)
LEMMA SplitUntouched ==
  ASSUME IInv, NEW f, Head(f), NEW x \in Int, f < x, x < Nx(m_size, f),
         NEW o1, NEW o2, SplitAt(f, x, o1, o2), NEW a \in Heads, a # f
  PROVE  m_psp'[a] = m_psp[a] /\ m_size'[a] = m_size[a]
<1>1. a \in Para /\ Head(a)
  BY ValidIsHead DEF Heads
<1>2. f \in Para /\ Nx(m_size, f) \in Int
  BY BlockInside DEF Head, Hd, IInv, TypeOK, Sized, Shape, Arena
<1>3. a # x
  BY <1>1, <1>2, Layout DEF Head, IInv, Shape, Arena, Tiled
<1> QED
  BY <1>1, <1>2, <1>3 DEF SplitAt, IInv, TypeOK

LEMMA JoinUntouched == IInv /\ joinMCBs => OthersUntouched
<1> SUFFICES ASSUME IInv, joinMCBs, NEW a \in Heads,
                    m_psp[a] \in Psp, m_psp'[a] # m_psp[a] \/ m_size'[a] # m_size[a]
             PROVE  op'.name \in {"free", "change"} /\ op'.para = a
  BY DEF OthersUntouched
<1>1. a \in Para /\ op' = op
  BY DEF Heads, joinMCBs
<1>2. Joined(p, nxtMCB(p)) /\ CanJoin(p)
  BY DEF joinMCBs, mcbs
<1>3. m_psp' = m_psp /\ (a = p \/ a = nxtMCB(p))
  BY <1>1, <1>2 DEF Joined, IInv, TypeOK
<1>4. m_psp[nxtMCB(p)] = FREE_PSP
  BY <1>2 DEF CanJoin, mcbFree
<1>5. a = p /\ m_psp[p] # FREE_PSP
  BY <1>3, <1>4, MemMgrAssumption
<1>6. pc = "join" /\ ret = "grow"
  BY <1>5 DEF joinMCBs, IInv, SearchInv, PcInv
<1> QED
  BY <1>1, <1>5, <1>6 DEF IInv, ChangeInv, Changing

LEMMA TakeUntouched == IInv /\ Take => OthersUntouched
<1> SUFFICES ASSUME IInv, Take, NEW a \in Heads, m_psp[a] \in Psp
             PROVE  m_psp'[a] = m_psp[a] /\ m_size'[a] = m_size[a]
  BY DEF OthersUntouched
<1>1. /\ Head(foundSeg) /\ m_psp[foundSeg] = FREE_PSP /\ m_size[foundSeg] >= size
      /\ size \in Nat /\ Carve(foundSeg) /\ a # foundSeg
  BY MemMgrAssumption DEF IInv, SearchInv, Candidate, Take, TypeOK
<1>2. foundSeg \in Int /\ m_size[foundSeg] \in Int
      /\ Nx(m_size, foundSeg) = foundSeg + m_size[foundSeg] + 1
  BY <1>1, Layout DEF Head, Hd, IInv, TypeOK, Nx
<1>3. CASE mode = LARGEST \/ size = m_size[foundSeg]
  BY <1>1, <1>3 DEF Carve, Owned, IInv, TypeOK, Heads
<1>4. CASE ~(mode = LARGEST \/ size = m_size[foundSeg]) /\ mode.fit = "last"
  <2>1. PICK x : x = foundSeg + m_size[foundSeg] - size
    OBVIOUS
  <2>2. SplitAt(foundSeg, x, FREE_PSP, op.psp)
    BY <1>1, <1>4, <2>1 DEF Carve, Carved
  <2>3. size < m_size[foundSeg]
    BY <1>1, <1>2, <1>4
  <2>4. x \in Int /\ foundSeg < x /\ x < Nx(m_size, foundSeg)
    BY <1>1, <1>2, <2>1, <2>3
  <2> QED
    BY <1>1, <2>2, <2>4, SplitUntouched
<1>5. CASE ~(mode = LARGEST \/ size = m_size[foundSeg]) /\ mode.fit # "last"
  <2>1. PICK x : x = foundSeg + size + 1
    OBVIOUS
  <2>2. SplitAt(foundSeg, x, op.psp, FREE_PSP)
    BY <1>1, <1>5, <2>1 DEF Carve, nxtMCBsize
  <2>3. x \in Int /\ foundSeg < x /\ x < Nx(m_size, foundSeg)
    BY <1>1, <1>2, <1>5, <2>1
  <2> QED
    BY <1>1, <2>2, <2>3, SplitUntouched
<1> QED
  BY <1>3, <1>4, <1>5

LEMMA ShrinkUntouched == IInv /\ Shrink => OthersUntouched
<1> SUFFICES ASSUME IInv, Shrink, NEW a \in Heads, a # op.para
             PROVE  m_psp'[a] = m_psp[a] /\ m_size'[a] = m_size[a]
  BY DEF OthersUntouched, Shrink, caller, IInv, ChangeInv, Changing
<1>1. /\ Head(p) /\ a # p /\ p \in Int /\ m_size[p] \in Int /\ size \in Nat
  BY Layout DEF IInv, PcInv, ChangeInv, Shrink, TypeOK, Head, Hd
<1>2. CASE size < m_size[p]
  <2>1. PICK x : x = p + size + 1
    OBVIOUS
  <2>2. SplitAt(p, x, m_psp[p], FREE_PSP)
    BY <1>2, <2>1 DEF Shrink, nxtMCBsize
  <2>3. x \in Int /\ p < x /\ x < Nx(m_size, p)
    BY <1>1, <1>2, <2>1 DEF Nx
  <2> QED
    BY <1>1, <2>2, <2>3, SplitUntouched
<1>3. CASE ~(size < m_size[p])
  BY <1>3 DEF Shrink, mcbs
<1> QED
  BY <1>2, <1>3

LEMMA UserWriteUntouched ==
  ASSUME IInv, NEW b \in Para, UserWrite(b)
  PROVE  OthersUntouched
<1>1. Head(b) /\ nxtMCB(b) = Nx(m_size, b) /\ Nx(m_size, b) \in Int
  BY ValidIsHead, Follow DEF UserWrite
<1>2. \A x \in Para : Head(x) => ~(b < x /\ x < nxtMCB(b))
  BY <1>1, Layout DEF IInv, Shape, Arena, Tiled, Head
<1> QED
  BY <1>2, ValidIsHead DEF UserWrite, OthersUntouched, Heads

(* The owner of a block keeps it, as long as nobody names it in a call:    *)
(* the splits and joins of other processes' calls pass it by.              *)
THEOREM OthersNeverTouched == Spec => AllocatedUntouched
<1>1. IInv /\ [Next]_vars => [OthersUntouched]_vars
  <2> SUFFICES ASSUME IInv, Next PROVE OthersUntouched
    OBVIOUS
  <2>1. CASE m_psp' = m_psp /\ m_size' = m_size
    BY <2>1 DEF OthersUntouched
  <2>2. CASE joinMCBs \/ Take \/ Shrink
    BY <2>2, JoinUntouched, TakeUntouched, ShrinkUntouched
  <2>3. CASE ExecFree
    BY <2>3 DEF ExecFree, Owned, OthersUntouched, Heads, IInv, TypeOK
  <2>4. CASE SetPsp
    BY <2>4 DEF SetPsp, Owned, OthersUntouched, Heads, IInv, TypeOK, ChangeInv, Changing
  <2>5. CASE FreeWalk
    BY <2>5 DEF FreeWalk, Owned, OthersUntouched, Heads, IInv, TypeOK, PcInv, caller, mcbs
  <2>6. CASE \E ps \in Psp, a \in Para \ SystemMcbs : Int21Free(ps, a)
    BY <2>6 DEF Int21Free, Call, Owned, OthersUntouched, Heads, IInv, TypeOK, mcbs
  <2>7. CASE \E b \in Para : UserWrite(b)
    BY <2>7, UserWriteUntouched
  <2>8. Next => \/ m_psp' = m_psp /\ m_size' = m_size
                \/ joinMCBs \/ Take \/ Shrink \/ ExecFree \/ SetPsp \/ FreeWalk
                \/ \E ps \in Psp, a \in Para \ SystemMcbs : Int21Free(ps, a)
                \/ \E b \in Para : UserWrite(b)
    BY DEF Next, Kernel, Program, searchAgain, Scan, Fit, Advance, EndScan, AllocFail,
       ExecFail, DosMemCheck, DosMemChange, Grow, ChangeFail, DosUmbLink, UmbWalk, UmbSet,
       Return, Int21Alloc, ExecMemAlloc, Int21Change, FreeProcessMem, SetStrategy,
       Int21UmbLink, Typed, globals, mcbs
  <2> QED
    BY <2>1, <2>2, <2>3, <2>4, <2>5, <2>6, <2>7, <2>8
<1> QED
  BY <1>1, Invariance, PTL DEF Spec, AllocatedUntouched
=============================================================================
