------------------------------ MODULE NaclText ------------------------------
(***************************************************************************)
(* Dynamic code: service_runtime/nacl_text.c.  Untrusted threads create,   *)
(* modify and delete code in the dynamic text area while others run in it. *)
(* A bundle can be entered at its head only; a head that holds a halt      *)
(* stops new threads, and the area of a deleted region is given out again  *)
(* once every thread has made a check-in system call since its heads were  *)
(* halted.                                                                 *)
(*                                                                         *)
(* Code is told apart by its instruction layout, so that a modification,   *)
(* which has to keep the layout, leaves it the same.  A jump to a halt or  *)
(* to an inaccessible page ends the process; there is no step for it.      *)
(* Calls that are refused before dynamic_load_mutex is taken change        *)
(* nothing and are left out.                                               *)
(***************************************************************************)
EXTENDS Integers, FiniteSets, SequencesExt

CONSTANTS
  Thread,           \* application threads, each launched at most once
  Main,             \* the initial thread
  NoThread,
  Code,             \* instruction layouts
  Halt, Zero,       \* contents of halted bundles and of untouched pages
  NumBundles,       \* bundles between dynamic_text_start and _end
  PageBundles,      \* bundles per NACL_MAP_PAGESIZE
  SledBundles,      \* bundles of NACL_HALT_SLED_SIZE
  MaxGeneration,    \* INT32_MAX
  ScanCutoff        \* kBinarySearchToScanCutoff

ASSUME NaclTextAssumption ==
  /\ Main \in Thread /\ NoThread \notin Thread
  /\ Halt \notin Code /\ Zero \notin Code /\ Halt # Zero
  /\ NumBundles \in Nat /\ PageBundles \in Nat \ {0} /\ SledBundles \in Nat
  /\ NumBundles % PageBundles = 0  \* nacl_text.c:69, 80-86
  /\ MaxGeneration \in Nat \ {0} /\ ScanCutoff \in Nat

Bundle == 1..NumBundles
Page == {(b - 1) \div PageBundles : b \in Bundle}

VARIABLES
  dynamic_regions,            \* sorted array of the NaClApp
  dynamic_delete_generation,
  dynamic_page_bitmap,        \* pages that have been made visible
  dynamic_mapcache,           \* pages of the cached writable mapping
  head, tail,                 \* each bundle: its first word, the rest
  threads,                    \* the thread table
  generation,                 \* natp->dynamic_delete_generation
  at,                         \* where a thread runs dynamic code
  pc, gen,                    \* a thread's position, NaClSysDyncodeDelete's gen
  dynamic_load_mutex,         \* its holder
  call                        \* the locals of the holder

memVars == <<head, tail>>
mapVars == <<dynamic_page_bitmap, dynamic_mapcache>>
regionVars == <<dynamic_regions, dynamic_delete_generation>>
threadVars == <<threads, generation, at>>
vars == <<memVars, mapVars, regionVars, threadVars,
          pc, gen, dynamic_load_mutex, call>>

-----------------------------------------------------------------------------
(* The array of regions. *)

Region == [start : Bundle, size : Bundle,
           delete_generation : {-1} \cup 1..MaxGeneration, is_mmap : BOOLEAN]

Bundles(dest, size) == dest..(dest + size - 1)
Area(r) == Bundles(r.start, r.size)
Regions == ToSet(dynamic_regions)

(* The last region that starts at or before ptr, 0 when there is none. *)
FindClosestLEQ(rs, ptr) ==
  LET before == {i \in DOMAIN rs : rs[i].start <= ptr}
  IN IF before = {} THEN 0
     ELSE CHOOSE i \in before : \A j \in before : j <= i

(* The same by the search of the code: halve the range, then scan it. *)
Search(rs, ptr) ==
  LET n == Len(rs)
      halve[b \in 1..n, e \in 1..(n + 1)] ==
        LET mid == b + ((e - b) \div 2)
        IN IF b + ScanCutoff + 1 >= e THEN <<b, e>>
           ELSE IF rs[mid].start <= ptr THEN halve[mid, e] ELSE halve[b, mid]
      scan[i \in 1..n, e \in 1..(n + 1)] ==
        IF i + 1 < e /\ rs[i + 1].start <= ptr THEN scan[i + 1, e] ELSE i
  IN IF n = 0 THEN 0
     ELSE IF rs[n].start <= ptr THEN n
     ELSE IF ptr < rs[1].start THEN 0
     ELSE scan[halve[1, n + 1]]

(* Bug: the region is looked for at the start of the range only. *)
RegionFind_ByStart(rs, dest, size) ==
  LET i == FindClosestLEQ(rs, dest)
  IN IF i # 0 /\ dest < rs[i].start + rs[i].size THEN i ELSE 0

(* The index of a region that overlaps the range, 0 when there is none. *)
RegionFind(rs, dest, size) ==
  LET i == FindClosestLEQ(rs, dest + size - 1)
  IN IF i # 0 /\ dest < rs[i].start + rs[i].size THEN i ELSE 0

NewRegion(dest, size, is_mmap) ==
  [start |-> dest, size |-> size, delete_generation |-> -1,
   is_mmap |-> is_mmap]

RegionInsert(rs, item) ==
  InsertAt(rs, FindClosestLEQ(rs, item.start) + 1, item)

(* NaClDynamicRegionCreate; it is refused when the target is in use. *)
RegionCreate(dest, size, is_mmap) ==
  /\ RegionFind(dynamic_regions, dest, size) = 0
  /\ dynamic_regions' =
       RegionInsert(dynamic_regions, NewRegion(dest, size, is_mmap))

-----------------------------------------------------------------------------
(* The writable mapping of the area. *)

Pages(dest, size) == {(b - 1) \div PageBundles : b \in Bundles(dest, size)}
PageArea(ps) == {b \in Bundle : (b - 1) \div PageBundles \in ps}

(* NaClFillMemoryRegionWithHalt on the pages that become visible. *)
MakePagesVisible(ps) ==
  LET fresh == PageArea(ps \ dynamic_page_bitmap)
  IN /\ dynamic_page_bitmap' = dynamic_page_bitmap \cup ps
     /\ head' = [b \in Bundle |-> IF b \in fresh THEN Halt ELSE head[b]]
     /\ tail' = [b \in Bundle |-> IF b \in fresh THEN Halt ELSE tail[b]]

(* NaClTextMapWrapper: a hit of the cache, or a new mapping. *)
MapText(dest, size) ==
  /\ dynamic_mapcache' = Pages(dest, size)
  /\ IF Pages(dest, size) = dynamic_mapcache
     THEN UNCHANGED <<dynamic_page_bitmap, memVars>>
     ELSE MakePagesVisible(Pages(dest, size))

(* The host refuses the mapping; the old one is gone. *)
MapTextFails(dest, size) ==
  /\ Pages(dest, size) # dynamic_mapcache
  /\ dynamic_mapcache' = {}
  /\ UNCHANGED <<dynamic_page_bitmap, memVars>>

(* NaClTextMapClearCacheIfNeeded keeps a mapping of one page. *)
ClearCacheIfNeeded(dest, size) ==
  dynamic_mapcache' = IF Cardinality(Pages(dest, size)) > 1 THEN {}
                      ELSE dynamic_mapcache

-----------------------------------------------------------------------------
(* dynamic_load_mutex. *)

NoCall == [dest |-> 0, size |-> 0, code |-> Zero, todo |-> {},
           unread |-> {}, rv |-> MaxGeneration]

(* A thread makes system calls from outside of the dynamic text area. *)
CanCall(t) == pc[t] = "user" /\ at[t] = <<>>

Lock(t, step, dest, size, code) ==
  /\ CanCall(t)
  /\ dynamic_load_mutex = NoThread
  /\ dynamic_load_mutex' = t
  /\ call' = [NoCall EXCEPT !.dest = dest, !.size = size, !.code = code,
                            !.todo = Bundles(dest, size)]
  /\ pc' = [pc EXCEPT ![t] = step]

Unlock(t) ==
  /\ dynamic_load_mutex' = NoThread
  /\ call' = NoCall
  /\ pc' = [pc EXCEPT ![t] = "user"]

(* A call that takes the mutex and returns it in one step of the model. *)
LockAndUnlock(t) ==
  /\ CanCall(t)
  /\ dynamic_load_mutex = NoThread
  /\ UNCHANGED <<dynamic_load_mutex, call, pc>>

-----------------------------------------------------------------------------
(* NaClTextDyncodeCreate.  The validator accepts any code or refuses it. *)

Loadable(dest, size) == dest + size - 1 <= NumBundles - SledBundles

CreateBegin(t, dest, size, code) ==
  /\ Loadable(dest, size)
  /\ Lock(t, "tails", dest, size, code)
  /\ RegionCreate(dest, size, FALSE)
  /\ MapText(dest, size)
  /\ UNCHANGED <<dynamic_delete_generation, threadVars, gen>>

(* Without memory for the mapping the region stays, with no code in it. *)
CreateNoMemory(t, dest, size) ==
  /\ Loadable(dest, size)
  /\ LockAndUnlock(t)
  /\ RegionCreate(dest, size, FALSE)
  /\ MapTextFails(dest, size)
  /\ UNCHANGED <<dynamic_delete_generation, threadVars, gen>>

(* CopyBundleTails; the barrier keeps them before the heads. *)
CopyBundleTails(t) ==
  /\ pc[t] = "tails"
  /\ tail' = [b \in Bundle |-> IF b \in call.todo THEN call.code ELSE tail[b]]
  /\ pc' = [pc EXCEPT ![t] = "heads"]
  /\ UNCHANGED <<head, mapVars, regionVars, threadVars, gen,
                 dynamic_load_mutex, call>>

(* CopyBundleHeads; the heads may be written in any order. *)
CopyBundleHead(t) ==
  /\ pc[t] = "heads"
  /\ \E b \in call.todo :
       /\ head' = [head EXCEPT ![b] = call.code]
       /\ call' = [call EXCEPT !.todo = @ \ {b}]
  /\ UNCHANGED <<tail, mapVars, regionVars, threadVars, pc, gen,
                 dynamic_load_mutex>>

CreateEnd(t) ==
  /\ pc[t] = "heads" /\ call.todo = {}
  /\ ClearCacheIfNeeded(call.dest, call.size)
  /\ Unlock(t)
  /\ UNCHANGED <<memVars, dynamic_page_bitmap, regionVars, threadVars, gen>>

(***************************************************************************)
(* NaClSysMmap of a file with code: whole pages, replaced at once under a  *)
(* region that is never deleted.  The mutex is given back before the pages *)
(* are replaced; in between nothing can touch the area.                    *)
(***************************************************************************)
MmapCode(t, first, last, code) ==
  LET area == PageArea(first..last)
      dest == first * PageBundles + 1
      size == (last - first + 1) * PageBundles
  IN /\ first <= last
     /\ LockAndUnlock(t)
     /\ RegionCreate(dest, size, TRUE)
     /\ head' = [b \in Bundle |-> IF b \in area THEN code ELSE head[b]]
     /\ tail' = [b \in Bundle |-> IF b \in area THEN code ELSE tail[b]]
     /\ UNCHANGED <<mapVars, dynamic_delete_generation, threadVars, gen>>

-----------------------------------------------------------------------------
(***************************************************************************)
(* NaClSysDyncodeModify of a part of a region, one that is being deleted   *)
(* included.  A replacement that validates keeps the layout and every halt *)
(* (validator_ragel/dfa_validate_64.c), so that only the mapping changes.  *)
(* There is no step for a region whose creation ran out of memory before   *)
(* its pages were made visible: copying from it faults.                    *)
(***************************************************************************)
Modifiable(i, dest, size) ==
  /\ i # 0
  /\ Bundles(dest, size) \subseteq Area(dynamic_regions[i])
  /\ ~dynamic_regions[i].is_mmap

Modify(t, dest, size) ==
  /\ LockAndUnlock(t)
  /\ Modifiable(RegionFind(dynamic_regions, dest, size), dest, size)
  /\ Pages(dest, size) \subseteq dynamic_page_bitmap
  /\ \/ MapTextFails(dest, size)
     \/ /\ dynamic_mapcache' = IF Cardinality(Pages(dest, size)) > 1 THEN {}
                               ELSE Pages(dest, size)
        /\ UNCHANGED <<dynamic_page_bitmap, memVars>>
  /\ UNCHANGED <<regionVars, threadVars, gen>>

-----------------------------------------------------------------------------
(* NaClSysDyncodeDelete *)

(* natp may only move forward; NaClSetThreadGeneration checks it. *)
SetThreadGeneration(t, g) == generation' = [generation EXCEPT ![t] = g]

(* With size 0 a thread checks in with the generation it read. *)
CheckInRead(t) ==
  /\ CanCall(t)
  /\ dynamic_load_mutex = NoThread
  /\ gen' = [gen EXCEPT ![t] = dynamic_delete_generation]
  /\ pc' = [pc EXCEPT ![t] = "set"]
  /\ UNCHANGED <<memVars, mapVars, regionVars, threadVars,
                 dynamic_load_mutex, call>>

CheckInSet(t) ==
  /\ pc[t] = "set"
  /\ SetThreadGeneration(t, gen[t])
  /\ gen' = [gen EXCEPT ![t] = 0]
  /\ pc' = [pc EXCEPT ![t] = "user"]
  /\ UNCHANGED <<memVars, mapVars, regionVars, threads, at,
                 dynamic_load_mutex, call>>

(* The region of exactly this range that the application inserted. *)
Deletable(i, dest, size) ==
  /\ i # 0
  /\ dynamic_regions[i].start = dest
  /\ dynamic_regions[i].size = size
  /\ ~dynamic_regions[i].is_mmap

Deleting(i) == dynamic_regions[i].delete_generation >= 0

DeleteFirst(t, dest, size) ==
  LET i == RegionFind(dynamic_regions, dest, size)
  IN /\ Deletable(i, dest, size) /\ ~Deleting(i)
     /\ dynamic_delete_generation # MaxGeneration
     /\ \/ /\ MapText(dest, size)
           /\ Lock(t, "halts", dest, size, Halt)
        \/ /\ MapTextFails(dest, size)
           /\ LockAndUnlock(t)
     /\ UNCHANGED <<regionVars, threadVars, gen>>

DeleteAgain(t, dest, size) ==
  LET i == RegionFind(dynamic_regions, dest, size)
  IN /\ Deletable(i, dest, size) /\ Deleting(i)
     /\ Lock(t, "checkIn", dest, size, Halt)
     /\ UNCHANGED <<memVars, mapVars, regionVars, threadVars, gen>>

(* ReplaceBundleHeadsWithHalts *)
HaltBundleHead(t) ==
  /\ pc[t] = "halts"
  /\ \E b \in call.todo :
       /\ head' = [head EXCEPT ![b] = Halt]
       /\ call' = [call EXCEPT !.todo = @ \ {b}]
  /\ UNCHANGED <<tail, mapVars, regionVars, threadVars, pc, gen,
                 dynamic_load_mutex>>

(* Bug: the region gets the generation before the increment. *)
DeleteMark_PostIncrement(t) ==
  /\ pc[t] = "halts" /\ call.todo = {}
  /\ ClearCacheIfNeeded(call.dest, call.size)
  /\ dynamic_delete_generation' = dynamic_delete_generation + 1
  /\ dynamic_regions' =
       [dynamic_regions EXCEPT
          ![RegionFind(dynamic_regions, call.dest, call.size)]
          .delete_generation = dynamic_delete_generation]
  /\ pc' = [pc EXCEPT ![t] = "checkIn"]
  /\ UNCHANGED <<memVars, dynamic_page_bitmap, threadVars, gen,
                 dynamic_load_mutex, call>>

DeleteMark(t) ==
  /\ pc[t] = "halts" /\ call.todo = {}
  /\ ClearCacheIfNeeded(call.dest, call.size)
  /\ dynamic_delete_generation' = dynamic_delete_generation + 1
  /\ dynamic_regions' =
       [dynamic_regions EXCEPT
          ![RegionFind(dynamic_regions, call.dest, call.size)]
          .delete_generation = dynamic_delete_generation']
  /\ pc' = [pc EXCEPT ![t] = "checkIn"]
  /\ UNCHANGED <<memVars, dynamic_page_bitmap, threadVars, gen,
                 dynamic_load_mutex, call>>

(* The thread checks in itself and takes threads_mu. *)
DeleteCheckIn(t) ==
  /\ pc[t] = "checkIn"
  /\ SetThreadGeneration(t, dynamic_delete_generation)
  /\ pc' = [pc EXCEPT ![t] = "scan"]
  /\ call' = [call EXCEPT !.unread = threads, !.todo = {}]
  /\ UNCHANGED <<memVars, mapVars, regionVars, threads, at, gen,
                 dynamic_load_mutex>>

(* NaClMinimumThreadGeneration holds threads_mu, and natp->mu to read. *)
ScanThread(t) ==
  /\ pc[t] = "scan"
  /\ \E u \in call.unread :
       call' = [call EXCEPT !.unread = @ \ {u},
                            !.rv = IF @ > generation[u] THEN generation[u]
                                   ELSE @]
  /\ UNCHANGED <<memVars, mapVars, regionVars, threadVars, pc, gen,
                 dynamic_load_mutex>>

(* Bug: the comparison of the generations is strict. *)
DeleteEnd_Less(t) ==
  LET i == RegionFind(dynamic_regions, call.dest, call.size)
  IN /\ pc[t] = "scan" /\ call.unread = {}
     /\ dynamic_regions' =
          IF dynamic_regions[i].delete_generation < call.rv
          THEN RemoveAt(dynamic_regions, i) ELSE dynamic_regions
     /\ Unlock(t)
     /\ UNCHANGED <<memVars, mapVars, dynamic_delete_generation, threadVars,
                    gen>>

(* Every thread has checked in since the mark, or EAGAIN. *)
DeleteEnd(t) ==
  LET i == RegionFind(dynamic_regions, call.dest, call.size)
  IN /\ pc[t] = "scan" /\ call.unread = {}
     /\ dynamic_regions' =
          IF dynamic_regions[i].delete_generation <= call.rv
          THEN RemoveAt(dynamic_regions, i) ELSE dynamic_regions
     /\ Unlock(t)
     /\ UNCHANGED <<memVars, mapVars, dynamic_delete_generation, threadVars,
                    gen>>

-----------------------------------------------------------------------------
(* Untrusted execution and the thread table. *)

(* A jump or a fall through into a bundle, at its head. *)
Enter(t, b) ==
  /\ pc[t] = "user"
  /\ head[b] \in Code
  /\ at' = [at EXCEPT ![t] = <<b, head[b]>>]
  /\ UNCHANGED <<memVars, mapVars, regionVars, threads, generation, pc, gen,
                 dynamic_load_mutex, call>>

Leave(t) ==
  /\ at[t] # <<>>
  /\ at' = [at EXCEPT ![t] = <<>>]
  /\ UNCHANGED <<memVars, mapVars, regionVars, threads, generation, pc, gen,
                 dynamic_load_mutex, call>>

ThreadsMuFree == \A t \in Thread : pc[t] # "scan"

(* NaClAppThreadMake, and NaClAddThread in the launcher. *)
Launch(t) ==
  /\ pc[t] = "new" /\ ThreadsMuFree
  /\ threads' = threads \cup {t}
  /\ generation' = [generation EXCEPT ![t] = 0]
  /\ pc' = [pc EXCEPT ![t] = "user"]
  /\ UNCHANGED <<memVars, mapVars, regionVars, at, gen, dynamic_load_mutex,
                 call>>

(* NaClAppThreadTeardown; the end of the last thread ends the process. *)
Exit(t) ==
  /\ CanCall(t) /\ ThreadsMuFree
  /\ threads # {t}
  /\ threads' = threads \ {t}
  /\ generation' = [generation EXCEPT ![t] = 0]
  /\ pc' = [pc EXCEPT ![t] = "gone"]
  /\ UNCHANGED <<memVars, mapVars, regionVars, at, gen, dynamic_load_mutex,
                 call>>

-----------------------------------------------------------------------------
Init ==
  /\ dynamic_regions = <<>>
  /\ dynamic_delete_generation = 0
  /\ dynamic_page_bitmap = {}
  /\ dynamic_mapcache = {}
  /\ head = [b \in Bundle |-> Zero]
  /\ tail = [b \in Bundle |-> Zero]
  /\ threads = {Main}
  /\ generation = [t \in Thread |-> 0]
  /\ at = [t \in Thread |-> <<>>]
  /\ pc = [t \in Thread |-> IF t = Main THEN "user" ELSE "new"]
  /\ gen = [t \in Thread |-> 0]
  /\ dynamic_load_mutex = NoThread
  /\ call = NoCall

(* The rest of a call that has begun. *)
CallStep(t) ==
  \/ CopyBundleTails(t) \/ CopyBundleHead(t) \/ CreateEnd(t) \/ CheckInSet(t)
  \/ HaltBundleHead(t) \/ DeleteMark(t) \/ DeleteCheckIn(t) \/ ScanThread(t)
  \/ DeleteEnd(t)

CallBegin(t) ==
  \/ CheckInRead(t)
  \/ \E dest, size \in Bundle :
       \/ \E code \in Code : CreateBegin(t, dest, size, code)
       \/ CreateNoMemory(t, dest, size)
       \/ Modify(t, dest, size)
       \/ DeleteFirst(t, dest, size)
       \/ DeleteAgain(t, dest, size)
  \/ \E first, last \in Page, code \in Code : MmapCode(t, first, last, code)

UntrustedStep(t) ==
  \/ \E b \in Bundle : Enter(t, b)
  \/ Leave(t)

Next ==
  \E t \in Thread :
    CallBegin(t) \/ CallStep(t) \/ UntrustedStep(t) \/ Launch(t) \/ Exit(t)

(* A call that has begun goes on, a thread returns from dynamic code, and  *)
(* a delayed delete is asked for again, as EAGAIN says in nacl_dyncode.h.  *)
Fairness ==
  /\ \A t \in Thread : WF_vars(CallStep(t)) /\ WF_vars(Leave(t))
  /\ SF_vars(\E t \in Thread, dest, size \in Bundle :
               DeleteAgain(t, dest, size))

Spec == Init /\ [][Next]_vars
FairSpec == Spec /\ Fairness

-----------------------------------------------------------------------------
(* Properties *)

Cell == Code \cup {Halt, Zero}

NaclTextTypeOK ==
  /\ dynamic_regions \in Seq(Region)
  /\ dynamic_delete_generation \in 0..MaxGeneration
  /\ dynamic_page_bitmap \subseteq Page
  /\ dynamic_mapcache \subseteq dynamic_page_bitmap
  /\ head \in [Bundle -> Cell]
  /\ tail \in [Bundle -> Cell]
  /\ threads \subseteq Thread
  /\ generation \in [Thread -> 0..MaxGeneration]
  /\ at \in [Thread -> {<<>>} \cup (Bundle \X Code)]
  /\ pc \in [Thread -> {"new", "user", "tails", "heads", "set", "halts",
                        "checkIn", "scan", "gone"}]
  /\ gen \in [Thread -> 0..MaxGeneration]
  /\ dynamic_load_mutex \in Thread \cup {NoThread}
  /\ call \in [dest : {0} \cup Bundle, size : {0} \cup Bundle, code : Cell,
               todo : SUBSET Bundle, unread : SUBSET Thread,
               rv : 0..MaxGeneration]

(* The regions are sorted, and no bundle is in two of them.                *)
RegionsAreSorted ==
  \A i, j \in DOMAIN dynamic_regions :
    i < j => dynamic_regions[i].start + dynamic_regions[i].size
               <= dynamic_regions[j].start

Busy(r) == dynamic_load_mutex # NoThread /\ call.dest = r.start

(* Outside of a call the heads of a region are one layout or all halted,   *)
(* they are halted when it is to be deleted, and nothing can be entered    *)
(* outside of the regions.                                                 *)
AllOrNothing ==
  /\ \A r \in Regions : ~Busy(r) =>
       \/ \A b \in Area(r) : head[b] \notin Code
       \/ /\ r.delete_generation = -1
          /\ \E c \in Code : \A b \in Area(r) : head[b] = c /\ tail[b] = c
  /\ \A b \in Bundle :
       head[b] \in Code => \E r \in Regions : b \in Area(r)

(***************************************************************************)
(* A thread that is past the head of a bundle runs the rest of the same    *)
(* code, whatever was deleted and created meanwhile, and the area it is in *)
(* has not been given back (nacl_text.c:985-1002: "All threads have        *)
(* checked in since we marked region for deletion").                       *)
(***************************************************************************)
NoStaleCode ==
  \A t \in Thread : at[t] # <<>> =>
    /\ tail[at[t][1]] = at[t][2]
    /\ \E r \in Regions : at[t][1] \in Area(r)

(***************************************************************************)
(* No fatal check can fail: the generation of a thread never goes back     *)
(* though NaClSysDyncodeDelete sets it after it released the mutex         *)
(* (nacl_text.c:293, 933-939), and a page that becomes visible has never   *)
(* been used (nacl_text.c:413, 455).                                       *)
(***************************************************************************)
ChecksHold ==
  /\ \A t \in Thread :
       /\ pc[t] = "set" => generation[t] <= gen[t]
       /\ generation[t] <= dynamic_delete_generation
  /\ \A b \in Bundle :
       \/ tail[b] = Zero
       \/ (b - 1) \div PageBundles \in dynamic_page_bitmap
       \/ \E r \in Regions : r.is_mmap /\ b \in Area(r)

(***************************************************************************)
(* The array of regions is sorted and without overlaps, each region is     *)
(* loaded as a whole or not at all, in the presence of failing mappings    *)
(* and whatever was in the area before, and a region that waits for        *)
(* deletion cannot be entered (nacl_text.c:236-280, 340-410, 690-735,      *)
(* 960-985).                                                               *)
(***************************************************************************)
NaclTextInv ==
  NaclTextTypeOK /\ RegionsAreSorted /\ AllOrNothing /\ ChecksHold

(***************************************************************************)
(* A region whose deletion was delayed is removed in the end if the        *)
(* program keeps checking in: threads that were started or have ended in   *)
(* the meantime do not hold it up (nacl_text.c:300-318, 988).              *)
(***************************************************************************)
ChecksIn(t) ==
  []<>(t \notin threads \/ generation[t] = dynamic_delete_generation)

DeletionEnds ==
  (\A t \in Thread : ChecksIn(t)) =>
    \A g \in 1..MaxGeneration :
      (\E r \in Regions : r.delete_generation = g)
        ~> ~(\E r \in Regions : r.delete_generation = g)
=============================================================================
