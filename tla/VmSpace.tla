------------------------------ MODULE VmSpace ------------------------------
(***************************************************************************)
(* Changes of the untrusted address space against the launch of threads    *)
(* and against I/O in flight, in the Windows build: the memory system      *)
(* calls of sys_memory.c, the memory map of sel_mem.c, the holes that      *)
(* vm_hole.c guards, the pages of platform/win/nacl_host_desc.c, and the   *)
(* record of pending I/O in sel_ldr.c.  Only Windows opens holes: it       *)
(* cannot replace a page in one step, so an unmapped page belongs to       *)
(* nobody for a while and the host may give it away as somebody's stack.   *)
(*                                                                         *)
(* A page is an allocation page of 64 KB (NACL_MAP_PAGESIZE).              *)
(***************************************************************************)
EXTENDS Integers, FiniteSets

CONSTANTS
  Thread,     \* application threads
  Running,    \* those that run at the start; the others are created later
  Service,    \* host threads launched with NaClAddrSpSquattingThreadIf
  NoThread,   \* nobody holds the mutex
  NumPages,   \* pages of the address space that the calls may name
  MapBytes,   \* bytes in a page; only their being more than NumPages matters
  MaxCalls    \* bound: system calls and service launches together

ASSUME VmAssumption ==
  /\ Running \subseteq Thread
  /\ Service \cap Thread = {}
  /\ NoThread \notin Thread \cup Service
  /\ NumPages \in Nat \ {0}
  /\ MapBytes \in Nat /\ MapBytes > NumPages
  /\ MaxCalls \in Nat
  /\ IsFiniteSet(Thread) /\ IsFiniteSet(Service)

VARIABLES
  mu,                 \* nap->mu: its holder
  cv,                 \* the threads blocked on nap->cv
  threads_mu,         \* nap->threads_mu: its holder
  threads_launching,
  vm_hole_may_exist,
  pc,                 \* where each thread is
  registered,         \* nap->threads
  suspended,          \* the threads that SuspendAll has suspended
  mem_map,            \* nap->mem_map: a set of entries
  host,               \* what the operating system has at each page
  none,               \* the pages that mprotect has made PROT_NONE
  op,                 \* the memory call that has the hole
  mem_io_regions,     \* the pages of each thread's I/O in flight
  fatal,              \* why LOG_FATAL has ended the process, or "no"
  calls,              \* calls made so far (bounded by MaxCalls)
  leaked,             \* history: failed launches that stay counted
  mapFailed,          \* history: MapViewOfFileEx has failed
  protectFailed       \* history: VirtualProtect of a new view has failed

lockVars == <<mu, cv, threads_mu, threads_launching, vm_hole_may_exist>>
spaceVars == <<mem_map, host, none, op>>
historyVars == <<leaked, mapFailed, protectFailed>>
vars == <<lockVars, pc, registered, suspended, spaceVars, mem_io_regions,
          fatal, calls, historyVars>>

Page == 0 .. NumPages - 1
Actor == Thread \cup Service
NoIo == {}

(* The ranges of pages that a call can name: the first page and how many. *)
Extent == {x \in Page \X (1 .. NumPages) : x[1] + x[2] <= NumPages}
Pages(x) == x[1] .. x[1] + x[2] - 1

(***************************************************************************)
(* munmap, and mmap of anonymous memory or of a file of which only the     *)
(* first `backed' pages exist; `at' is where its loop over pages has come. *)
(***************************************************************************)
Call(kind, x, backed) ==
  [kind |-> kind, first |-> x[1], n |-> x[2], backed |-> backed, at |-> 0]
NoOp == [kind |-> "none", first |-> 0, n |-> 0, backed |-> 0, at |-> 0]
Op ==
  UNION {{Call("munmap", x, 0), Call("anon", x, x[2])}
         \cup {Call("file", x, b) : b \in 0 .. x[2]} : x \in Extent}

VmInit ==
  /\ mu = NoThread /\ cv = {} /\ threads_mu = NoThread
  /\ threads_launching = 0
  /\ vm_hole_may_exist = FALSE
  /\ pc = [a \in Actor |-> IF a \in Running THEN "untrusted" ELSE "unborn"]
  /\ registered = Running
  /\ suspended = {}
  /\ mem_map = {}
  /\ host = [p \in Page |-> "reserved"]
  /\ none = {}
  /\ op = NoOp
  /\ mem_io_regions = [t \in Thread |-> NoIo]
  /\ fatal = "no"
  /\ calls = 0
  /\ leaked = 0
  /\ mapFailed = FALSE /\ protectFailed = FALSE

Goto(a, label) == pc' = [pc EXCEPT ![a] = label]
MuIsFree(a) == mu = NoThread /\ a \notin cv

-----------------------------------------------------------------------------
(* The memory map of sel_mem.c, as the set of its entries. *)

End(e) == e.page + e.n
Overlaps(e, f, n) == e.page < f + n /\ f < End(e)
IsMapped(M, p) == \E e \in M : Overlaps(e, p, 1)

(* The page is within the file that its entry maps. *)
IsView(M, p) ==
  \E e \in M : /\ Overlaps(e, p, 1) /\ e.desc = "file"
               /\ e.offset + (p - e.page) * MapBytes < e.size

(* What is left of e in pages from, ..., to - 1, with its offset there. *)
Part(e, from, to, offset) ==
  IF from < to
  THEN {[e EXCEPT !.page = from, !.n = to - from, !.offset = offset]}
  ELSE {}

Before(e, f) == Part(e, e.page, f, e.offset)
After(e, next) == Part(e, next, End(e), e.offset + (next - e.page) * MapBytes)

(* Every entry loses pages f, ..., f + n - 1, and the new ones are added. *)
VmmapUpdate(M, f, n, new) ==
  {e \in M : ~Overlaps(e, f, n)}
    \cup new
    \cup UNION {Before(e, f) \cup After(e, f + n)
                 : e \in {d \in M : Overlaps(d, f, n)}}

(***************************************************************************)
(* The pages are cut out of the entries they are in.  Where the code       *)
(* computes the offset of the piece cut out, it adds a number of pages to  *)
(* an offset in bytes.                                                     *)
(***************************************************************************)
Middle(e, f, next) ==
  LET from == IF e.page < f THEN f ELSE e.page
      to == IF next < End(e) THEN next ELSE End(e)
  IN Part(e, from, to, e.offset + (from - e.page))

VmmapChangeProt(M, f, n) ==
  {e \in M : ~Overlaps(e, f, n)}
    \cup UNION {Before(e, f) \cup Middle(e, f, f + n) \cup After(e, f + n)
                 : e \in {d \in M : Overlaps(d, f, n)}}

-----------------------------------------------------------------------------
(* Untrusted code, and the launch of threads. *)

SystemCall(t) ==
  /\ pc[t] = "untrusted" /\ t \notin suspended
  /\ calls < MaxCalls
  /\ calls' = calls + 1
  /\ \E call \in {"create", "vm", "mprotect", "io", "exit"} : Goto(t, call)
  /\ UNCHANGED <<lockVars, registered, suspended, spaceVars, mem_io_regions,
                 fatal, historyVars>>

(* NaClAddrSpSquattingThreadIfStartThread is called. *)
ServiceCall(s) ==
  /\ s \in Service /\ pc[s] = "unborn"
  /\ calls < MaxCalls
  /\ calls' = calls + 1
  /\ Goto(s, "create")
  /\ UNCHANGED <<lockVars, registered, suspended, spaceVars, mem_io_regions,
                 fatal, historyVars>>

WaitToStartThread(a) ==
  /\ pc[a] = "create" /\ MuIsFree(a)
  /\ IF vm_hole_may_exist
     THEN cv' = cv \cup {a} /\ UNCHANGED <<threads_launching, pc>>
     ELSE /\ threads_launching' = threads_launching + 1
          /\ Goto(a, "spawn")
          /\ UNCHANGED cv
  /\ UNCHANGED <<mu, threads_mu, vm_hole_may_exist, registered, suspended,
                 spaceVars, mem_io_regions, fatal, calls, historyVars>>

(* The host puts the new thread's stack wherever there is room. *)
StackIsPlaced ==
  \/ UNCHANGED host
  \/ \E p \in Page : host[p] = "hole" /\ host' = [host EXCEPT ![p] = "stack"]

(* If there is no thread, thread_create fails, and nobody tells vm_hole. *)
ThreadSpawn(t) ==
  /\ t \in Thread /\ pc[t] = "spawn"
  /\ \/ \E c \in Thread :
          /\ pc[c] = "unborn"
          /\ pc' = [pc EXCEPT ![t] = "return", ![c] = "launched"]
          /\ StackIsPlaced
          /\ UNCHANGED leaked
     \/ /\ Goto(t, "return")
        /\ leaked' = leaked + 1
        /\ UNCHANGED host
  /\ UNCHANGED <<lockVars, registered, suspended, mem_map, none, op,
                 mem_io_regions, fatal, calls, mapFailed, protectFailed>>

(* Whether it fails or not, NaClVmHoleThreadStackIsSafe is called next. *)
ServiceSpawn(s) ==
  /\ s \in Service /\ pc[s] = "spawn"
  /\ Goto(s, "stack")
  /\ StackIsPlaced
  /\ UNCHANGED <<lockVars, registered, suspended, mem_map, none, op,
                 mem_io_regions, fatal, calls, historyVars>>

(* NaClAppThreadLauncher adds itself to the thread table... *)
AddThread(t) ==
  /\ pc[t] = "launched" /\ threads_mu = NoThread
  /\ registered' = registered \cup {t}
  /\ Goto(t, "stack")
  /\ UNCHANGED <<lockVars, suspended, spaceVars, mem_io_regions, fatal, calls,
                 historyVars>>

(* Bug: those who wait for the last launch are not woken. *)
ThreadStackIsSafe_NoBroadcast(a) ==
  /\ pc[a] = "stack" /\ MuIsFree(a)
  /\ threads_launching' = threads_launching - 1
  /\ Goto(a, IF a \in Thread THEN "return" ELSE "gone")
  /\ UNCHANGED <<mu, cv, threads_mu, vm_hole_may_exist, registered, suspended,
                 spaceVars, mem_io_regions, fatal, calls, historyVars>>

(* ... and then says so. *)
ThreadStackIsSafe(a) ==
  /\ pc[a] = "stack" /\ MuIsFree(a)
  /\ threads_launching' = threads_launching - 1
  /\ cv' = IF threads_launching = 1 THEN {} ELSE cv
  /\ Goto(a, IF a \in Thread THEN "return" ELSE "gone")
  /\ UNCHANGED <<mu, threads_mu, vm_hole_may_exist, registered, suspended,
                 spaceVars, mem_io_regions, fatal, calls, historyVars>>

Return(t) ==
  /\ pc[t] = "return" /\ t \notin suspended
  /\ Goto(t, "untrusted")
  /\ UNCHANGED <<lockVars, registered, suspended, spaceVars, mem_io_regions,
                 fatal, calls, historyVars>>

ThreadTeardown(t) ==
  /\ pc[t] = "exit" /\ threads_mu = NoThread
  /\ registered' = registered \ {t}
  /\ Goto(t, "gone")
  /\ UNCHANGED <<lockVars, suspended, spaceVars, mem_io_regions, fatal, calls,
                 historyVars>>

-----------------------------------------------------------------------------
(* mmap and munmap. *)

(* Bug: the launches under way are not waited for. *)
VmHoleOpening_NoWait(t) ==
  /\ pc[t] = "vm" /\ MuIsFree(t)
  /\ mu' = t
  /\ vm_hole_may_exist' = TRUE
  /\ Goto(t, "suspend")
  /\ UNCHANGED <<cv, threads_mu, threads_launching, registered, suspended,
                 spaceVars, mem_io_regions, fatal, calls, historyVars>>

(* nap->mu, and NaClVmHoleOpeningMu up to SuspendAll. *)
VmHoleOpening(t) ==
  /\ pc[t] = "vm" /\ MuIsFree(t)
  /\ IF threads_launching # 0
     THEN cv' = cv \cup {t} /\ UNCHANGED <<mu, vm_hole_may_exist, pc>>
     ELSE /\ mu' = t
          /\ vm_hole_may_exist' = TRUE
          /\ Goto(t, "suspend")
          /\ UNCHANGED cv
  /\ UNCHANGED <<threads_mu, threads_launching, registered, suspended,
                 spaceVars, mem_io_regions, fatal, calls, historyVars>>

(* NaClUntrustedThreadsSuspendAll, which returns with threads_mu held. *)
SuspendAll(t) ==
  /\ pc[t] = "suspend" /\ threads_mu = NoThread
  /\ threads_mu' = t
  /\ suspended' = registered
  /\ Goto(t, "check")
  /\ UNCHANGED <<mu, cv, threads_launching, vm_hole_may_exist, registered,
                 spaceVars, mem_io_regions, fatal, calls, historyVars>>

Die(why) ==
  /\ fatal' = why
  /\ UNCHANGED <<lockVars, pc, registered, suspended, spaceVars,
                 mem_io_regions, calls, historyVars>>

(* NaClVmIoPendingCheck_mu finds I/O on a page in P. *)
IoIsPending(P) == \E t \in Thread : mem_io_regions[t] \cap P # {}

(* The pages of the call o on which it looks for I/O: of a file, only      *)
(* those that exist, although mmap unmaps what is beyond the end.          *)
CheckedPages(o) ==
  Pages(<<o.first, IF o.kind = "file" THEN o.backed ELSE o.n>>)

(***************************************************************************)
(* If there are none, the interval that it asks for ends before it begins: *)
(* OverlapsWith looks at the first byte of the range and the byte before   *)
(* it.  I/O that crosses the boundary is found; I/O on one of the two      *)
(* pages may or may not touch that byte.                                   *)
(***************************************************************************)
AtBoundary(o) == {o.first - 1, o.first}
MayFindIo(o) ==
  IF CheckedPages(o) # {} THEN IoIsPending(CheckedPages(o))
                         ELSE IoIsPending(AtBoundary(o))
MustFindIo(o) ==
  IF CheckedPages(o) # {} THEN IoIsPending(CheckedPages(o))
  ELSE \E t \in Thread : AtBoundary(o) \subseteq mem_io_regions[t]

(* Bug: I/O in flight is not looked for. *)
VmCheck_NoPendingCheck(t) ==
  /\ pc[t] = "check"
  /\ \/ Goto(t, "close") /\ UNCHANGED op
     \/ op' \in Op /\ Goto(t, "page")
  /\ UNCHANGED <<lockVars, registered, suspended, mem_map, host, none,
                 mem_io_regions, fatal, calls, historyVars>>

(* The call is refused; or it starts; or it races with I/O. *)
VmCheck(t) ==
  /\ pc[t] = "check"
  /\ \/ /\ Goto(t, "close")
        /\ UNCHANGED <<lockVars, registered, suspended, spaceVars,
                       mem_io_regions, fatal, calls, historyVars>>
     \/ \E o \in Op : MayFindIo(o) /\ Die("io_race")
     \/ \E o \in Op :
          /\ ~MustFindIo(o)
          /\ op' = o
          /\ Goto(t, "page")
          /\ UNCHANGED <<lockVars, registered, suspended, mem_map, host, none,
                         mem_io_regions, fatal, calls, historyVars>>

here == op.first + op.at

(* munmap, or mmap beyond the end of the file: MunmapInternal. *)
IsUnmapping == op.kind = "munmap" \/ op.at >= op.backed

SetHere(what) ==
  /\ host' = [host EXCEPT ![here] = what]
  /\ none' = none \ {here}

(* On to the next page. *)
Advance(t) ==
  IF op.at + 1 < op.n THEN op' = [op EXCEPT !.at = @ + 1] /\ Goto(t, "page")
                      ELSE op' = op /\ Goto(t, "close")

(* Bug: MunmapInternal forgets NaClVmmapRemove. *)
Forget_Keeps == UNCHANGED mem_map

Forget == mem_map' = VmmapUpdate(mem_map, here, 1, {})

(***************************************************************************)
(* One page: what is there goes.  A view leaves a hole, and so does        *)
(* memory that is released to be mapped again; decommitted memory stays    *)
(* reserved.  The memory map tells which of them to do; if it is wrong,    *)
(* the call fails and that is fatal.                                       *)
(***************************************************************************)
VmPage(t) ==
  /\ pc[t] = "page"
  /\ IF IsUnmapping /\ ~IsMapped(mem_map, here)
     THEN Advance(t) /\ UNCHANGED <<mem_map, host, none>>
     ELSE IF IsView(mem_map, here)
     THEN /\ host[here] = "view"
          /\ SetHere("hole") /\ Goto(t, "fill")
          /\ UNCHANGED <<mem_map, op>>
     ELSE /\ host[here] \in {"anon", "reserved"}
          /\ IF IsUnmapping
             THEN SetHere("reserved") /\ Forget /\ Advance(t)
             ELSE /\ SetHere("hole") /\ Goto(t, "fill")
                  /\ UNCHANGED <<mem_map, op>>
  /\ UNCHANGED <<lockVars, registered, suspended, mem_io_regions, fatal, calls,
                 historyVars>>

(* UnmapViewOfFile or VirtualFree fails. *)
VmPageFails(t) ==
  /\ pc[t] = "page"
  /\ ~(IsUnmapping /\ ~IsMapped(mem_map, here))
  /\ IF IsView(mem_map, here) THEN host[here] # "view"
     ELSE host[here] \notin {"anon", "reserved"}
  /\ Die("unmap")

(* Bug: MunmapInternal leaves the hole that UnmapViewOfFile opened. *)
VmFill_NoReserve(t) ==
  /\ pc[t] = "fill" /\ host[here] = "hole"
  /\ IF IsUnmapping THEN Forget /\ UNCHANGED <<host, none>>
     ELSE /\ SetHere(IF op.kind = "anon" THEN "anon" ELSE "view")
          /\ UNCHANGED mem_map
  /\ Advance(t)
  /\ UNCHANGED <<lockVars, registered, suspended, mem_io_regions, fatal, calls,
                 historyVars>>

(* The hole is filled. *)
VmFill(t) ==
  /\ pc[t] = "fill" /\ host[here] = "hole"
  /\ IF IsUnmapping THEN SetHere("reserved") /\ Forget
     ELSE /\ SetHere(IF op.kind = "anon" THEN "anon" ELSE "view")
          /\ UNCHANGED mem_map
  /\ Advance(t)
  /\ UNCHANGED <<lockVars, registered, suspended, mem_io_regions, fatal, calls,
                 historyVars>>

(* VirtualAlloc finds that somebody else has taken the hole. *)
VmFillFails(t) ==
  /\ pc[t] = "fill" /\ host[here] # "hole"
  /\ IsUnmapping \/ op.kind = "anon"
  /\ Die("fill")

(***************************************************************************)
(* MapViewOfFileEx fails, for lack of memory too: NaClHostDescMap unmaps   *)
(* the views it has made, reserves nothing, and mmap returns the error.    *)
(***************************************************************************)
MapViewFails(t) ==
  /\ pc[t] = "fill" /\ ~IsUnmapping /\ op.kind = "file"
  /\ host' = [p \in Page |->
                IF op.first <= p /\ p < here THEN "hole" ELSE host[p]]
  /\ op' = NoOp
  /\ mapFailed' = TRUE
  /\ Goto(t, "close")
  /\ UNCHANGED <<lockVars, registered, suspended, mem_map, none,
                 mem_io_regions, fatal, calls, leaked, protectFailed>>

(* VirtualProtect fails on the view just made: the views stay where they   *)
(* are, and mmap returns the error without a word to the memory map.       *)
ProtectViewFails(t) ==
  /\ pc[t] = "fill" /\ ~IsUnmapping /\ op.kind = "file"
  /\ host[here] = "hole" /\ SetHere("view")
  /\ op' = NoOp
  /\ protectFailed' = TRUE
  /\ Goto(t, "close")
  /\ UNCHANGED <<lockVars, registered, suspended, mem_map, mem_io_regions,
                 fatal, calls, leaked, mapFailed>>

NewEntries ==
  IF op.kind \notin {"anon", "file"} THEN {}
  ELSE {[page |-> op.first, n |-> op.n, desc |-> op.kind, offset |-> 0,
         size |-> op.backed * MapBytes]}

(* NaClVmmapAddWithOverwrite for mmap; NaClVmHoleClosingMu; unlock. *)
VmClose(t) ==
  /\ pc[t] = "close"
  /\ mem_map' = IF NewEntries = {} THEN mem_map
                ELSE VmmapUpdate(mem_map, op.first, op.n, NewEntries)
  /\ op' = NoOp
  /\ suspended' = {}
  /\ threads_mu' = NoThread
  /\ vm_hole_may_exist' = FALSE
  /\ cv' = {}
  /\ mu' = NoThread
  /\ Goto(t, "return")
  /\ UNCHANGED <<threads_launching, registered, host, none, mem_io_regions,
                 fatal, calls, historyVars>>

-----------------------------------------------------------------------------
(* Calls that hold nap->mu only, and open no hole. *)

(* MprotectInternal asks the host for what the host has at p. *)
Protectable(M, p) ==
  IF IsView(M, p) THEN host[p] = "view"
  ELSE (\E e \in M : Overlaps(e, p, 1) /\ e.desc = "anon") => host[p] = "anon"

SysMprotect(t) ==
  /\ pc[t] = "mprotect" /\ MuIsFree(t)
  /\ \/ /\ Goto(t, "return")                     \* refused
        /\ UNCHANGED <<lockVars, registered, suspended, spaceVars,
                       mem_io_regions, fatal, calls, historyVars>>
     \/ \E x \in Extent :
          /\ \A p \in Pages(x) : IsMapped(mem_map, p)
          /\ LET M == VmmapChangeProt(mem_map, x[1], x[2])
             IN /\ mem_map' = M
                /\ fatal' = IF IoIsPending(Pages(x)) THEN "io_race"
                            ELSE IF \A p \in Pages(x) : Protectable(M, p)
                            THEN "no" ELSE "protect"
                /\ IF fatal' # "no" THEN UNCHANGED none
                   ELSE none' \in {none \cup Pages(x), none \ Pages(x)}
          /\ Goto(t, "return")
          /\ UNCHANGED <<lockVars, registered, suspended, host, op,
                         mem_io_regions, calls, historyVars>>

(***************************************************************************)
(* What OverlapsWith takes the I/O to be on.  Of a transfer of no bytes    *)
(* the last address is one less than the first, modulo 2^32: it is taken   *)
(* for the two bytes that meet there, or for the whole address space.      *)
(***************************************************************************)
Region ==
  {Pages(x) : x \in Extent} \cup {Page} \cup {{p - 1, p} : p \in Page \ {0}}

(* read, write, pread, pwrite, sendmsg and recvmsg. *)
VmIoWillStart(t) ==
  /\ pc[t] = "io" /\ MuIsFree(t)
  /\ \E r \in Region : mem_io_regions' = [mem_io_regions EXCEPT ![t] = r]
  /\ Goto(t, "transfer")
  /\ UNCHANGED <<lockVars, registered, suspended, spaceVars, fatal, calls,
                 historyVars>>

(* The transfer may take any time, or never end. *)
VmIoHasEnded(t) ==
  /\ pc[t] = "transfer" /\ MuIsFree(t)
  /\ mem_io_regions' = [mem_io_regions EXCEPT ![t] = NoIo]
  /\ Goto(t, "return")
  /\ UNCHANGED <<lockVars, registered, suspended, spaceVars, fatal, calls,
                 historyVars>>

-----------------------------------------------------------------------------
(* What a thread does in the service runtime without waiting for I/O. *)
Work(a) ==
  /\ fatal = "no"
  /\ \/ WaitToStartThread(a) \/ ThreadSpawn(a) \/ ServiceSpawn(a)
     \/ AddThread(a) \/ ThreadStackIsSafe(a) \/ Return(a) \/ ThreadTeardown(a)
     \/ VmHoleOpening(a) \/ SuspendAll(a) \/ VmCheck(a)
     \/ VmPage(a) \/ VmPageFails(a) \/ VmFill(a) \/ VmFillFails(a)
     \/ MapViewFails(a) \/ ProtectViewFails(a) \/ VmClose(a)
     \/ SysMprotect(a) \/ VmIoWillStart(a)

Next ==
  \/ \E a \in Actor : Work(a)
  \/ /\ fatal = "no"
     /\ \/ \E t \in Thread : SystemCall(t) \/ VmIoHasEnded(t)
        \/ \E s \in Service : ServiceCall(s)

Spec == VmInit /\ [][Next]_vars

(***************************************************************************)
(* Threads in the service runtime are scheduled.  A transfer need not end, *)
(* and untrusted code need not make another call.                          *)
(***************************************************************************)
FairSpec == Spec /\ \A a \in Actor : WF_vars(Work(a))

-----------------------------------------------------------------------------
PC == {"unborn", "untrusted", "create", "spawn", "launched", "stack", "return",
       "exit", "gone", "vm", "suspend", "check", "page", "fill", "close",
       "mprotect", "io", "transfer"}

Entry == [page : Page, n : 1 .. NumPages, desc : {"anon", "file"},
          offset : 0 .. NumPages * MapBytes, size : 0 .. NumPages * MapBytes]

VmTypeOK ==
  /\ {mu, threads_mu} \subseteq Actor \cup {NoThread}
  /\ cv \subseteq Actor
  /\ threads_launching \in Nat
  /\ vm_hole_may_exist \in BOOLEAN
  /\ pc \in [Actor -> PC]
  /\ registered \subseteq Thread /\ suspended \subseteq registered
  /\ mem_map \subseteq Entry
  /\ host \in [Page -> {"reserved", "anon", "view", "hole", "stack"}]
  /\ none \subseteq Page
  /\ [op EXCEPT !.at = 0] \in Op \cup {NoOp} /\ op.at \in 0 .. op.n
  /\ mem_io_regions \in [Thread -> SUBSET Page]
  /\ fatal \in {"no", "io_race", "unmap", "fill", "protect"}
  /\ calls \in 0 .. MaxCalls /\ leaked \in Nat
  /\ mapFailed \in BOOLEAN /\ protectFailed \in BOOLEAN

Launching == {a \in Actor : pc[a] \in {"spawn", "launched", "stack"}}

(* Who holds which lock, and what the counter and the flag stand for. *)
LocksAreRight ==
  /\ threads_launching = Cardinality(Launching) + leaked
  /\ vm_hole_may_exist <=> mu # NoThread
  /\ \A a \in Actor :
       /\ mu = a <=> pc[a] \in {"suspend", "check", "page", "fill", "close"}
       /\ threads_mu = a <=> pc[a] \in {"check", "page", "fill", "close"}
  /\ vm_hole_may_exist => threads_launching = 0

(***************************************************************************)
(* The entries of the memory map "must not overlap" (sel_mem.h:52).        *)
(***************************************************************************)
EntriesAreDisjoint ==
  \A d, e \in mem_map : d # e => ~Overlaps(d, e.page, e.n)

VmInv == VmTypeOK /\ LocksAreRight /\ EntriesAreDisjoint

(***************************************************************************)
(* While there is a hole in the untrusted address space, no host thread    *)
(* that could get its stack there is being launched, and no untrusted code *)
(* runs that could write to what the host puts there (vm_hole.c:52-68).    *)
(* Not so once MapViewOfFileEx has failed.                                 *)
(***************************************************************************)
HoleIsQuiet ==
  ~mapFailed =>
    /\ \A p \in Page : host[p] # "stack"
    /\ (\E p \in Page : host[p] = "hole") =>
         /\ Launching = {}
         /\ \A t \in Thread : pc[t] = "untrusted" => t \in suspended

(* An entry's offset is not one of a page of its file. *)
OffsetIsWrong == \E e \in mem_map : e.offset % MapBytes # 0

(* A call to NaClHostDescMap has failed after it changed pages.            *)
HostDescMapFailed == mapFailed \/ protectFailed

(***************************************************************************)
(* No call to the host about a page fails because the memory map has it    *)
(* wrong or somebody has taken the page (the LOG_FATALs of MunmapInternal, *)
(* MprotectInternal and NaClDescEffLdrUnmapMemory), unless mprotect has    *)
(* left an entry with a wrong offset, or MapViewOfFileEx or VirtualProtect *)
(* has failed in an mmap, which leaves the map as it was.                  *)
(***************************************************************************)
MapIsTrusted ==
  fatal \in {"unmap", "fill", "protect"} => HostDescMapFailed \/ OffsetIsWrong

(* The pages of the mmap under way that are beyond the end of its file.    *)
BeyondFile == Pages(<<op.first, op.n>>) \ CheckedPages(op)

(***************************************************************************)
(* Memory on which I/O is in flight stays as it is: it is not unmapped,    *)
(* replaced or made inaccessible before the I/O ends (sel_ldr.c:1275-1309).*)
(* The one exception is what the code does not look at: the pages beyond   *)
(* the end of the file in an mmap, which it unmaps unchecked.              *)
(***************************************************************************)
IoMemoryStays ==
  [][\A t \in Thread : mem_io_regions[t] # NoIo /\ mem_io_regions'[t] # NoIo =>
       \A p \in mem_io_regions[t] \ BeyondFile :
         /\ host[p] \in {"anon", "view"} => host'[p] = host[p]
         /\ p \in none' => p \in none]_vars

(***************************************************************************)
(* Launches and memory calls wait for each other (vm_hole.c:17, 57), and   *)
(* every call but I/O comes back, unless the process dies or a launch that *)
(* failed is still counted.  Calls are bounded: "many threads launching    *)
(* can starve VM operations" (vm_hole.c:24).                               *)
(***************************************************************************)
CallsReturn ==
  []<>(\/ fatal # "no" \/ leaked > 0
       \/ \A a \in Actor :
            pc[a] \in {"unborn", "untrusted", "transfer", "gone"})
=============================================================================
