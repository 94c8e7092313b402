# Verification of the Native Client runtime

TLA+ models of the concurrent core of Native Client: the untrusted pthread
library, and the parts of the trusted service runtime where several threads,
or the runtime and the renderer, act on shared state.  Paths below are relative
to the repository root; `SR` is `src/trusted/service_runtime` and `PT` is
`src/untrusted/pthread`.

## 1. The system

`sel_ldr` loads a validated program into a sandbox and runs its threads.  A
thread alternates between *untrusted* code (the program and the libraries linked
into it, pthreads among them) and *trusted* code (system calls).  Untrusted
synchronisation is built on two system calls, `futex_wait_abs` and
`futex_wake`.  The debug stub and, on Windows, the memory system calls stop all
untrusted threads through the thread suspension interface.  The renderer drives
the process by RPCs on a command channel and offers it services over a reverse
channel.

    untrusted   nc_once  nc_condvar  nc_semaphore  nc_thread  nc_tsd
                   \        |   \         |           /
                    nc_mutex     \        |      (mutex, condvar)
                          \       |      /
    ---- IRT ---------------  futex_wait_abs / futex_wake  ------------------
    trusted                     sys_futex.c
                nacl_app_thread.c -- thread_suspension.c -- debug stub
                sys_memory.c, sel_mem.c, vm_hole.c     nacl_text.c
                sel_ldr.c -- nacl_secure_service.c -- manifest proxy,
                     |             |     ^            ripple ledger service
    ---- SRPC ------ | ----------- | --- | -------------- | ----------------
    renderer     load, start,   reverse  |  connects     add_channel
                 shutdown       setup    |  back (reverse_service_c.c)

### Inventory

| component | state | operations | hard behaviour | correct when |
|---|---|---|---|---|
| futexes (`SR/sys_futex.c`) | list of waiting threads, per-thread address and condition variable | wait, wake | a timeout racing a wake, spurious wakeups, one list for all addresses | the list is a FIFO of those that can be woken; nwake and the reported count are right |
| mutexes (`PT/nc_mutex.c`) | state word 0/1/2, owner, recursion counter | lock, trylock, timedlock, unlock | lock-free word, unsynchronised owner check, the waiters mark, timeouts | exclusion; nobody sleeps on a mutex that will not be released to him |
| `pthread_once` (same file) | done, a fast mutex | once | double-checked flag | the routine runs once, and nobody returns earlier |
| condition variables (`PT/nc_condvar.c`) | sequence number | wait, timedwait, signal, broadcast | unlock, then sleep: a signal in between | no lost signal; the mutex is held on return |
| semaphores (`PT/nc_semaphore.c`) | count, nwaiters | wait, trywait, post | compare-and-swap loops on two words that are not read together | units are conserved; no sleeper while there are units |
| threads (`PT/nc_thread.c`) | running counter, queues of cached stacks and TLS blocks, data of each thread | create, exit, join, detach, wait for all | a stack reused while its thread still exits, failures in the middle of create, join and detach against exit | a block has one user and is never lost; the count is right; data lives until it is joined |
| thread-specific data (`PT/nc_tsd.c`) | per slot a destructor and a generation; per thread values | create, delete, set, get, exit | compare-and-swap on a reused slot, two reads of a slot that changes in between | old values are hidden; destructors get their own key's values |
| thread suspension (`SR/linux/thread_suspension.c`, `thread_suspension_common.c`) | suspend_state bits, saved registers, faulted count, thread table | suspend all, resume all, unblock faulted, the signal handlers | signals, host futex shared by two sleepers, re-suspension before the resumed handler ran | a suspended thread does not run; registers are the ones left there; suspension ends |
| dynamic code (`SR/nacl_text.c`) | array of regions, writable mapping, delete generations of the app and of threads | create, modify, delete | code is written under running threads; a deletion waits for check-ins while threads come and go; the mapping fails halfway | nobody runs code that was replaced under it; delayed deletions end |
| module startup (`SR/sel_ldr.c`, `sel_main.c`, `sel_ldr_standard.c`) | module_initialization_state, load status | load, start, shut down; the main thread's waits | callers wait for states that errors skip; the process may end before it has answered | every waiter is told |
| command channel (`SR/nacl_secure_service.c`, `src/trusted/simple_service`) | connections, their count, reverse channel state, queue of handlers | accept, four RPCs, reverse setup | setup in one thread against start in another; failures in its middle; hang-ups | the application starts with all of the channel or none; the process ends with its channels |
| manifest proxy, ripple ledger service | connections, each with a mutex and a reverse channel of its own | accept, forward a call, close | a connection that is closed before its reverse connection came | no dangling handler; every call is forwarded |
| reverse service (`src/trusted/reverse_service`) | (in the renderer) | connect back, add_channel | connections that fail | |
| memory calls (`SR/sys_memory.c`, `win/vm_hole.c`, `src/shared/platform/win/nacl_host_desc.c`) | vm_hole_may_exist, threads_launching, mem_io_regions, the host's pages | mmap, munmap, mprotect, launch of threads, I/O | Windows replaces pages in two steps; launches and holes wait for each other; I/O in flight | nothing gets into a hole; memory under I/O stays; calls return |
| address space map (`SR/sel_mem.c`) | entries with descriptor and offset | update, remove, change protection | entries are split, with the offset of each part | it agrees with what the host has |
| application threads (`SR/nacl_app_thread.c`) | thread table, mutexes | spawn, launch, tear down | a table read by the controllers | (in the modules of those controllers) |
| descriptors, IMC (`SR/sys_imc.c`, `src/trusted/desc`) | descriptor table, reference counts | open, close, dup, send, receive | close while in use | freed at the last reference only |
| debug stub protocol (`src/trusted/debug_stub`) | session, packets | GDB commands | (stop and resume: in the suspension model) | |
| SRPC, validators, ELF loader, platform layer, IRT, fault injection, non-SFI | | sequential or glue | | |

Every component with its status is in `PROJECT.json`, and so are the hazards,
each at its line with the property that covers it or the reason none does.

## 2. Modules

| module | models | how |
|---|---|---|
| `FutexQueue` | `SR/sys_futex.c` | the list and the waits, as operators that other modules use as steps |
| `Futex` | the same, as a system | threads that call wait and wake in any order, with faults and results; the refinement mapping to the contract |
| `FutexContract` | `src/untrusted/irt/irt.h` | what the interface promises: sets of waiters, a wake moves exactly min(nwake, waiters), what each call returns; one action, `ResumeLate`, is an exception to it |
| `NcMutex` | `PT/nc_mutex.c` | EXTENDS `FutexQueue`; each atomic operation on the state word is an action |
| `NcOnce` | `pthread_once` | EXTENDS `NcMutex` |
| `NcCond` | `PT/nc_condvar.c` | EXTENDS `NcMutex`; composed with a producer-consumer program |
| `NcSem` | `PT/nc_semaphore.c` | EXTENDS `FutexQueue` |
| `NcThread` | `PT/nc_thread.c` | sections of the management lock are actions |
| `NcTsd` | `PT/nc_tsd.c` | each access to a slot shared by threads is an action |
| `ThreadSuspension` | `SR/linux/thread_suspension.c` and its users | host threads with signal handlers on top, and the stub |
| `NaclText` | `SR/nacl_text.c` | bundle heads and tails written one by one, generations, the thread table |
| `SecureService` | `SR/sel_ldr.c`, `sel_main.c`, `nacl_secure_service.c`, `nacl_simple_service.c` | RPC threads, acceptor and main thread by their positions |
| `ReverseChannel` | the rest of `nacl_secure_service.c`, `manifest_proxy.c`, `ripple_ledger_service.c`, `nacl_simple_rservice.c`, `reverse_service_c.c` | EXTENDS `SecureService`: the composed system |
| `VmSpace` | `SR/sys_memory.c`, `sel_mem.c`, `win/vm_hole.c`, pages of `nacl_host_desc.c` | memory calls page by page against launches and I/O |
| `*Proofs` | | theorems about the module of that name; those of `NcSem`, `NcMutex`, `NcOnce` and `NcCond`, which rest on the futexes and on one another, are in `NcSyncProofs` |
| `MC*` | | the instances for TLC |

**Atomicity.**  A section of code under one mutex of the service runtime is one
action: `futex_wait_list_mu` in the futexes, `nap->mu` in the startup and
`server->mu` in the services, `__nc_thread_management_lock` in `NcThread`.
A mutex that is held across steps which others can see is a variable:
`threads_mu` in the suspension and the memory calls, `nap->mu` in `VmSpace`,
`dynamic_load_mutex` in `NaclText`.  Nothing is assumed atomic in the
library that the code does not make so: a read, a compare-and-swap, an atomic
add and a system call are separate steps.

**Futexes.**  A waiter is `"out"`, `"waiting"`, `"woken"` or `"timedout"`
(`cond`).  The list is not a sequence but the set `linked` with, for each thread,
the set `ahead` of those linked before it.  That is the same information and
lets the proofs go without induction on sequences.  `CondTimeout` may strike at any
time, also after a wake; `CondSpurious` is a return of the host's condition
variable with no cause.  Whatever ends the wait, `FutexWaitReturn` takes the
thread off the list if it is still there and returns; it never waits again.

**Mutex.**  `pc` is the position inside the library; `"mark"`, `"retake"` and
so on name the three compare-and-swaps of `mutex_lock_nonrecursive`.  `holds` is
the caller's view (how many locks it has not released) and is history.  The
assumption on callers is that of the interface: they release what they hold,
and do not lock a fast mutex twice.  With an error-checking mutex they may do
anything.  `mutex_type` is chosen in the initial state from the constant
`MutexType`, and never changes.

**Condition variable.**  While a thread is in `pthread_cond_wait` both counters
tell where it is: `cpc` in the wait, `pc` in the mutex it locks and unlocks.
`Relock` takes up the mutex's own actions.

**Threads.**  `tstate` follows a thread from `pthread_create` to the clearing of
`is_used` by the kernel (`ThreadExit`, `SR/nacl_syscall_common.c`), and
`basic_data` may outlive it.  The stack blocks have sizes, so that the cache can
hold blocks that do not fit.  What a program may name (`MayName`, `Claim`) is
every thread whose `pthread_t` is still valid: from the moment `pthread_create`
lets go of the lock, with the id stored and the thread not started yet
(`PT/nc_thread.c:375-378`, `418-420`), until a join of it begins or a detach has
succeeded.  A creation that fails after that is `"withdrawn"` while its caller
cleans up.

**Thread-specific data.**  A value is recorded by the key it was stored under
(slot and generation), which is all that the properties tell apart.

**Suspension.**  `host[t].pc` is the ordinary code, `host[t].handler` the signal
handler over it, `pending` the signal, and `waiters` the host futex of
`suspend_state`.  The controller is the debug stub: it suspends all threads,
takes one fault off, reads and changes registers, then continues all or steps
one.  Launch and exit of threads run against it.

**Dynamic code.**  A bundle is a head (its first word) and a tail, for the code
halts and enables a bundle by its head alone.  `at[t]` is the bundle a thread is
past the head of, and the layout that the head promised: what `NoStaleCode`
compares with the tail.  A jump to a halted bundle ends the program and has no
step.  The search of the region array is written twice, as the code's bisection
and scan (`Search`) and as its meaning (`FindClosestLEQ`), and `MCNaclText`
compares the two on every sorted array of up to seven regions.

**Startup and services.**  Each thread of the runtime is its position.  An RPC of
the renderer is a value of `rpc[c]`, and RPCs of one connection come one after
the other.  Every command connection may be hung up at any time; its thread
notices when it is back in its loop.  `reverse` and `module_initialization_state` have the code's numbers,
for the code compares them.  The manifest proxy and the ripple ledger service
differ in what they forward only; both are `mconn`.  The queue of handlers and
the reverse connections under way (`arrivals`) are sequences, because the code
matches the one with the other by order alone.  A `LOG_FATAL` or `CHECK` that
guards the protocol sets `process` to `"fatal"`, one that reports a resource that
has run out, or an add_channel call without an answer, to `"aborted"`.
A reverse connection that the renderer is to make may come, come and be closed at
once (its thread was not created) or not come; `unmade` counts the last two.

The order of the renderer's RPCs (`InOrder`) is that of `src/trusted/sel_universal`
(`sel_universal.cc:251-268`, `reverse_emulate.cc:131-178`): load_module, then
reverse_setup if it is used, then start_module.  Setup and start may still overlap,
because the setup goes on in a thread of its own after its reply.  With that order
the branches for a setup that comes too late (`SR/sel_ldr.c:1148`, `1183`) are not
reached in the model; a renderer that set up the reverse channel after
start_module could get half of it.  `ReverseInv` and `ServicesReady`
rest on this.

**Memory.**  A page is an allocation page of 64 KB.  `host[p]` is what Windows has
there: `"hole"` is the moment between release and replacement, `"stack"`
somebody else's memory.  `mem_map` is a set of entries with their file offsets.
`op` is the mmap or munmap under way, page by page.  Before it starts it looks for
I/O in flight, on the pages that the call is about; an mmap of a file looks only at
those that the file has (`CheckedPages`).  If the file has none, the code asks
for an interval that ends before it begins, of which two bytes are looked at
(`AtBoundary`).  Three histories, `leaked`, `mapFailed` and `protectFailed`,
remember the failures from which the code does not recover.

## 3. Runs

| run | instance | shows |
|---|---|---|
| `futex` | 3 threads, 2 addresses and an unreadable one, values {0,1}, nwake 0..2 | the queue is a FIFO of the sleepers and implements `FutexContract`, return values included |
| `once` | 3 callers | `pthread_once` |
| `mutex_cond` | 2 consumers, 1 producer, 2 calls each; each mutex type, lock and trylock, depth 2 | exclusion, the owner check, no lost signal, nobody stranded, sleepers are served |
| `sem` | 3 threads, SEM_VALUE_MAX 2 | conservation, waiters, service |
| `thread` | 2 threads and Main, 4 blocks, stack sizes {1,2}, cache of 1 | memory, counter, life of thread data, joins return, the program ends |
| `tsd` | 2 threads, 2 slots, generations up to 5, 3 creations, 2 passes | slots and destructors |
| `suspension` | 2 threads, 2 register states | stopping, registers, faults, the fatal checks; suspension ends and the resumed go on |
| `text` | 2 threads, 2 bundles on a page each, 2 layouts, 2 deletions | stale code, atomic regions, end of deletions |
| `secure_reverse` | 2 command connections, 4 RPCs, a connection to each service | startup, reverse setup, services, shutdown |
| `vm_space` | 2 running threads, 1 to come, 1 service thread, 3 pages, 3 calls | holes, the memory map, I/O, return of calls |
| `mutex_timedout` | 3 threads, fast, lock and timedlock, 1 call each | **finding 1** |
| `start_module` | as `secure_reverse`, 2 RPCs | **finding 2** |

Each passing run covers its whole state space: from 3,221 states (`once`) to
5.1 million (`tsd`).

**Bounds.**  `MaxCalls`, `MaxWaits`, `MaxPosts`, `MaxCreates` bound how often
operations are called and `MaxDepth` the nesting of a mutex; they appear in
guards and nowhere else.  `SeqMod` stands for the 2^32 at which a sequence
number wraps.  Three threads are what a mutex needs for a holder, a sleeper and
an intruder at a time, and two calls each are enough for every position to meet
every other.  The producer's two signals cannot wrap a sequence number of 4 (the
wrap itself is listed as a hazard).  `SEM_VALUE_MAX` of 2 and `UINT_MAX` of 5 put
the ends of the ranges within reach: a slot is used up in the `tsd` run.  A cache
of one block with two sizes makes each branch of the allocation loop happen.  Two
threads are what the suspension needs: one to be stepped, one to be held.

In `text` two generations let a region be deleted, its area given to another
layout and deleted again, with a thread that launches, checks in late or ends in
between; two bundles give every overlap of two ranges; a `ScanCutoff` of 1 makes
both the bisection and the scan run although there are few regions.  In `secure_reverse` four RPCs
on two connections are a load, a setup and two starts, or a shutdown; the two
services share the reverse client, and so their connections race.  In `vm_space`
three pages let an entry be cut at both ends, and three calls let a memory call
meet a launch and I/O.

The mutant of each property, a plausible mistake in the code, is caught within
the same bounds.

Symmetry is used in the runs without liveness (`futex`, `tsd`), on threads, which
the modules compare and never order.

**Deadlock** is checked in `suspension` and `text`, where something can always
happen.  The other programs end when their bounded calls are used up or the
process has ended.

**Fairness.**  Threads inside the library, the service runtime or a signal handler are
scheduled (weak fairness of their next step), a holder of a mutex releases it,
and the routine of `pthread_once` returns.  None is assumed of timeouts, of
spurious wakeups, of new calls, or of who wins a race for a mutex.  In `suspension`
the debugger is not assumed to do anything but to continue what it has stopped.
In `text` a thread comes out of the dynamic code it runs, and somebody repeats a
delete that was answered EAGAIN, as `nacl_dyncode.h` tells it to (strong
fairness, because the mutex comes and goes); that threads check in is the
antecedent of `DeletionEnds`.  In `secure_reverse` the renderer connects back once
it was given the address, or fails to, and an `add_channel` call comes to an end; it
need not call, nor hang up.  In `vm_space` I/O need not end.

**Exceptions.**  Some properties name what the code does not answer for; section 4
tells of each.

| property | except |
|---|---|
| `ImplementsContract` | the contract itself has `ResumeLate`: a thread that was woken returns ETIMEDOUT |
| `DataIsLive` | a join that waits for a thread that could then not be started |
| `DataNotLost` (in `ThreadInv`) | a thread that was detached while it was exiting |
| `StartReturns` | a call that waits for a failed load (finding 2), or for a setup that gave up or whose reverse connection the renderer failed to make |
| `ProcessEnds` | a StartModule that never returns for one of these reasons, an acceptor that has stopped |
| `CallIsForwarded` | as many connections as the renderer has failed to make reverse connections, and no more |
| `CallsReturn` | a launch that failed and is still counted |
| `HoleIsQuiet` | after a `MapViewOfFileEx` has failed |
| `MapIsTrusted` | after a `MapViewOfFileEx` or the `VirtualProtect` of a view has failed, or with an offset that mprotect got wrong |
| `IoMemoryStays` | pages of an mmap beyond the end of its file |

## 4. Findings

Two are runs that TLC ends with a counterexample.

1. `futex_wait_abs` may return ETIMEDOUT to a thread that a `futex_wake` has
   unlinked and counted (`SR/sys_futex.c:99-114`), where `irt.h:249-250` says that
   it returns 0.  `FutexContract` has this as an exception (`ResumeLate`), and
   without that action the refinement fails.  A timed mutex lock then swallows the wake
   (`PT/nc_mutex.c:116-119`): another waiter sleeps on an unlocked mutex until
   somebody else contends for it.  `mutex_cond` has no timed locks for this
   reason; the theorem on exclusion does.
2. `NaClAppStartModule` waits for `NACL_MODULE_LOADED` (`SR/sel_ldr.c:1214`).  If
   the load it waits for fails, the state becomes `NACL_MODULE_ERROR` and the call
   is never answered.  Its RPC thread never ends, so that closing the command
   channel does not end the process either (the exception of `ProcessEnds`).

Others came up while modelling; the models contain them, and no run is spent on
them.

- `pthread_exit` reads `joinable` without the lock (`PT/nc_thread.c:505`); a
  `pthread_detach` in between succeeds, and the thread's data is never freed.
- A thread may be joined as soon as `pthread_create` has let go of the lock.  If it
  then cannot be started, the cleanup frees its data under the join, which never
  returns (`PT/nc_thread.c:446-462`).
- `pthread_key_delete` clears the destructor after it has freed the slot
  (`PT/nc_tsd.c:67-76`).  If another thread creates a key in that slot in between,
  its destructor is erased and its values are left when a thread ends.  Hence
  `RightDestructor` says which values a destructor gets, and not that all values are
  destroyed.
- `NaClSysThreadCreate` does not undo `++threads_launching` when the thread is not
  created (`SR/nacl_syscall_common.c:272-282`; compare
  `sel_ldr_thread_interface.c:93-97`): later memory calls wait for ever.
- When `MapViewOfFileEx` fails, `NaClHostDescMap` leaves the pages as holes and
  the memory map as it was (`src/shared/platform/win/nacl_host_desc.c:836-850`).
- When `VirtualProtect` fails on a view it has just made, `NaClHostDescMap` leaves
  the views and mmap returns the error (`nacl_host_desc.c:852-862`).  The memory map
  keeps the old entries, and a later call that believes them is fatal.
- An mmap of a file looks for I/O in flight on the part of its range that the file
  covers (`SR/sys_memory.c:474`, `590-592`) and unmaps the rest without looking
  (`884-891`).  With no page in the file the interval ends before it begins, and
  only the byte at the start of the range and the one before it are looked at
  (`nacl_interval_range_tree.c:731-755`).
- `NaClVmmapChangeProt` adds a number of pages to an offset in bytes
  (`SR/sel_mem.c:513`, `526`).  A later munmap may take the page of a file for
  anonymous memory, which is fatal.
- A read or write of no bytes registers the interval from `buf` to `buf - 1`
  (`SR/sys_fdio.c:237-239`), which `src/trusted/interval_multiset` calls illegal; an
  mmap elsewhere may then abort the process for a race that is not there.
- A `NaClSecureServiceReverseSetupRpc` that has no memory or no thread leaves the
  state at INITIALIZATING (`SR/nacl_secure_service.c:394-412`), and StartModule
  waits for ever (470).
- The same happens when the renderer fails to connect back after the setup
  (`reverse_service_c.c:571-576`, `nacl_simple_rservice.c:206-212`): sel_universal
  ignores the failure and calls StartModule, which waits for a reverse thread that
  waits for a connection.
- A command connection that is hung up while its thread sleeps in StartModule is not
  noticed, so that `conn_count` does not fall (`SR/nacl_secure_service.c:176-185`).
- The reverse client gives reverse connections to handlers by order alone: one
  that the renderer fails to make shifts all later ones, and the status of
  `add_channel` is not looked at.  Hence `CallIsForwarded` counts the connections
  that go without, and does not say which they are.
- `NaClSimpleServiceAcceptAndSpawnHandler` does not undo the connection count when
  the thread is not created, and the process outlives its channels.
- `NaClAppLaunchServiceThreads` leaves by `done` with `nap->mu` held when it has no
  memory for a runtime host (`SR/sel_ldr_standard.c:496`) and locks it again.
- A dynamic region whose mapping failed stays (`SR/nacl_text.c:705-708`): its range
  is refused until it is deleted.

## 5. Proofs

| theorem | says | rests on |
|---|---|---|
| `FutexCorrect` | `FutexInv`, `SleeperIsLinked`: the wait list is a queue of the sleepers | `FutexInv` itself, which TLC checks too |
| `FutexIsFifo` | `WakeIsFifo`, an action property | the same |
| `FutexRefines` | `ImplementsContract`: `sys_futex.c` keeps the promises of `irt.h`, whom a wake frees and what each call returns, except for `ResumeLate` | the same |
| `MutexCorrect` | `MutualExclusion`, `OwnerReadIsSafe` | `MutexInv` |
| `OwnersCorrect` | `OwnersAreRight`: no thread takes itself for the owner, or another | `MutexQueueInv` |
| `NobodyIsStranded` | `NoStrandedWaiter`, without timed locks | `WaiterInv` |
| `OnceRunsOnce` | `AtMostOneInit` | `OnceInv` over `MutexInv` |
| `OnceWaitsForInit` | `NobodyReturnsEarly` | the same |
| `CondKeepsMutexCorrect` | `MutualExclusion`, `OwnersAreRight` in a program that waits and signals | `CondInv` over `MutexQueueInv` |
| `CondStrandsNobody` | `NoStrandedWaiter` there, without timed locks | the same and `WaiterInv` |
| `NoSignalIsLost` | `NoLostSignal`, if no sequence number comes back | `Signalled` |
| `FewSignalsAreNotLost` | `NoLostSignal`, if the calls are fewer than the sequence numbers | `Signalled` and `SignalsCounted` |
| `SemAccountsForUnits` | `SemInv`: no unit lost or made, waiters counted | `SemIInv` |
| `SemStrandsNoUnit` | `NoStrandedUnit`: no sleeper is left with units to take | `SemIInv` |
| `ThreadCorrect` | `ThreadInv`: memory, its queues, the count of threads, the two signals of an ending thread, and no data kept for nobody | `ThreadIInv` |
| `JoinFindsData` | `DataIsLive`: no join or detach finds freed data, with the exception above | `ThreadIInv` |
| `TsdCorrect` | `TsdInv`: no generation wraps, no key has two owners | `TsdIInv` |
| `TsdHidesStale` | `StaleIsHidden`: no value of an earlier key of the slot | `TsdIInv` |
| `TsdDestroysOwn` | `RightDestructor`, an action property | `TsdIInv` |
| `RunsNoStaleCode` | `NoStaleCode` | `TextIInv` |
| `TextCorrect` | `NaclTextInv`: regions apart, whole or absent, no fatal check | `TextIInv` |
| `SuspensionCorrect` | `SuspensionInv`: no fatal check, faults counted | `SuspendIInv` |
| `SuspensionStops` | `StoppedWhileHeld`: no thread runs while all are held | `SuspendIInv` |
| `RegistersSurvive` | `RegistersAsLeft`, an action property | `SuspendIInv` |
| `ReverseCorrect` | `ReverseInv`: no fatal check, no handler of a freed connection | `ReverseIInv` |
| `ServicesAreReady` | `ServicesReady`: all of the reverse channel or none, if it is set up before the start | `ReverseIInv` |
| `AnswerPrecedesExit` | `NoAnswerLost` | `ReverseIInv` |
| `HolesAreQuiet` | `HoleIsQuiet`, `LocksAreRight` | `HoleInv` |
| `MapCanBeTrusted` | `MapIsTrusted` | `VmIInv` |
| `VmSpaceCorrect` | `VmInv`: types, locks, map entries apart | `VmIInv` |
| `IoKeepsItsMemory` | `IoMemoryStays`, an action property | `VmIInv` |

They hold for all values of the constants that meet the modules' assumptions:
any sets of threads, keys, addresses and pages, any bounds.  The only
hypotheses beyond those assumptions are no timed locks (`NobodyIsStranded`,
`CondStrandsNobody`) and no wrap (`NoSignalIsLost`, `FewSignalsAreNotLost`);
the run `mutex_cond` meets all of these.  TLC checked each inductive invariant on
the instances of section 3 before it was proved.
Three assumptions carry an argument: the sets of threads and of memory blocks are
finite (the counts of `futex_wake`, of launches and of running threads, the
lengths of the queues of blocks), the dynamic text area consists of whole pages
(`SR/nacl_text.c:69`, `80-86`), and a pointer into a mapping counts more bytes
to a page than the address space has pages (`MapBytes > NumPages`).

**Futexes.**  `FutexProofs` proves once what each operator of the wait queue does to
`QueueInv`, and then uses that for each system call, as do the
proofs of the mutex and the semaphore.  FIFO order needs the invariant because
`ahead` has to be a strict order, total on each address.  For the refinement a
wake has to free *min(nwake, waiters)* waiters: the threads to wake are those
with fewer than nwake waiters ahead of them, and on a finite, totally ordered
set the number of waiters ahead is a bijection onto 0, ..., n - 1.
For the return values `FutexInv` has that a thread's abstime is that of the wait it
is in (`AbstimeIsTheWaits`), so that ETIMEDOUT maps to a wait that had one.

**Mutex.**  Exclusion is not inductive by itself: the thread between the decrement of
an unlock and its store still keeps others out, and only by the state word.
`MutexInv` adds that the word says locked exactly while somebody is in the lock
(`WordSaysLocked`), that a holder is not inside the library on another way
(`HolderHasLeft`), and that the recursion counter is the number of locks the
owner holds (`CountIsHolds`).  None of this depends on the futexes.
`NoStrandedWaiter` does: `MutexQueueInv` adds the queue and that who is on it is
asleep in the mutex.  The delicate step is a wake: it takes one thread off the
list, and that thread is the one who will look after the others, for it will set
the waiters mark again.  It does so only if it is not told ETIMEDOUT, hence the
hypothesis that `LockKind` has no timed lock; with one, the run `mutex_timedout`
shows the theorem to be false (finding 1).

**`pthread_once`** is proved over the mutex: `OnceStepsMutex` shows that each of its
steps is a step of `NcMutex` or none, so `MutexInv` holds.  `OnceInv` adds
that whoever is past the second check holds the lock (`InsideHolds`), and the
relation between `done` and the number of times the routine has returned, in
three phases (`Phase`).  Two threads past the check would both hold the lock.

**Condition variable.**  The steps of the condition variable leave the mutex alone but
for the lock at the end of a wait (`Outside`), so the lemmas of the mutex apply
to the program as a whole.  `CondInv` adds where the threads on the shared wait
list are: in the mutex, or asleep on the sequence number with the mutex given
back (`WaitersAreOutside`).  `NoLostSignal` is not inductive, in two ways.  A
consumer that left `futex_wait_abs` by itself but is still linked may be chosen
by the next wake, which then wakes no sleeper; so `Served` counts it only once
it is off the list, and the wake of a linked one makes it count.  And a signal
past its increment does nothing for a consumer that read the new value and is
about to sleep; so while there is one (`Fresh`) only the signals whose increment
is still to come count, and the increment leaves no such consumer.  It does that
unless it brings the number back to what a waiter has read, the hazard of
`nc_condvar.c:61`: `SeqIsNew` says that no step does, and is the hypothesis of
`NoSignalIsLost`.  `FewSignalsAreNotLost` replaces it by a condition on the
constants.  `Potential` counts the signals a producer can still send; it never
grows and every increment uses up one, so that the number and what is left add
up to less than `SeqMod` (`SeqIsBounded`).

**Semaphore.**  The conservation of units is inductive with the range of what was
read before each compare-and-swap (`ReadWasInRange`).  `NoStrandedUnit` says that a
sleeper who could have a unit has a helper; a helper has to be a thread that
is *off* the queue, for one that was woken and is still linked could be
counted by the next wake as well.  A timed wait does not exist here, so that no
wake is lost as it is in the mutex.

**Threads.**  `ThreadIInv` has a part for the heap and one for who is about which
thread.  `BlocksInv` gives each block one place: with malloc, in one queue once,
or with one thread that has not put it in a queue yet.  The last point is the
delicate one, for `pthread_exit` puts the stack in its queue while it still runs on
it: such a thread holds the stack (`HeldInv`) and no longer owns it (`Owns`), and
what keeps others from it is only that it is marked as used, which the
reuse of the first block and the freeing of surplus ones both look at.  `CreateHeap`
says once what any outcome of an allocation does, with how many surplus blocks
freed and whichever of the two blocks obtained, and `GivesBack` what the three ways of
giving blocks back do; the other steps are `Quiet`.  For `DataIsLive`, `JoiningInv`
says that a thread that is joined has one joiner, which has claimed it, and that as long as
its tdb is there it is joinable with `join_waiting` set; `DataInv` that whoever
nobody has detached is joinable until its last critical section, and that
`pthread_exit`, which reads `joinable` before its handlers run, may have
read TRUE for a thread detached since but never FALSE for one that can be joined.  The
cleanup of a failed `pthread_create` frees the data of a thread that another may
already be joining: `DataIsLive` excepts that joiner and nobody else.
`DataNotLost`, that what nobody can free any more has been freed, needs the `late`
mark on a detach that comes between `pthread_exit`'s two looks at the thread.
`NoBlockLost` and `CounterIsRight` speak of cardinalities; the queues are
injections into a finite set of blocks.  `NoWakeLost` is the safety half of
`JoinReturns` and `MainEnds`.  A thread counts itself out in one critical section
and signals in a later one, so Main may find the counter at 1 or still wait with
nobody to count; the last of the threads that have counted themselves out signals it.  A
`pthread_create` that fails lowers the counter without a signal: its caller is
itself counted, so that the counter does not come down to 1 by it.

**Thread-specific data.**  No lock is taken.  The generation of a slot only grows and
is odd while the slot is in use; a value's generation is never ahead of its slot's;
so a value that is visible, its generation being the slot's, was stored under the
present key.  `RightDestructor` concerns two reads: the destructor first, the
generation after.  If the generation still matches the value at the second read,
it was the same at the first, and the destructor that was read is that key's or
none.

**Dynamic code.**  `TextIInv` has a part for each datum: the array is sorted and its
regions apart (`RegionsInv`), generations lag behind the one of the deletions
(`GenerationsInv`), a bundle that can be entered is complete and in a live region
(`MemoryInv`), and the call that holds the mutex has its region in the state its
position says (`CallInv`).  The core is `RunningInv`: a thread that runs in a region
which is marked for deletion has a generation below the region's.  The scan takes
the smallest generation of the thread table, so when it lets a deletion end
nobody is inside.  Threads that start during the scan are not inside either.
A fresh page may be mapped over a region's neighbours only because a region
made by mmap owns whole pages.

**Suspension.**  A thread's `suspend_state` is written by the controller, by the thread's
switches and by its signal handler, whose `|= SUSPENDED` is a read and a write.
`SuspendIInv` says of each thread what its bits have to be.  `Asked` is the set
of threads the controller has set SUSPENDING of and not cleared, from its
position in its loops; `StateInv` says that the bits are UNTRUSTED or TRUSTED by
where the thread is, SUSPENDING exactly if it is asked, and SUSPENDED only in a
handler that waits.  An asked thread in untrusted code that is not awaited any
more is suspended, which is `StoppedWhileHeld`.  `SignalInv` says that only the
thread that the controller has signalled and is awaiting can have the signal
pending or be in the handler before it answers: the controller signals one
thread at a time, so that the write of the handler loses no bit.  For the
registers, `RegistersInv` says that the fresh memory of a first suspension is
filled before it is read, and `ContextInv` that what the handler will apply is
what the stub showed or was told to write.  It holds of a handler that has been
resumed and has not run yet, and it has to exclude that the stub writes the
registers of such a thread: the thread would have to be asked again, and an asked
thread in untrusted code is suspended first.

**Startup and the reverse channel.**  `ReverseIInv` ties the positions of the threads to
the two state variables.  The module's state is LOADING or STARTING exactly while
one thread is at it (`ModuleInv`), so the main thread, which waits for STARTED,
cannot leave before the reply.  `StartInv` has the order that the services
depend on: once StartModule is called no reverse setup is, and a start under way
has seen none unfinished.  Hence the setup thread finds the module not yet
starting when it installs the host and the quota interface, whose setters
ignore a module that has started (`SetupInv`).  That the
reverse thread always finds a handler is a count: the reverse connections that
have come, are promised to the renderer or are being asked for with the server's
mutex held are at most the handlers in the queue (`Pledged`).  That a handler is never
used twice, nor after its connection is freed, needs only that a queued
connection has no channel yet (`HandlersInv`), for the destructor waits for one.
`conn_count` may exceed the connections that are open, by those whose thread was
not created, and is never below (`ConnectionsInv`).

**Memory calls.**  `HoleInv` adds to the locks and the counter (`LocksAreRight`) that a
page is a hole only between the two steps of the call that replaces it
(`HoleIsHere`), that every thread with untrusted code to run is in the thread table
(`TableIsRight`), and that all of the table is suspended while `threads_mu` is held
(`AllSuspended`).  Whoever has a hole open holds both locks, so
`threads_launching` is 0; it counts the threads that are being launched, a
finite set, so there is none.

`VmIInv` relates the memory map to the host.  The host changes page by page; a
munmap takes its pages off the map one by one, an mmap adds its entry at the end,
and mprotect may leave an entry with a wrong offset, which later calls cut into
pieces.  `HostMatches` says: unless a `MapViewOfFileEx` or a `VirtualProtect` of a view
has failed, an entry whose
offset is a whole number of pages tells what the host has, at each page the call
under way has not replaced yet.  For that a wrong offset must never become right again by cutting:
`EntryOK` has the invariant for it, that remainder and quotient of an entry's
offset are together at most its page number, so that adding pages for bytes
never carries into a whole page.  `IoIsApart` says that from the check of a
memory call to its end no I/O is in flight on the pages it has checked; new I/O
waits for the mutex.

**Only model-checked.**  All liveness properties: fairness and ENABLED are beyond the
prover.
Induction over data is beyond the prover too; the one result that needs it, that
the bisection `Search` of the region array finds what its specification says, is
an `ASSUME` of `MCNaclText` that TLC evaluates.  The proofs about the array use
that specification.

## 6. Plan

1. Done: the pthread library over the futexes; suspension; dynamic code; startup
   with the reverse channel and its services; memory calls.
2. Done: the proofs of section 5: every safety property that a passing run checks.
3. Then: descriptors and their reference counts under close, and the exit of the
   application (`NaClWaitForMainThreadToExit` against system calls in flight).

## 7. Not modelled

Memory ordering weaker than sequential consistency (the code's atomics are full
barriers; plain accesses to shared words are listed as hazards where they
matter).  Contents of registers beyond which state they are.  Names,
priorities and attributes of threads, the formats of messages and files, and
the other components marked `not_modelled` in `PROJECT.json`, with reasons; the
generated instruction decoders and validators, most of the repository's lines,
are tables and sequential functions for which a model would be a copy.
`pthread_mutex_destroy`, `sem_destroy` and `sem_getvalue`, which change
no shared state.  In `NaclText`, what validation accepts, and a modify of a
region that has no pages yet (it faults).  In the services, the contents of
calls, reference counts (a `NaClDescUnref` of a descriptor that was never set, when
a forwarded call fails, `manifest_proxy.c:138`, is among them) and the log RPC.  In
`NcCond`, the check of the owner when a wait locks its mutex again, for its caller
does not own it.  In
`VmSpace`, brk, mmap without a fixed address, protections other than PROT_NONE,
shared memory, and the POSIX build, where `vm_hole.c` is empty because pages are
replaced in one step.
