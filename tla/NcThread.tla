------------------------------ MODULE NcThread ------------------------------
(***************************************************************************)
(* Thread creation, exit, join and detach of untrusted/pthread/nc_thread.c *)
(* with the queues of memory blocks that stacks and TLS areas come from.   *)
(*                                                                         *)
(* The code between a lock and an unlock of __nc_thread_management_lock    *)
(* is one action: NcMutex shows that such sections exclude each other.     *)
(* pthread_cond_wait on it is a state of its own, left by a signal or      *)
(* spuriously.  What a thread does with no lock held (the system calls     *)
(* that start and end a thread, the destructors that pthread_exit runs)    *)
(* can be overtaken by anything.                                           *)
(***************************************************************************)
EXTENDS Naturals, FiniteSets, Sequences

CONSTANTS
  Thread,      \* the threads that may exist at a time besides Main
  Main,        \* the initial thread
  Block,       \* pieces of memory that malloc may return
  malloc(_),   \* which of the free ones it does
  NoThread, NoBlock,
  Size,        \* stack sizes that pthread_attr_setstacksize may have set
  TlsSize,     \* __nacl_tls_combined_size(TDB_SIZE)
  kMaxCachedMemoryBlocks

ASSUME ThreadAssumption ==
  /\ Main \notin Thread
  /\ NoThread \notin Thread \cup {Main}
  /\ NoBlock \notin Block
  /\ IsFiniteSet(Thread) /\ IsFiniteSet(Block)
  /\ \A free \in (SUBSET Block) \ {{}} : malloc(free) \in free
  /\ Size \subseteq Nat \ {0}
  /\ TlsSize \in Nat \ {0}
  /\ kMaxCachedMemoryBlocks \in Nat

Actor == Thread \cup {Main}
MemoryType == {"tls", "stack"}

VARIABLES
  (* the heap and the two queues of cached blocks *)
  allocated,      \* blocks that malloc has given out
  queue,          \* __nc_thread_memory_blocks
  is_used,        \* the is_used field of each block
  size,           \* and its size
  (* one nc_thread_descriptor_t and nc_basic_thread_data_t per thread *)
  tstate,         \* how far each thread is
  node,           \* tls_node and stack_node
  stackSize,      \* the stack size that was asked for
  joinable,
  join_waiting,
  exitJoinable,   \* the local "joinable" of pthread_exit
  basic_data,     \* whether basic_data has been allocated, or freed again
  status,         \* basic_data->status = THREAD_TERMINATED
  tdb,            \* basic_data->tdb # NULL
  (* what each running thread is in the middle of *)
  creating,       \* the thread that a pthread_create is about
  joining,        \* the thread that a pthread_join waits for
  woken,          \* its pthread_cond_wait is about to return
  claimed,        \* history: a join was begun, or a detach succeeded ("late"
                  \* if pthread_exit had already read the joinable flag)
  __nc_running_threads_counter

heapVars == <<allocated, queue, is_used, size>>
dataVars == <<node, stackSize, joinable, join_waiting, exitJoinable,
              basic_data, status, tdb, claimed>>
callVars == <<creating, joining, woken>>
vars == <<heapVars, dataVars, callVars, tstate, __nc_running_threads_counter>>

(***************************************************************************)
(* "none": not created.  "starting": pthread_create has let go of the lock *)
(* and calls irt_thread.thread_create.  "notstarted": that call failed.    *)
(* "withdrawn": nor is the thread counted any more.  "failed": there was   *)
(* no memory for it.  "exiting": pthread_exit has read the tdb.            *)
(* "uncounted": it no longer counts as running.  "released": it has let go *)
(* of the lock for the last time.  "waiting": of Main, in                  *)
(* wait_for_threads.  "gone": the thread, or the program, has ended.       *)
(***************************************************************************)
ThreadState == {"none", "starting", "notstarted", "withdrawn", "failed",
                "running", "exiting", "uncounted", "released", "waiting",
                "gone"}

(* The variables keep their types; the count of running threads stays      *)
(* between the initial thread and all of them.                             *)
ThreadTypeOK ==
  /\ allocated \in SUBSET Block
  /\ queue \in [MemoryType -> Seq(Block)]
  /\ is_used \in [Block -> BOOLEAN]
  /\ size \in [Block -> Nat]
  /\ tstate \in [Actor -> ThreadState]
  /\ node \in [Thread -> [MemoryType -> Block \cup {NoBlock}]]
  /\ stackSize \in [Thread -> Nat]
  /\ joinable \in [Thread -> BOOLEAN]
  /\ join_waiting \in [Thread -> BOOLEAN]
  /\ exitJoinable \in [Thread -> BOOLEAN]
  /\ basic_data \in [Thread -> {"none", "live", "freed"}]
  /\ status \in [Thread -> BOOLEAN]
  /\ tdb \in [Thread -> BOOLEAN]
  /\ creating \in [Actor -> Thread \cup {NoThread}]
  /\ joining \in [Actor -> Thread \cup {NoThread}]
  /\ woken \in [Actor -> BOOLEAN]
  /\ claimed \in [Thread -> {"no", "join", "detach", "late"}]
  /\ __nc_running_threads_counter \in 1..(1 + Cardinality(Thread))

(* __nc_initialize_globals, in a program that is about to call main. *)
ThreadInit ==
  /\ allocated = {}
  /\ queue = [k \in MemoryType |-> <<>>]
  /\ is_used = [b \in Block |-> FALSE]
  /\ size = [b \in Block |-> 0]
  /\ tstate = [a \in Actor |-> IF a = Main THEN "running" ELSE "none"]
  /\ node = [t \in Thread |-> [k \in MemoryType |-> NoBlock]]
  /\ stackSize = [t \in Thread |-> 0]
  /\ joinable = [t \in Thread |-> FALSE]
  /\ join_waiting = [t \in Thread |-> FALSE]
  /\ exitJoinable = [t \in Thread |-> FALSE]
  /\ basic_data = [t \in Thread |-> "none"]
  /\ status = [t \in Thread |-> FALSE]
  /\ tdb = [t \in Thread |-> FALSE]
  /\ creating = [a \in Actor |-> NoThread]
  /\ joining = [a \in Actor |-> NoThread]
  /\ woken = [a \in Actor |-> FALSE]
  /\ claimed = [t \in Thread |-> "no"]
  /\ __nc_running_threads_counter = 1

IsJoined(t) == \E a \in Actor : joining[a] = t

(* t stands for no thread, or for one that nothing is left of. *)
Unborn(t) ==
  /\ tstate[t] \in {"none", "gone"}
  /\ basic_data[t] # "live"
  /\ ~IsJoined(t)

(* a runs the program's own code. *)
Idle(a) == tstate[a] = "running" /\ creating[a] = NoThread /\ joining[a] = NoThread

-----------------------------------------------------------------------------
(* The memory blocks: nc_allocate_memory_block_mu and nc_free_..._mu.      *)

(***************************************************************************)
(* How many blocks the "too many blocks" loop frees: from the front, down  *)
(* to the number of blocks to cache, stopping at one that is in use.       *)
(***************************************************************************)
Surplus(q) ==
  CHOOSE n \in 0..Len(q) :
    /\ \A i \in 1..n : ~is_used[q[i]] /\ Len(q) - i >= kMaxCachedMemoryBlocks
    /\ \/ n = Len(q) \/ is_used[q[n + 1]]
       \/ Len(q) - n <= kMaxCachedMemoryBlocks

(* The cached block in front can be used again for a request of this size. *)
Reusable(q, required) ==
  q # <<>> /\ ~is_used[Head(q)] /\ size[Head(q)] >= required

(***************************************************************************)
(* The outcomes of nc_allocate_memory_block_mu on a queue, given what      *)
(* malloc has given out: only the first block is ever used again, and      *)
(* malloc may fail.                                                        *)
(***************************************************************************)
Allocations(q, given, required) ==
  IF Reusable(q, required)
  THEN {[block |-> Head(q), size |-> size[Head(q)],
         queue |-> Tail(q), allocated |-> given]}
  ELSE LET n == Surplus(q)
           left == given \ {q[i] : i \in 1..n}
           free == Block \ left
       IN  {[block |-> b, size |-> required,
             queue |-> SubSeq(q, n + 1, Len(q)),
             allocated |-> left \cup ({b} \ {NoBlock})] :
              b \in {NoBlock} \cup {malloc(f) : f \in {free} \ {{}}}}

-----------------------------------------------------------------------------
(* pthread_create *)

SetNodes(t, tls, stack) ==
  node' = [node EXCEPT ![t] = [k \in MemoryType |->
                                 IF k = "tls" THEN tls ELSE stack]]

(* An allocation failed: nothing has been counted. *)
CreateFails(c, t) ==
  /\ tstate' = [tstate EXCEPT ![t] = "failed"]
  /\ creating' = [creating EXCEPT ![c] = t]
  /\ UNCHANGED <<stackSize, joinable, join_waiting, exitJoinable, status,
                 claimed, joining, woken, __nc_running_threads_counter>>

(* ... of the TLS block. *)
CreateNoTls(c, t) ==
  \E x \in Allocations(queue["tls"], allocated, TlsSize) :
    /\ x.block = NoBlock
    /\ allocated' = x.allocated
    /\ queue' = [queue EXCEPT !["tls"] = x.queue]
    /\ CreateFails(c, t)
    /\ UNCHANGED <<is_used, size, node, basic_data, tdb>>

(* ... of basic_data, or of the stack after that. *)
CreateNoMemory(c, t, stacksize) ==
  \E x \in Allocations(queue["tls"], allocated, TlsSize) :
    /\ x.block # NoBlock
    /\ is_used' = [is_used EXCEPT ![x.block] = TRUE]
    /\ size' = [size EXCEPT ![x.block] = x.size]
    /\ SetNodes(t, x.block, NoBlock)
    /\ \/ /\ allocated' = x.allocated
          /\ queue' = [queue EXCEPT !["tls"] = x.queue]
          /\ UNCHANGED <<basic_data, tdb>>
       \/ \E y \in Allocations(queue["stack"], x.allocated, stacksize) :
            /\ y.block = NoBlock
            /\ allocated' = y.allocated
            /\ queue' = [queue EXCEPT !["tls"] = x.queue,
                                     !["stack"] = y.queue]
            /\ basic_data' = [basic_data EXCEPT ![t] = "live"]
            /\ tdb' = [tdb EXCEPT ![t] = TRUE]
    /\ CreateFails(c, t)

(* Everything could be allocated: count the thread before it is started. *)
CreateSucceeds(c, t, stacksize, detached) ==
  /\ \E x \in Allocations(queue["tls"], allocated, TlsSize) :
     \E y \in Allocations(queue["stack"], x.allocated, stacksize) :
       /\ x.block # NoBlock /\ y.block # NoBlock
       /\ allocated' = y.allocated
       /\ queue' = [k \in MemoryType |-> IF k = "tls" THEN x.queue ELSE y.queue]
       /\ is_used' = [is_used EXCEPT ![x.block] = TRUE, ![y.block] = TRUE]
       /\ size' = [size EXCEPT ![x.block] = x.size, ![y.block] = y.size]
       /\ SetNodes(t, x.block, y.block)
  /\ stackSize' = [stackSize EXCEPT ![t] = stacksize]
  /\ joinable' = [joinable EXCEPT ![t] = ~detached]
  /\ join_waiting' = [join_waiting EXCEPT ![t] = FALSE]
  /\ status' = [status EXCEPT ![t] = FALSE]
  /\ claimed' = [claimed EXCEPT ![t] = IF detached THEN "detach" ELSE "no"]
  /\ basic_data' = [basic_data EXCEPT ![t] = "live"]
  /\ tdb' = [tdb EXCEPT ![t] = TRUE]
  /\ tstate' = [tstate EXCEPT ![t] = "starting"]
  /\ creating' = [creating EXCEPT ![c] = t]
  /\ __nc_running_threads_counter' = __nc_running_threads_counter + 1
  /\ UNCHANGED <<exitJoinable, joining, woken>>

(* The first critical section of pthread_create. *)
Create(c, t) ==
  /\ Idle(c)
  /\ Unborn(t)
  /\ \/ CreateNoTls(c, t)
     \/ \E stacksize \in Size :
          \/ CreateNoMemory(c, t, stacksize)
          \/ \E detached \in BOOLEAN : CreateSucceeds(c, t, stacksize, detached)

(* irt_thread.thread_create: the new thread runs, or there is none. *)
CreateStart(c) ==
  LET t == creating[c]
  IN  /\ t # NoThread /\ tstate[t] = "starting"
      /\ \/ /\ tstate' = [tstate EXCEPT ![t] = "running"]
            /\ creating' = [creating EXCEPT ![c] = NoThread]
         \/ /\ tstate' = [tstate EXCEPT ![t] = "notstarted"]
            /\ UNCHANGED creating
      /\ UNCHANGED <<heapVars, dataVars, joining, woken,
                     __nc_running_threads_counter>>

CreateUncount(c) ==
  LET t == creating[c]
  IN  /\ t # NoThread /\ tstate[t] = "notstarted"
      /\ tstate' = [tstate EXCEPT ![t] = "withdrawn"]
      /\ __nc_running_threads_counter' = __nc_running_threads_counter - 1
      /\ UNCHANGED <<heapVars, dataVars, callVars>>

(* Bug: only the TLS block is given back. *)
Kept_TlsOnly(t) == {k \in {"tls"} : node[t][k] # NoBlock}

(* The blocks that a failed pthread_create has got. *)
Kept(t) == {k \in MemoryType : node[t][k] # NoBlock}

(* The tdb goes with the TLS block: its fields are reset. *)
Reset(t) ==
  /\ stackSize' = [stackSize EXCEPT ![t] = 0]
  /\ joinable' = [joinable EXCEPT ![t] = FALSE]
  /\ join_waiting' = [join_waiting EXCEPT ![t] = FALSE]

(***************************************************************************)
(* nc_release_tls_node, nc_release_basic_data_mu and                       *)
(* nc_free_memory_block_mu.  Whoever has begun to join the thread while    *)
(* it was being started sleeps on in the memory that is freed here.        *)
(***************************************************************************)
CreateCleanup(c) ==
  LET t == creating[c]
      kept == Kept(t)
  IN  /\ t # NoThread /\ tstate[t] \in {"withdrawn", "failed"}
      /\ queue' = [k \in MemoryType |->
                     IF k \in kept THEN Append(queue[k], node[t][k])
                                   ELSE queue[k]]
      /\ is_used' = [b \in Block |-> is_used[b] /\ \A k \in kept : b # node[t][k]]
      /\ SetNodes(t, NoBlock, NoBlock)
      /\ basic_data' = [basic_data EXCEPT ![t] = "freed"]
      /\ tdb' = [tdb EXCEPT ![t] = FALSE]
      /\ tstate' = [tstate EXCEPT ![t] = "none"]
      /\ creating' = [creating EXCEPT ![c] = NoThread]
      /\ Reset(t)
      /\ UNCHANGED <<allocated, size, exitJoinable, status, claimed, joining, woken,
                     __nc_running_threads_counter>>

-----------------------------------------------------------------------------
(* pthread_exit *)

(* It reads the tdb, with no lock held, and runs handlers and destructors. *)
ExitBegin(a) ==
  /\ Idle(a)
  /\ tstate' = [tstate EXCEPT ![a] = "exiting"]
  /\ exitJoinable' = [t \in Thread |-> IF t = a THEN joinable[t]
                                                ELSE exitJoinable[t]]
  /\ UNCHANGED <<heapVars, node, stackSize, joinable, join_waiting, basic_data,
                 status, tdb, claimed, callVars, __nc_running_threads_counter>>

ExitUncount(t) ==
  /\ t # Main /\ tstate[t] = "exiting"
  /\ tstate' = [tstate EXCEPT ![t] = "uncounted"]
  /\ __nc_running_threads_counter' = __nc_running_threads_counter - 1
  /\ UNCHANGED <<heapVars, dataVars, callVars>>

(* Bug: the thread that joins is not signalled. *)
Joiners_None(t) == {}

(* The threads that pthread_cond_signal on t's join_condvar may wake. *)
Joiners(t) == {a \in Actor : joining[a] = t /\ ~woken[a]}

(* Bug: the last thread to go is the one that leaves no other counted. *)
LastThreadWaiter_Zero ==
  IF __nc_running_threads_counter = 0 /\ tstate[Main] = "waiting"
  THEN {Main} ELSE {}

(* Main, if it is to be signalled that the last thread has terminated. *)
LastThreadWaiter ==
  IF __nc_running_threads_counter = 1 /\ tstate[Main] = "waiting"
  THEN {Main} ELSE {}

(***************************************************************************)
(* The last critical section.  The TLS block is free from here on, though  *)
(* the thread still runs; the stack is cached but stays marked as used.    *)
(* The two signals go to different condition variables: Main waits for     *)
(* the last thread only in state "waiting", and joins nobody then.         *)
(***************************************************************************)
ExitRelease(t) ==
  LET joiners == IF exitJoinable[t] THEN Joiners(t) ELSE {}
  IN  /\ t # Main /\ tstate[t] = "uncounted"
      /\ status' = [status EXCEPT ![t] = exitJoinable[t]]
      /\ \E S \in SUBSET joiners :
           /\ Cardinality(S) <= 1 /\ (S = {} => joiners = {})
           /\ woken' = [a \in Actor |-> woken[a] \/ a \in S \cup LastThreadWaiter]
      /\ tdb' = [tdb EXCEPT ![t] = FALSE]
      /\ basic_data' = [basic_data EXCEPT ![t] = IF exitJoinable[t] THEN @ ELSE "freed"]
      /\ is_used' = [is_used EXCEPT ![node[t]["tls"]] = FALSE]
      /\ queue' = [k \in MemoryType |-> Append(queue[k], node[t][k])]
      /\ tstate' = [tstate EXCEPT ![t] = "released"]
      /\ SetNodes(t, NoBlock, node[t]["stack"])
      /\ Reset(t)
      /\ exitJoinable' = [exitJoinable EXCEPT ![t] = FALSE]
      /\ UNCHANGED <<allocated, size, claimed, creating, joining,
                     __nc_running_threads_counter>>

(* irt_thread.thread_exit(is_used): the system is done with the stack. *)
ThreadExit(t) ==
  /\ t # Main /\ tstate[t] = "released"
  /\ is_used' = [is_used EXCEPT ![node[t]["stack"]] = FALSE]
  /\ SetNodes(t, NoBlock, NoBlock)
  /\ tstate' = [tstate EXCEPT ![t] = "gone"]
  /\ UNCHANGED <<allocated, queue, size, stackSize, joinable, join_waiting,
                 exitJoinable, basic_data, status, tdb, claimed, callVars,
                 __nc_running_threads_counter>>

(***************************************************************************)
(* wait_for_threads and exit(0), in Main: one pass of the loop, from the   *)
(* lock or from the return of pthread_cond_wait.                           *)
(***************************************************************************)
MainWaits ==
  /\ \/ tstate[Main] = "exiting"
     \/ tstate[Main] = "waiting" /\ woken[Main]
  /\ tstate' = [tstate EXCEPT ![Main] =
                  IF __nc_running_threads_counter = 1 THEN "gone" ELSE "waiting"]
  /\ woken' = [woken EXCEPT ![Main] = FALSE]
  /\ UNCHANGED <<heapVars, dataVars, creating, joining,
                 __nc_running_threads_counter>>

-----------------------------------------------------------------------------
(* pthread_join and pthread_detach *)

(***************************************************************************)
(* *thread_id has been stored, the lock let go of, and the thread is not   *)
(* known to have ended: it runs, is being started, or could not be.        *)
(***************************************************************************)
Published(t) ==
  tstate[t] \in {"starting", "notstarted", "withdrawn", "running"}

(***************************************************************************)
(* What a program may do with a pthread_t: nothing more once a join of it  *)
(* has begun or a detach has succeeded, unless it knows that the thread    *)
(* has not ended (it may get EINVAL then).  It may use it before           *)
(* pthread_create returns ("another thread can call pthread_join() or      *)
(* pthread_detach()", nc_thread.c:375-378), but not after the cleanup of a *)
(* failed one, which overwrites *thread_id (nc_thread.c:461).              *)
(***************************************************************************)
MayName(t) ==
  \/ Published(t)
  \/ /\ tstate[t] \in {"exiting", "uncounted", "released", "gone"}
     /\ claimed[t] = "no"

Free(t) == basic_data' = [basic_data EXCEPT ![t] = "freed"]
Claim(t, how) == claimed' = [claimed EXCEPT ![t] = how]

(* pthread_join (of another thread) up to its pthread_cond_wait or return. *)
Join(a, t) ==
  /\ Idle(a) /\ a # t
  /\ MayName(t)
  /\ \/ /\ tdb[t] /\ (~joinable[t] \/ join_waiting[t])         \* EINVAL
        /\ UNCHANGED <<join_waiting, joining, basic_data, claimed>>
     \/ /\ tdb[t] /\ joinable[t] /\ ~join_waiting[t]
        /\ join_waiting' = [join_waiting EXCEPT ![t] = TRUE]
        /\ joining' = [joining EXCEPT ![a] = t]
        /\ Claim(t, "join")
        /\ UNCHANGED basic_data
     \/ /\ ~tdb[t]
        /\ Free(t)
        /\ Claim(t, "join")
        /\ UNCHANGED <<join_waiting, joining>>
  /\ UNCHANGED <<heapVars, node, stackSize, joinable, exitJoinable, status, tdb,
                 creating, woken, tstate, __nc_running_threads_counter>>

(***************************************************************************)
(* Its pthread_cond_wait has returned: one pass of the loop.  (What it     *)
(* finds in basic_data that has been freed under it is not modelled.)      *)
(***************************************************************************)
JoinAwake(a) ==
  LET t == joining[a]
  IN  /\ t # NoThread /\ woken[a]
      /\ basic_data[t] = "live"
      /\ woken' = [woken EXCEPT ![a] = FALSE]
      /\ IF status[t]
         THEN Free(t) /\ joining' = [joining EXCEPT ![a] = NoThread]
         ELSE UNCHANGED <<basic_data, joining>>
      /\ UNCHANGED <<heapVars, node, stackSize, joinable, join_waiting,
                     exitJoinable, status, tdb, claimed, creating, tstate,
                     __nc_running_threads_counter>>

(* Bug: a thread can be detached while another waits to join it. *)
Detach_IgnoresJoin(a, t) ==
  /\ Idle(a)
  /\ MayName(t)
  /\ tdb[t] /\ joinable[t]
  /\ joinable' = [joinable EXCEPT ![t] = FALSE]
  /\ UNCHANGED <<heapVars, node, stackSize, join_waiting, exitJoinable, status,
                 tdb, basic_data, claimed, callVars, tstate,
                 __nc_running_threads_counter>>

Detach(a, t) ==
  /\ Idle(a)
  /\ MayName(t)
  /\ \/ ~tdb[t] /\ Free(t) /\ Claim(t, "detach") /\ UNCHANGED joinable
     \/ /\ tdb[t] /\ joinable[t] /\ ~join_waiting[t]
        /\ joinable' = [joinable EXCEPT ![t] = FALSE]
        /\ Claim(t, IF exitJoinable[t] THEN "late" ELSE "detach")
        /\ UNCHANGED basic_data
     \/ /\ tdb[t] /\ (~joinable[t] \/ join_waiting[t])
        /\ UNCHANGED <<joinable, basic_data, claimed>>
  /\ UNCHANGED <<heapVars, node, stackSize, join_waiting, exitJoinable, status,
                 tdb, callVars, tstate, __nc_running_threads_counter>>

CondSpurious(a) ==
  /\ joining[a] # NoThread \/ tstate[a] = "waiting"
  /\ ~woken[a]
  /\ woken' = [woken EXCEPT ![a] = TRUE]
  /\ UNCHANGED <<heapVars, dataVars, creating, joining, tstate,
                 __nc_running_threads_counter>>

-----------------------------------------------------------------------------
(* Steps that a thread inside the library takes sooner or later. *)
LibraryStep(a) ==
  /\ tstate[Main] # "gone"
  /\ \/ CreateStart(a) \/ CreateUncount(a) \/ CreateCleanup(a)
     \/ a # Main /\ (ExitUncount(a) \/ ExitRelease(a) \/ ThreadExit(a))
     \/ a = Main /\ MainWaits
     \/ JoinAwake(a)

(* What the program, or the host, may do. *)
ProgramStep(a) ==
  /\ tstate[Main] # "gone"
  /\ \/ \E t \in Thread : Create(a, t) \/ Join(a, t) \/ Detach(a, t)
     \/ ExitBegin(a)
     \/ CondSpurious(a)

Next == \E a \in Actor : LibraryStep(a) \/ ProgramStep(a)

Spec == ThreadInit /\ [][Next]_vars

FairSpec == Spec /\ \A a \in Actor : WF_vars(LibraryStep(a))

-----------------------------------------------------------------------------
Holds(t, k) == node[t][k] # NoBlock

(***************************************************************************)
(* A thread's stack and TLS are big enough, marked as used, not given back *)
(* to malloc, and no other thread's: not the stack until the system is     *)
(* done with it, and not the TLS until the last critical section of        *)
(* pthread_exit (nc_thread.c:166-182, 195-206, 240, 546-554).              *)
(***************************************************************************)
MemoryIsOwn ==
  /\ \A t \in Thread, k \in MemoryType : Holds(t, k) =>
       /\ node[t][k] \in allocated /\ is_used[node[t][k]]
       /\ size[node[t][k]] >= IF k = "tls" THEN TlsSize ELSE 1
       /\ \A u \in Thread, l \in MemoryType :
            Holds(u, l) /\ node[u][l] = node[t][k] => u = t /\ l = k
  /\ \A t \in Thread :
       tstate[t] \in {"starting", "running", "exiting", "uncounted"} =>
         /\ Holds(t, "tls") /\ Holds(t, "stack")
         /\ size[node[t]["stack"]] >= stackSize[t]

(* The places of b in the queues. *)
Cached(b) == {p \in MemoryType \X (1..Cardinality(Block)) :
                p[2] <= Len(queue[p[1]]) /\ queue[p[1]][p[2]] = b}

(***************************************************************************)
(* However creation fails and threads end, every block that malloc gave    *)
(* out is in one queue, once, or belongs to a thread (nc_thread.c:446-462, *)
(* 540-547).                                                               *)
(***************************************************************************)
NoBlockLost ==
  \A b \in Block :
    LET owners == {t \in Thread : tstate[t] # "released"
                                    /\ \E k \in MemoryType : node[t][k] = b}
    IN  Cardinality(Cached(b)) + Cardinality(owners)
          = IF b \in allocated THEN 1 ELSE 0

(***************************************************************************)
(* "The thread count will never be lower than the actual number of         *)
(* threads" (nc_thread.c:406-407), and it is higher only by threads that   *)
(* are being started.  Main does not end the program under a thread that   *)
(* has not got as far as uncounting itself (nc_thread.c:470, 549).         *)
(***************************************************************************)
CounterIsRight ==
  /\ __nc_running_threads_counter =
       1 + Cardinality({t \in Thread : tstate[t] \in
                          {"starting", "notstarted", "running", "exiting"}})
  /\ tstate[Main] = "gone" => __nc_running_threads_counter = 1

(***************************************************************************)
(* Neither a join that waits nor one that is still allowed finds freed     *)
(* memory: basic_data stays until the one thread that is entitled to it    *)
(* has been there (nc_thread.c:531-544, 567-591, 612-614).  The exception  *)
(* is a join that began while the thread was being started, if             *)
(* thread_create then fails: the cleanup does not look for it              *)
(* (nc_thread.c:446-462).                                                  *)
(***************************************************************************)
DataIsLive ==
  /\ \A a \in Actor :
       joining[a] # NoThread => \/ basic_data[joining[a]] = "live"
                               \/ tstate[joining[a]] = "none"
  /\ \A t \in Thread : MayName(t) => basic_data[t] = "live"

(***************************************************************************)
(* And it does not stay for ever: what is left of a thread that has ended  *)
(* or could not be started still waits for a join or a detach, or for a    *)
(* join that has begun.  The exception is the thread that is detached      *)
(* after its pthread_exit has read that it is joinable: neither frees it   *)
(* (nc_thread.c:505, 531-544, 612-618).                                    *)
(***************************************************************************)
DataNotLost ==
  \A t \in Thread :
    tstate[t] \in {"none", "released", "gone"} /\ basic_data[t] = "live"
      => claimed[t] \in {"no", "late"} \/ IsJoined(t)

(***************************************************************************)
(* Whoever joins a thread that has ended has been signalled, and so has    *)
(* Main when it waits and no other thread is left, or the last one has     *)
(* still to do it: that thread counts itself out in one critical section   *)
(* and signals in a later one (nc_thread.c:467-472, 516-551, 576-580).     *)
(***************************************************************************)
NoWakeLost ==
  /\ \A a \in Actor :
       joining[a] # NoThread /\ tstate[joining[a]] \in {"released", "gone"}
         => status[joining[a]] /\ woken[a]
  /\ tstate[Main] = "waiting" /\ __nc_running_threads_counter = 1
       => woken[Main] \/ \E t \in Thread : tstate[t] = "uncounted"

(* Memory, data and the count of threads are right, no signal is lost. *)
ThreadInv ==
  /\ ThreadTypeOK
  /\ MemoryIsOwn /\ NoBlockLost
  /\ CounterIsRight /\ NoWakeLost /\ DataNotLost

(* A join returns once the thread it waits for exits (unless Main ends the *)
(* program first): the signal is not lost between the two threads          *)
(* (nc_thread.c:531-535, 576-580).                                         *)
JoinReturns ==
  \A t \in Thread :
    IsJoined(t) /\ tstate[t] = "exiting"
      ~> ~IsJoined(t) \/ tstate[Main] = "gone"

(* Main leaves wait_for_threads once the others have ended: the last one   *)
(* to go signals it (nc_thread.c:470-472, 549-551).                        *)
MainEnds ==
  tstate[Main] = "waiting" /\ __nc_running_threads_counter = 1
    ~> tstate[Main] = "gone"
=============================================================================
