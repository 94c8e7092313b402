------------------------------ MODULE NcMutex ------------------------------
(***************************************************************************)
(* pthread_mutex_t of untrusted/pthread/nc_mutex.c, over the futexes of    *)
(* the service runtime.  One mutex; every atomic operation on its words    *)
(* and every futex call is a step of its own.                              *)
(***************************************************************************)
EXTENDS FutexQueue

CONSTANTS
  mutex_state,   \* the address of the mutex's state word
  MutexType,     \* the types in use: "FAST", "RECURSIVE", "ERRORCHECK"
  LockKind,      \* the calls in use: "lock", "trylock", "timedlock"
  NoThread,      \* NACL_PTHREAD_ILLEGAL_THREAD_ID
  MaxCalls,      \* bound: lock calls made by one thread
  MaxDepth       \* bound: nesting of a recursive mutex

UNLOCKED == 0
LOCKED_WITHOUT_WAITERS == 1
LOCKED_WITH_WAITERS == 2

ASSUME MutexAssumption ==
  /\ mutex_state \in Readable
  /\ {UNLOCKED, LOCKED_WITHOUT_WAITERS, LOCKED_WITH_WAITERS} \subseteq Word
  /\ MutexType \subseteq {"FAST", "RECURSIVE", "ERRORCHECK"}
  /\ LockKind \subseteq {"lock", "trylock", "timedlock"}
  /\ NoThread \notin Thread
  /\ MaxCalls \in Nat
  /\ MaxDepth \in Nat \ {0}

VARIABLES
  pc,                 \* the next step of each thread inside the library
  kind,               \* its lock call, inside mutex_lock_nonrecursive
  mutex_type,
  owner_thread_id,
  recursion_counter,
  holds,              \* locks the caller has got and not yet released
  calls               \* lock calls made so far (bounded by MaxCalls)

mutexFields == <<mutex_type, owner_thread_id, recursion_counter>>
mutexVars == <<pc, kind, mutexFields, holds, calls>>
vars == <<mem, queueVars, mutexVars>>

PC == {"idle", "cas", "mark", "wait", "asleep", "retake", "own",
       "sub", "store", "wake"}

(* The variables keep their types; a lock that is nested or released once  *)
(* too often would take recursion_counter or holds out of its range.       *)
MutexTypeOK ==
  /\ QueueTypeOK
  /\ pc \in [Thread -> PC]
  /\ kind \in [Thread -> LockKind \cup {"none"}]
  /\ mutex_type \in MutexType
  /\ owner_thread_id \in Thread \cup {NoThread}
  /\ recursion_counter \in 0..MaxDepth
  /\ holds \in [Thread -> 0..MaxDepth]
  /\ calls \in [Thread -> 0..MaxCalls]

(* pthread_mutex_init *)
MutexInit ==
  /\ mem = [a \in Addr |-> UNLOCKED]
  /\ QueueInit
  /\ pc = [t \in Thread |-> "idle"]
  /\ kind = [t \in Thread |-> "none"]
  /\ mutex_type \in MutexType
  /\ owner_thread_id = NoThread
  /\ recursion_counter = 0
  /\ holds = [t \in Thread |-> 0]
  /\ calls = [t \in Thread |-> 0]

-----------------------------------------------------------------------------
SetMem(v) == mem' = [mem EXCEPT ![mutex_state] = v]
Goto(t, label) == pc' = [pc EXCEPT ![t] = label]

(* The call, or mutex_lock_nonrecursive, returns and t goes on at label. *)
ReturnTo(t, label) ==
  /\ Goto(t, label)
  /\ kind' = [kind EXCEPT ![t] = "none"]

(***************************************************************************)
(* mutex_lock up to its call of mutex_lock_nonrecursive.  A caller does    *)
(* not block for ever on a fast mutex that it holds itself.                *)
(***************************************************************************)
MutexLock(t, k) ==
  /\ pc[t] = "idle" /\ calls[t] < MaxCalls
  /\ mutex_type = "FAST" /\ k = "lock" => holds[t] = 0
  /\ calls' = [calls EXCEPT ![t] = @ + 1]
  /\ \/ /\ mutex_type = "FAST" \/ owner_thread_id # t
        /\ Goto(t, "cas")
        /\ kind' = [kind EXCEPT ![t] = k]
        /\ UNCHANGED <<recursion_counter, holds>>
     \/ /\ mutex_type = "ERRORCHECK" /\ owner_thread_id = t    \* EDEADLK
        /\ UNCHANGED <<pc, kind, recursion_counter, holds>>
     \/ /\ mutex_type = "RECURSIVE" /\ owner_thread_id = t
        /\ recursion_counter < MaxDepth
        /\ recursion_counter' = recursion_counter + 1
        /\ holds' = [holds EXCEPT ![t] = @ + 1]
        /\ UNCHANGED <<pc, kind>>
  /\ UNCHANGED <<mem, queueVars, owner_thread_id, mutex_type>>

(* A compare-and-swap from UNLOCKED to state has succeeded. *)
Acquire(t, state) ==
  /\ mem[mutex_state] = UNLOCKED
  /\ SetMem(state)
  /\ IF mutex_type = "FAST"
     THEN ReturnTo(t, "idle") /\ holds' = [holds EXCEPT ![t] = 1]
     ELSE ReturnTo(t, "own") /\ UNCHANGED holds

(***************************************************************************)
(* A compare-and-swap has failed, and t is about to wait.  The old_state   *)
(* it saw decides whether the state word still has to be marked first.     *)
(***************************************************************************)
MustWait(t) ==
  /\ mem[mutex_state] # UNLOCKED
  /\ Goto(t, IF mem[mutex_state] = LOCKED_WITH_WAITERS THEN "wait" ELSE "mark")
  /\ UNCHANGED <<mem, kind, holds>>

LockCas(t) ==
  /\ pc[t] = "cas"
  /\ \/ Acquire(t, LOCKED_WITHOUT_WAITERS)
     \/ MustWait(t) /\ kind[t] # "trylock"
     \/ /\ mem[mutex_state] # UNLOCKED
        /\ kind[t] \in {"trylock", "timedlock"}     \* EBUSY; EINVAL
        /\ ReturnTo(t, "idle")
        /\ UNCHANGED <<mem, holds>>
  /\ UNCHANGED <<queueVars, mutexFields, calls>>

(* __sync_val_compare_and_swap(..., WITHOUT_WAITERS, WITH_WAITERS) *)
LockMark(t) ==
  /\ pc[t] = "mark"
  /\ IF mem[mutex_state] = LOCKED_WITHOUT_WAITERS
     THEN SetMem(LOCKED_WITH_WAITERS) ELSE UNCHANGED mem
  /\ Goto(t, IF mem[mutex_state] = UNLOCKED THEN "retake" ELSE "wait")
  /\ UNCHANGED <<queueVars, kind, mutexFields, holds, calls>>

LockWait(t) ==
  /\ pc[t] = "wait"
  /\ \/ /\ FutexWaitMismatch(t, mutex_state, LOCKED_WITH_WAITERS)
        /\ Goto(t, "retake")
     \/ /\ FutexWaitSleep(t, mutex_state, LOCKED_WITH_WAITERS,
                          kind[t] = "timedlock")
        /\ Goto(t, "asleep")
  /\ UNCHANGED <<mem, kind, mutexFields, holds, calls>>

LockAwake(t) ==
  /\ pc[t] = "asleep"
  /\ FutexWaitReturn(t)
  /\ IF kind[t] = "timedlock" /\ WaitResult(t) = "ETIMEDOUT"
     THEN ReturnTo(t, "idle")
     ELSE Goto(t, "retake") /\ UNCHANGED kind
  /\ UNCHANGED <<mem, mutexFields, holds, calls>>

(* Bug: a thread that was woken believes that it was given the mutex. *)
LockRetake_Handoff(t) ==
  /\ pc[t] = "retake"
  /\ SetMem(LOCKED_WITH_WAITERS)
  /\ ReturnTo(t, "own")
  /\ UNCHANGED <<queueVars, mutexFields, holds, calls>>

(* Bug: "On this try, we must set mutex_state to LOCKED_WITH_WAITERS". *)
LockRetake_NoMark(t) ==
  /\ pc[t] = "retake"
  /\ Acquire(t, LOCKED_WITHOUT_WAITERS) \/ MustWait(t)
  /\ UNCHANGED <<queueVars, mutexFields, calls>>

LockRetake(t) ==
  /\ pc[t] = "retake"
  /\ Acquire(t, LOCKED_WITH_WAITERS) \/ MustWait(t)
  /\ UNCHANGED <<queueVars, mutexFields, calls>>

(* The end of mutex_lock for a recursive or error-checking mutex. *)
LockOwn(t) ==
  /\ pc[t] = "own"
  /\ owner_thread_id' = t
  /\ recursion_counter' = 1
  /\ holds' = [holds EXCEPT ![t] = 1]
  /\ Goto(t, "idle")
  /\ UNCHANGED <<mem, queueVars, kind, calls, mutex_type>>

(* Bug: an error-checking mutex does not check who releases it. *)
MutexUnlock_NoCheck(t) ==
  /\ pc[t] = "idle"
  /\ owner_thread_id' = NoThread
  /\ recursion_counter' = 0
  /\ holds' = [holds EXCEPT ![t] = 0]
  /\ Goto(t, "sub")
  /\ UNCHANGED <<mem, queueVars, kind, calls, mutex_type>>

(***************************************************************************)
(* pthread_mutex_unlock up to the atomic decrement.  Callers release only  *)
(* what they hold; with an error-checking mutex they may try at any time.  *)
(***************************************************************************)
MutexUnlock(t) ==
  /\ pc[t] = "idle"
  /\ holds[t] > 0 \/ mutex_type = "ERRORCHECK"
  /\ \/ /\ mutex_type = "RECURSIVE" /\ recursion_counter > 1
        /\ recursion_counter' = recursion_counter - 1
        /\ holds' = [holds EXCEPT ![t] = @ - 1]
        /\ UNCHANGED <<pc, owner_thread_id>>
     \/ /\ mutex_type = "FAST"
        /\ holds' = [holds EXCEPT ![t] = @ - 1]
        /\ Goto(t, "sub")
        /\ UNCHANGED <<owner_thread_id, recursion_counter>>
     \/ /\ \/ mutex_type = "RECURSIVE" /\ recursion_counter = 1
           \/ mutex_type = "ERRORCHECK" /\ owner_thread_id = t
        /\ owner_thread_id' = NoThread
        /\ recursion_counter' = 0
        /\ holds' = [holds EXCEPT ![t] = @ - 1]
        /\ Goto(t, "sub")
     \/ /\ mutex_type = "ERRORCHECK" /\ owner_thread_id # t    \* EPERM
        /\ UNCHANGED <<pc, owner_thread_id, recursion_counter, holds>>
  /\ UNCHANGED <<mem, queueVars, kind, calls, mutex_type>>

(* Only a caller that had the mutex gets here, so it is not UNLOCKED. *)
UnlockSub(t) ==
  /\ pc[t] = "sub"
  /\ SetMem(mem[mutex_state] - 1)
  /\ Goto(t, IF mem[mutex_state] = LOCKED_WITHOUT_WAITERS
             THEN "idle" ELSE "store")
  /\ UNCHANGED <<queueVars, kind, mutexFields, holds, calls>>

UnlockStore(t) ==
  /\ pc[t] = "store"
  /\ SetMem(UNLOCKED)
  /\ Goto(t, "wake")
  /\ UNCHANGED <<queueVars, kind, mutexFields, holds, calls>>

UnlockWake(t) ==
  /\ pc[t] = "wake"
  /\ FutexWake(mutex_state, 1)
  /\ Goto(t, "idle")
  /\ UNCHANGED <<mem, kind, mutexFields, holds, calls>>

(* What the scheduler must eventually let a thread do. *)
LibraryStep(t) ==
  \/ LockCas(t) \/ LockMark(t) \/ LockWait(t) \/ LockAwake(t)
  \/ LockRetake(t) \/ LockOwn(t)
  \/ UnlockSub(t) \/ UnlockStore(t) \/ UnlockWake(t)

HostStep(t) == (CondTimeout(t) \/ CondSpurious(t)) /\ UNCHANGED <<mem, mutexVars>>

Next ==
  \E t \in Thread :
    \/ \E k \in LockKind : MutexLock(t, k)
    \/ MutexUnlock(t)
    \/ LibraryStep(t)
    \/ HostStep(t)

Spec == MutexInit /\ [][Next]_vars

(***************************************************************************)
(* Threads inside the library or the service runtime are scheduled, and    *)
(* callers release what they hold.  Nothing is assumed of timeouts and of  *)
(* spurious wakeups, or of who wins a race for the mutex.                  *)
(***************************************************************************)
FairSpec ==
  Spec /\ \A t \in Thread : WF_vars(LibraryStep(t)) /\ WF_vars(MutexUnlock(t))

-----------------------------------------------------------------------------
(* t has taken the mutex and has not given it back in its state word. *)
InLock(t) == holds[t] > 0 \/ pc[t] \in {"own", "sub", "store"}

(***************************************************************************)
(* At most one thread is between the compare-and-swap that took the mutex  *)
(* and the decrement or store that gives it back (nc_mutex.c:91-239).      *)
(***************************************************************************)
MutualExclusion == \A t, u \in Thread : InLock(t) /\ InLock(u) => t = u

(***************************************************************************)
(* "Checking the mutex's owner_thread_id without further synchronization   *)
(* is safe" (nc_mutex.c:147-151): the unsynchronised read finds a thread's *)
(* own id there exactly while that thread has the mutex.                   *)
(***************************************************************************)
OwnerReadIsSafe ==
  mutex_type # "FAST" =>
    \A t \in Thread : owner_thread_id = t <=> holds[t] > 0

OwnersAreRight == MutexTypeOK /\ OwnerReadIsSafe

(* u will wake a sleeper or take the mutex with the waiters mark. *)
WillLookAfter(u) ==
  \/ pc[u] \in {"mark", "wait", "retake", "store", "wake"}
  \/ pc[u] = "asleep" /\ cond[u] = "woken"

(***************************************************************************)
(* A thread asleep on the mutex is looked after: either the state word     *)
(* says that there are waiters, so that the holder will wake one, or some  *)
(* thread on its way through the library will wake it or take the mutex    *)
(* with the waiters mark (the argument of nc_mutex.c:121-128, 220-236).    *)
(***************************************************************************)
NoStrandedWaiter ==
  (\E t \in Thread : pc[t] = "asleep" /\ cond[t] = "waiting")
    => \/ mem[mutex_state] = LOCKED_WITH_WAITERS
       \/ \E u \in Thread : WillLookAfter(u)

(***************************************************************************)
(* "Wait until lock becomes available, or specified time passes"           *)
(* (pthread.h:208): with callers that release what they hold, every call   *)
(* comes back.  Calls are bounded, so that nobody is overtaken for ever.   *)
(***************************************************************************)
EveryLockReturns == \A t \in Thread : pc[t] # "idle" ~> pc[t] = "idle"
=============================================================================
