------------------------------- MODULE NcSem -------------------------------
(***************************************************************************)
(* sem_t of untrusted/pthread/nc_semaphore.c, over the futexes of the      *)
(* service runtime.  Every access to count and nwaiters and every futex    *)
(* call is a step of its own.                                              *)
(***************************************************************************)
EXTENDS FutexQueue

CONSTANTS
  count,          \* the address of the semaphore's count
  SEM_VALUE_MAX,  \* scaled down in the instances
  InitialValue,   \* the value given to sem_init
  MaxPosts,       \* bound: calls of sem_post, all threads together
  MaxWaits        \* bound: calls of sem_wait and sem_trywait by one thread

ASSUME SemAssumption ==
  /\ count \in Readable
  /\ SEM_VALUE_MAX \in Nat
  /\ InitialValue \in 0..SEM_VALUE_MAX
  /\ 0..SEM_VALUE_MAX \subseteq Word
  /\ MaxPosts \in Nat
  /\ MaxWaits \in Nat

VARIABLES
  nwaiters,
  spc,        \* the next step of each thread inside the library
  old_value,  \* the local of decrement_if_positive and of sem_post
  posts,      \* calls of sem_post so far (bounded by MaxPosts)
  waits,      \* calls of sem_wait and sem_trywait so far
  given,      \* history: successful posts
  taken       \* history: successful waits

semVars == <<nwaiters, spc, old_value, posts, waits, given, taken>>
semAllVars == <<mem, queueVars, semVars>>

(***************************************************************************)
(* "try"/"tryCas", "wait"/"waitCas" and "again"/"againCas" are the three   *)
(* uses of decrement_if_positive: in sem_trywait, on entry to sem_wait,    *)
(* and in its loop.                                                        *)
(***************************************************************************)
SPC == {"idle", "try", "tryCas", "wait", "waitCas", "inc", "futex", "asleep",
       "again", "againCas", "dec", "post", "postCas", "check", "wake"}

(* The variables keep their types: above all, count never leaves the range *)
(* 0..SEM_VALUE_MAX (nc_semaphore.c:75, 106).                              *)
SemTypeOK ==
  /\ QueueTypeOK
  /\ mem[count] \in 0..SEM_VALUE_MAX
  /\ nwaiters \in 0..Cardinality(Thread)
  /\ spc \in [Thread -> SPC]
  /\ old_value \in [Thread -> 0..SEM_VALUE_MAX]
  /\ posts \in 0..MaxPosts
  /\ waits \in [Thread -> 0..MaxWaits]
  /\ given \in Nat
  /\ taken \in Nat

(* sem_init *)
SemInit ==
  /\ mem = [a \in Addr |-> InitialValue]
  /\ QueueInit
  /\ nwaiters = 0
  /\ spc = [t \in Thread |-> "idle"]
  /\ old_value = [t \in Thread |-> 0]
  /\ posts = 0
  /\ waits = [t \in Thread |-> 0]
  /\ given = 0
  /\ taken = 0

-----------------------------------------------------------------------------
SGoto(t, label) == spc' = [spc EXCEPT ![t] = label]
SetCount(v) == mem' = [mem EXCEPT ![count] = v]

(* sem_wait and sem_trywait *)
SemWait(t) ==
  /\ spc[t] = "idle"
  /\ waits[t] < MaxWaits
  /\ waits' = [waits EXCEPT ![t] = @ + 1]
  /\ SGoto(t, "wait") \/ SGoto(t, "try")
  /\ UNCHANGED <<mem, queueVars, nwaiters, old_value, posts, given, taken>>

SemPost(t) ==
  /\ spc[t] = "idle"
  /\ posts < MaxPosts
  /\ posts' = posts + 1
  /\ SGoto(t, "post")
  /\ UNCHANGED <<mem, queueVars, nwaiters, old_value, waits, given, taken>>

(* decrement_if_positive reads the count, and gives up when it is 0. *)
DecrementRead(t) ==
  /\ \/ /\ mem[count] = 0
        /\ \/ spc[t] = "try" /\ SGoto(t, "idle")             \* EAGAIN
           \/ spc[t] = "wait" /\ SGoto(t, "inc")
           \/ spc[t] = "again" /\ SGoto(t, "futex")
        /\ UNCHANGED old_value
     \/ /\ mem[count] # 0
        /\ \/ spc[t] = "try" /\ SGoto(t, "tryCas")
           \/ spc[t] = "wait" /\ SGoto(t, "waitCas")
           \/ spc[t] = "again" /\ SGoto(t, "againCas")
        /\ old_value' = [old_value EXCEPT ![t] = mem[count]]
  /\ UNCHANGED <<mem, queueVars, nwaiters, posts, waits, given, taken>>

(* Bug: the decremented value is stored, whatever the count is by now. *)
DecrementCas_Store(t) ==
  /\ \/ spc[t] \in {"tryCas", "waitCas"} /\ SGoto(t, "idle")
     \/ spc[t] = "againCas" /\ SGoto(t, "dec")
  /\ SetCount(old_value[t] - 1)
  /\ taken' = taken + 1
  /\ UNCHANGED <<queueVars, nwaiters, old_value, posts, waits, given>>

(* Its compare-and-swap. *)
DecrementCas(t) ==
  /\ \/ /\ mem[count] = old_value[t]
        /\ \/ spc[t] \in {"tryCas", "waitCas"} /\ SGoto(t, "idle")
           \/ spc[t] = "againCas" /\ SGoto(t, "dec")
        /\ SetCount(old_value[t] - 1)
        /\ taken' = taken + 1
     \/ /\ mem[count] # old_value[t]
        /\ \/ spc[t] = "tryCas" /\ SGoto(t, "try")
           \/ spc[t] = "waitCas" /\ SGoto(t, "wait")
           \/ spc[t] = "againCas" /\ SGoto(t, "again")
        /\ UNCHANGED <<mem, taken>>
  /\ old_value' = [old_value EXCEPT ![t] = 0]
  /\ UNCHANGED <<queueVars, nwaiters, posts, waits, given>>

WaitInc(t) ==
  /\ spc[t] = "inc"
  /\ nwaiters' = nwaiters + 1
  /\ SGoto(t, "futex")
  /\ UNCHANGED <<mem, queueVars, old_value, posts, waits, given, taken>>

WaitFutex(t) ==
  /\ spc[t] = "futex"
  /\ \/ FutexWaitMismatch(t, count, 0) /\ SGoto(t, "again")
     \/ FutexWaitSleep(t, count, 0, FALSE) /\ SGoto(t, "asleep")
  /\ UNCHANGED <<mem, nwaiters, old_value, posts, waits, given, taken>>

WaitAwake(t) ==
  /\ spc[t] = "asleep"
  /\ FutexWaitReturn(t)
  /\ SGoto(t, "again")
  /\ UNCHANGED <<mem, nwaiters, old_value, posts, waits, given, taken>>

WaitDec(t) ==
  /\ spc[t] = "dec"
  /\ nwaiters' = nwaiters - 1
  /\ SGoto(t, "idle")
  /\ UNCHANGED <<mem, queueVars, old_value, posts, waits, given, taken>>

PostRead(t) ==
  /\ spc[t] = "post"
  /\ \/ mem[count] = SEM_VALUE_MAX /\ SGoto(t, "idle")      \* EOVERFLOW
        /\ UNCHANGED old_value
     \/ mem[count] # SEM_VALUE_MAX /\ SGoto(t, "postCas")
        /\ old_value' = [old_value EXCEPT ![t] = mem[count]]
  /\ UNCHANGED <<mem, queueVars, nwaiters, posts, waits, given, taken>>

PostCas(t) ==
  /\ spc[t] = "postCas"
  /\ \/ /\ mem[count] = old_value[t]
        /\ SetCount(old_value[t] + 1)
        /\ given' = given + 1
        /\ SGoto(t, "check")
     \/ /\ mem[count] # old_value[t]
        /\ SGoto(t, "post")
        /\ UNCHANGED <<mem, given>>
  /\ old_value' = [old_value EXCEPT ![t] = 0]
  /\ UNCHANGED <<queueVars, nwaiters, posts, waits, taken>>

(* Bug: only the first waiter makes sem_post call futex_wake. *)
PostCheck_One(t) ==
  /\ spc[t] = "check"
  /\ SGoto(t, IF nwaiters = 1 THEN "wake" ELSE "idle")
  /\ UNCHANGED <<mem, queueVars, nwaiters, old_value, posts, waits, given, taken>>

PostCheck(t) ==
  /\ spc[t] = "check"
  /\ SGoto(t, IF nwaiters # 0 THEN "wake" ELSE "idle")
  /\ UNCHANGED <<mem, queueVars, nwaiters, old_value, posts, waits, given, taken>>

(* Bug: sem_post forgets to wake. *)
PostWake_Nobody(t) ==
  /\ spc[t] = "wake"
  /\ SGoto(t, "idle")
  /\ UNCHANGED <<mem, queueVars, nwaiters, old_value, posts, waits, given, taken>>

PostWake(t) ==
  /\ spc[t] = "wake"
  /\ FutexWake(count, 1)
  /\ SGoto(t, "idle")
  /\ UNCHANGED <<mem, nwaiters, old_value, posts, waits, given, taken>>

SemStep(t) ==
  \/ DecrementRead(t) \/ DecrementCas(t)
  \/ WaitInc(t) \/ WaitFutex(t) \/ WaitAwake(t) \/ WaitDec(t)
  \/ PostRead(t) \/ PostCas(t) \/ PostCheck(t) \/ PostWake(t)

SemNext ==
  \E t \in Thread :
    \/ SemWait(t)
    \/ SemPost(t)
    \/ SemStep(t)
    \/ CondSpurious(t) /\ UNCHANGED <<mem, semVars>>

SemSpec == SemInit /\ [][SemNext]_semAllVars

(***************************************************************************)
(* Threads inside the library or the service runtime are scheduled.        *)
(* Callers owe nothing: nobody has to post.                                *)
(***************************************************************************)
SemFairSpec == SemSpec /\ \A t \in Thread : WF_semAllVars(SemStep(t))

-----------------------------------------------------------------------------
(***************************************************************************)
(* Nothing is let through that was not posted, and no post is lost, in     *)
(* whatever order the reads and compare-and-swaps of the threads fall      *)
(* (nc_semaphore.c:71-79, 104-111).                                        *)
(***************************************************************************)
NothingLost == mem[count] + taken = InitialValue + given

(* The threads that sem_post has to know about. *)
InSlowPath ==
  {t \in Thread : spc[t] \in {"futex", "asleep", "again", "againCas", "dec"}}

(***************************************************************************)
(* "Number of threads waiting for the semaphore in sem_wait(); always      *)
(* non-negative" (semaphore.h:23-24).                                      *)
(***************************************************************************)
WaitersAreCounted == nwaiters = Cardinality(InSlowPath)

SemInv == SemTypeOK /\ NothingLost /\ WaitersAreCounted

(***************************************************************************)
(* While a thread sleeps in sem_wait, every unit of the count belongs to a *)
(* sem_post that has still to look at nwaiters or to call futex_wake, or   *)
(* to a waiter on its way to decrement it: reading nwaiters after the      *)
(* increment misses nobody (nc_semaphore.c:85-88, 110-122).                *)
(***************************************************************************)
NoStrandedUnit ==
  (\E t \in Thread : spc[t] = "asleep" /\ cond[t] = "waiting")
    => mem[count] <=
         Cardinality({t \in Thread :
            \/ spc[t] \in {"check", "wake", "again", "againCas"}
            \/ spc[t] = "asleep" /\ cond[t] = "woken"})

(* No thread sleeps for ever while the count is positive. *)
SemSleeperIsServed ==
  \A t \in Thread :
    spc[t] = "asleep" /\ mem[count] > 0 ~> spc[t] # "asleep" \/ mem[count] = 0
=============================================================================
