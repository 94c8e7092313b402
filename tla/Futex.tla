------------------------------- MODULE Futex -------------------------------
(***************************************************************************)
(* The futex system calls as untrusted threads may issue them: any call    *)
(* with any arguments at any time, and stores to the words they name       *)
(* between the calls (untrusted/irt/irt_futex.c hands the calls on).       *)
(***************************************************************************)
EXTENDS FutexQueue

CONSTANT NWake   \* the nwake arguments of futex_wake

ASSUME NWakeAssumption == NWake \subseteq Nat

VARIABLES
  result,  \* what each thread's last futex_wait_abs returned
  wake     \* the last futex_wake: its nwake argument and what it returned

futexVars == <<mem, queueVars, result, wake>>

Result == {"none", "OK", "EWOULDBLOCK", "ETIMEDOUT", "EFAULT"}

(* The variables keep their types; the contents of the queue, theirs. *)
FutexTypeOK ==
  /\ QueueTypeOK
  /\ result \in [Thread -> Result]
  /\ wake \in [nwake : Nat, woken_count : Nat]

FutexInit ==
  /\ mem \in [Addr -> Word]
  /\ QueueInit
  /\ result = [t \in Thread |-> "none"]
  /\ wake = [nwake |-> 0, woken_count |-> 0]

-----------------------------------------------------------------------------
Returns(t, r) == result' = [result EXCEPT ![t] = r]

(* The early returns: abstime or the word itself cannot be read. *)
WaitFaults(t) ==
  /\ cond[t] = "out"
  /\ Returns(t, "EFAULT")
  /\ UNCHANGED queueVars

WaitRefused(t) ==
  /\ \E a \in Addr, value \in Word : FutexWaitMismatch(t, a, value)
  /\ Returns(t, "EWOULDBLOCK")

WaitSleeps(t) ==
  /\ \E a \in Addr, value \in Word, hasAbstime \in BOOLEAN :
       FutexWaitSleep(t, a, value, hasAbstime)
  /\ Returns(t, "none")

WaitReturns(t) == FutexWaitReturn(t) /\ Returns(t, WaitResult(t))

Wake(t) ==
  /\ cond[t] = "out"
  /\ \E a \in Addr, nwake \in NWake :
       /\ FutexWake(a, nwake)
       /\ wake' = [nwake |-> nwake,
                   woken_count |-> Cardinality(Woken(a, nwake))]
  /\ UNCHANGED result

(* The condition variable of a sleeping thread lets it go on its own. *)
CondGivesUp(t) == (CondTimeout(t) \/ CondSpurious(t)) /\ UNCHANGED result

FutexThreadStep(t) ==
  /\ \/ Wake(t)
     \/ /\ \/ WaitFaults(t) \/ WaitRefused(t) \/ WaitSleeps(t)
           \/ WaitReturns(t) \/ CondGivesUp(t)
        /\ UNCHANGED wake
  /\ UNCHANGED mem

UntrustedStore(a, value) ==
  /\ mem' = [mem EXCEPT ![a] = value]
  /\ UNCHANGED <<queueVars, result, wake>>

FutexNext ==
  \/ \E t \in Thread : FutexThreadStep(t)
  \/ \E a \in Addr, value \in Word : UntrustedStore(a, value)

FutexSpec == FutexInit /\ [][FutexNext]_futexVars

-----------------------------------------------------------------------------
(* A thread that leaves the list on its own leaves the system call too. *)
InOrder ==
  \A t, u \in Thread :
    /\ u \in linked \ linked'
    /\ cond'[u] # "out"
    /\ t \in ahead[u]
    /\ futex_wait_addr[t] = futex_wait_addr[u]
    => t \notin linked'

(***************************************************************************)
(* Only a wait that was given an abstime times out, and an abstime does    *)
(* not outlive its wait (sys_futex.c:93-99).                               *)
(***************************************************************************)
AbstimeIsTheWaits ==
  \A t \in Thread : /\ cond[t] = "timedout" => timed[t]
                    /\ cond[t] = "out" => ~timed[t]

(***************************************************************************)
(* The wait list is sound in every state, and this is inductive: its nodes *)
(* are one queue (ListIsAQueue), the list and the recorded addresses agree *)
(* whichever of a wake and a timeout comes first (ListMatchesAddr), and    *)
(* sleepers can be found (SleeperIsLinked; sys_futex.c:37-48, 91-114,      *)
(* 136-147).                                                               *)
(***************************************************************************)
FutexInv ==
  /\ QueueInv
  /\ FutexTypeOK
  /\ AbstimeIsTheWaits

(***************************************************************************)
(* No futex_wake takes a thread off the list and leaves behind one that    *)
(* waits on the same address and joined earlier ("We process waiting       *)
(* threads in FIFO order", sys_futex.c:129).                               *)
(***************************************************************************)
WakeIsFifo == [][InOrder]_futexVars

-----------------------------------------------------------------------------
(***************************************************************************)
(* The contract's view of the service runtime's state: who is waiting is   *)
(* who is on the list, and a thread is woken from the moment a futex_wake  *)
(* unlinks it until it returns, whatever its condition variable says.      *)
(* The results of the calls are the contract's as they are.                *)
(***************************************************************************)
waitersOf == [a \in Addr |-> {t \in linked : futex_wait_addr[t] = a}]

statusOf == [t \in Thread |-> IF cond[t] = "out" THEN "running"
                              ELSE IF t \in linked THEN "waiting"
                              ELSE "woken"]

Contract == INSTANCE FutexContract WITH waiters <- waitersOf,
                                        status <- statusOf,
                                        deadline <- timed

(***************************************************************************)
(* The wait queue of sys_futex.c implements the interface of irt.h, the    *)
(* results of the calls included, but for ResumeLate of the contract: a    *)
(* futex_wake frees exactly the smaller of nwake and the number of waiters *)
(* of its address and returns how many; nobody who was woken is refused or *)
(* counted again; and ETIMEDOUT is returned only to a call with an abstime *)
(* (but, against irt.h, also to one that a futex_wake has freed).          *)
(***************************************************************************)
ImplementsContract == Contract!Spec
=============================================================================
