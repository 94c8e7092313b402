----------------------------- MODULE FutexQueue -----------------------------
(***************************************************************************)
(* The futex wait queue of the service runtime: NaClSysFutexWaitAbs and    *)
(* NaClSysFutexWake (service_runtime/sys_futex.c) over the condition       *)
(* variable and mutex of shared/platform/posix.                            *)
(*                                                                         *)
(* Everything either system call does happens while it holds               *)
(* nap->futex_wait_list_mu, except being blocked in the condition          *)
(* variable, so the critical sections are atomic actions and the places    *)
(* where the lock is not held are the states of cond[t].  The waits on     *)
(* the lock itself are not states: a thread whose condition variable has   *)
(* returned ("woken" or "timedout" below) but that has not yet got the     *)
(* lock back can be overtaken by any number of system calls of others.     *)
(***************************************************************************)
EXTENDS Naturals, FiniteSets

CONSTANTS
  Thread,     \* the NaClAppThreads
  Addr,       \* untrusted addresses a futex call may name
  Readable,   \* those that NaClCopyInFromUser can read
  Word,       \* values of a 32-bit word of untrusted memory
  NoAddr      \* futex_wait_addr of a thread that waits on nothing (0)

ASSUME FutexAssumption ==
  /\ IsFiniteSet(Thread)
  /\ Readable \subseteq Addr
  /\ NoAddr \notin Addr

VARIABLES
  mem,              \* the words of untrusted memory
  linked,           \* threads whose futex_wait_list_node is on the list
  ahead,            \* ahead[t]: the threads in front of t on the list
  futex_wait_addr,  \* NaClAppThread.futex_wait_addr
  cond,             \* where t is with respect to its futex_condvar
  timed             \* t's current wait was given an abstime

queueVars == <<linked, ahead, futex_wait_addr, cond, timed>>

(***************************************************************************)
(* "out": not in NaClCondVarWait.  "waiting": asleep in it.  "woken": it   *)
(* is about to return NACL_SYNC_OK once it has the mutex back.             *)
(* "timedout": the same with NACL_SYNC_CONDVAR_TIMEDOUT.                   *)
(***************************************************************************)
CondState == {"out", "waiting", "woken", "timedout"}

QueueTypeOK ==
  /\ mem \in [Addr -> Word]
  /\ linked \in SUBSET Thread
  /\ ahead \in [Thread -> SUBSET Thread]
  /\ futex_wait_addr \in [Thread -> Addr \cup {NoAddr}]
  /\ cond \in [Thread -> CondState]
  /\ timed \in [Thread -> BOOLEAN]

QueueInit ==
  /\ linked = {}
  /\ ahead = [t \in Thread |-> {}]
  /\ futex_wait_addr = [t \in Thread |-> NoAddr]
  /\ cond = [t \in Thread |-> "out"]
  /\ timed = [t \in Thread |-> FALSE]

-----------------------------------------------------------------------------
(* ListAddNodeAtEnd and ListRemoveNode, on a set of nodes. *)

ListAddNodeAtEnd(t) ==
  /\ linked' = linked \cup {t}
  /\ ahead' = [ahead EXCEPT ![t] = linked]

ListRemoveNodes(S) ==
  /\ linked' = linked \ S
  /\ ahead' = [u \in Thread |-> IF u \in S THEN {} ELSE ahead[u] \ S]

(***************************************************************************)
(* NaClSysFutexWaitAbs when the word no longer holds the value that the    *)
(* caller saw: it returns EWOULDBLOCK and changes nothing.                 *)
(***************************************************************************)
FutexWaitMismatch(t, a, value) ==
  /\ cond[t] = "out"
  /\ a \in Readable
  /\ mem[a] # value
  /\ UNCHANGED queueVars

(* NaClSysFutexWaitAbs when it does: join the list and sleep. *)
FutexWaitSleep(t, a, value, hasAbstime) ==
  /\ cond[t] = "out"
  /\ a \in Readable
  /\ mem[a] = value
  /\ futex_wait_addr' = [futex_wait_addr EXCEPT ![t] = a]
  /\ ListAddNodeAtEnd(t)
  /\ cond' = [cond EXCEPT ![t] = "waiting"]
  /\ timed' = [timed EXCEPT ![t] = hasAbstime]

(* pthread_cond_timedwait gives up; it has not got the mutex back yet. *)
CondTimeout(t) ==
  /\ cond[t] = "waiting"
  /\ timed[t]
  /\ cond' = [cond EXCEPT ![t] = "timedout"]
  /\ UNCHANGED <<linked, ahead, futex_wait_addr, timed>>

(* pthread_cond_wait returns with nobody having signalled. *)
CondSpurious(t) ==
  /\ cond[t] = "waiting"
  /\ cond' = [cond EXCEPT ![t] = "woken"]
  /\ UNCHANGED <<linked, ahead, futex_wait_addr, timed>>

(***************************************************************************)
(* The rest of NaClSysFutexWaitAbs, with the mutex held again.  A thread   *)
(* that a futex_wake has unlinked finds next == NULL and unlinks nothing.  *)
(***************************************************************************)
FutexWaitReturn(t) ==
  /\ cond[t] \in {"woken", "timedout"}
  /\ ListRemoveNodes({t})
  /\ futex_wait_addr' = [futex_wait_addr EXCEPT ![t] = NoAddr]
  /\ cond' = [cond EXCEPT ![t] = "out"]
  /\ timed' = [timed EXCEPT ![t] = FALSE]

(* What FutexWaitReturn returns: NaClXlateNaClSyncStatus(sync_status). *)
WaitResult(t) == IF cond[t] = "timedout" THEN "ETIMEDOUT" ELSE "OK"

(* Bug: the last nwake threads that wait on a. *)
Woken_Lifo(a, nwake) ==
  LET onAddr == {t \in linked : futex_wait_addr[t] = a}
  IN  {t \in onAddr : Cardinality({u \in onAddr : t \in ahead[u]}) < nwake}

(* Bug: nwake is counted down past zero. *)
Woken_OneMore(a, nwake) ==
  LET onAddr == {t \in linked : futex_wait_addr[t] = a}
  IN  {t \in onAddr : Cardinality(ahead[t] \cap onAddr) <= nwake}

(* The first nwake threads of the list that wait on a. *)
Woken(a, nwake) ==
  LET onAddr == {t \in linked : futex_wait_addr[t] = a}
  IN  {t \in onAddr : Cardinality(ahead[t] \cap onAddr) < nwake}

(* Bug: the threads are unlinked and counted but not signalled. *)
FutexWake_NoSignal(a, nwake) ==
  LET W == Woken(a, nwake)
  IN  /\ ListRemoveNodes(W)
      /\ futex_wait_addr' =
           [t \in Thread |-> IF t \in W THEN NoAddr ELSE futex_wait_addr[t]]
      /\ UNCHANGED <<cond, timed>>

(***************************************************************************)
(* NaClSysFutexWake.  Signalling a condition variable whose thread is no   *)
(* longer asleep in it has no effect.                                      *)
(***************************************************************************)
FutexWake(a, nwake) ==
  LET W == Woken(a, nwake)
  IN  /\ ListRemoveNodes(W)
      /\ futex_wait_addr' =
           [t \in Thread |-> IF t \in W THEN NoAddr ELSE futex_wait_addr[t]]
      /\ cond' = [t \in Thread |-> IF t \in W /\ cond[t] = "waiting"
                                   THEN "woken" ELSE cond[t]]
      /\ UNCHANGED timed

-----------------------------------------------------------------------------
(***************************************************************************)
(* futex_wait_addr and the list say the same thing, and only a thread      *)
(* inside the system call is on the list: a wake never signals a thread    *)
(* that left (sys_futex.c:104-114, 136-145).                               *)
(***************************************************************************)
ListMatchesAddr ==
  /\ linked = {t \in Thread : futex_wait_addr[t] # NoAddr}
  /\ \A t \in linked : cond[t] # "out"

(***************************************************************************)
(* A thread asleep in its condition variable is on the list.  Off the list *)
(* no futex_wake could ever find it (sys_futex.c:91-101, 136-147).         *)
(***************************************************************************)
SleeperIsLinked ==
  \A t \in Thread : cond[t] = "waiting" => t \in linked

(***************************************************************************)
(* The list nodes form one queue: the order of any two is decided, and     *)
(* unlinking a node, from whichever side, leaves no trace of it            *)
(* (ListAddNodeAtEnd and ListRemoveNode, sys_futex.c:37-48).               *)
(***************************************************************************)
ListIsAQueue ==
  /\ \A t \in Thread : ahead[t] \subseteq linked \ {t}
  /\ \A t \in Thread \ linked : ahead[t] = {}
  /\ \A t, u \in linked : t # u => (t \in ahead[u] <=> u \notin ahead[t])
  /\ \A t, u \in linked : t \in ahead[u] => ahead[t] \subseteq ahead[u]

QueueInv ==
  /\ QueueTypeOK
  /\ ListMatchesAddr
  /\ SleeperIsLinked
  /\ ListIsAQueue
=============================================================================
