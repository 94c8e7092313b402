--------------------------- MODULE FutexContract ---------------------------
(***************************************************************************)
(* What the futex interface promises to untrusted code (untrusted/irt/     *)
(* irt.h:238-271, struct nacl_irt_futex): a set of waiters per address,    *)
(* what each call returns, and no queue, condition variable or lock.  One  *)
(* action, ResumeLate, is no promise of irt.h but an exception to it.      *)
(***************************************************************************)
EXTENDS Naturals, FiniteSets

CONSTANTS Thread, Addr, Word, NWake

VARIABLES
  mem,      \* the words of untrusted memory
  waiters,  \* the threads that futex_wake on an address can wake
  status,   \* where each thread is in futex_wait_abs
  deadline, \* the thread's current futex_wait_abs was given an abstime
  result,   \* what each thread's last futex_wait_abs returned
  wake      \* the nwake and the result of the last futex_wake

contractVars == <<mem, waiters, status, deadline, result, wake>>

Init ==
  /\ mem \in [Addr -> Word]
  /\ waiters = [a \in Addr |-> {}]
  /\ status = [t \in Thread |-> "running"]
  /\ deadline = [t \in Thread |-> FALSE]
  /\ result = [t \in Thread |-> "none"]
  /\ wake = [nwake |-> 0, woken_count |-> 0]

Answers(t, r) == result' = [result EXCEPT ![t] = r]

(* "If *addr still contains value, futex_wait_abs() waits to be woken". *)
Wait(t, a, value, hasAbstime) ==
  /\ status[t] = "running"
  /\ mem[a] = value
  /\ waiters' = [waiters EXCEPT ![a] = @ \cup {t}]
  /\ status' = [status EXCEPT ![t] = "waiting"]
  /\ deadline' = [deadline EXCEPT ![t] = hasAbstime]
  /\ Answers(t, "none")
  /\ UNCHANGED <<mem, wake>>

(* "Otherwise, it immediately returns EAGAIN". *)
Refuse(t, a, value) ==
  /\ status[t] = "running"
  /\ mem[a] # value
  /\ Answers(t, "EWOULDBLOCK")
  /\ UNCHANGED <<mem, waiters, status, deadline, wake>>

(* An argument that cannot be read, of which irt.h does not speak. *)
Fault(t) ==
  /\ status[t] = "running"
  /\ Answers(t, "EFAULT")
  /\ UNCHANGED <<mem, waiters, status, deadline, wake>>

(* "nwake is the maximum number of threads that will be woken up". *)
Wake(a, nwake) ==
  /\ \E W \in SUBSET waiters[a] :
       /\ \/ Cardinality(W) = nwake
          \/ Cardinality(W) < nwake /\ W = waiters[a]
       /\ waiters' = [waiters EXCEPT ![a] = @ \ W]
       /\ status' = [t \in Thread |-> IF t \in W THEN "woken" ELSE status[t]]
       /\ wake' = [nwake |-> nwake, woken_count |-> Cardinality(W)]
  /\ UNCHANGED <<mem, deadline, result>>

Leave(t, r) ==
  /\ status' = [status EXCEPT ![t] = "running"]
  /\ deadline' = [deadline EXCEPT ![t] = FALSE]
  /\ Answers(t, r)
  /\ UNCHANGED <<mem, wake>>

(***************************************************************************)
(* Nobody woke it: "If abstime is non-NULL and the time specified by       *)
(* abstime passes, this returns ETIMEDOUT"; or the wait ends spuriously.   *)
(***************************************************************************)
GiveUp(t) ==
  /\ status[t] = "waiting"
  /\ waiters' = [a \in Addr |-> waiters[a] \ {t}]
  /\ \/ Leave(t, "OK")
     \/ deadline[t] /\ Leave(t, "ETIMEDOUT")

(* "If woken by another thread, it returns 0". *)
Resume(t) ==
  /\ status[t] = "woken"
  /\ UNCHANGED waiters
  /\ Leave(t, "OK")

(***************************************************************************)
(* The exception, against irt.h:249-250: a thread that was given an        *)
(* abstime and has been woken, and counted as woken, returns ETIMEDOUT if  *)
(* its time had passed when the futex_wake came (sys_futex.c:99-114).      *)
(***************************************************************************)
ResumeLate(t) ==
  /\ status[t] = "woken"
  /\ deadline[t]
  /\ UNCHANGED waiters
  /\ Leave(t, "ETIMEDOUT")

Store(a, value) ==
  /\ mem' = [mem EXCEPT ![a] = value]
  /\ UNCHANGED <<waiters, status, deadline, result, wake>>

Next ==
  \/ \E t \in Thread :
       \/ \E a \in Addr, value \in Word, b \in BOOLEAN : Wait(t, a, value, b)
       \/ \E a \in Addr, value \in Word : Refuse(t, a, value)
       \/ Fault(t)
       \/ GiveUp(t)
       \/ Resume(t)
       \/ ResumeLate(t)
  \/ \E a \in Addr, nwake \in NWake : Wake(a, nwake)
  \/ \E a \in Addr, value \in Word : Store(a, value)

Spec == Init /\ [][Next]_contractVars
=============================================================================
