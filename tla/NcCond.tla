------------------------------- MODULE NcCond -------------------------------
(***************************************************************************)
(* pthread_cond_t of untrusted/pthread/nc_condvar.c, over the mutex of     *)
(* NcMutex and the futexes of the service runtime, in the program that     *)
(* condition variables are for: producers add a token under the mutex and  *)
(* signal, consumers wait until there is one.  While a thread is in        *)
(* pthread_cond_wait, pc says where it is in the mutex and cpc where in    *)
(* the condition variable.                                                 *)
(***************************************************************************)
EXTENDS NcMutex

CONSTANTS
  sequence_number,  \* the address of the condition variable's only word
  Producer,         \* the threads that add tokens; the others consume
  SeqMod            \* bound: where sequence_number wraps (2^32 in the code)

ASSUME CondAssumption ==
  /\ sequence_number \in Readable \ {mutex_state}
  /\ SeqMod \in Nat \ {0, 1} /\ 0..(SeqMod - 1) \subseteq Word
  /\ "lock" \in LockKind
  /\ Producer \subseteq Thread

Consumer == Thread \ Producer

VARIABLES
  cpc,     \* the condition variable call each thread is in
  seen,    \* old_value of pthread_cond_timedwait_abs
  tokens   \* what the mutex guards: the condition is tokens > 0

condVars == <<cpc, seen, tokens>>
allVars == <<vars, condVars>>

(***************************************************************************)
(* The values of cpc.  "out": in no call; a consumer at "out" that holds   *)
(* the mutex is at its while (tokens == 0).  "wait": about to call         *)
(* futex_wait_abs once the mutex is released.  "dirty": has added a token  *)
(* and not yet signalled.  "pulsed": between the increment and futex_wake. *)
(* "done": only has to release the mutex.                                  *)
(***************************************************************************)
CondInit ==
  /\ MutexInit
  /\ cpc = [t \in Thread |-> "out"]
  /\ seen = [t \in Thread |-> 0]
  /\ tokens = 0

CGoto(t, label) == cpc' = [cpc EXCEPT ![t] = label]

-----------------------------------------------------------------------------
(***************************************************************************)
(* pthread_cond_timedwait_abs up to the release of the mutex, which frees  *)
(* it only for a caller that has it once.                                  *)
(***************************************************************************)
CondWait(t) ==
  /\ t \in Consumer /\ cpc[t] = "out" /\ holds[t] = 1 /\ pc[t] = "idle"
  /\ tokens = 0
  /\ seen' = [seen EXCEPT ![t] = mem[sequence_number]]
  /\ CGoto(t, "wait")
  /\ MutexUnlock(t)
  /\ UNCHANGED tokens

(* pthread_mutex_lock at the end of pthread_cond_timedwait_abs. *)
Relock(t) ==
  /\ CGoto(t, "out")
  /\ seen' = [seen EXCEPT ![t] = 0]
  /\ Goto(t, "cas")
  /\ kind' = [kind EXCEPT ![t] = "lock"]

(* Bug: the sequence number is read after the mutex has been released. *)
CondFutexWait_LateRead(t) ==
  /\ cpc[t] = "wait" /\ pc[t] = "idle"
  /\ \E hasAbstime \in BOOLEAN :
       FutexWaitSleep(t, sequence_number, mem[sequence_number], hasAbstime)
  /\ CGoto(t, "asleep")
  /\ UNCHANGED <<mem, mutexVars, seen, tokens>>

(* Its call of futex_wait_abs, with or without an abstime. *)
CondFutexWait(t) ==
  /\ cpc[t] = "wait" /\ pc[t] = "idle"
  /\ \/ /\ FutexWaitMismatch(t, sequence_number, seen[t])
        /\ Relock(t)
     \/ /\ \E hasAbstime \in BOOLEAN :
             FutexWaitSleep(t, sequence_number, seen[t], hasAbstime)
        /\ CGoto(t, "asleep")
        /\ UNCHANGED <<pc, kind, seen>>
  /\ UNCHANGED <<mem, mutexFields, holds, calls, tokens>>

CondAwake(t) ==
  /\ cpc[t] = "asleep"
  /\ FutexWaitReturn(t)
  /\ Relock(t)
  /\ UNCHANGED <<mem, mutexFields, holds, calls, tokens>>

(* pulse: the increment that makes late futex_wait_abs calls return... *)
PulseAdd(t) ==
  /\ cpc[t] = "dirty" /\ pc[t] = "idle"
  /\ mem' = [mem EXCEPT ![sequence_number] = (@ + 1) % SeqMod]
  /\ CGoto(t, "pulsed")
  /\ UNCHANGED <<queueVars, mutexVars, seen, tokens>>

(* Bug: pthread_cond_signal stops after the increment. *)
PulseWake_Nobody(t) ==
  /\ cpc[t] = "pulsed" /\ pc[t] = "idle"
  /\ CGoto(t, IF holds[t] > 0 THEN "done" ELSE "out")
  /\ UNCHANGED <<vars, seen, tokens>>

(* ... and the futex_wake: of one for a signal, of all for a broadcast. *)
PulseWake(t) ==
  /\ cpc[t] = "pulsed" /\ pc[t] = "idle"
  /\ \E count \in {1, Cardinality(Thread)} : FutexWake(sequence_number, count)
  /\ CGoto(t, IF holds[t] > 0 THEN "done" ELSE "out")
  /\ UNCHANGED <<mem, mutexVars, seen, tokens>>

CondStep(t) ==
  CondFutexWait(t) \/ CondAwake(t) \/ PulseAdd(t) \/ PulseWake(t)

-----------------------------------------------------------------------------
(* The program.  A producer may signal before or after it unlocks. *)

ClientLock(t) ==
  /\ cpc[t] = "out"
  /\ \E k \in LockKind : MutexLock(t, k)
  /\ UNCHANGED condVars

Put(t) ==
  /\ t \in Producer /\ pc[t] = "idle" /\ cpc[t] = "out" /\ holds[t] > 0
  /\ tokens' = tokens + 1
  /\ CGoto(t, "dirty")
  /\ UNCHANGED <<vars, seen>>

Take(t) ==
  /\ t \in Consumer /\ pc[t] = "idle" /\ cpc[t] = "out" /\ holds[t] > 0
  /\ tokens > 0
  /\ tokens' = tokens - 1
  /\ CGoto(t, "done")
  /\ UNCHANGED <<vars, seen>>

ClientUnlock(t) ==
  /\ MutexUnlock(t)
  /\ \/ cpc[t] = "dirty" /\ UNCHANGED cpc
     \/ cpc[t] = "done" /\ CGoto(t, "out")
     \/ cpc[t] = "out" /\ t \in Consumer /\ tokens = 0 /\ UNCHANGED cpc
  /\ UNCHANGED <<seen, tokens>>

(* What a thread does that is not free to stop. *)
Work(t) ==
  \/ LibraryStep(t) /\ UNCHANGED condVars
  \/ CondStep(t)
  \/ CondWait(t)
  \/ Put(t) \/ Take(t) \/ ClientUnlock(t)

CondNext ==
  \E t \in Thread :
    \/ ClientLock(t)
    \/ Work(t)
    \/ HostStep(t) /\ UNCHANGED condVars

CondSpec == CondInit /\ [][CondNext]_allVars

(* Threads inside the library or holding the mutex are scheduled. *)
CondFairSpec == CondSpec /\ \A t \in Thread : WF_allVars(Work(t))

-----------------------------------------------------------------------------
OnCond(t) == cpc[t] = "asleep" /\ cond[t] = "waiting"

(* Consumers that will look at tokens again before they sleep. *)
WillLook ==
  {t \in Consumer : \/ cpc[t] = "asleep" /\ cond[t] # "waiting"
                    \/ cpc[t] = "wait" /\ seen[t] # mem[sequence_number]
                    \/ cpc[t] = "out" /\ (pc[t] # "idle" \/ holds[t] > 0)}

(***************************************************************************)
(* While a consumer sleeps, every token is accounted for: by a producer    *)
(* that has still to signal it, or by a consumer that is on its way to     *)
(* look for one (nc_condvar.c:56-66, 84-96).                               *)
(***************************************************************************)
NoLostSignal ==
  (\E t \in Consumer : OnCond(t))
    => tokens <= Cardinality(WillLook)
                 + Cardinality({t \in Producer : cpc[t] \in {"dirty", "pulsed"}})

(***************************************************************************)
(* No consumer sleeps for ever while there is a token ("Wake up one thread *)
(* waiting for condition variable COND", nc_condvar.c:69).                 *)
(***************************************************************************)
SleeperIsServed ==
  \A t \in Consumer : OnCond(t) /\ tokens > 0 ~> ~OnCond(t) \/ tokens = 0
=============================================================================
