------------------------------- MODULE NcOnce -------------------------------
(***************************************************************************)
(* pthread_once of untrusted/pthread/nc_mutex.c, over the mutex of NcMutex *)
(* (the lock of the once_control, a fast mutex).                           *)
(***************************************************************************)
EXTENDS NcMutex

ASSUME OnceAssumption == "lock" \in LockKind

VARIABLES
  done,   \* of the once_control
  opc,    \* where each thread is in pthread_once
  inits   \* history: how often init_routine has returned

onceVars == <<done, opc, inits>>
onceAllVars == <<vars, onceVars>>

(* PTHREAD_ONCE_INIT *)
OnceInit ==
  /\ MutexInit
  /\ mutex_type = "FAST"
  /\ done = 0
  /\ opc = [t \in Thread |-> "out"]
  /\ inits = 0

OnceGoto(t, where) == opc' = [opc EXCEPT ![t] = where]

(* The unlocked check of *pdone. *)
OnceFast(t) ==
  /\ opc[t] = "out"
  /\ IF done = 0 THEN OnceGoto(t, "locking") /\ MutexLock(t, "lock")
                 ELSE OnceGoto(t, "returned") /\ UNCHANGED vars
  /\ UNCHANGED <<done, inits>>

(* pthread_mutex_lock has returned. *)
Locked(t) == opc[t] = "locking" /\ pc[t] = "idle" /\ holds[t] > 0

(* Bug: *pdone is not looked at again with the lock held. *)
OnceCheck_Never(t) ==
  /\ Locked(t)
  /\ OnceGoto(t, "init")
  /\ UNCHANGED <<vars, done, inits>>

(* Bug: *pdone is set before init_routine is called. *)
OnceCheck_SetsDone(t) ==
  /\ Locked(t)
  /\ OnceGoto(t, IF done = 0 THEN "init" ELSE "unlock")
  /\ done' = 1
  /\ UNCHANGED <<vars, inits>>

(* Bug: a thread that finds it done returns without unlocking. *)
OnceCheck_KeepsLock(t) ==
  /\ Locked(t)
  /\ OnceGoto(t, IF done = 0 THEN "init" ELSE "returned")
  /\ UNCHANGED <<vars, done, inits>>

(* The second check. *)
OnceCheck(t) ==
  /\ Locked(t)
  /\ OnceGoto(t, IF done = 0 THEN "init" ELSE "unlock")
  /\ UNCHANGED <<vars, done, inits>>

InitRoutineReturns(t) ==
  /\ opc[t] = "init"
  /\ inits' = inits + 1
  /\ OnceGoto(t, "add")
  /\ UNCHANGED <<vars, done>>

OnceAdd(t) ==
  /\ opc[t] = "add"
  /\ done' = done + 1
  /\ OnceGoto(t, "unlock")
  /\ UNCHANGED <<vars, inits>>

OnceUnlock(t) ==
  \/ /\ opc[t] = "unlock"
     /\ MutexUnlock(t)
     /\ OnceGoto(t, "unlocking")
     /\ UNCHANGED <<done, inits>>
  \/ /\ opc[t] = "unlocking" /\ pc[t] = "idle"
     /\ OnceGoto(t, "returned")
     /\ UNCHANGED <<vars, done, inits>>

OnceStep(t) ==
  \/ OnceCheck(t) \/ InitRoutineReturns(t) \/ OnceAdd(t) \/ OnceUnlock(t)
  \/ LibraryStep(t) /\ UNCHANGED onceVars

OnceNext ==
  \E t \in Thread :
    OnceFast(t) \/ OnceStep(t) \/ (HostStep(t) /\ UNCHANGED onceVars)

OnceSpec == OnceInit /\ [][OnceNext]_onceAllVars

(* Threads inside pthread_once are scheduled, and init_routine returns. *)
OnceFairSpec == OnceSpec /\ \A t \in Thread : WF_onceAllVars(OnceStep(t))

-----------------------------------------------------------------------------
(***************************************************************************)
(* The "initialization code is executed at most once" (pthread.h:671), and *)
(* not by two threads at the same time.                                    *)
(***************************************************************************)
AtMostOneInit == inits + Cardinality({t \in Thread : opc[t] = "init"}) <= 1

(***************************************************************************)
(* Nobody returns from pthread_once before init_routine has returned: not  *)
(* even a caller that takes no lock (nc_mutex.c:253-268).                  *)
(***************************************************************************)
NobodyReturnsEarly == \A t \in Thread : opc[t] = "returned" => inits = 1

(* Every caller returns, whoever ran init_routine and whoever had to wait. *)
OnceReturns == \A t \in Thread : opc[t] # "out" ~> opc[t] = "returned"
=============================================================================
