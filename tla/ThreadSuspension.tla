-------------------------- MODULE ThreadSuspension --------------------------
(***************************************************************************)
(* Suspension of untrusted threads on Linux: linux/thread_suspension.c,    *)
(* thread_suspension_common.c, the thread table of nacl_app_thread.c and   *)
(* the debug stub's use of them (debug_stub/target.cc, thread_common.cc).  *)
(*                                                                         *)
(* A host thread is at pc in its ordinary code; the Linux signal handlers  *)
(* run on top of it, at handler.  suspend_state is a host futex on which   *)
(* the thread itself and the controller may both sleep.                    *)
(***************************************************************************)
EXTENDS Naturals, FiniteSets

CONSTANTS
  Thread,    \* host threads that run untrusted code
  Reg,       \* untrusted register states
  NoThread,
  NULL,      \* the NULL of suspended_registers
  Garbage,   \* the contents of a fresh malloc
  Trusted,   \* a register state inside trusted code
  Save       \* the values callers give save_registers

ASSUME SuspensionAssumption ==
  /\ IsFiniteSet(Thread)
  /\ NoThread \notin Thread
  /\ Reg # {}
  /\ Save \subseteq BOOLEAN
  /\ Cardinality({NULL, Garbage, Trusted}) = 3
  /\ {NULL, Garbage, Trusted} \cap Reg = {}

UNTRUSTED == "UNTRUSTED"
TRUSTED == "TRUSTED"
SUSPENDING == "SUSPENDING"
SUSPENDED == "SUSPENDED"

VARIABLES
  natp,                 \* the struct NaClAppThread of each thread
  threads,              \* the thread table of the NaClApp
  threads_mu,           \* the controller holds it (others: within one step)
  faulted_thread_count,
  host,                 \* each host thread: position, locals, registers
  pending,              \* a suspend signal is pending
  waiters,              \* who sleeps in FutexWait on the thread's state
  stub, todo, cur,      \* the controller: position, threads left, current
  save,                 \* save_registers of this suspension
  report,               \* who may be the fault that the stub is to report
  sig,                  \* sig_thread_
  step,                 \* step_over_breakpoint_thread_
  context               \* context_ of the stub's thread objects

appVars == <<threads, threads_mu, faulted_thread_count>>
kernelVars == <<pending, waiters>>
stopVars == <<report, sig, step, context>>
stubVars == <<stub, todo, cur, save, stopVars>>
vars == <<natp, appVars, host, kernelVars, stubVars>>

State == SUBSET {UNTRUSTED, TRUSTED, SUSPENDING, SUSPENDED}

Natp == [suspend_state : State,
         suspended_registers : Reg \cup {NULL, Garbage, Trusted},
         fault_signal : BOOLEAN]

(***************************************************************************)
(* seen and hseen are the locals `state' of NaClAppThreadSetSuspendState   *)
(* and of HandleSuspendSignal; snapshot says that the handler's local      *)
(* suspended_registers is not NULL; in_fault that HandleUntrustedFault is  *)
(* on the signal stack.                                                    *)
(***************************************************************************)
Host == [pc : {"none", "launch", "syscall", "enter", "enterWait",
               "untrusted", "leave", "leaveWait"},
         handler : {"none", "fault", "count", "sigwait", "entry", "mark",
                    "marked", "wake", "poll", "wait", "apply"},
         in_fault : BOOLEAN, snapshot : BOOLEAN,
         seen : State, hseen : State, regs : Reg \cup {Trusted}]

(* The variables keep their types; a register set read back by the stub is *)
(* always one of untrusted code, never uninitialised memory.               *)
SuspensionTypeOK ==
  /\ natp \in [Thread -> Natp]
  /\ threads \subseteq Thread
  /\ threads_mu \in BOOLEAN
  /\ faulted_thread_count \in 0..Cardinality(Thread)
  /\ host \in [Thread -> Host]
  /\ pending \in [Thread -> BOOLEAN]
  /\ waiters \in [Thread -> SUBSET {"self", "stub"}]
  /\ stub \in {"idle", "suspend", "kill", "await", "wait", "unqueue", "held",
               "resume", "wake", "stepping"}
  /\ todo \subseteq threads
  /\ cur \in Thread \cup {NoThread}
  /\ save \in BOOLEAN
  /\ report \subseteq Thread
  /\ sig \in Thread \cup {NoThread}
  /\ step \in Thread \cup {NoThread}
  /\ context \in [Thread -> Reg \cup {NULL}]

FreshNatp == [suspend_state |-> {TRUSTED}, suspended_registers |-> NULL,
              fault_signal |-> FALSE]

(* Locals are reset where they go out of use. *)
FreshHost == [pc |-> "none", handler |-> "none", in_fault |-> FALSE,
              snapshot |-> FALSE, seen |-> {}, hseen |-> {}, regs |-> Trusted]

Init ==
  /\ natp = [t \in Thread |-> FreshNatp]
  /\ threads = {}
  /\ threads_mu = FALSE
  /\ faulted_thread_count = 0
  /\ host = [t \in Thread |-> FreshHost]
  /\ pending = [t \in Thread |-> FALSE]
  /\ waiters = [t \in Thread |-> {}]
  /\ stub = "idle"
  /\ todo = {}
  /\ cur = NoThread
  /\ save = FALSE
  /\ report = {}
  /\ sig = NoThread
  /\ step = NoThread
  /\ context = [t \in Thread |-> NULL]

(***************************************************************************)
(* The host futex.  FutexWait compares and enqueues in one kernel step;    *)
(* FutexWake(addr, 1) wakes one sleeper, any of them.                      *)
(***************************************************************************)
FutexWait(t, who, value) ==
  waiters' = IF natp[t].suspend_state = value
             THEN [waiters EXCEPT ![t] = @ \cup {who}] ELSE waiters

FutexWake(t) ==
  \/ waiters[t] = {} /\ UNCHANGED waiters
  \/ \E who \in waiters[t] : waiters' = [waiters EXCEPT ![t] = @ \ {who}]

(* The bits of t change to value. *)
SetState(t, value) == natp' = [natp EXCEPT ![t].suspend_state = value]

(* t is in its own code, with no signal handler on top and not asleep. *)
At(t, where) ==
  /\ host[t].pc = where
  /\ host[t].handler = "none"
  /\ "self" \notin waiters[t]

Goto(t, where) == host' = [host EXCEPT ![t].pc = where]

InHandler(t, where) == host[t].handler = where /\ "self" \notin waiters[t]

HandlerGoto(t, where) == host' = [host EXCEPT ![t].handler = where]

-----------------------------------------------------------------------------
(***************************************************************************)
(* The life of a thread.  The launcher enters the new natp in the table    *)
(* under threads_mu; thread_exit removes it under threads_mu and frees it, *)
(* and the next thread of the same name has a new natp.                    *)
(***************************************************************************)
AppThreadSpawn(t) ==
  /\ host[t].pc = "none"
  /\ Goto(t, "launch")
  /\ UNCHANGED <<natp, appVars, kernelVars, stubVars>>

AppThreadLauncher(t) ==
  /\ At(t, "launch")
  /\ ~threads_mu
  /\ threads' = threads \cup {t}
  /\ Goto(t, "enter")
  /\ UNCHANGED <<natp, threads_mu, faulted_thread_count, kernelVars, stubVars>>

AppThreadTeardown(t) ==
  /\ At(t, "syscall")
  /\ ~threads_mu
  /\ threads' = threads \ {t}
  /\ natp' = [natp EXCEPT ![t] = FreshNatp]
  /\ Goto(t, "none")
  /\ UNCHANGED <<threads_mu, faulted_thread_count, kernelVars, stubVars>>

SyscallReturns(t) ==
  /\ At(t, "syscall")
  /\ Goto(t, "enter")
  /\ UNCHANGED <<natp, appVars, kernelVars, stubVars>>

(* Untrusted code goes on with registers of its own. *)
Reach(t, where) ==
  \E r \in IF where = "untrusted" THEN Reg ELSE {Trusted} :
    host' = [host EXCEPT ![t].pc = where, ![t].regs = r]

(* Bug: a plain store in place of the compare-and-swap. *)
SetSuspendState_Store(t, loop, wait, old_state, new_state, done) ==
  /\ At(t, loop)
  /\ SetState(t, {new_state})
  /\ Reach(t, done)
  /\ UNCHANGED <<appVars, kernelVars, stubVars>>

(***************************************************************************)
(* NaClAppThreadSetSuspendState: a compare-and-swap; when the controller   *)
(* has set SUSPENDING, sleep until it clears it and try again.             *)
(***************************************************************************)
SetSuspendState(t, loop, wait, old_state, new_state, done) ==
  LET state == natp[t].suspend_state IN
  /\ At(t, loop)
  /\ \/ /\ state = {old_state}
        /\ SetState(t, {new_state})
        /\ Reach(t, done)
     \/ /\ state # {old_state}
        /\ SUSPENDING \in state
        /\ host' = [host EXCEPT ![t].pc = wait, ![t].seen = state]
        /\ UNCHANGED natp
  /\ UNCHANGED <<appVars, kernelVars, stubVars>>

SetSuspendWait(t, wait, loop) ==
  /\ At(t, wait)
  /\ FutexWait(t, "self", host[t].seen)
  /\ host' = [host EXCEPT ![t].pc = loop, ![t].seen = {}]
  /\ UNCHANGED <<natp, appVars, pending, stubVars>>

EnterUntrusted(t) ==
  \/ SetSuspendState(t, "enter", "enterWait", TRUSTED, UNTRUSTED, "untrusted")
  \/ SetSuspendWait(t, "enterWait", "enter")

LeaveUntrusted(t) ==
  \/ SetSuspendState(t, "leave", "leaveWait", UNTRUSTED, TRUSTED, "syscall")
  \/ SetSuspendWait(t, "leaveWait", "leave")

(***************************************************************************)
(* Untrusted code computes, calls the runtime or faults.  A thread that    *)
(* the debugger single-steps runs one instruction and traps.               *)
(***************************************************************************)
Compute(t) ==
  /\ At(t, "untrusted")
  /\ \E r \in Reg : host' = [host EXCEPT ![t].regs = r]
  /\ UNCHANGED <<natp, appVars, kernelVars, stubVars>>

Syscall(t) ==
  /\ At(t, "untrusted")
  /\ step # t
  /\ Reach(t, "leave")
  /\ UNCHANGED <<natp, appVars, kernelVars, stubVars>>

Fault(t) ==
  /\ At(t, "untrusted")
  /\ host' = [host EXCEPT ![t].handler = "fault", ![t].in_fault = TRUE]
  /\ UNCHANGED <<natp, appVars, kernelVars, stubVars>>

-----------------------------------------------------------------------------
(***************************************************************************)
(* The signal handlers.  Every signal the runtime catches is masked while  *)
(* one of its handlers runs, so a pending suspend signal is delivered      *)
(* outside of them, or taken by the sigwait of HandleUntrustedFault.  A    *)
(* signal interrupts FutexWait (EINTR).                                    *)
(***************************************************************************)
Deliver(t) ==
  /\ pending[t]
  /\ host[t].handler = "none"
  /\ pending' = [pending EXCEPT ![t] = FALSE]
  /\ waiters' = [waiters EXCEPT ![t] = @ \ {"self"}]
  /\ HandlerGoto(t, "entry")
  /\ UNCHANGED <<natp, appVars, stubVars>>

(* HandleUntrustedFault: mark the thread, count it, wait for the signal. *)
FaultSignal(t) ==
  /\ InHandler(t, "fault")
  /\ UNTRUSTED \in natp[t].suspend_state
  /\ natp' = [natp EXCEPT ![t].fault_signal = TRUE]
  /\ HandlerGoto(t, "count")
  /\ UNCHANGED <<appVars, kernelVars, stubVars>>

FaultCount(t) ==
  /\ InHandler(t, "count")
  /\ faulted_thread_count' = faulted_thread_count + 1
  /\ HandlerGoto(t, "sigwait")
  /\ UNCHANGED <<natp, threads, threads_mu, kernelVars, stubVars>>

Sigwait(t) ==
  /\ InHandler(t, "sigwait")
  /\ pending[t]
  /\ pending' = [pending EXCEPT ![t] = FALSE]
  /\ HandlerGoto(t, "entry")
  /\ UNCHANGED <<natp, appVars, waiters, stubVars>>

(***************************************************************************)
(* HandleSuspendSignal.  The registers of the signal frame are those of    *)
(* untrusted code, or trusted ones when the signal hit a switch.           *)
(***************************************************************************)
HandlerSaves(t) ==
  /\ InHandler(t, "entry")
  /\ natp[t].suspend_state = {UNTRUSTED, SUSPENDING}
  /\ LET saves == natp[t].suspended_registers # NULL IN
     /\ host' = [host EXCEPT ![t].handler = "mark", ![t].snapshot = saves]
     /\ natp' = IF saves
                THEN [natp EXCEPT ![t].suspended_registers = host[t].regs]
                ELSE natp
  /\ UNCHANGED <<appVars, kernelVars, stubVars>>

(* suspend_state |= SUSPENDED is a read and a write, not an atomic step. *)
HandlerReads(t) ==
  /\ InHandler(t, "mark")
  /\ host' = [host EXCEPT ![t].handler = "marked",
                          ![t].hseen = natp[t].suspend_state]
  /\ UNCHANGED <<natp, appVars, kernelVars, stubVars>>

HandlerMarks(t) ==
  /\ InHandler(t, "marked")
  /\ SetState(t, host[t].hseen \cup {SUSPENDED})
  /\ host' = [host EXCEPT ![t].handler = "wake", ![t].hseen = {}]
  /\ UNCHANGED <<appVars, kernelVars, stubVars>>

(* Bug: SUSPENDED is set but the controller is not woken. *)
HandlerWakes_Nobody(t) ==
  /\ InHandler(t, "wake")
  /\ HandlerGoto(t, "poll")
  /\ UNCHANGED <<natp, appVars, kernelVars, stubVars>>

HandlerWakes(t) ==
  /\ InHandler(t, "wake")
  /\ FutexWake(t)
  /\ HandlerGoto(t, "poll")
  /\ UNCHANGED <<natp, appVars, pending, stubVars>>

HandlerPolls(t) ==
  LET state == natp[t].suspend_state IN
  /\ InHandler(t, "poll")
  /\ host' = IF SUSPENDED \in state
             THEN [host EXCEPT ![t].handler = "wait", ![t].hseen = state]
             ELSE [host EXCEPT ![t].handler = "apply"]
  /\ UNCHANGED <<natp, appVars, kernelVars, stubVars>>

HandlerWaits(t) ==
  /\ InHandler(t, "wait")
  /\ FutexWait(t, "self", host[t].hseen)
  /\ host' = [host EXCEPT ![t].handler = "poll", ![t].hseen = {}]
  /\ UNCHANGED <<natp, appVars, pending, stubVars>>

(* Bug: HandleUntrustedFault waits for one suspension only. *)
Outer_Once(t) == "none"

(* The position after the handler: back in sigwait until unblocked. *)
Outer(t) == IF host[t].in_fault /\ natp[t].fault_signal
            THEN "sigwait" ELSE "none"

(* The register state the thread goes on with. *)
Applied(t) ==
  IF host[t].snapshot /\ host[t].pc = "untrusted"
  THEN natp[t].suspended_registers ELSE host[t].regs

HandlerReturns(t) ==
  /\ InHandler(t, "apply")
  /\ host' = [host EXCEPT ![t].regs = Applied(t), ![t].handler = Outer(t),
                          ![t].in_fault = Outer(t) # "none",
                          ![t].snapshot = FALSE]
  /\ UNCHANGED <<natp, appVars, kernelVars, stubVars>>

HandlerStep(t) ==
  \/ Deliver(t) \/ FaultSignal(t) \/ FaultCount(t) \/ Sigwait(t)
  \/ HandlerSaves(t) \/ HandlerReads(t) \/ HandlerMarks(t) \/ HandlerWakes(t)
  \/ HandlerPolls(t) \/ HandlerWaits(t) \/ HandlerReturns(t)

-----------------------------------------------------------------------------
(***************************************************************************)
(* The controller: the debug stub, or with save = FALSE another user of    *)
(* the interface (tests/thread_suspension).  Two of them exclude each      *)
(* other: SuspendAll takes threads_mu and returns with it held, and        *)
(* ResumeAll releases it.  The stub stops the program to report a fault if *)
(* it has seen one counted; otherwise because GDB interrupts.              *)
(***************************************************************************)
SuspendAll ==
  /\ stub = "idle"
  /\ stub' = "suspend"
  /\ threads_mu' = TRUE
  /\ todo' = threads
  /\ save' \in Save
  /\ \/ report' = {}
     \/ save' /\ faulted_thread_count # 0 /\ report' = Thread
  /\ sig' = NoThread
  /\ UNCHANGED <<natp, threads, faulted_thread_count, host, kernelVars, cur,
                 step, context>>

(* NaClUntrustedThreadSuspend: a thread in trusted code only gets the bit. *)
Suspend(t) ==
  LET old_state == natp[t].suspend_state IN
  /\ stub = "suspend"
  /\ t \in todo
  /\ SetState(t, old_state \cup {SUSPENDING})
  /\ \/ /\ old_state = {UNTRUSTED}
        /\ stub' = "kill"
        /\ cur' = t
        /\ UNCHANGED <<todo, context>>
     \/ /\ old_state # {UNTRUSTED}
        /\ todo' = todo \ {t}
        /\ context' = [context EXCEPT ![t] = NULL]
        /\ UNCHANGED <<stub, cur>>
  /\ UNCHANGED <<appVars, host, kernelVars, save, report, sig, step>>

SuspendKill ==
  /\ stub = "kill"
  /\ natp' = IF save /\ natp[cur].suspended_registers = NULL
             THEN [natp EXCEPT ![cur].suspended_registers = Garbage] ELSE natp
  /\ pending' = [pending EXCEPT ![cur] = TRUE]
  /\ stub' = "await"
  /\ UNCHANGED <<appVars, host, waiters, todo, cur, save, stopVars>>

(***************************************************************************)
(* WaitForUntrustedThreadToSuspend, then CopyRegistersFromAppThread for a  *)
(* suspension that saves registers; the stub ignores later writes to the   *)
(* registers of a thread that was stopped in trusted code.                 *)
(***************************************************************************)
kBaseState == {UNTRUSTED, SUSPENDING}

SavedContext(t) ==
  IF save /\ natp[t].suspended_registers # Trusted
  THEN natp[t].suspended_registers ELSE NULL

(* cur has been suspended: go on with the next thread. *)
Suspended ==
  /\ stub' = "suspend"
  /\ todo' = todo \ {cur}
  /\ context' = [context EXCEPT ![cur] = SavedContext(cur)]
  /\ cur' = NoThread

(* Bug: pthread_kill is taken for the suspension itself. *)
SuspendAwait_NoWait ==
  /\ stub = "await"
  /\ Suspended
  /\ UNCHANGED <<natp, appVars, host, kernelVars, save, report, sig, step>>

SuspendAwait ==
  /\ stub = "await"
  /\ "stub" \notin waiters[cur]
  /\ \/ /\ natp[cur].suspend_state = kBaseState
        /\ stub' = "wait"
        /\ UNCHANGED <<todo, context, cur>>
     \/ natp[cur].suspend_state = kBaseState \cup {SUSPENDED} /\ Suspended
  /\ UNCHANGED <<natp, appVars, host, kernelVars, save, report, sig, step>>

SuspendWait ==
  /\ stub = "wait"
  /\ FutexWait(cur, "stub", kBaseState)
  /\ stub' = "await"
  /\ UNCHANGED <<natp, appVars, host, pending, todo, cur, save, stopVars>>

SuspendAllReturns ==
  /\ stub = "suspend"
  /\ todo = {}
  /\ stub' = IF report = {} THEN "held" ELSE "unqueue"
  /\ UNCHANGED <<natp, appVars, host, kernelVars, todo, cur, save, stopVars>>

(***************************************************************************)
(* UnqueueAnyFaultedThread, or UnqueueFaultedThread of the stepped one.    *)
(* Other faulted threads stay as they are, and will be reported later.     *)
(***************************************************************************)
UnqueueFaultedThread(t) ==
  /\ stub = "unqueue"
  /\ t \in report /\ natp[t].fault_signal
  /\ natp' = [natp EXCEPT ![t].fault_signal = FALSE]
  /\ faulted_thread_count' = faulted_thread_count - 1
  /\ sig' = t
  /\ report' = {}
  /\ stub' = "held"
  /\ UNCHANGED <<threads, threads_mu, host, kernelVars, todo, cur, save, step,
                 context>>

(* GDB writes registers; the stub keeps them until it resumes the thread. *)
EditRegisters(t) ==
  /\ stub = "held"
  /\ context[t] # NULL
  /\ \E r \in Reg : context' = [context EXCEPT ![t] = r]
  /\ UNCHANGED <<natp, appVars, host, kernelVars, stub, todo, cur, save, report,
                 sig, step>>

(* CopyRegistersToAppThread, for the threads of set. *)
CopyBack(set) ==
  natp' = [t \in Thread |->
             IF t \in set /\ context[t] # NULL
             THEN [natp[t] EXCEPT !.suspended_registers = context[t]]
             ELSE natp[t]]

ResumeAll ==
  /\ stub = "held"
  /\ CopyBack(threads)
  /\ todo' = threads
  /\ stub' = "resume"
  /\ save' = FALSE
  /\ sig' = NoThread
  /\ UNCHANGED <<appVars, host, kernelVars, cur, report, step, context>>

(* Only the reported thread is resumed: to execute one instruction (vCont;s) or
   to run to a breakpoint (vCont;c).  Both end when it faults. *)
StepOver ==
  /\ stub = "held"
  /\ sig # NoThread
  /\ CopyBack({sig})
  /\ todo' = {sig}
  /\ step' = sig
  /\ sig' = NoThread
  /\ stub' = "resume"
  /\ UNCHANGED <<appVars, host, kernelVars, cur, save, report, context>>

(* NaClUntrustedThreadResume *)
Resume(t) ==
  /\ stub = "resume"
  /\ t \in todo
  /\ SetState(t, natp[t].suspend_state \ {SUSPENDING, SUSPENDED})
  /\ cur' = t
  /\ stub' = "wake"
  /\ UNCHANGED <<appVars, host, kernelVars, todo, save, stopVars>>

(* Bug: the wake-up of a resumed thread is forgotten. *)
ResumeWake_Nobody ==
  /\ stub = "wake"
  /\ todo' = todo \ {cur}
  /\ stub' = "resume"
  /\ UNCHANGED <<natp, appVars, host, kernelVars, cur, save, stopVars>>

ResumeWake ==
  /\ stub = "wake"
  /\ FutexWake(cur)
  /\ todo' = todo \ {cur}
  /\ stub' = "resume"
  /\ cur' = NoThread
  /\ UNCHANGED <<natp, appVars, host, pending, save, stopVars>>

ResumeAllReturns ==
  /\ stub = "resume"
  /\ todo = {}
  /\ IF step = NoThread
     THEN stub' = "idle" /\ threads_mu' = FALSE
     ELSE stub' = "stepping" /\ UNCHANGED threads_mu
  /\ UNCHANGED <<natp, threads, faulted_thread_count, host, kernelVars, todo,
                 cur, save, stopVars>>

(* The stepped thread has trapped: suspend it again, and report it. *)
StepEnds ==
  /\ stub = "stepping"
  /\ natp[step].fault_signal
  /\ todo' = {step}
  /\ report' = {step}
  /\ step' = NoThread
  /\ stub' = "suspend"
  /\ UNCHANGED <<natp, appVars, host, kernelVars, cur, save, sig, context>>

StubStep ==
  \/ SuspendKill \/ SuspendAwait \/ SuspendWait \/ SuspendAllReturns
  \/ ResumeWake \/ ResumeAllReturns \/ StepEnds
  \/ \E t \in Thread : Suspend(t) \/ UnqueueFaultedThread(t) \/ Resume(t)

Debugger ==
  \/ SuspendAll \/ ResumeAll \/ StepOver
  \/ \E t \in Thread : EditRegisters(t)

ThreadStep(t) ==
  \/ AppThreadSpawn(t) \/ AppThreadLauncher(t) \/ AppThreadTeardown(t)
  \/ SyscallReturns(t) \/ EnterUntrusted(t) \/ LeaveUntrusted(t)
  \/ Compute(t) \/ Syscall(t) \/ Fault(t)

Next ==
  \/ StubStep \/ Debugger
  \/ \E t \in Thread : ThreadStep(t) \/ HandlerStep(t)

Spec == Init /\ [][Next]_vars

(***************************************************************************)
(* The kernel runs every runnable thread and delivers every signal; the    *)
(* stub's loops go on; a single-stepped thread reaches its trap.  Nothing  *)
(* is assumed of the debugger's user or of untrusted code otherwise.       *)
(***************************************************************************)
Fairness ==
  /\ WF_vars(StubStep)
  /\ \A t \in Thread :
       /\ WF_vars(HandlerStep(t))
       /\ WF_vars(EnterUntrusted(t) \/ LeaveUntrusted(t))
       /\ WF_vars(Fault(t) /\ step = t)

FairSpec == Spec /\ Fairness

-----------------------------------------------------------------------------
(***************************************************************************)
(* None of the fatal checks is ever reached: the suspension signal only    *)
(* finds its thread in untrusted state being suspended, the switches only  *)
(* find the state they expect or SUSPENDING, the controller's DCHECKs on   *)
(* the bits hold, and a stub that stopped for a fault finds a faulted      *)
(* thread (thread_suspension.c:76, 88, 146, 213, 233, 276, target.cc:1119, *)
(* thread_common.cc:121).                                                  *)
(***************************************************************************)
NoFatalCheck ==
  /\ \A t \in Thread :
       /\ host[t].handler = "entry" => natp[t].suspend_state = kBaseState
       /\ host[t].handler = "fault" => UNTRUSTED \in natp[t].suspend_state
       /\ At(t, "enter") => \/ natp[t].suspend_state = {TRUSTED}
                            \/ SUSPENDING \in natp[t].suspend_state
       /\ At(t, "leave") => \/ natp[t].suspend_state = {UNTRUSTED}
                            \/ SUSPENDING \in natp[t].suspend_state
  /\ stub = "suspend" =>
       \A t \in todo : SUSPENDING \notin natp[t].suspend_state
  /\ stub = "unqueue" => \E t \in report : natp[t].fault_signal
  /\ stub = "resume" => \A t \in todo : SUSPENDING \in natp[t].suspend_state
  /\ stub \in {"await", "wait"} =>
       natp[cur].suspend_state \in {kBaseState, kBaseState \cup {SUSPENDED}}

(* In the handler until it is resumed, or in trusted code that cannot return. *)
Stopped(t) ==
  \/ /\ host[t].handler \in {"wake", "poll", "wait"}
     /\ natp[t].suspend_state = kBaseState \cup {SUSPENDED}
  \/ /\ host[t].pc \in {"syscall", "enter", "enterWait", "launch", "none"}
     /\ natp[t].suspend_state \in {{TRUSTED, SUSPENDING}, {TRUSTED}}
     /\ host[t].pc \in {"syscall", "enter", "enterWait"} =>
          SUSPENDING \in natp[t].suspend_state

(***************************************************************************)
(* Between the return of SuspendAll and ResumeAll no thread of the program *)
(* runs untrusted code, nor enters it: each is either stopped in the       *)
(* handler or in trusted code that cannot return                           *)
(* (thread_suspension.c:221-267, thread_suspension_common.c:18-48).  The   *)
(* others stay stopped while the debugger steps one (target.cc:857-872).   *)
(***************************************************************************)
StoppedWhileHeld ==
  /\ stub \in {"unqueue", "held"} => \A t \in Thread : Stopped(t)
  /\ stub = "stepping" => \A t \in Thread \ {step} : Stopped(t)

(***************************************************************************)
(* faulted_thread_count is the number of threads whose fault was not yet   *)
(* taken by the stub, a fault being counted one step after it is marked    *)
(* (thread_suspension.c:152-153, 309-314).                                 *)
(***************************************************************************)
FaultedCountRight ==
  faulted_thread_count =
    Cardinality({t \in Thread : /\ natp[t].fault_signal
                                /\ host[t].handler # "count"})

(* No thread runs on past a fault before the stub has unblocked it, however *)
(* often it is suspended and resumed (thread_suspension.c:163-178).        *)
FaultBlocks == \A t \in Thread : natp[t].fault_signal => host[t].in_fault

(* What always holds of the handlers, the counter and the fatal checks. *)
SuspensionInv ==
  SuspensionTypeOK /\ NoFatalCheck /\ FaultedCountRight /\ FaultBlocks

GoesOnAsLeft(t) ==
  /\ host[t].handler = "apply"
  /\ host[t].pc = "untrusted"
  /\ context[t] # NULL
  /\ host'[t].handler # "apply"
  => host'[t].regs = context[t]

(***************************************************************************)
(* A thread stopped in untrusted code goes on with the registers the stub  *)
(* last showed the debugger, or with what the debugger wrote over them     *)
(* (thread_suspension.c:95-102, 122-131).                                  *)
(***************************************************************************)
RegistersAsLeft == [][\A t \in Thread : GoesOnAsLeft(t)]_vars

(***************************************************************************)
(* A suspension that was begun is completed, whatever the threads are      *)
(* doing: still leaving the previous suspension, switching or faulting.    *)
(***************************************************************************)
SuspendAllEnds ==
  stub \in {"suspend", "kill", "await", "wait", "unqueue"} ~> stub = "held"

(* In its handler although it has been resumed, asked to stop again or not. *)
HeldByHandler(t) ==
  host[t].handler \in {"poll", "wait"} /\ SUSPENDED \notin natp[t].suspend_state

(* Asleep at a switch of state that it may pass. *)
HeldAtSwitch(t) ==
  "self" \in waiters[t] /\ SUSPENDING \notin natp[t].suspend_state

(***************************************************************************)
(* A thread that the stub has resumed leaves its signal handler, even when *)
(* it is asked to suspend again before it ran, and none sleeps on at a     *)
(* switch of state (thread_suspension.c:64-80, 113-121, 284-289): again    *)
(* and again there is no such thread, as when all are stopped.             *)
(***************************************************************************)
ResumedGoOn ==
  []<>(\A t \in Thread : ~HeldByHandler(t) /\ ~HeldAtSwitch(t))
=============================================================================
