----------------------- MODULE ThreadSuspensionProofs -----------------------
(***************************************************************************)
(* Suspension stops every thread and no fatal check is reached, for any    *)
(* number of threads and registers.                                        *)
(***************************************************************************)
EXTENDS ThreadSuspension, FiniteSetTheorems, TLAPS

(* The calls of the controller: which threads have the bit SUSPENDING...   *)
Asked(t) ==
  \/ /\ stub \in {"suspend", "kill", "await", "wait", "unqueue", "held",
                  "stepping"}
     /\ t \in threads
     /\ t \notin todo \cup {step} \/ t = cur
  \/ /\ stub \in {"resume", "wake"}
     /\ t # cur
     /\ t \in todo \/ (step # NoThread /\ t \in threads /\ t # step)

(* ... and which one it is waiting for, or will when it has signalled it.  *)
Awaited(t) == stub \in {"kill", "await", "wait"} /\ t = cur

Signalled(t) == stub \in {"await", "wait"} /\ t = cur

StubInv ==
  /\ threads_mu = (stub # "idle")
  /\ IF stub \in {"kill", "await", "wait", "wake"}
     THEN cur \in todo ELSE cur = NoThread
  /\ stub \in {"idle", "unqueue", "held", "stepping"} => todo = {}
  /\ step # NoThread => /\ stub \in {"resume", "wake", "stepping"}
                        /\ step \in threads /\ todo \subseteq {step}
  /\ stub = "stepping" => step # NoThread
  /\ sig # NoThread => stub = "held" /\ sig \in threads
  /\ report # {} => /\ stub \in {"suspend", "kill", "await", "wait", "unqueue"}
                    /\ \E t \in report : natp[t].fault_signal
  /\ stub = "unqueue" => report # {}

InUntrusted(t) == host[t].pc \in {"untrusted", "leave", "leaveWait"}

IsSuspended(t) == SUSPENDED \in natp[t].suspend_state

(* The bits of a thread say where it is, and what it was asked for.        *)
StateInv(t) ==
  /\ t \in threads <=> host[t].pc \notin {"none", "launch"}
  /\ natp[t].suspend_state \ {SUSPENDED} =
       (IF InUntrusted(t) THEN {UNTRUSTED} ELSE {TRUSTED})
       \cup (IF Asked(t) THEN {SUSPENDING} ELSE {})
  /\ IsSuspended(t) => /\ Asked(t) /\ (Awaited(t) => Signalled(t))
                       /\ host[t].handler \in {"wake", "poll", "wait"}
  /\ Asked(t) /\ InUntrusted(t) /\ ~Awaited(t) => IsSuspended(t)
  /\ Awaited(t) => InUntrusted(t)

(* The signal is pending, being handled or acknowledged. *)
SignalInv(t) ==
  /\ host[t].handler # "none" => InUntrusted(t)
  /\ host[t].handler \in {"entry", "mark", "marked"}
       => Signalled(t) /\ ~pending[t] /\ ~IsSuspended(t)
  /\ host[t].handler = "marked" => host[t].hseen = kBaseState
  /\ pending[t] => Signalled(t) /\ ~IsSuspended(t)

FaultInv(t) ==
  /\ host[t].handler \in {"fault", "count", "sigwait"} => host[t].in_fault
  /\ host[t].in_fault => host[t].handler # "none" /\ host[t].pc = "untrusted"
  /\ natp[t].fault_signal => host[t].in_fault
  /\ host[t].handler = "fault" => ~natp[t].fault_signal
  /\ host[t].handler = "count" => natp[t].fault_signal

(* What the handler has saved is used, and it was saved before. *)
RegistersInv(t) ==
  LET saved == natp[t].suspended_registers IN
  /\ host[t].pc = "untrusted" => host[t].regs \in Reg
  /\ saved = Garbage => /\ Signalled(t) /\ ~IsSuspended(t)
                        /\ host[t].handler \notin {"mark", "marked"}
  /\ host[t].snapshot =>
       /\ host[t].handler \in {"mark", "marked", "wake", "poll", "wait",
                               "apply"}
       /\ saved # NULL
       /\ host[t].pc = "untrusted" => saved \in Reg
  /\ host[t].handler \in {"mark", "marked"} \/ IsSuspended(t)
       => (saved # NULL => host[t].snapshot)

(* The copy that the stub shows the debugger. *)
ContextInv(t) ==
  context[t] # NULL =>
    /\ IsSuspended(t) /\ ~Signalled(t) => host[t].snapshot
    /\ stub \in {"resume", "wake"} /\ t \in todo
         => natp[t].suspended_registers = context[t]
    /\ ~IsSuspended(t) /\ host[t].pc = "untrusted"
       /\ host[t].handler \in {"wake", "poll", "wait", "apply"}
         => host[t].snapshot /\ natp[t].suspended_registers = context[t]

EachInv(t) ==
  StateInv(t) /\ SignalInv(t) /\ FaultInv(t) /\ RegistersInv(t) /\ ContextInv(t)

SuspendIInv ==
  /\ SuspensionTypeOK
  /\ StubInv
  /\ \A t \in Thread : EachInv(t)
  /\ FaultedCountRight

(* A step of another thread, or of the stub with another thread. *)
LEMMA Untouched ==
  ASSUME NEW u \in Thread, EachInv(u),
         natp'[u] = natp[u], host'[u] = host[u], pending'[u] = pending[u],
         context'[u] = context[u],
         Asked(u)' <=> Asked(u), Awaited(u)' <=> Awaited(u),
         Signalled(u)' <=> Signalled(u),
         u \in threads' <=> u \in threads,
         stub' \in {"resume", "wake"} /\ u \in todo'
           => stub \in {"resume", "wake"} /\ u \in todo
  PROVE  EachInv(u)'
  BY DEF EachInv, StateInv, SignalInv, FaultInv, RegistersInv, ContextInv,
         InUntrusted, IsSuspended

(* What a step of one thread leaves of the others. *)
LEMMA StepOfOne ==
  ASSUME SuspendIInv, NEW t \in Thread, ThreadStep(t) \/ HandlerStep(t)
  PROVE  /\ UNCHANGED stubVars /\ threads_mu' = threads_mu
         /\ threads' = threads \/ ~threads_mu
         /\ \A u \in Thread \ {t} :
              /\ natp'[u] = natp[u] /\ host'[u] = host[u]
              /\ pending'[u] = pending[u]
              /\ u \in threads' <=> u \in threads
  <1>1. /\ natp \in [Thread -> Natp] /\ host \in [Thread -> Host]
        /\ pending \in [Thread -> BOOLEAN] /\ threads \subseteq Thread
    BY DEF SuspendIInv, SuspensionTypeOK
  <1>2. CASE ThreadStep(t)
    BY <1>1, <1>2
    DEF ThreadStep, AppThreadSpawn, AppThreadLauncher, AppThreadTeardown,
        SyscallReturns, EnterUntrusted, LeaveUntrusted, SetSuspendState,
        SetSuspendWait, Compute, Syscall, Fault, Reach, SetState, Goto,
        appVars, kernelVars, stubVars, stopVars
  <1>3. CASE HandlerStep(t)
    BY <1>1, <1>3
    DEF HandlerStep, Deliver, FaultSignal, FaultCount, Sigwait, HandlerSaves,
        HandlerReads, HandlerMarks, HandlerWakes, HandlerPolls, HandlerWaits,
        HandlerReturns, HandlerGoto, SetState, appVars, kernelVars, stubVars,
        stopVars
  <1>4. QED
    BY <1>2, <1>3

(* ... and what it makes of the invariant of the others.                   *)
LEMMA OthersUntouched ==
  ASSUME SuspendIInv, NEW t \in Thread, ThreadStep(t) \/ HandlerStep(t)
  PROVE  /\ \A u \in Thread \ {t} : EachInv(u)'
         /\ \A u \in Thread : /\ Asked(u)' <=> Asked(u)
                              /\ Awaited(u)' <=> Awaited(u)
                              /\ Signalled(u)' <=> Signalled(u)
  <1>1. /\ UNCHANGED <<stub, todo, cur, step, context>>
        /\ threads' = threads \/ stub = "idle"
        /\ \A u \in Thread \ {t} :
              /\ natp'[u] = natp[u] /\ host'[u] = host[u]
              /\ pending'[u] = pending[u]
              /\ u \in threads' <=> u \in threads
    BY StepOfOne DEF SuspendIInv, StubInv, stubVars, stopVars
  <1>2. \A u \in Thread : /\ Asked(u)' <=> Asked(u)
                          /\ Awaited(u)' <=> Awaited(u)
                          /\ Signalled(u)' <=> Signalled(u)
    BY <1>1 DEF Asked, Awaited, Signalled
  <1>3. \A u \in Thread \ {t} : EachInv(u)'
    BY <1>1, <1>2, Untouched DEF SuspendIInv
  <1>4. QED
    BY <1>2, <1>3

(* The fields of a thread. *)
LEMMA Fields ==
  ASSUME SuspensionTypeOK, NEW t \in Thread
  PROVE  /\ natp \in [Thread -> Natp] /\ host \in [Thread -> Host]
         /\ natp[t] \in Natp /\ host[t] \in Host
         /\ pending \in [Thread -> BOOLEAN] /\ threads \subseteq Thread
         /\ context \in [Thread -> Reg \cup {NULL}]
         /\ NULL \notin Reg /\ Garbage \notin Reg /\ Trusted \notin Reg
         /\ NULL # Garbage /\ NULL # Trusted /\ Garbage # Trusted
  <1>1. /\ NULL \notin Reg /\ Garbage \notin Reg /\ Trusted \notin Reg
    BY SuspensionAssumption
  <1>2. NULL # Garbage /\ NULL # Trusted /\ Garbage # Trusted
    <2>1. Cardinality({NULL, Garbage, Trusted}) = 3
      BY SuspensionAssumption
    <2>2. ASSUME NEW a, NEW b PROVE Cardinality({a, b}) # 3
      <3>1. IsFiniteSet({a}) /\ Cardinality({a}) = 1
        BY FS_Singleton
      <3>2. Cardinality({a} \cup {b})
              = IF b \in {a} THEN Cardinality({a}) ELSE Cardinality({a}) + 1
        BY <3>1, FS_AddElement, Zenon
      <3>3. {a, b} = {a} \cup {b}
        OBVIOUS
      <3>4. QED
        BY <3>1, <3>2, <3>3
    <2>3. NULL # Garbage
      <3>1. SUFFICES ASSUME NULL = Garbage PROVE FALSE
        OBVIOUS
      <3>2. {NULL, Garbage, Trusted} = {NULL, Trusted}
        BY <3>1
      <3>3. QED
        BY <2>1, <2>2, <3>2, Zenon
    <2>4. NULL # Trusted
      <3>1. SUFFICES ASSUME NULL = Trusted PROVE FALSE
        OBVIOUS
      <3>2. {NULL, Garbage, Trusted} = {NULL, Garbage}
        BY <3>1
      <3>3. QED
        BY <2>1, <2>2, <3>2, Zenon
    <2>5. Garbage # Trusted
      <3>1. SUFFICES ASSUME Garbage = Trusted PROVE FALSE
        OBVIOUS
      <3>2. {NULL, Garbage, Trusted} = {NULL, Garbage}
        BY <3>1
      <3>3. QED
        BY <2>1, <2>2, <3>2, Zenon
    <2>6. QED
      BY <2>3, <2>4, <2>5
  <1>3. QED
    BY <1>1, <1>2 DEF SuspensionTypeOK

(* A thread in its own code: no handler, no signal, nothing saved.         *)
LEMMA AwakeThread ==
  ASSUME SuspendIInv, NEW t \in Thread, host[t].handler = "none"
  PROVE  /\ ~IsSuspended(t) /\ ~host[t].snapshot /\ ~host[t].in_fault
         /\ ~natp[t].fault_signal
         /\ ~Asked(t) => ~Signalled(t) /\ ~pending[t] /\ ~Awaited(t)
         /\ Asked(t) /\ ~Awaited(t) => ~InUntrusted(t)
  BY DEF SuspendIInv, EachInv, StateInv, SignalInv, FaultInv, RegistersInv,
         Signalled, Awaited, Asked, StubInv, SuspensionTypeOK

(* Launch, exit, system calls and computation. *)
LEMMA ThreadStepKeepsInv ==
  ASSUME SuspendIInv, NEW t \in Thread, ThreadStep(t)
  PROVE  EachInv(t)'
  <1>1. /\ natp \in [Thread -> Natp] /\ host \in [Thread -> Host]
        /\ natp[t] \in Natp /\ host[t] \in Host
        /\ NULL \notin Reg /\ Garbage \notin Reg /\ NULL # Garbage
        /\ threads \subseteq Thread
    BY Fields DEF SuspendIInv
  <1>2. /\ EachInv(t)
        /\ Asked(t)' <=> Asked(t)
        /\ Awaited(t)' <=> Awaited(t)
        /\ Signalled(t)' <=> Signalled(t)
        /\ UNCHANGED <<stub, todo, cur, step, context>>
    <2>1. EachInv(t)
      BY DEF SuspendIInv
    <2>2. UNCHANGED <<stub, todo, cur, step, context>>
      BY StepOfOne DEF stubVars, stopVars
    <2>3. threads' = threads \/ stub = "idle"
      BY StepOfOne DEF SuspendIInv, StubInv
    <2>4. QED
      BY <2>1, <2>2, <2>3 DEF Asked, Awaited, Signalled
  <1>3. CASE AppThreadSpawn(t)
    <2>1. host[t].handler = "none"
      BY <1>2, <1>3 DEF AppThreadSpawn, EachInv, SignalInv, InUntrusted
    <2>2. QED
      BY <1>1, <1>2, <1>3, <2>1, AwakeThread
      DEF AppThreadSpawn, At, Goto, EachInv, StateInv, SignalInv,
          FaultInv, RegistersInv, ContextInv, InUntrusted, IsSuspended,
          appVars, kernelVars, Natp, Host
  <1>4. CASE AppThreadLauncher(t)
    <2>1. host[t].handler = "none"
      BY <1>4 DEF AppThreadLauncher, At, Goto
    <2>2. QED
      BY <1>1, <1>2, <1>4, <2>1, AwakeThread
      DEF AppThreadLauncher, At, Goto, EachInv, StateInv, SignalInv,
          FaultInv, RegistersInv, ContextInv, InUntrusted, IsSuspended,
          appVars, kernelVars, Natp, Host
  <1>5. CASE AppThreadTeardown(t)
    <2>1. host[t].handler = "none" /\ host[t].pc = "syscall"
      BY <1>5 DEF AppThreadTeardown, At
    <2>2. ~threads_mu /\ stub = "idle" /\ t \notin threads'
      BY <1>5 DEF AppThreadTeardown, SuspendIInv, StubInv
    <2>3. ~Asked(t) /\ ~pending[t] /\ ~Awaited(t) /\ ~Signalled(t)
      BY <2>1, <2>2, AwakeThread DEF Asked
    <2>4. /\ natp'[t] = FreshNatp /\ host'[t] = [host[t] EXCEPT !.pc = "none"]
          /\ pending' = pending
      BY <1>1, <1>5 DEF AppThreadTeardown, Goto, kernelVars
    <2>5. /\ host'[t].pc = "none" /\ host'[t].handler = "none"
          /\ host'[t].in_fault = FALSE /\ host'[t].snapshot = FALSE
          /\ natp'[t].suspend_state = {TRUSTED} /\ ~natp'[t].fault_signal
          /\ natp'[t].suspended_registers = NULL
      BY <1>1, <2>1, <2>4, AwakeThread DEF FreshNatp, Host
    <2>6. QED
      BY <1>1, <1>2, <2>2, <2>3, <2>4, <2>5
      DEF EachInv, StateInv, SignalInv, FaultInv, RegistersInv, ContextInv,
          InUntrusted, IsSuspended, TRUSTED, SUSPENDED
  <1>6. CASE SyscallReturns(t)
    <2>1. host[t].handler = "none"
      BY <1>6 DEF SyscallReturns, At, Goto
    <2>2. QED
      BY <1>1, <1>2, <1>6, <2>1, AwakeThread
      DEF SyscallReturns, At, Goto, EachInv, StateInv, SignalInv,
          FaultInv, RegistersInv, ContextInv, InUntrusted, IsSuspended,
          appVars, kernelVars, Natp, Host
  <1>7. CASE EnterUntrusted(t)
    <2>1. CASE SetSuspendWait(t, "enterWait", "enter")
      <3>1. /\ host[t].handler = "none" /\ host[t].pc = "enterWait"
            /\ natp' = natp /\ pending' = pending
            /\ host'[t].pc = "enter" /\ host'[t].handler = "none"
            /\ UNCHANGED <<host[t].in_fault, host[t].snapshot>>
            /\ threads' = threads
        BY <1>1, <2>1 DEF SetSuspendWait, At, appVars, Host
      <3>2. QED
        BY <1>1, <1>2, <3>1, AwakeThread
        DEF EachInv, StateInv, SignalInv, FaultInv, RegistersInv, ContextInv,
            InUntrusted, IsSuspended
    <2>2. CASE SetSuspendState(t, "enter", "enterWait", TRUSTED, UNTRUSTED,
                              "untrusted")
      <3>1. /\ host[t].handler = "none" /\ host[t].pc = "enter"
            /\ pending' = pending /\ threads' = threads
        BY <2>2 DEF SetSuspendState, At, appVars, kernelVars
      <3>2. CASE /\ host' = [host EXCEPT ![t].pc = "enterWait",
                                       ![t].seen = natp[t].suspend_state]
                 /\ UNCHANGED natp
        <4>1. /\ host'[t].pc = "enterWait" /\ host'[t].handler = "none"
              /\ UNCHANGED <<host[t].in_fault, host[t].snapshot>>
          BY <1>1, <3>1, <3>2 DEF Host
        <4>2. QED
          BY <1>1, <1>2, <3>1, <3>2, <4>1, AwakeThread
          DEF EachInv, StateInv, SignalInv, FaultInv, RegistersInv, ContextInv,
              InUntrusted, IsSuspended
      <3>3. CASE /\ natp[t].suspend_state = {TRUSTED}
                 /\ SetState(t, {UNTRUSTED}) /\ Reach(t, "untrusted")
        <4>1. ~Asked(t) /\ ~pending[t] /\ ~Awaited(t) /\ ~Signalled(t)
          BY <1>2, <3>1, <3>3, AwakeThread
          DEF EachInv, StateInv, TRUSTED, SUSPENDING, SUSPENDED
        <4>2. PICK r \in IF "untrusted" = "untrusted" THEN Reg ELSE {Trusted} :
                host' = [host EXCEPT ![t].pc = "untrusted", ![t].regs = r]
          BY <3>3 DEF Reach
        <4>3. /\ host'[t].pc = "untrusted" /\ host'[t].handler = "none"
              /\ host'[t].regs = r
              /\ UNCHANGED <<host[t].in_fault, host[t].snapshot>>
          BY <1>1, <3>1, <4>2 DEF Host
        <4>4. /\ natp'[t].suspend_state = {UNTRUSTED}
              /\ UNCHANGED <<natp[t].suspended_registers, natp[t].fault_signal>>
          BY <1>1, <3>3 DEF SetState, Natp
        <4>5. QED
          BY <1>1, <1>2, <3>1, <4>1, <4>2, <4>3, <4>4, AwakeThread
          DEF EachInv, StateInv, SignalInv, FaultInv, RegistersInv, ContextInv,
              InUntrusted, IsSuspended, TRUSTED, UNTRUSTED, SUSPENDED
      <3>4. QED
        BY <2>2, <3>2, <3>3 DEF SetSuspendState
    <2>3. QED
      BY <1>7, <2>1, <2>2 DEF EnterUntrusted
  <1>8. CASE LeaveUntrusted(t)
    <2>1. CASE SetSuspendWait(t, "leaveWait", "leave")
      <3>1. /\ host[t].handler = "none" /\ host[t].pc = "leaveWait"
            /\ natp' = natp /\ pending' = pending
            /\ host'[t].pc = "leave" /\ host'[t].handler = "none"
            /\ UNCHANGED <<host[t].in_fault, host[t].snapshot>>
            /\ threads' = threads
        BY <1>1, <2>1 DEF SetSuspendWait, At, appVars, Host
      <3>2. QED
        BY <1>1, <1>2, <3>1, AwakeThread
        DEF EachInv, StateInv, SignalInv, FaultInv, RegistersInv, ContextInv,
            InUntrusted, IsSuspended
    <2>2. CASE SetSuspendState(t, "leave", "leaveWait", UNTRUSTED, TRUSTED,
                              "syscall")
      <3>1. /\ host[t].handler = "none" /\ host[t].pc = "leave"
            /\ pending' = pending /\ threads' = threads
        BY <2>2 DEF SetSuspendState, At, appVars, kernelVars
      <3>2. CASE /\ host' = [host EXCEPT ![t].pc = "leaveWait",
                                       ![t].seen = natp[t].suspend_state]
                 /\ UNCHANGED natp
        <4>1. /\ host'[t].pc = "leaveWait" /\ host'[t].handler = "none"
              /\ UNCHANGED <<host[t].in_fault, host[t].snapshot>>
          BY <1>1, <3>1, <3>2 DEF Host
        <4>2. QED
          BY <1>1, <1>2, <3>1, <3>2, <4>1, AwakeThread
          DEF EachInv, StateInv, SignalInv, FaultInv, RegistersInv, ContextInv,
              InUntrusted, IsSuspended
      <3>3. CASE /\ natp[t].suspend_state = {UNTRUSTED}
                 /\ SetState(t, {TRUSTED}) /\ Reach(t, "syscall")
        <4>1. ~Asked(t) /\ ~pending[t] /\ ~Awaited(t) /\ ~Signalled(t)
          BY <1>2, <3>1, <3>3, AwakeThread
          DEF EachInv, StateInv, UNTRUSTED, SUSPENDING, SUSPENDED
        <4>2. PICK r \in IF "syscall" = "untrusted" THEN Reg ELSE {Trusted} :
                host' = [host EXCEPT ![t].pc = "syscall", ![t].regs = r]
          BY <3>3 DEF Reach
        <4>3. /\ host'[t].pc = "syscall" /\ host'[t].handler = "none"
              /\ host'[t].regs = r
              /\ UNCHANGED <<host[t].in_fault, host[t].snapshot>>
          BY <1>1, <3>1, <4>2 DEF Host
        <4>4. /\ natp'[t].suspend_state = {TRUSTED}
              /\ UNCHANGED <<natp[t].suspended_registers, natp[t].fault_signal>>
          BY <1>1, <3>3 DEF SetState, Natp
        <4>5. QED
          BY <1>1, <1>2, <3>1, <4>1, <4>2, <4>3, <4>4, AwakeThread
          DEF EachInv, StateInv, SignalInv, FaultInv, RegistersInv, ContextInv,
              InUntrusted, IsSuspended, TRUSTED, UNTRUSTED, SUSPENDED
      <3>4. QED
        BY <2>2, <3>2, <3>3 DEF SetSuspendState
    <2>3. QED
      BY <1>8, <2>1, <2>2 DEF LeaveUntrusted
  <1>9. CASE Compute(t)
    <2>1. host[t].handler = "none"
      BY <1>9 DEF Compute, At
    <2>2. QED
      BY <1>1, <1>2, <1>9, <2>1, AwakeThread
      DEF Compute, At, EachInv, StateInv, SignalInv,
          FaultInv, RegistersInv, ContextInv, InUntrusted, IsSuspended,
          appVars, kernelVars, Natp, Host
  <1>10. CASE Syscall(t)
    <2>1. host[t].handler = "none"
      BY <1>10 DEF Syscall, At, Reach
    <2>2. QED
      BY <1>1, <1>2, <1>10, <2>1, AwakeThread
      DEF Syscall, At, Reach, EachInv, StateInv, SignalInv,
          FaultInv, RegistersInv, ContextInv, InUntrusted, IsSuspended,
          appVars, kernelVars, Natp, Host
  <1>11. CASE Fault(t)
    <2>1. host[t].handler = "none"
      BY <1>11 DEF Fault, At
    <2>2. QED
      BY <1>1, <1>2, <1>11, <2>1, AwakeThread
      DEF Fault, At, EachInv, StateInv, SignalInv,
          FaultInv, RegistersInv, ContextInv, InUntrusted, IsSuspended,
          appVars, kernelVars, Natp, Host
  <1>12. QED
    BY <1>3, <1>4, <1>5, <1>6, <1>7, <1>8, <1>9, <1>10, <1>11 DEF ThreadStep

(* What the controller awaits it has asked for. *)
LEMMA AwaitedIsAsked ==
  ASSUME SuspendIInv, NEW t \in Thread, Awaited(t)
  PROVE  Asked(t) /\ InUntrusted(t)
         /\ (~IsSuspended(t) => natp[t].suspend_state = kBaseState)
  <1>1. Asked(t)
    BY DEF SuspendIInv, StubInv, SuspensionTypeOK, Awaited, Asked
  <1>2. InUntrusted(t)
    BY DEF SuspendIInv, EachInv, StateInv
  <1>3. natp[t].suspend_state \ {SUSPENDED} = {UNTRUSTED} \cup {SUSPENDING}
    BY <1>1, <1>2 DEF SuspendIInv, EachInv, StateInv
  <1>4. QED
    BY <1>1, <1>2, <1>3 DEF IsSuspended, kBaseState

(* The handlers. *)
LEMMA HandlerStepKeepsInv ==
  ASSUME SuspendIInv, NEW t \in Thread, HandlerStep(t)
  PROVE  EachInv(t)'
  <1> USE DEF UNTRUSTED, TRUSTED, SUSPENDING, SUSPENDED, kBaseState
  <1>1. /\ natp \in [Thread -> Natp] /\ host \in [Thread -> Host]
        /\ natp[t] \in Natp /\ host[t] \in Host
        /\ pending \in [Thread -> BOOLEAN]
        /\ NULL \notin Reg /\ Garbage \notin Reg /\ NULL # Garbage
        /\ Trusted # NULL /\ Trusted # Garbage
        /\ threads \subseteq Thread
    BY Fields DEF SuspendIInv
  <1>2. /\ EachInv(t)
        /\ Asked(t)' <=> Asked(t)
        /\ Awaited(t)' <=> Awaited(t)
        /\ Signalled(t)' <=> Signalled(t)
        /\ Signalled(t) => Awaited(t)
        /\ UNCHANGED <<stub, todo, cur, step, context>>
    <2>1. EachInv(t)
      BY DEF SuspendIInv
    <2>2. UNCHANGED <<stub, todo, cur, step, context>>
      BY StepOfOne DEF stubVars, stopVars
    <2>3. threads' = threads \/ stub = "idle"
      BY StepOfOne DEF SuspendIInv, StubInv
    <2>4. QED
      BY <2>1, <2>2, <2>3 DEF Asked, Awaited, Signalled
  <1>3. threads' = threads
    BY DEF HandlerStep, Deliver, FaultSignal, FaultCount, Sigwait, HandlerSaves,
           HandlerReads, HandlerMarks, HandlerWakes, HandlerPolls, HandlerWaits,
           HandlerReturns, appVars
  <1>4. Awaited(t) => /\ Asked(t) /\ InUntrusted(t)
                      /\ ~IsSuspended(t) => natp[t].suspend_state = kBaseState
    BY AwaitedIsAsked
  <1>5. CASE Deliver(t)
    <2>1. /\ host[t].handler = "none" /\ pending[t] /\ natp' = natp
          /\ host'[t] = [host[t] EXCEPT !.handler = "entry"] /\ ~pending'[t]
      BY <1>1, <1>5 DEF Deliver, HandlerGoto
    <2>2. QED
      BY <1>1, <1>2, <1>3, <1>4, <2>1, AwakeThread
      DEF EachInv, StateInv, SignalInv, FaultInv, RegistersInv, ContextInv,
          InUntrusted, IsSuspended, Host
  <1>6. CASE FaultSignal(t)
    <2>1. /\ host[t].handler = "fault" /\ pending' = pending
          /\ host'[t] = [host[t] EXCEPT !.handler = "count"]
          /\ natp'[t] = [natp[t] EXCEPT !.fault_signal = TRUE]
      BY <1>1, <1>6 DEF FaultSignal, InHandler, HandlerGoto, kernelVars
    <2>2. QED
      BY <1>1, <1>2, <1>3, <2>1
      DEF EachInv, StateInv, SignalInv, FaultInv, RegistersInv, ContextInv,
          InUntrusted, IsSuspended, Host, Natp
  <1>7. CASE FaultCount(t)
    <2>1. /\ host[t].handler = "count" /\ pending' = pending /\ natp' = natp
          /\ host'[t] = [host[t] EXCEPT !.handler = "sigwait"]
      BY <1>1, <1>7 DEF FaultCount, InHandler, HandlerGoto, kernelVars
    <2>2. QED
      BY <1>1, <1>2, <1>3, <2>1
      DEF EachInv, StateInv, SignalInv, FaultInv, RegistersInv, ContextInv,
          InUntrusted, IsSuspended, Host
  <1>8. CASE Sigwait(t)
    <2>1. /\ host[t].handler = "sigwait" /\ pending[t] /\ natp' = natp
          /\ host'[t] = [host[t] EXCEPT !.handler = "entry"] /\ ~pending'[t]
      BY <1>1, <1>8 DEF Sigwait, InHandler, HandlerGoto
    <2>2. QED
      BY <1>1, <1>2, <1>3, <1>4, <2>1
      DEF EachInv, StateInv, SignalInv, FaultInv, RegistersInv, ContextInv,
          InUntrusted, IsSuspended, Host
  <1>9. CASE HandlerSaves(t)
    <2>1. host[t].handler = "entry" /\ pending' = pending
      BY <1>9 DEF HandlerSaves, InHandler, kernelVars
    <2>2. host[t].regs \in Reg \cup {Trusted}
      BY <1>1 DEF Host
    <2>3. /\ natp'[t].suspend_state = natp[t].suspend_state
          /\ natp'[t].fault_signal = natp[t].fault_signal
          /\ natp'[t].suspended_registers
               = IF natp[t].suspended_registers # NULL THEN host[t].regs
                 ELSE NULL
          /\ host'[t].handler = "mark" /\ host'[t].pc = host[t].pc
          /\ host'[t].regs = host[t].regs
          /\ host'[t].in_fault = host[t].in_fault
          /\ IF natp[t].suspended_registers # NULL
             THEN host'[t].snapshot ELSE ~host'[t].snapshot
      <3>1. CASE natp[t].suspended_registers # NULL
        BY <1>1, <1>9, <3>1 DEF HandlerSaves, Natp, Host
      <3>2. CASE natp[t].suspended_registers = NULL
        BY <1>1, <1>9, <3>2 DEF HandlerSaves, Natp, Host
      <3>3. QED
        BY <3>1, <3>2
    <2>4. /\ host'[t].snapshot <=> natp'[t].suspended_registers # NULL
          /\ natp'[t].suspended_registers \in Reg \cup {NULL, Trusted}
          /\ natp'[t].suspended_registers # NULL
               => natp'[t].suspended_registers = host[t].regs
          /\ IsSuspended(t)' <=> IsSuspended(t)
          /\ InUntrusted(t)' <=> InUntrusted(t)
      BY <1>1, <2>2, <2>3 DEF IsSuspended, InUntrusted
    <2>5. StateInv(t)' /\ SignalInv(t)' /\ FaultInv(t)' /\ ContextInv(t)'
      BY <1>1, <1>2, <1>3, <2>1, <2>3, <2>4
      DEF EachInv, StateInv, SignalInv, FaultInv, ContextInv, Signalled
    <2>6. RegistersInv(t)'
      BY <1>1, <1>2, <2>1, <2>3, <2>4 DEF EachInv, RegistersInv
    <2>7. QED
      BY <2>5, <2>6 DEF EachInv
  <1>10. CASE HandlerReads(t)
    <2>1. /\ host[t].handler = "mark" /\ pending' = pending /\ natp' = natp
          /\ host'[t] = [host[t] EXCEPT !.handler = "marked",
                           !.hseen = natp[t].suspend_state]
      BY <1>1, <1>10 DEF HandlerReads, InHandler, kernelVars
    <2>2. QED
      BY <1>1, <1>2, <1>3, <1>4, <2>1
      DEF EachInv, StateInv, SignalInv, FaultInv, RegistersInv, ContextInv,
          InUntrusted, IsSuspended, Host
  <1>11. CASE HandlerMarks(t)
    <2>1. /\ host[t].handler = "marked" /\ pending' = pending
          /\ host'[t] = [host[t] EXCEPT !.handler = "wake", !.hseen = {}]
          /\ natp'[t] = [natp[t] EXCEPT !.suspend_state
                           = kBaseState \cup {SUSPENDED}]
      BY <1>1, <1>2, <1>11
      DEF HandlerMarks, InHandler, SetState, kernelVars, EachInv, SignalInv
    <2>2. QED
      BY <1>1, <1>2, <1>3, <1>4, <2>1
      DEF EachInv, StateInv, SignalInv, FaultInv, RegistersInv, ContextInv,
          InUntrusted, IsSuspended, Host, Natp
  <1>12. CASE HandlerWakes(t)
    <2>1. /\ host[t].handler = "wake" /\ pending' = pending /\ natp' = natp
          /\ host'[t] = [host[t] EXCEPT !.handler = "poll"]
      BY <1>1, <1>12 DEF HandlerWakes, InHandler, HandlerGoto
    <2>2. QED
      BY <1>1, <1>2, <1>3, <2>1
      DEF EachInv, StateInv, SignalInv, FaultInv, RegistersInv, ContextInv,
          InUntrusted, IsSuspended, Host
  <1>13. CASE HandlerPolls(t)
    <2>1. /\ host[t].handler = "poll" /\ pending' = pending /\ natp' = natp
          /\ \/ /\ IsSuspended(t)
                /\ host'[t] = [host[t] EXCEPT !.handler = "wait",
                                 !.hseen = natp[t].suspend_state]
             \/ /\ ~IsSuspended(t)
                /\ host'[t] = [host[t] EXCEPT !.handler = "apply"]
      BY <1>1, <1>13 DEF HandlerPolls, InHandler, kernelVars, IsSuspended
    <2>2. /\ host'[t].handler = IF IsSuspended(t) THEN "wait" ELSE "apply"
          /\ host'[t].pc = host[t].pc /\ host'[t].regs = host[t].regs
          /\ host'[t].in_fault = host[t].in_fault
          /\ host'[t].snapshot = host[t].snapshot
      BY <1>1, <2>1 DEF Host
    <2>3. IsSuspended(t)' <=> IsSuspended(t)
      BY <2>1 DEF IsSuspended
    <2>4. QED
      BY <1>1, <1>2, <1>3, <2>1, <2>2, <2>3
      DEF EachInv, StateInv, SignalInv, FaultInv, RegistersInv, ContextInv,
          InUntrusted
  <1>14. CASE HandlerWaits(t)
    <2>1. /\ host[t].handler = "wait" /\ pending' = pending /\ natp' = natp
          /\ host'[t] = [host[t] EXCEPT !.handler = "poll", !.hseen = {}]
      BY <1>1, <1>14 DEF HandlerWaits, InHandler
    <2>2. QED
      BY <1>1, <1>2, <1>3, <2>1
      DEF EachInv, StateInv, SignalInv, FaultInv, RegistersInv, ContextInv,
          InUntrusted, IsSuspended, Host
  <1>15. CASE HandlerReturns(t)
    <2>1. /\ host[t].handler = "apply" /\ pending' = pending /\ natp' = natp
          /\ host'[t] = [host[t] EXCEPT !.regs = Applied(t),
                           !.handler = Outer(t), !.in_fault = Outer(t) # "none",
                           !.snapshot = FALSE]
      BY <1>1, <1>15 DEF HandlerReturns, InHandler, kernelVars
    <2>2. Outer(t) \in {"none", "sigwait"}
          /\ (Outer(t) = "sigwait" => host[t].in_fault)
          /\ (natp[t].fault_signal => Outer(t) = "sigwait")
      BY <1>2 DEF Outer, EachInv, FaultInv
    <2>3. host[t].pc = "untrusted" => Applied(t) \in Reg
      BY <1>2 DEF Applied, EachInv, RegistersInv
    <2>4. /\ host'[t].handler = Outer(t) /\ host'[t].pc = host[t].pc
          /\ host'[t].in_fault = (Outer(t) # "none")
          /\ host'[t].snapshot = FALSE /\ host'[t].regs = Applied(t)
      BY <1>1, <2>1 DEF Host
    <2>5. QED
      BY <1>1, <1>2, <1>3, <2>1, <2>2, <2>3, <2>4
      DEF EachInv, StateInv, SignalInv, FaultInv, RegistersInv, ContextInv,
          InUntrusted, IsSuspended
  <1>16. QED
    BY <1>5, <1>6, <1>7, <1>8, <1>9, <1>10, <1>11, <1>12, <1>13, <1>14, <1>15
    DEF HandlerStep

(* The steps of the controller that leave every thread as it is. *)
LEMMA QuietControl ==
  ASSUME SuspendIInv,
         \/ SuspendAll \/ SuspendAllReturns \/ SuspendWait
         \/ ResumeWake \/ ResumeAllReturns \/ StepEnds
  PROVE  \A u \in Thread : EachInv(u)'
  <1>1. /\ StubInv /\ NoThread \notin Thread /\ threads \subseteq Thread
        /\ stub \in {"idle", "suspend", "kill", "await", "wait", "unqueue",
                     "held", "resume", "wake", "stepping"}
    BY SuspensionAssumption DEF SuspendIInv, SuspensionTypeOK
  <1>2. UNCHANGED <<natp, host, context, pending, threads>>
    BY DEF SuspendAll, SuspendAllReturns, SuspendWait, ResumeWake,
           ResumeAllReturns, StepEnds, kernelVars, appVars, stopVars
  <1>3. ASSUME NEW u \in Thread
        PROVE  /\ Asked(u)' <=> Asked(u)
               /\ Awaited(u)' <=> Awaited(u)
               /\ Signalled(u)' <=> Signalled(u)
               /\ stub' \in {"resume", "wake"} /\ u \in todo'
                    => stub \in {"resume", "wake"} /\ u \in todo
    <2>1. CASE SuspendAll
      BY <1>1, <1>2, <2>1
      DEF SuspendAll, Asked, Awaited, Signalled, StubInv
    <2>2. CASE SuspendAllReturns
      BY <1>1, <1>2, <2>2
      DEF SuspendAllReturns, Asked, Awaited, Signalled, StubInv, stopVars
    <2>3. CASE SuspendWait
      BY <1>1, <1>2, <2>3
      DEF SuspendWait, Asked, Awaited, Signalled, StubInv, stopVars
    <2>4. CASE ResumeWake
      BY <1>1, <1>2, <2>4
      DEF ResumeWake, Asked, Awaited, Signalled, StubInv, stopVars
    <2>5. CASE ResumeAllReturns
      BY <1>1, <1>2, <2>5
      DEF ResumeAllReturns, Asked, Awaited, Signalled, StubInv, stopVars
    <2>6. CASE StepEnds
      BY <1>1, <1>2, <2>6
      DEF StepEnds, Asked, Awaited, Signalled, StubInv
    <2>7. QED
      BY <2>1, <2>2, <2>3, <2>4, <2>5, <2>6
  <1>4. QED
    BY <1>2, <1>3, Untouched DEF SuspendIInv

(* A thread is asked to suspend. *)
LEMMA SuspendKeepsEach ==
  ASSUME SuspendIInv, NEW t \in Thread, Suspend(t)
  PROVE  \A u \in Thread : EachInv(u)'
  <1> USE DEF UNTRUSTED, TRUSTED, SUSPENDING, SUSPENDED
  <1>1. /\ StubInv /\ NoThread \notin Thread /\ natp \in [Thread -> Natp]
        /\ natp[t] \in Natp /\ context \in [Thread -> Reg \cup {NULL}]
        /\ \A u \in Thread : EachInv(u)
        /\ todo \subseteq threads
    BY SuspensionAssumption, Fields DEF SuspendIInv, SuspensionTypeOK
  <1>2. /\ stub = "suspend" /\ cur = NoThread /\ step = NoThread /\ t \in todo
        /\ UNCHANGED <<host, pending, threads, step>>
        /\ natp'[t] = [natp[t] EXCEPT !.suspend_state = @ \cup {SUSPENDING}]
        /\ \A u \in Thread \ {t} : natp'[u] = natp[u]
        /\ \/ /\ natp[t].suspend_state = {UNTRUSTED} /\ stub' = "kill"
              /\ cur' = t /\ UNCHANGED <<todo, context>>
           \/ /\ natp[t].suspend_state # {UNTRUSTED}
              /\ todo' = todo \ {t} /\ UNCHANGED <<stub, cur>>
              /\ context' = [context EXCEPT ![t] = NULL]
    BY <1>1 DEF Suspend, SetState, appVars, kernelVars, StubInv
  <1>3. ~Asked(t) /\ ~Awaited(t) /\ ~Signalled(t) /\ Asked(t)'
        /\ ~Signalled(t)' /\ (Awaited(t)' <=> stub' = "kill")
    BY <1>1, <1>2 DEF Asked, Awaited, Signalled
  <1>4. /\ ~IsSuspended(t) /\ ~IsSuspended(t)'
        /\ natp[t].suspend_state
             = IF InUntrusted(t) THEN {UNTRUSTED} ELSE {TRUSTED}
        /\ natp'[t].suspend_state
             = IF InUntrusted(t) THEN {UNTRUSTED, SUSPENDING}
               ELSE {TRUSTED, SUSPENDING}
        /\ natp'[t].suspended_registers = natp[t].suspended_registers
        /\ natp'[t].fault_signal = natp[t].fault_signal
        /\ stub' = "kill" <=> InUntrusted(t)
    <2>1. ~IsSuspended(t)
      BY <1>1, <1>3 DEF EachInv, StateInv
    <2>2. natp[t].suspend_state
             = IF InUntrusted(t) THEN {UNTRUSTED} ELSE {TRUSTED}
      <3>1. natp[t].suspend_state \ {SUSPENDED} = natp[t].suspend_state
        BY <2>1 DEF IsSuspended
      <3>2. natp[t].suspend_state \ {SUSPENDED} =
              (IF InUntrusted(t) THEN {UNTRUSTED} ELSE {TRUSTED})
              \cup (IF Asked(t) THEN {SUSPENDING} ELSE {})
        BY <1>1 DEF EachInv, StateInv
      <3>3. QED
        BY <1>3, <3>1, <3>2
    <2>3. QED
      BY <1>1, <1>2, <2>1, <2>2 DEF IsSuspended, Natp
  <1>5. EachInv(t)'
    BY <1>1, <1>2, <1>3, <1>4
    DEF EachInv, StateInv, SignalInv, FaultInv, RegistersInv, ContextInv,
        InUntrusted
  <1>6. ASSUME NEW u \in Thread \ {t} PROVE EachInv(u)'
    <2>1. /\ Asked(u)' <=> Asked(u)
          /\ Awaited(u)' <=> Awaited(u)
          /\ Signalled(u)' <=> Signalled(u)
          /\ stub' \notin {"resume", "wake"}
          /\ context'[u] = context[u]
      BY <1>1, <1>2 DEF Asked, Awaited, Signalled
    <2>2. QED
      BY <1>1, <1>2, <2>1, Untouched
  <1>7. QED
    BY <1>5, <1>6

(* pthread_kill *)
LEMMA KillKeepsEach ==
  ASSUME SuspendIInv, SuspendKill
  PROVE  \A u \in Thread : EachInv(u)'
  <1>1. /\ StubInv /\ natp \in [Thread -> Natp] /\ threads \subseteq Thread
        /\ pending \in [Thread -> BOOLEAN] /\ todo \subseteq threads
        /\ \A u \in Thread : EachInv(u)
    BY DEF SuspendIInv, SuspensionTypeOK
  <1>2. /\ stub = "kill" /\ stub' = "await" /\ cur \in Thread /\ cur' = cur
        /\ UNCHANGED <<host, threads, todo, context, step>>
        /\ pending' = [pending EXCEPT ![cur] = TRUE]
    BY <1>1 DEF SuspendKill, StubInv, appVars, stopVars
  <1>3. PICK t \in Thread : t = cur
    BY <1>2
  <1>4. /\ natp[t] \in Natp /\ NULL # Garbage /\ Garbage \notin Reg
        /\ NULL \notin Reg
    BY Fields DEF SuspendIInv
  <1>5. /\ \A u \in Thread \ {t} : /\ natp'[u] = natp[u]
                                    /\ pending'[u] = pending[u]
        /\ pending'[t]
        /\ natp'[t].suspend_state = natp[t].suspend_state
        /\ natp'[t].fault_signal = natp[t].fault_signal
        /\ \/ natp'[t].suspended_registers = natp[t].suspended_registers
           \/ /\ natp[t].suspended_registers = NULL
              /\ natp'[t].suspended_registers = Garbage
    BY <1>1, <1>2, <1>3, <1>4 DEF SuspendKill, Natp
  <1>6. \A u \in Thread : /\ Asked(u)' <=> Asked(u)
                          /\ Awaited(u)' <=> Awaited(u)
                          /\ u # t => (Signalled(u)' <=> Signalled(u))
    BY <1>2, <1>3 DEF Asked, Awaited, Signalled
  <1>7. ~Signalled(t) /\ Signalled(t)' /\ Awaited(t)
    BY <1>2, <1>3 DEF Signalled, Awaited
  <1>8. ~IsSuspended(t) /\ ~IsSuspended(t)'
    BY <1>1, <1>5, <1>7 DEF EachInv, StateInv, IsSuspended
  <1>9. EachInv(t)'
    <2>1. StateInv(t)' /\ SignalInv(t)' /\ FaultInv(t)'
      BY <1>1, <1>2, <1>5, <1>6, <1>7, <1>8
      DEF EachInv, StateInv, SignalInv, FaultInv, InUntrusted
    <2>2. RegistersInv(t)' /\ ContextInv(t)'
      BY <1>1, <1>2, <1>4, <1>5, <1>7, <1>8
      DEF EachInv, SignalInv, RegistersInv, ContextInv
    <2>3. QED
      BY <2>1, <2>2 DEF EachInv
  <1>10. ASSUME NEW u \in Thread \ {t} PROVE EachInv(u)'
    BY <1>1, <1>2, <1>5, <1>6, Untouched
  <1>11. QED
    BY <1>9, <1>10

(* The handler has answered. *)
LEMMA AwaitKeepsEach ==
  ASSUME SuspendIInv, SuspendAwait
  PROVE  \A u \in Thread : EachInv(u)'
  <1> USE DEF UNTRUSTED, TRUSTED, SUSPENDING, SUSPENDED
  <1>1. /\ StubInv /\ natp \in [Thread -> Natp] /\ threads \subseteq Thread
        /\ context \in [Thread -> Reg \cup {NULL}] /\ todo \subseteq threads
        /\ NoThread \notin Thread
        /\ \A u \in Thread : EachInv(u)
    BY SuspensionAssumption DEF SuspendIInv, SuspensionTypeOK
  <1>2. /\ stub = "await" /\ cur \in todo /\ cur \in Thread /\ step = NoThread
        /\ UNCHANGED <<natp, host, pending, threads, step>>
    BY <1>1 DEF SuspendAwait, StubInv, appVars, kernelVars
  <1>3. CASE stub' = "wait" /\ UNCHANGED <<todo, context, cur>>
    <2>1. \A u \in Thread : /\ Asked(u)' <=> Asked(u)
                            /\ Awaited(u)' <=> Awaited(u)
                            /\ Signalled(u)' <=> Signalled(u)
      BY <1>2, <1>3 DEF Asked, Awaited, Signalled
    <2>2. QED
      BY <1>1, <1>2, <1>3, <2>1, Untouched
  <1>4. CASE natp[cur].suspend_state = kBaseState \cup {SUSPENDED} /\ Suspended
    <2>1. PICK t \in Thread : t = cur
      BY <1>2
    <2>2. /\ stub' = "suspend" /\ todo' = todo \ {t} /\ cur' = NoThread
          /\ context'[t] = SavedContext(t) /\ IsSuspended(t)
          /\ \A u \in Thread \ {t} : context'[u] = context[u]
      BY <1>1, <1>4, <2>1 DEF Suspended, IsSuspended
    <2>3. /\ Asked(t) /\ Asked(t)' /\ ~Awaited(t)' /\ ~Signalled(t)'
          /\ IsSuspended(t)'
      BY <1>1, <1>2, <2>1, <2>2 DEF Asked, Awaited, Signalled, IsSuspended
    <2>4. context'[t] # NULL => host[t].snapshot
      BY <1>1, <2>2 DEF SavedContext, EachInv, RegistersInv
    <2>5. EachInv(t)'
      BY <1>1, <1>2, <2>2, <2>3, <2>4
      DEF EachInv, StateInv, SignalInv, FaultInv, RegistersInv, ContextInv,
          InUntrusted
    <2>6. ASSUME NEW u \in Thread \ {t} PROVE EachInv(u)'
      <3>1. /\ Asked(u)' <=> Asked(u)
            /\ Awaited(u)' <=> Awaited(u)
            /\ Signalled(u)' <=> Signalled(u)
        BY <1>1, <1>2, <2>1, <2>2 DEF Asked, Awaited, Signalled
      <3>2. QED
        BY <1>1, <1>2, <2>2, <3>1, Untouched
    <2>7. QED
      BY <2>5, <2>6
  <1>5. QED
    BY <1>3, <1>4 DEF SuspendAwait

(* The stub takes a fault: the faulted thread waits in the handler. *)
LEMMA UnqueueKeepsEach ==
  ASSUME SuspendIInv, NEW t \in Thread, UnqueueFaultedThread(t)
  PROVE  /\ \A u \in Thread : EachInv(u)'
         /\ host[t].handler # "count"
  <1>1. /\ StubInv /\ natp \in [Thread -> Natp] /\ threads \subseteq Thread
        /\ natp[t] \in Natp /\ NoThread \notin Thread
        /\ \A u \in Thread : EachInv(u)
    BY SuspensionAssumption, Fields DEF SuspendIInv, SuspensionTypeOK
  <1>2. /\ stub = "unqueue" /\ stub' = "held" /\ natp[t].fault_signal
        /\ UNCHANGED <<host, pending, threads, todo, cur, step, context>>
        /\ \A u \in Thread \ {t} : natp'[u] = natp[u]
        /\ natp'[t].suspend_state = natp[t].suspend_state
        /\ natp'[t].suspended_registers = natp[t].suspended_registers
        /\ ~natp'[t].fault_signal
    BY <1>1 DEF UnqueueFaultedThread, appVars, kernelVars, Natp
  <1>3. \A u \in Thread : /\ Asked(u)' <=> Asked(u)
                          /\ Awaited(u)' <=> Awaited(u)
                          /\ Signalled(u)' <=> Signalled(u)
    BY <1>2 DEF Asked, Awaited, Signalled
  <1>4. Asked(t) /\ ~Awaited(t) /\ InUntrusted(t)
    BY <1>1, <1>2
    DEF Asked, Awaited, InUntrusted, EachInv, StateInv, FaultInv, StubInv
  <1>5. host[t].handler # "count"
    BY <1>1, <1>4 DEF EachInv, StateInv
  <1>6. EachInv(t)'
    BY <1>1, <1>2, <1>3, <1>5
    DEF EachInv, StateInv, SignalInv, FaultInv, RegistersInv, ContextInv,
        InUntrusted, IsSuspended
  <1>7. ASSUME NEW u \in Thread \ {t} PROVE EachInv(u)'
    BY <1>1, <1>2, <1>3, Untouched
  <1>8. QED
    BY <1>5, <1>6, <1>7

(* While all are held, those in untrusted code are in their handler. *)
LEMMA HeldInUntrusted ==
  ASSUME SuspendIInv, stub = "held", NEW u \in Thread
  PROVE  /\ ~Awaited(u) /\ ~Signalled(u)
         /\ Asked(u) <=> u \in threads
         /\ InUntrusted(u) => u \in threads /\ Asked(u) /\ IsSuspended(u)
  <1>1. /\ StubInv /\ EachInv(u) /\ NoThread \notin Thread
    BY SuspensionAssumption DEF SuspendIInv
  <1>2. ~Awaited(u) /\ ~Signalled(u) /\ (Asked(u) <=> u \in threads)
    BY <1>1 DEF Asked, Awaited, Signalled, StubInv
  <1>3. InUntrusted(u) => u \in threads
    BY <1>1 DEF EachInv, StateInv, InUntrusted
  <1>4. QED
    BY <1>1, <1>2, <1>3 DEF EachInv, StateInv

(* The debugger writes registers. *)
LEMMA EditKeepsEach ==
  ASSUME SuspendIInv, NEW t \in Thread, EditRegisters(t)
  PROVE  \A u \in Thread : EachInv(u)'
  <1>1. /\ context \in [Thread -> Reg \cup {NULL}]
        /\ \A u \in Thread : EachInv(u)
    BY DEF SuspendIInv, SuspensionTypeOK
  <1>2. /\ stub = "held" /\ context[t] # NULL
        /\ UNCHANGED <<natp, host, pending, threads, stub, todo, cur, step>>
        /\ \A u \in Thread \ {t} : context'[u] = context[u]
    BY <1>1 DEF EditRegisters, appVars, kernelVars
  <1>3. \A u \in Thread : /\ Asked(u)' <=> Asked(u)
                          /\ Awaited(u)' <=> Awaited(u)
                          /\ Signalled(u)' <=> Signalled(u)
    BY <1>2 DEF Asked, Awaited, Signalled
  <1>4. InUntrusted(t) => IsSuspended(t)
    BY <1>2, HeldInUntrusted
  <1>5. EachInv(t)'
    BY <1>1, <1>2, <1>3, <1>4
    DEF EachInv, StateInv, SignalInv, FaultInv, RegistersInv, ContextInv,
        InUntrusted, IsSuspended
  <1>6. ASSUME NEW u \in Thread \ {t} PROVE EachInv(u)'
    BY <1>1, <1>2, <1>3, Untouched
  <1>7. QED
    BY <1>5, <1>6

(* The stub writes back the registers it shows, and begins to resume. *)
LEMMA CopyBackKeepsEach ==
  ASSUME SuspendIInv, ResumeAll \/ StepOver
  PROVE  \A u \in Thread : EachInv(u)'
  <1>1. /\ StubInv /\ natp \in [Thread -> Natp] /\ threads \subseteq Thread
        /\ context \in [Thread -> Reg \cup {NULL}] /\ NoThread \notin Thread
        /\ \A u \in Thread : EachInv(u)
    BY SuspensionAssumption DEF SuspendIInv, SuspensionTypeOK
  <1>2. PICK set \in SUBSET threads :
          /\ CopyBack(set) /\ todo' = set
          /\ stub = "held" /\ stub' = "resume"
          /\ UNCHANGED <<host, pending, threads, cur, context>>
          /\ step = NoThread /\ cur = NoThread
          /\ \/ set = threads /\ step' = step
             \/ step' # NoThread /\ set = {step'}
    <2>1. CASE ResumeAll
      BY <1>1, <2>1 DEF ResumeAll, StubInv, appVars, kernelVars
    <2>2. CASE StepOver
      BY <1>1, <2>2 DEF StepOver, StubInv, appVars, kernelVars
    <2>3. QED
      BY <2>1, <2>2
  <1>3. ASSUME NEW u \in Thread PROVE EachInv(u)'
    <2>1. /\ ~Awaited(u) /\ ~Signalled(u) /\ ~Awaited(u)' /\ ~Signalled(u)'
          /\ Asked(u)' <=> Asked(u)
          /\ InUntrusted(u) => u \in threads /\ Asked(u) /\ IsSuspended(u)
      <3>1. /\ ~Awaited(u) /\ ~Signalled(u) /\ (Asked(u) <=> u \in threads)
            /\ InUntrusted(u) => u \in threads /\ Asked(u) /\ IsSuspended(u)
        BY <1>2, HeldInUntrusted
      <3>2. Asked(u)' <=> u \in threads
        BY <1>1, <1>2 DEF Asked
      <3>3. QED
        BY <1>2, <3>1, <3>2 DEF Awaited, Signalled
    <2>2. /\ natp'[u].suspend_state = natp[u].suspend_state
          /\ natp'[u].fault_signal = natp[u].fault_signal
          /\ natp'[u].suspended_registers =
               IF u \in set /\ context[u] # NULL THEN context[u]
               ELSE natp[u].suspended_registers
      <3>1. natp[u] \in Natp
        BY <1>1
      <3>2. natp'[u] = IF u \in set /\ context[u] # NULL
                       THEN [natp[u] EXCEPT !.suspended_registers = context[u]]
                       ELSE natp[u]
        BY <1>2 DEF CopyBack
      <3>3. QED
        BY <3>1, <3>2 DEF Natp
    <2>3. /\ context[u] \in Reg \cup {NULL}
          /\ NULL \notin Reg /\ Garbage \notin Reg
      BY <1>1, Fields DEF SuspendIInv
    <2>4. (IsSuspended(u)' <=> IsSuspended(u)) /\ EachInv(u)
      BY <1>1, <2>2 DEF IsSuspended
    <2>5. StateInv(u)' /\ SignalInv(u)' /\ FaultInv(u)'
      BY <1>2, <2>1, <2>2, <2>4
      DEF EachInv, StateInv, SignalInv, FaultInv, InUntrusted
    <2>6. RegistersInv(u)' /\ ContextInv(u)'
      BY <1>2, <2>1, <2>2, <2>3, <2>4
      DEF EachInv, SignalInv, RegistersInv, ContextInv, InUntrusted
    <2>7. QED
      BY <2>5, <2>6 DEF EachInv
  <1>4. QED
    BY <1>3

(* A thread may go on. *)
LEMMA ResumeKeepsEach ==
  ASSUME SuspendIInv, NEW t \in Thread, Resume(t)
  PROVE  \A u \in Thread : EachInv(u)'
  <1> USE DEF UNTRUSTED, TRUSTED, SUSPENDING, SUSPENDED
  <1>1. /\ StubInv /\ natp \in [Thread -> Natp] /\ NoThread \notin Thread
        /\ natp[t] \in Natp
        /\ \A u \in Thread : EachInv(u)
    BY SuspensionAssumption, Fields DEF SuspendIInv, SuspensionTypeOK
  <1>2. /\ stub = "resume" /\ stub' = "wake" /\ cur = NoThread /\ cur' = t
        /\ t \in todo
        /\ UNCHANGED <<host, pending, threads, todo, step, context>>
        /\ \A u \in Thread \ {t} : natp'[u] = natp[u]
        /\ natp'[t].suspend_state
             = natp[t].suspend_state \ {SUSPENDING, SUSPENDED}
        /\ natp'[t].suspended_registers = natp[t].suspended_registers
        /\ natp'[t].fault_signal = natp[t].fault_signal
    BY <1>1
    DEF Resume, SetState, appVars, kernelVars, stopVars, StubInv, Natp
  <1>3. /\ Asked(t) /\ ~Awaited(t) /\ ~Signalled(t)
        /\ ~Asked(t)' /\ ~Awaited(t)' /\ ~Signalled(t)'
    BY <1>1, <1>2 DEF Asked, Awaited, Signalled
  <1>4. /\ ~IsSuspended(t)' /\ (InUntrusted(t)' <=> InUntrusted(t))
        /\ InUntrusted(t) => IsSuspended(t)
    BY <1>1, <1>2, <1>3 DEF IsSuspended, InUntrusted, EachInv, StateInv
  <1>5. StateInv(t)'
    <2>1. natp[t].suspend_state \ {SUSPENDED} =
            (IF InUntrusted(t) THEN {UNTRUSTED} ELSE {TRUSTED})
            \cup {SUSPENDING}
      BY <1>1, <1>3 DEF EachInv, StateInv
    <2>2. natp'[t].suspend_state \ {SUSPENDED} =
            IF InUntrusted(t) THEN {UNTRUSTED} ELSE {TRUSTED}
      BY <1>2, <2>1
    <2>3. QED
      BY <1>1, <1>2, <1>3, <1>4, <2>2 DEF EachInv, StateInv
  <1>6. SignalInv(t)' /\ FaultInv(t)'
    BY <1>1, <1>2, <1>3, <1>4 DEF EachInv, SignalInv, FaultInv
  <1>7. RegistersInv(t)' /\ ContextInv(t)'
    BY <1>1, <1>2, <1>3, <1>4
    DEF EachInv, SignalInv, RegistersInv, ContextInv, InUntrusted
  <1>8. EachInv(t)'
    BY <1>5, <1>6, <1>7 DEF EachInv
  <1>9. ASSUME NEW u \in Thread \ {t} PROVE EachInv(u)'
    <2>1. /\ Asked(u)' <=> Asked(u)
          /\ Awaited(u)' <=> Awaited(u)
          /\ Signalled(u)' <=> Signalled(u)
      BY <1>1, <1>2 DEF Asked, Awaited, Signalled
    <2>2. QED
      BY <1>1, <1>2, <2>1, Untouched
  <1>10. QED
    BY <1>8, <1>9

(* Whatever happens, each thread keeps its part of the invariant. *)
LEMMA NextKeepsEach ==
  ASSUME SuspendIInv, Next
  PROVE  \A u \in Thread : EachInv(u)'
  <1>1. CASE StubStep
    BY <1>1, QuietControl, KillKeepsEach, AwaitKeepsEach, SuspendKeepsEach,
       UnqueueKeepsEach, ResumeKeepsEach
    DEF StubStep
  <1>2. CASE Debugger
    BY <1>2, QuietControl, CopyBackKeepsEach, EditKeepsEach DEF Debugger
  <1>3. ASSUME NEW t \in Thread, ThreadStep(t) \/ HandlerStep(t)
        PROVE  \A u \in Thread : EachInv(u)'
    BY <1>3, OthersUntouched, ThreadStepKeepsInv, HandlerStepKeepsInv
  <1>4. QED
    BY <1>1, <1>2, <1>3 DEF Next

(* A thread's own steps keep its variables well typed. *)
LEMMA ThreadStepKeepsType ==
  ASSUME SuspendIInv, NEW t \in Thread, ThreadStep(t)
  PROVE  /\ natp' \in [Thread -> Natp] /\ host' \in [Thread -> Host]
         /\ pending' \in [Thread -> BOOLEAN]
         /\ waiters' \in [Thread -> SUBSET {"self", "stub"}]
         /\ threads' \subseteq Thread
  <1>1. /\ natp \in [Thread -> Natp] /\ host \in [Thread -> Host]
        /\ pending \in [Thread -> BOOLEAN] /\ threads \subseteq Thread
        /\ waiters \in [Thread -> SUBSET {"self", "stub"}]
    BY DEF SuspendIInv, SuspensionTypeOK
  <1>2. ASSUME NEW p \in {"none", "launch", "syscall", "enter", "enterWait",
                         "untrusted", "leave", "leaveWait"}
        PROVE  /\ \A r \in Reg \cup {Trusted} :
                    [host EXCEPT ![t].pc = p, ![t].regs = r]
                      \in [Thread -> Host]
               /\ \A s \in State :
                    [host EXCEPT ![t].pc = p, ![t].seen = s]
                      \in [Thread -> Host]
    <2>1. host[t] \in Host
      BY <1>1
    <2>2. \A r \in Reg \cup {Trusted} :
            [host[t] EXCEPT !.pc = p, !.regs = r] \in Host
      BY <2>1 DEF Host
    <2>3. \A s \in State : [host[t] EXCEPT !.pc = p, !.seen = s] \in Host
      BY <2>1 DEF Host
    <2>4. \A h \in Host : [host EXCEPT ![t] = h] \in [Thread -> Host]
      BY <1>1
    <2>5. QED
      BY <2>2, <2>3, <2>4
  <1>3. ASSUME NEW p \in {"syscall", "untrusted", "leave"}, Reach(t, p)
        PROVE  host' \in [Thread -> Host]
    <2>1. PICK r \in IF p = "untrusted" THEN Reg ELSE {Trusted} :
            host' = [host EXCEPT ![t].pc = p, ![t].regs = r]
      BY <1>3 DEF Reach
    <2>2. r \in Reg \cup {Trusted}
      OBVIOUS
    <2>3. QED
      BY <1>2, <2>1, <2>2
  <1>4. ASSUME NEW p \in {"none", "launch", "syscall", "enter"}, Goto(t, p)
        PROVE  host' \in [Thread -> Host]
    BY <1>1, <1>4 DEF Goto, Host
  <1>5. ASSUME NEW b \in {UNTRUSTED, TRUSTED}, SetState(t, {b})
        PROVE  natp' \in [Thread -> Natp]
    BY <1>1, <1>5 DEF SetState, Natp, State
  <1>6. ASSUME NEW v, FutexWait(t, "self", v)
        PROVE  waiters' \in [Thread -> SUBSET {"self", "stub"}]
    BY <1>1, <1>6 DEF FutexWait
  <1>7. CASE AppThreadSpawn(t) \/ AppThreadLauncher(t) \/ SyscallReturns(t)
    BY <1>1, <1>4, <1>7
    DEF AppThreadSpawn, AppThreadLauncher, SyscallReturns, appVars, kernelVars
  <1>8. CASE AppThreadTeardown(t)
    <2>1. FreshNatp \in Natp
      BY DEF FreshNatp, Natp, State
    <2>2. QED
      BY <1>1, <1>4, <1>8, <2>1 DEF AppThreadTeardown, kernelVars
  <1>9. ASSUME NEW wait \in {"enterWait", "leaveWait"},
               NEW loop \in {"enter", "leave"},
               SetSuspendWait(t, wait, loop)
        PROVE  host' \in [Thread -> Host] /\ natp' = natp
               /\ pending' = pending /\ threads' = threads
    <2>1. host' = [host EXCEPT ![t].pc = loop, ![t].seen = {}]
      BY <1>9 DEF SetSuspendWait
    <2>2. {} \in State
      BY DEF State
    <2>3. host' \in [Thread -> Host]
      BY <1>2, <1>9, <2>1, <2>2
    <2>4. QED
      BY <1>9, <2>3 DEF SetSuspendWait, appVars
  <1>10. ASSUME NEW wait \in {"enterWait", "leaveWait"},
                NEW loop, NEW old, NEW new \in {UNTRUSTED, TRUSTED},
                NEW done \in {"untrusted", "syscall"},
                SetSuspendState(t, loop, wait, old, new, done)
         PROVE  host' \in [Thread -> Host] /\ natp' \in [Thread -> Natp]
                /\ UNCHANGED <<pending, waiters, threads>>
    <2>1. UNCHANGED <<pending, waiters, threads>>
      BY <1>10 DEF SetSuspendState, appVars, kernelVars
    <2>2. CASE SetState(t, {new}) /\ Reach(t, done)
      BY <1>3, <1>5, <2>1, <2>2
    <2>3. CASE /\ host' = [host EXCEPT ![t].pc = wait,
                                       ![t].seen = natp[t].suspend_state]
               /\ UNCHANGED natp
      <3>1. natp[t].suspend_state \in State
        BY <1>1 DEF Natp
      <3>2. QED
        BY <1>1, <1>2, <2>1, <2>3, <3>1
    <2>4. QED
      BY <1>10, <2>2, <2>3 DEF SetSuspendState
  <1>11. CASE EnterUntrusted(t)
    BY <1>1, <1>6, <1>9, <1>10, <1>11 DEF EnterUntrusted, SetSuspendWait
  <1>12. CASE LeaveUntrusted(t)
    BY <1>1, <1>6, <1>9, <1>10, <1>12 DEF LeaveUntrusted, SetSuspendWait
  <1>13. CASE Compute(t) \/ Fault(t)
    BY <1>1, <1>13 DEF Compute, Fault, Host, appVars, kernelVars
  <1>14. CASE Syscall(t)
    BY <1>1, <1>3, <1>14 DEF Syscall, appVars, kernelVars
  <1>15. QED
    BY <1>7, <1>8, <1>11, <1>12, <1>13, <1>14 DEF ThreadStep

(* So do the steps of its signal handlers. *)
LEMMA HandlerStepKeepsType ==
  ASSUME SuspendIInv, NEW t \in Thread, HandlerStep(t)
  PROVE  /\ natp' \in [Thread -> Natp] /\ host' \in [Thread -> Host]
         /\ pending' \in [Thread -> BOOLEAN]
         /\ waiters' \in [Thread -> SUBSET {"self", "stub"}]
         /\ threads' = threads
  <1>1. /\ natp \in [Thread -> Natp] /\ host \in [Thread -> Host]
        /\ pending \in [Thread -> BOOLEAN]
        /\ waiters \in [Thread -> SUBSET {"self", "stub"}]
        /\ natp[t] \in Natp /\ host[t] \in Host /\ EachInv(t)
    BY Fields DEF SuspendIInv, SuspensionTypeOK
  <1>2. ASSUME NEW h \in {"entry", "count", "sigwait", "poll"},
               HandlerGoto(t, h)
        PROVE  host' \in [Thread -> Host]
    BY <1>1, <1>2 DEF HandlerGoto, Host
  <1>3. {} \in State /\ natp[t].suspend_state \in State
        /\ host[t].hseen \cup {SUSPENDED} \in State
    BY <1>1 DEF State, Natp, Host
  <1>4. CASE Deliver(t) \/ Sigwait(t)
    BY <1>1, <1>2, <1>4 DEF Deliver, Sigwait, appVars
  <1>5. CASE FaultSignal(t)
    BY <1>1, <1>2, <1>5 DEF FaultSignal, appVars, kernelVars, Natp
  <1>6. CASE FaultCount(t)
    BY <1>1, <1>2, <1>6 DEF FaultCount, kernelVars
  <1>7. CASE HandlerSaves(t)
    <2>1. host[t].regs \in Reg \cup {NULL, Garbage, Trusted}
      BY <1>1 DEF Host
    <2>2. host' \in [Thread -> Host]
      BY <1>1, <1>7 DEF HandlerSaves, Host
    <2>3. natp' \in [Thread -> Natp]
      BY <1>1, <1>7, <2>1 DEF HandlerSaves, Natp
    <2>4. QED
      BY <1>1, <1>7, <2>2, <2>3 DEF HandlerSaves, appVars, kernelVars
  <1>8. CASE HandlerReads(t)
    BY <1>1, <1>3, <1>8 DEF HandlerReads, Host, appVars, kernelVars
  <1>9. CASE HandlerMarks(t)
    <2>1. host' \in [Thread -> Host]
      BY <1>1, <1>3, <1>9 DEF HandlerMarks, Host
    <2>2. natp' \in [Thread -> Natp]
      BY <1>1, <1>3, <1>9 DEF HandlerMarks, SetState, Natp
    <2>3. QED
      BY <1>1, <1>9, <2>1, <2>2 DEF HandlerMarks, appVars, kernelVars
  <1>10. CASE HandlerWakes(t)
    BY <1>1, <1>2, <1>10 DEF HandlerWakes, FutexWake, appVars
  <1>11. CASE HandlerPolls(t)
    <2>1. host' \in [Thread -> Host]
      <3>1. CASE SUSPENDED \in natp[t].suspend_state
        BY <1>1, <1>3, <1>11, <3>1 DEF HandlerPolls, Host
      <3>2. CASE SUSPENDED \notin natp[t].suspend_state
        BY <1>1, <1>11, <3>2 DEF HandlerPolls, Host
      <3>3. QED
        BY <3>1, <3>2
    <2>2. QED
      BY <1>1, <1>11, <2>1 DEF HandlerPolls, appVars, kernelVars
  <1>12. CASE HandlerWaits(t)
    <2>1. host' \in [Thread -> Host]
      BY <1>1, <1>3, <1>12 DEF HandlerWaits, Host
    <2>2. QED
      BY <1>1, <1>12, <2>1 DEF HandlerWaits, FutexWait, appVars
  <1>13. CASE HandlerReturns(t)
    <2>1. Applied(t) \in Reg \cup {Trusted}
      BY <1>1 DEF Applied, EachInv, RegistersInv, Host
    <2>2. Outer(t) \in {"none", "sigwait"} /\ (Outer(t) # "none") \in BOOLEAN
      BY DEF Outer
    <2>3. host' \in [Thread -> Host]
      BY <1>1, <1>13, <2>1, <2>2 DEF HandlerReturns, Host
    <2>4. QED
      BY <1>1, <1>13, <2>3 DEF HandlerReturns, appVars, kernelVars
  <1>14. QED
    BY <1>4, <1>5, <1>6, <1>7, <1>8, <1>9, <1>10, <1>11, <1>12, <1>13
    DEF HandlerStep

(* The faults that the counter counts. *)
Faulted == {t \in Thread : /\ natp[t].fault_signal
                           /\ host[t].handler # "count"}

(* A thread's own steps: a mark is set one step before it is counted. *)
LEMMA ThreadStepFaults ==
  ASSUME SuspendIInv, NEW t \in Thread, ThreadStep(t)
  PROVE  /\ faulted_thread_count' = faulted_thread_count
         /\ ~natp[t].fault_signal /\ ~natp'[t].fault_signal
  <1>1. /\ natp \in [Thread -> Natp] /\ natp[t] \in Natp /\ EachInv(t)
    BY Fields DEF SuspendIInv
  <1>2. host[t].handler = "none"
    BY <1>1
    DEF ThreadStep, AppThreadSpawn, AppThreadLauncher, AppThreadTeardown,
        SyscallReturns, EnterUntrusted, LeaveUntrusted, SetSuspendState,
        SetSuspendWait, Compute, Syscall, Fault, At, EachInv, SignalInv,
        InUntrusted
  <1>3. ~natp[t].fault_signal
    BY <1>2, AwakeThread
  <1>4. faulted_thread_count' = faulted_thread_count
    BY DEF ThreadStep, AppThreadSpawn, AppThreadLauncher, AppThreadTeardown,
           SyscallReturns, EnterUntrusted, LeaveUntrusted, SetSuspendState,
           SetSuspendWait, Compute, Syscall, Fault, appVars
  <1>5. \/ natp'[t] = FreshNatp
        \/ \E s : natp'[t] = [natp[t] EXCEPT !.suspend_state = s]
        \/ natp' = natp
    BY <1>1
    DEF ThreadStep, AppThreadSpawn, AppThreadLauncher, AppThreadTeardown,
        SyscallReturns, EnterUntrusted, LeaveUntrusted, SetSuspendState,
        SetSuspendWait, Compute, Syscall, Fault, SetState
  <1>6. ~natp'[t].fault_signal
    <2>1. CASE natp'[t] = FreshNatp
      BY <2>1 DEF FreshNatp
    <2>2. CASE natp' = natp
      BY <1>3, <2>2
    <2>3. ASSUME NEW s, natp'[t] = [natp[t] EXCEPT !.suspend_state = s]
          PROVE  natp'[t].fault_signal = natp[t].fault_signal
      BY <1>1, <2>3 DEF Natp
    <2>4. QED
      BY <1>3, <1>5, <2>1, <2>2, <2>3
  <1>7. QED
    BY <1>3, <1>4, <1>6

(* A handler's step changes mark and count together, or neither. *)
LEMMA HandlerStepFaults ==
  ASSUME SuspendIInv, NEW t \in Thread, HandlerStep(t)
  PROVE  /\ natp[t].fault_signal => natp'[t].fault_signal
         /\ \/ /\ faulted_thread_count' = faulted_thread_count
               /\ t \in Faulted' <=> t \in Faulted
            \/ /\ faulted_thread_count' = faulted_thread_count + 1
               /\ t \in Faulted' /\ t \notin Faulted
  <1>1. /\ natp \in [Thread -> Natp] /\ natp[t] \in Natp
        /\ host \in [Thread -> Host] /\ host[t] \in Host /\ EachInv(t)
    BY Fields DEF SuspendIInv
  <1>2. CASE FaultCount(t)
    BY <1>1, <1>2
    DEF FaultCount, InHandler, HandlerGoto, EachInv, FaultInv, Faulted, Host
  <1>3. CASE FaultSignal(t)
    BY <1>1, <1>3
    DEF FaultSignal, InHandler, HandlerGoto, EachInv, FaultInv, Faulted, Host,
        Natp, appVars
  <1>4. CASE Deliver(t) \/ Sigwait(t) \/ HandlerReads(t) \/ HandlerWakes(t)
             \/ HandlerPolls(t) \/ HandlerWaits(t)
    BY <1>1, <1>4
    DEF Deliver, Sigwait, HandlerReads, HandlerWakes, HandlerPolls,
        HandlerWaits, InHandler, HandlerGoto, Faulted, Host, appVars
  <1>5. CASE HandlerSaves(t) \/ HandlerMarks(t)
    <2>1. /\ faulted_thread_count' = faulted_thread_count
          /\ host[t].handler \in {"entry", "marked"}
          /\ host'[t].handler \in {"mark", "wake"}
      BY <1>1, <1>5
      DEF HandlerSaves, HandlerMarks, InHandler, Host, appVars
    <2>2. natp'[t].fault_signal = natp[t].fault_signal
      BY <1>1, <1>5 DEF HandlerSaves, HandlerMarks, SetState, Natp
    <2>3. QED
      BY <2>1, <2>2 DEF Faulted
  <1>6. CASE HandlerReturns(t)
    BY <1>1, <1>6
    DEF HandlerReturns, InHandler, Outer, Faulted, Host, appVars
  <1>7. QED
    BY <1>2, <1>3, <1>4, <1>5, <1>6 DEF HandlerStep

(* The counter stays right. *)
LEMMA CountStaysRight ==
  ASSUME SuspendIInv, Next
  PROVE  /\ FaultedCountRight'
         /\ faulted_thread_count' \in 0..Cardinality(Thread)
  <1>1. /\ IsFiniteSet(Thread) /\ faulted_thread_count = Cardinality(Faulted)
        /\ IsFiniteSet(Faulted) /\ Cardinality(Faulted) \in Nat
        /\ faulted_thread_count \in Nat
    <2>1. IsFiniteSet(Thread)
      BY SuspensionAssumption
    <2>2. Faulted \subseteq Thread
      BY DEF Faulted
    <2>3. IsFiniteSet(Faulted) /\ Cardinality(Faulted) \in Nat
      BY <2>1, <2>2, FS_Subset, FS_CardinalityType
    <2>4. QED
      BY <2>1, <2>3 DEF SuspendIInv, FaultedCountRight, Faulted
  <1>2. SUFFICES faulted_thread_count' = Cardinality(Faulted')
    <2>1. Faulted' \subseteq Thread
      BY DEF Faulted
    <2>2. /\ Cardinality(Faulted') \in Nat
          /\ Cardinality(Faulted') <= Cardinality(Thread)
      BY <1>1, <2>1, FS_Subset, FS_CardinalityType
    <2>3. Cardinality(Thread) \in Nat
      BY <1>1, FS_CardinalityType
    <2>4. QED
      BY <1>2, <2>2, <2>3 DEF FaultedCountRight, Faulted
  <1>3. ASSUME NEW t \in Thread, ThreadStep(t) \/ HandlerStep(t)
        PROVE  faulted_thread_count' = Cardinality(Faulted')
    <2>1. \A u \in Thread \ {t} : u \in Faulted' <=> u \in Faulted
      BY <1>3, StepOfOne DEF Faulted
    <2>2. CASE /\ faulted_thread_count' = faulted_thread_count
               /\ t \in Faulted' <=> t \in Faulted
      <3>1. Faulted' = Faulted
        BY <2>1, <2>2 DEF Faulted
      <3>2. QED
        BY <1>1, <2>2, <3>1
    <2>3. CASE /\ faulted_thread_count' = faulted_thread_count + 1
               /\ t \in Faulted' /\ t \notin Faulted
      <3>1. Faulted' = Faulted \cup {t}
        BY <2>1, <2>3 DEF Faulted
      <3>2. Cardinality(Faulted \cup {t}) = Cardinality(Faulted) + 1
        BY <1>1, <2>3, FS_AddElement
      <3>3. QED
        BY <1>1, <2>3, <3>1, <3>2
    <2>4. CASE ThreadStep(t)
      <3>1. t \notin Faulted /\ t \notin Faulted'
        BY <2>4, ThreadStepFaults DEF Faulted
      <3>2. QED
        BY <2>2, <2>4, <3>1, ThreadStepFaults
    <2>5. CASE HandlerStep(t)
      BY <2>2, <2>3, <2>5, HandlerStepFaults
    <2>6. QED
      BY <1>3, <2>4, <2>5
  <1>4. ASSUME NEW t \in Thread, UnqueueFaultedThread(t)
        PROVE  faulted_thread_count' = Cardinality(Faulted')
    <2>1. natp \in [Thread -> Natp] /\ natp[t] \in Natp
      BY Fields DEF SuspendIInv
    <2>2. /\ t \in Faulted /\ t \notin Faulted'
          /\ \A u \in Thread \ {t} : u \in Faulted' <=> u \in Faulted
          /\ faulted_thread_count' = faulted_thread_count - 1
      BY <1>4, <2>1, UnqueueKeepsEach DEF UnqueueFaultedThread, Faulted, Natp
    <2>3. Faulted' = Faulted \ {t}
      BY <2>2 DEF Faulted
    <2>4. Cardinality(Faulted \ {t}) = Cardinality(Faulted) - 1
      BY <1>1, <2>2, FS_RemoveElement
    <2>5. QED
      BY <1>1, <2>2, <2>3, <2>4
  <1>5. ASSUME \A u \in Thread : /\ natp'[u].fault_signal
                                      = natp[u].fault_signal
                                 /\ host'[u] = host[u],
               faulted_thread_count' = faulted_thread_count
        PROVE  faulted_thread_count' = Cardinality(Faulted')
    <2>1. Faulted' = Faulted
      BY <1>5 DEF Faulted
    <2>2. QED
      BY <1>1, <1>5, <2>1
  <1>6. natp \in [Thread -> Natp]
    BY DEF SuspendIInv, SuspensionTypeOK
  <1>7. CASE SuspendAll \/ SuspendAllReturns \/ SuspendWait \/ SuspendAwait
             \/ ResumeWake \/ ResumeAllReturns \/ StepEnds
             \/ \E t \in Thread : EditRegisters(t)
    <2>1. UNCHANGED <<natp, host, faulted_thread_count>>
      BY <1>7
      DEF SuspendAll, SuspendAllReturns, SuspendWait, SuspendAwait, ResumeWake,
          ResumeAllReturns, StepEnds, EditRegisters, appVars
    <2>2. QED
      BY <1>5, <2>1
  <1>8. CASE SuspendKill \/ ResumeAll \/ StepOver
             \/ \E t \in Thread : Suspend(t) \/ Resume(t)
    <2>1. UNCHANGED <<host, faulted_thread_count>>
      BY <1>8
      DEF SuspendKill, ResumeAll, StepOver, Suspend, Resume, appVars
    <2>2. ASSUME NEW u \in Thread
          PROVE  natp'[u].fault_signal = natp[u].fault_signal
      <3>1. natp[u] \in Natp
        BY <1>6
      <3>2. \/ natp'[u] = natp[u]
            \/ \E s : natp'[u] = [natp[u] EXCEPT !.suspend_state = s]
            \/ \E r : natp'[u] = [natp[u] EXCEPT !.suspended_registers = r]
        <4>1. CASE SuspendKill
          BY <1>6, <4>1 DEF SuspendKill
        <4>2. CASE ResumeAll \/ StepOver
          BY <4>2 DEF ResumeAll, StepOver, CopyBack
        <4>3. ASSUME NEW t \in Thread, NEW s, SetState(t, s)
              PROVE  \/ natp'[u] = natp[u]
                     \/ natp'[u] = [natp[u] EXCEPT !.suspend_state = s]
          BY <1>6, <4>3 DEF SetState
        <4>4. QED
          BY <1>8, <4>1, <4>2, <4>3 DEF Suspend, Resume
      <3>3. QED
        BY <3>1, <3>2 DEF Natp
    <2>3. QED
      BY <1>5, <2>1, <2>2
  <1>9. QED
    BY <1>3, <1>4, <1>7, <1>8 DEF Next, StubStep, Debugger

(* What the controller may leave of the threads' state. *)
LEMMA ControlKeepsThreads ==
  ASSUME SuspendIInv, StubStep \/ Debugger
  PROVE  /\ natp' \in [Thread -> Natp] /\ host' = host
         /\ \A u \in Thread :
              \/ natp'[u].fault_signal = natp[u].fault_signal
              \/ UnqueueFaultedThread(u)
  <1>1. /\ natp \in [Thread -> Natp]
        /\ \A u \in Thread : natp[u] \in Natp
        /\ context \in [Thread -> Reg \cup {NULL}]
        /\ cur \in Thread \cup {NoThread}
    BY DEF SuspendIInv, SuspensionTypeOK
  <1>2. host' = host
    BY DEF StubStep, Debugger, SuspendAll, SuspendAllReturns, SuspendWait,
           SuspendAwait, SuspendKill, Suspend, UnqueueFaultedThread, Resume,
           ResumeWake, ResumeAllReturns, StepEnds, ResumeAll, StepOver,
           EditRegisters
  <1>3. ASSUME natp' = natp
        PROVE  natp' \in [Thread -> Natp]
               /\ \A u \in Thread : natp'[u].fault_signal = natp[u].fault_signal
    BY <1>1, <1>3
  <1>4. ASSUME NEW t \in Thread, Suspend(t) \/ Resume(t)
        PROVE  natp' \in [Thread -> Natp]
               /\ \A u \in Thread : natp'[u].fault_signal = natp[u].fault_signal
    <2>1. PICK s \in State : natp' = [natp EXCEPT ![t].suspend_state = s]
      <3>1. natp[t].suspend_state \cup {SUSPENDING} \in State
            /\ natp[t].suspend_state \ {SUSPENDING, SUSPENDED} \in State
        BY <1>1 DEF Natp, State
      <3>2. QED
        BY <1>4, <3>1 DEF Suspend, Resume, SetState
    <2>2. QED
      BY <1>1, <2>1 DEF Natp
  <1>5. CASE SuspendKill
    <2>1. natp' \in [Thread -> Natp]
      BY <1>1, <1>5 DEF SuspendKill, Natp
    <2>2. \A u \in Thread : natp'[u].fault_signal = natp[u].fault_signal
      BY <1>1, <1>5 DEF SuspendKill, Natp
    <2>3. QED
      BY <1>2, <2>1, <2>2
  <1>6. CASE ResumeAll \/ StepOver
    <2>1. PICK set : CopyBack(set)
      BY <1>6 DEF ResumeAll, StepOver
    <2>2. ASSUME NEW u \in Thread
          PROVE  /\ natp'[u] \in Natp
                 /\ natp'[u].fault_signal = natp[u].fault_signal
      <3>1. CASE u \in set /\ context[u] # NULL
        <4>1. natp'[u] = [natp[u] EXCEPT !.suspended_registers = context[u]]
          BY <2>1, <3>1 DEF CopyBack
        <4>2. QED
          BY <1>1, <3>1, <4>1 DEF Natp
      <3>2. CASE ~(u \in set /\ context[u] # NULL)
        BY <1>1, <2>1, <3>2 DEF CopyBack
      <3>3. QED
        BY <3>1, <3>2
    <2>3. natp' = [u \in Thread |-> natp'[u]]
      BY <2>1 DEF CopyBack
    <2>4. QED
      BY <1>2, <2>2, <2>3
  <1>7. ASSUME NEW t \in Thread, UnqueueFaultedThread(t)
        PROVE  /\ natp' \in [Thread -> Natp]
               /\ \A u \in Thread \ {t} : natp'[u] = natp[u]
    BY <1>1, <1>7 DEF UnqueueFaultedThread, Natp
  <1>8. CASE SuspendAll \/ SuspendAllReturns \/ SuspendWait \/ SuspendAwait
             \/ ResumeWake \/ ResumeAllReturns \/ StepEnds
             \/ \E t \in Thread : EditRegisters(t)
    BY <1>2, <1>3, <1>8
    DEF SuspendAll, SuspendAllReturns, SuspendWait, SuspendAwait, ResumeWake,
        ResumeAllReturns, StepEnds, EditRegisters
  <1>9. QED
    BY <1>2, <1>4, <1>5, <1>6, <1>7, <1>8 DEF StubStep, Debugger

(* The controller's own variables. *)
StubTypeOK ==
  /\ threads_mu \in BOOLEAN
  /\ stub \in {"idle", "suspend", "kill", "await", "wait", "unqueue", "held",
               "resume", "wake", "stepping"}
  /\ todo \subseteq threads
  /\ cur \in Thread \cup {NoThread}
  /\ save \in BOOLEAN
  /\ report \subseteq Thread
  /\ sig \in Thread \cup {NoThread}
  /\ step \in Thread \cup {NoThread}
  /\ context \in [Thread -> Reg \cup {NULL}]

(* The controller's steps keep its own state. *)
LEMMA ControlKeepsStub ==
  ASSUME SuspendIInv, StubStep \/ Debugger
  PROVE  /\ StubInv' /\ StubTypeOK' /\ threads' = threads
         /\ pending' \in [Thread -> BOOLEAN]
         /\ waiters' \in [Thread -> SUBSET {"self", "stub"}]
  <1>1. /\ StubInv /\ StubTypeOK /\ NoThread \notin Thread
        /\ pending \in [Thread -> BOOLEAN]
        /\ waiters \in [Thread -> SUBSET {"self", "stub"}]
        /\ threads \subseteq Thread
        /\ \A t \in Thread : EachInv(t)
        /\ natp \in [Thread -> Natp]
    BY SuspensionAssumption DEF SuspendIInv, SuspensionTypeOK, StubTypeOK
  <1>2. \A u \in Thread : \/ natp'[u].fault_signal = natp[u].fault_signal
                          \/ UnqueueFaultedThread(u)
    BY ControlKeepsThreads
  <1>3. StubInv' /\ StubTypeOK'
    <2>1. CASE SuspendAll
      <3>1. faulted_thread_count # 0 => \E t \in Thread : natp[t].fault_signal
        <4>1. faulted_thread_count = Cardinality(Faulted)
          BY DEF SuspendIInv, FaultedCountRight, Faulted
        <4>2. Cardinality({}) = 0
          BY FS_EmptySet
        <4>3. QED
          BY <4>1, <4>2 DEF Faulted
      <3>2. save' \in BOOLEAN
        BY <2>1, SuspensionAssumption DEF SuspendAll
      <3>3. QED
        BY <1>1, <2>1, <3>1, <3>2
        DEF SuspendAll, StubInv, StubTypeOK, kernelVars
    <2>2. ASSUME NEW t \in Thread, Suspend(t) PROVE StubInv' /\ StubTypeOK'
      BY <1>1, <1>2, <2>2
      DEF Suspend, StubInv, StubTypeOK, appVars, UnqueueFaultedThread
    <2>3. CASE SuspendKill
      BY <1>1, <1>2, <2>3
      DEF SuspendKill, StubInv, StubTypeOK, appVars, stopVars,
          UnqueueFaultedThread
    <2>4. CASE SuspendAwait
      <3>1. CASE stub' = "wait" /\ UNCHANGED <<todo, context, cur>>
        BY <1>1, <2>4, <3>1
        DEF SuspendAwait, StubInv, StubTypeOK, appVars
      <3>2. CASE natp[cur].suspend_state = kBaseState \cup {SUSPENDED}
                 /\ Suspended
        <4>1. /\ cur \in Thread /\ EachInv(cur) /\ natp[cur] \in Natp
              /\ IsSuspended(cur)
          BY <1>1, <2>4, <3>2
          DEF SuspendAwait, StubInv, StubTypeOK, IsSuspended
        <4>2. SavedContext(cur) \in Reg \cup {NULL}
          BY <4>1 DEF SavedContext, EachInv, RegistersInv, Natp
        <4>3. QED
          BY <1>1, <2>4, <3>2, <4>1, <4>2
          DEF SuspendAwait, Suspended, StubInv, StubTypeOK, appVars
      <3>3. QED
        BY <2>4, <3>1, <3>2 DEF SuspendAwait
    <2>5. CASE SuspendWait \/ SuspendAllReturns
      BY <1>1, <2>5
      DEF SuspendWait, SuspendAllReturns, StubInv, StubTypeOK, appVars, stopVars
    <2>6. ASSUME NEW t \in Thread, UnqueueFaultedThread(t)
          PROVE  StubInv' /\ StubTypeOK'
      <3>1. t \in threads
        BY <1>1, <2>6
        DEF UnqueueFaultedThread, EachInv, FaultInv, StateInv
      <3>2. QED
        BY <1>1, <2>6, <3>1 DEF UnqueueFaultedThread, StubInv, StubTypeOK
    <2>7. ASSUME NEW t \in Thread, EditRegisters(t)
          PROVE  StubInv' /\ StubTypeOK'
      BY <1>1, <2>7 DEF EditRegisters, StubInv, StubTypeOK, appVars
    <2>8. CASE ResumeAll \/ StepOver
      BY <1>1, <2>8 DEF ResumeAll, StepOver, StubInv, StubTypeOK, appVars
    <2>9. ASSUME NEW t \in Thread, Resume(t) PROVE StubInv' /\ StubTypeOK'
      BY <1>1, <2>9 DEF Resume, StubInv, StubTypeOK, appVars, stopVars
    <2>10. CASE ResumeWake \/ ResumeAllReturns
      BY <1>1, <2>10
      DEF ResumeWake, ResumeAllReturns, StubInv, StubTypeOK, appVars, stopVars
    <2>11. CASE StepEnds
      BY <1>1, <2>11 DEF StepEnds, StubInv, StubTypeOK, appVars
    <2>12. QED
      BY <2>1, <2>2, <2>3, <2>4, <2>5, <2>6, <2>7, <2>8, <2>9, <2>10, <2>11
      DEF StubStep, Debugger
  <1>4. threads' = threads
    BY DEF StubStep, Debugger, SuspendAll, SuspendAllReturns, SuspendWait,
           SuspendAwait, SuspendKill, Suspend, UnqueueFaultedThread, Resume,
           ResumeWake, ResumeAllReturns, StepEnds, ResumeAll, StepOver,
           EditRegisters, appVars
  <1>5. pending' \in [Thread -> BOOLEAN]
    <2>1. CASE SuspendKill
      BY <1>1, <2>1 DEF SuspendKill
    <2>2. CASE ~SuspendKill
      BY <1>1, <2>2
      DEF StubStep, Debugger, SuspendAll, SuspendAllReturns, SuspendWait,
          SuspendAwait, Suspend, UnqueueFaultedThread, Resume, ResumeWake,
          ResumeAllReturns, StepEnds, ResumeAll, StepOver, EditRegisters,
          kernelVars
    <2>3. QED
      BY <2>1, <2>2
  <1>6. waiters' \in [Thread -> SUBSET {"self", "stub"}]
    <2>1. CASE SuspendWait
      BY <1>1, <2>1 DEF SuspendWait, FutexWait
    <2>2. CASE ResumeWake
      BY <1>1, <2>2 DEF ResumeWake, FutexWake
    <2>3. CASE ~(SuspendWait \/ ResumeWake)
      BY <1>1, <2>3
      DEF StubStep, Debugger, SuspendAll, SuspendAllReturns, SuspendAwait,
          SuspendKill, Suspend, UnqueueFaultedThread, Resume,
          ResumeAllReturns, StepEnds, ResumeAll, StepOver, EditRegisters,
          kernelVars
    <2>4. QED
      BY <2>1, <2>2, <2>3
  <1>7. QED
    BY <1>3, <1>4, <1>5, <1>6

(* While a thread takes a step the controller's state stays right. *)
LEMMA ThreadsKeepStub ==
  ASSUME SuspendIInv, NEW t \in Thread, ThreadStep(t) \/ HandlerStep(t)
  PROVE  StubInv' /\ StubTypeOK'
  <1>1. /\ StubInv /\ StubTypeOK
    BY DEF SuspendIInv, SuspensionTypeOK, StubTypeOK
  <1>2. /\ UNCHANGED stubVars /\ threads_mu' = threads_mu
        /\ threads' = threads \/ ~threads_mu
    BY StepOfOne
  <1>3. \A u \in Thread : natp[u].fault_signal => natp'[u].fault_signal
    BY StepOfOne, ThreadStepFaults, HandlerStepFaults
  <1>4. QED
    BY <1>1, <1>2, <1>3 DEF StubInv, StubTypeOK, stubVars, stopVars

(* The invariant is inductive. *)
LEMMA SuspendInductive ==
  ASSUME SuspendIInv, [Next]_vars
  PROVE  SuspendIInv'
  <1>1. CASE UNCHANGED vars
    <2>1. SuspensionTypeOK'
      BY <1>1
      DEF vars, appVars, kernelVars, stubVars, stopVars, SuspendIInv,
          SuspensionTypeOK
    <2>2. StubInv' /\ FaultedCountRight'
      BY <1>1
      DEF vars, appVars, stubVars, stopVars, SuspendIInv, StubInv,
          FaultedCountRight
    <2>3. ASSUME NEW t \in Thread PROVE EachInv(t)'
      <3>1. EachInv(t)
        BY DEF SuspendIInv
      <3>2. QED
        BY <1>1, <3>1
        DEF vars, appVars, kernelVars, stubVars, stopVars, EachInv, StateInv,
            SignalInv, FaultInv, RegistersInv, ContextInv, InUntrusted,
            IsSuspended, Asked, Awaited, Signalled
    <2>4. QED
      BY <2>1, <2>2, <2>3 DEF SuspendIInv
  <1>2. CASE Next
    <2>1. /\ natp' \in [Thread -> Natp] /\ host' \in [Thread -> Host]
          /\ pending' \in [Thread -> BOOLEAN]
          /\ waiters' \in [Thread -> SUBSET {"self", "stub"}]
          /\ threads' \subseteq Thread
          /\ StubInv' /\ StubTypeOK'
      <3>1. host \in [Thread -> Host] /\ threads \subseteq Thread
        BY DEF SuspendIInv, SuspensionTypeOK
      <3>2. CASE StubStep \/ Debugger
        BY <3>1, <3>2, ControlKeepsThreads, ControlKeepsStub
      <3>3. QED
        BY <3>1, <3>2, ThreadStepKeepsType, HandlerStepKeepsType,
           ThreadsKeepStub, <1>2
        DEF Next
    <2>2. FaultedCountRight' /\ faulted_thread_count' \in 0..Cardinality(Thread)
      BY <1>2, CountStaysRight
    <2>3. \A u \in Thread : EachInv(u)'
      BY <1>2, NextKeepsEach
    <2>4. QED
      BY <2>1, <2>2, <2>3 DEF SuspendIInv, SuspensionTypeOK, StubTypeOK
  <1>3. QED
    BY <1>1, <1>2
(* At first there is no thread and nobody suspends. *)
LEMMA SuspendStarts ==
  ASSUME Init
  PROVE  SuspendIInv
  <1>1. Cardinality(Thread) \in Nat
    BY SuspensionAssumption, FS_CardinalityType
  <1>2. SuspensionTypeOK
    <2>1. FreshNatp \in Natp
      BY DEF FreshNatp, Natp, State
    <2>2. FreshHost \in Host
      BY DEF FreshHost, Host, State
    <2>3. natp \in [Thread -> Natp] /\ host \in [Thread -> Host]
      BY <2>1, <2>2 DEF Init
    <2>4. faulted_thread_count \in 0..Cardinality(Thread)
      BY <1>1 DEF Init
    <2>5. QED
      BY <2>3, <2>4 DEF SuspensionTypeOK, Init
  <1> USE DEF Init, FreshNatp, FreshHost
  <1>3. StubInv
    BY DEF StubInv
  <1>4. ASSUME NEW t \in Thread PROVE EachInv(t)
    <2>1. /\ ~Asked(t) /\ ~Awaited(t) /\ ~Signalled(t) /\ ~InUntrusted(t)
          /\ ~IsSuspended(t) /\ natp[t].suspend_state = {TRUSTED}
          /\ natp[t].suspended_registers = NULL
      BY DEF Asked, Awaited, Signalled, InUntrusted, IsSuspended, SUSPENDED,
             TRUSTED
    <2>2. NULL # Garbage
      BY <1>2, Fields
    <2>3. QED
      BY <2>1, <2>2
      DEF EachInv, StateInv, SignalInv, FaultInv, RegistersInv, ContextInv,
          SUSPENDED, TRUSTED
  <1>5. FaultedCountRight
    <2>1. {t \in Thread : /\ natp[t].fault_signal
                          /\ host[t].handler # "count"} = {}
      OBVIOUS
    <2>2. QED
      BY <2>1, FS_EmptySet DEF FaultedCountRight
  <1>6. QED
    BY <1>2, <1>3, <1>4, <1>5 DEF SuspendIInv

(* The bits of a thread, spelt out. *)
LEMMA BitsOfThread ==
  ASSUME SuspendIInv, NEW t \in Thread
  PROVE  natp[t].suspend_state =
           (IF InUntrusted(t) THEN {UNTRUSTED} ELSE {TRUSTED})
           \cup (IF Asked(t) THEN {SUSPENDING} ELSE {})
           \cup (IF IsSuspended(t) THEN {SUSPENDED} ELSE {})
  <1>1. natp[t].suspend_state \ {SUSPENDED} =
          (IF InUntrusted(t) THEN {UNTRUSTED} ELSE {TRUSTED})
          \cup (IF Asked(t) THEN {SUSPENDING} ELSE {})
    BY DEF SuspendIInv, EachInv, StateInv
  <1>2. QED
    BY <1>1 DEF IsSuspended

(* No fatal check is reached. *)
LEMMA NothingFatal ==
  ASSUME SuspendIInv
  PROVE  NoFatalCheck /\ FaultBlocks
  <1> USE DEF UNTRUSTED, TRUSTED, SUSPENDING, SUSPENDED
  <1>1. StubInv /\ NoThread \notin Thread /\ todo \subseteq Thread
        /\ \A t \in Thread : EachInv(t)
    BY SuspensionAssumption DEF SuspendIInv, SuspensionTypeOK
  <1>2. ASSUME NEW t \in Thread
        PROVE  /\ host[t].handler = "entry"
                    => natp[t].suspend_state = kBaseState
               /\ host[t].handler = "fault"
                    => UNTRUSTED \in natp[t].suspend_state
               /\ At(t, "enter") => \/ natp[t].suspend_state = {TRUSTED}
                                    \/ SUSPENDING \in natp[t].suspend_state
               /\ At(t, "leave") => \/ natp[t].suspend_state = {UNTRUSTED}
                                    \/ SUSPENDING \in natp[t].suspend_state
    <2>1. host[t].handler = "entry" => natp[t].suspend_state = kBaseState
      BY <1>1, AwaitedIsAsked DEF EachInv, SignalInv, Signalled, Awaited
    <2>2. host[t].handler = "fault" => UNTRUSTED \in natp[t].suspend_state
      BY <1>1, BitsOfThread DEF EachInv, SignalInv
    <2>3. At(t, "enter") => \/ natp[t].suspend_state = {TRUSTED}
                            \/ SUSPENDING \in natp[t].suspend_state
      <3>1. At(t, "enter") => ~InUntrusted(t) /\ ~IsSuspended(t)
        BY AwakeThread DEF At, InUntrusted
      <3>2. QED
        BY <3>1, BitsOfThread
    <2>4. At(t, "leave") => \/ natp[t].suspend_state = {UNTRUSTED}
                            \/ SUSPENDING \in natp[t].suspend_state
      <3>1. At(t, "leave") => InUntrusted(t) /\ ~IsSuspended(t)
        BY AwakeThread DEF At, InUntrusted
      <3>2. QED
        BY <3>1, BitsOfThread
    <2>5. QED
      BY <2>1, <2>2, <2>3, <2>4
  <1>3. stub = "suspend" =>
          \A t \in todo : SUSPENDING \notin natp[t].suspend_state
    <2>1. SUFFICES ASSUME stub = "suspend", NEW t \in todo
                   PROVE  SUSPENDING \notin natp[t].suspend_state
      OBVIOUS
    <2>2. t \in Thread /\ ~Asked(t)
      BY <1>1, <2>1 DEF Asked, StubInv
    <2>3. QED
      BY <2>2, BitsOfThread
  <1>4. stub = "resume" => \A t \in todo : SUSPENDING \in natp[t].suspend_state
    <2>1. SUFFICES ASSUME stub = "resume", NEW t \in todo
                   PROVE  SUSPENDING \in natp[t].suspend_state
      OBVIOUS
    <2>2. t \in Thread /\ Asked(t)
      BY <1>1, <2>1 DEF Asked, StubInv
    <2>3. QED
      BY <2>2, BitsOfThread
  <1>5. stub \in {"await", "wait"} =>
          natp[cur].suspend_state \in {kBaseState, kBaseState \cup {SUSPENDED}}
    <2>1. SUFFICES ASSUME stub \in {"await", "wait"}
                   PROVE  natp[cur].suspend_state
                            \in {kBaseState, kBaseState \cup {SUSPENDED}}
      OBVIOUS
    <2>2. cur \in Thread /\ Awaited(cur)
      BY <1>1, <2>1 DEF StubInv, Awaited
    <2>3. Asked(cur) /\ InUntrusted(cur)
      BY <2>2, AwaitedIsAsked
    <2>4. QED
      BY <2>2, <2>3, BitsOfThread DEF kBaseState
  <1>6. FaultBlocks
    BY <1>1 DEF FaultBlocks, EachInv, FaultInv
  <1>7. QED
    BY <1>1, <1>2, <1>3, <1>4, <1>5, <1>6 DEF NoFatalCheck, StubInv

(* Those that the controller holds are stopped. *)
LEMMA HeldAreStopped ==
  ASSUME SuspendIInv
  PROVE  StoppedWhileHeld
  <1>1. StubInv /\ NoThread \notin Thread
    BY SuspensionAssumption DEF SuspendIInv
  <1>2. SUFFICES ASSUME NEW t \in Thread,
                        \/ stub \in {"unqueue", "held"}
                        \/ stub = "stepping" /\ t # step
                 PROVE  Stopped(t)
    BY DEF StoppedWhileHeld
  <1>3. ~Awaited(t) /\ (Asked(t) <=> t \in threads)
    BY <1>1, <1>2 DEF Asked, Awaited, StubInv
  <1>4. EachInv(t) /\ host[t] \in Host
    BY Fields DEF SuspendIInv
  <1>5. CASE InUntrusted(t)
    <2>1. /\ Asked(t) /\ IsSuspended(t)
          /\ host[t].handler \in {"wake", "poll", "wait"}
      BY <1>3, <1>4, <1>5 DEF EachInv, StateInv, InUntrusted
    <2>2. QED
      BY <1>5, <2>1, BitsOfThread DEF Stopped, kBaseState
  <1>6. CASE ~InUntrusted(t)
    <2>1. ~IsSuspended(t)
      BY <1>4, <1>6 DEF EachInv, StateInv, SignalInv
    <2>2. host[t].pc \in {"syscall", "enter", "enterWait", "launch", "none"}
      BY <1>4, <1>6 DEF InUntrusted, Host
    <2>3. host[t].pc \in {"syscall", "enter", "enterWait"} => Asked(t)
      BY <1>3, <1>4 DEF EachInv, StateInv
    <2>4. natp[t].suspend_state =
            {TRUSTED} \cup (IF Asked(t) THEN {SUSPENDING} ELSE {})
      BY <1>6, <2>1, BitsOfThread
    <2>5. QED
      BY <2>2, <2>3, <2>4 DEF Stopped
  <1>7. QED
    BY <1>5, <1>6

(* Only the return from the handler ends it, and it applies the context. *)
LEMMA RegistersApplied ==
  ASSUME SuspendIInv, [Next]_vars, NEW t \in Thread
  PROVE  GoesOnAsLeft(t)
  <1>1. SUFFICES ASSUME host[t].handler = "apply", host[t].pc = "untrusted",
                        context[t] # NULL, host'[t].handler # "apply"
                 PROVE  host'[t].regs = context[t]
    BY DEF GoesOnAsLeft
  <1>2. EachInv(t) /\ host \in [Thread -> Host] /\ host[t] \in Host
    BY Fields DEF SuspendIInv
  <1>3. ~(ThreadStep(t))
    BY <1>1
    DEF ThreadStep, AppThreadSpawn, AppThreadLauncher, AppThreadTeardown,
        SyscallReturns, EnterUntrusted, LeaveUntrusted, SetSuspendState,
        SetSuspendWait, Compute, Syscall, Fault, At
  <1>4. HandlerReturns(t)
    <2>1. ~UNCHANGED vars
      BY <1>1 DEF vars
    <2>2. ~(StubStep \/ Debugger)
      BY <1>1, ControlKeepsThreads
    <2>3. HandlerStep(t)
      BY <1>1, <1>3, <2>1, <2>2, StepOfOne DEF Next
    <2>4. QED
      BY <1>1, <2>3
      DEF HandlerStep, Deliver, FaultSignal, FaultCount, Sigwait, HandlerSaves,
          HandlerReads, HandlerMarks, HandlerWakes, HandlerPolls, HandlerWaits,
          InHandler
  <1>5. host'[t].regs = Applied(t)
    BY <1>2, <1>4 DEF HandlerReturns, Host
  <1>6. ~IsSuspended(t)
    BY <1>1, <1>2 DEF EachInv, StateInv
  <1>7. host[t].snapshot /\ natp[t].suspended_registers = context[t]
    BY <1>1, <1>2, <1>6 DEF EachInv, ContextInv
  <1>8. QED
    BY <1>1, <1>5, <1>7 DEF Applied

-----------------------------------------------------------------------------
(* The inductive invariant holds throughout. *)
LEMMA AlwaysSuspendIInv == Spec => []SuspendIInv
  <1>1. Init => SuspendIInv
    BY SuspendStarts
  <1>2. SuspendIInv /\ [Next]_vars => SuspendIInv'
    BY SuspendInductive
  <1>3. QED
    BY <1>1, <1>2, PTL DEF Spec

(***************************************************************************)
(* The handlers and switches never meet a state they abort on, the stub    *)
(* finds the fault it stopped for, the count of faults is right, and no    *)
(* thread leaves a fault that was not taken.                               *)
(***************************************************************************)
THEOREM SuspensionCorrect == Spec => []SuspensionInv
  <1>1. SuspendIInv => SuspensionInv
    BY NothingFatal DEF SuspensionInv, SuspendIInv
  <1>2. QED
    BY <1>1, AlwaysSuspendIInv, PTL

(* When SuspendAll has returned, no thread runs untrusted code or enters it. *)
THEOREM SuspensionStops == Spec => []StoppedWhileHeld
  <1>1. SuspendIInv => StoppedWhileHeld
    BY HeldAreStopped
  <1>2. QED
    BY <1>1, AlwaysSuspendIInv, PTL

(* A resumed thread has the registers that the debugger saw or wrote. *)
THEOREM RegistersSurvive == Spec => RegistersAsLeft
  <1>1. SuspendIInv /\ [Next]_vars => [\A t \in Thread : GoesOnAsLeft(t)]_vars
    BY RegistersApplied
  <1>2. QED
    BY <1>1, AlwaysSuspendIInv, PTL DEF Spec, RegistersAsLeft
=============================================================================
