---------------------------- MODULE SecureService ----------------------------
(***************************************************************************)
(* Module startup: the secure command channel by which the renderer loads  *)
(* and starts the module (service_runtime/nacl_secure_service.c, the       *)
(* NaClApp*Module functions of sel_ldr.c), the acceptor of its connections *)
(* (simple_service/nacl_simple_service.c) and the main thread of           *)
(* sel_main.c, for a process whose module comes by the channel.            *)
(*                                                                         *)
(* What is done with a mutex held is one step.  The reverse channel is     *)
(* ReverseChannel.                                                         *)
(***************************************************************************)
EXTENDS Integers, FiniteSets, SequencesExt

CONSTANTS
  Channel,      \* connections the renderer makes to the command channel
  MaxCalls      \* calls that the renderer makes

Operation == {"load_module", "reverse_setup", "start_module", "hard_shutdown"}

ASSUME SecureServiceAssumption == MaxCalls \in Nat

(* module_initialization_state and reverse_channel_initialization_state. *)
UNINITIALIZED == 0
LOADING == 1
LOADED == 2
STARTING == 3
STARTED == 4
ERROR == 5
INITIALIZATING == 1
INITIALIZED == 2

VARIABLES
  process,      \* "up", or why it is not
  module_initialization_state,
  load_ok,      \* module_load_status = LOAD_OK
  runtime_host_interface,
  main,         \* position of the main thread
  errcode_ok,   \* its errcode
  rpc,          \* position of the RPC thread of each connection
  hung_up,      \* connections the renderer closed
  accepting,    \* the acceptor thread of the service runs
  conn_count,
  reverse,      \* reverse_channel_initialization_state
  calls,        \* calls the renderer has made
  start_called  \* one of them was StartModule

appVars == <<module_initialization_state, load_ok, runtime_host_interface>>
mainVars == <<main, errcode_ok>>
serviceVars == <<accepting, conn_count>>
rendererVars == <<hung_up, calls, start_called>>
secureVars == <<process, appVars, mainVars, rpc, serviceVars, rendererVars,
                reverse>>

(* NaClAppLaunchServiceThreads leaves with nap->mu held when it has no     *)
(* memory for a runtime host, and locks it again.                          *)
NapMutexIsFree == main # "self_deadlock"

Goto(c, label) == rpc' = [rpc EXCEPT ![c] = label]
Exit(why) == process' = why

SecureInit ==
  /\ process = "up"
  /\ module_initialization_state = UNINITIALIZED
  /\ load_ok = TRUE
  /\ runtime_host_interface = "none"
  /\ main = "wait_load" /\ errcode_ok = TRUE
  /\ rpc = [c \in Channel |-> "none"]
  /\ hung_up = {}
  /\ accepting = TRUE /\ conn_count = 0
  /\ reverse = UNINITIALIZED
  /\ calls = 0 /\ start_called = FALSE

-----------------------------------------------------------------------------
(* The renderer. *)

Connect(c) ==
  /\ rpc[c] = "none"
  /\ Goto(c, "pending")
  /\ UNCHANGED <<process, appVars, mainVars, serviceVars, rendererVars,
                 reverse>>

(* It closes a connection, or ends, at any time, in the middle of a call   *)
(* too; the RPC thread sees it when it reads the next call.                *)
HangUp(c) ==
  /\ rpc[c] # "none" /\ c \notin hung_up
  /\ hung_up' = hung_up \cup {c}
  /\ UNCHANGED <<process, appVars, mainVars, rpc, serviceVars, reverse, calls,
                 start_called>>

(* sel_universal sets the reverse channel up, if it uses one, before it    *)
(* starts the module.  What the runtime would do in the other order, the   *)
(* "too late" branches of HostSetup and QuotaSetup, is not reached.        *)
InOrder(op) ==
  /\ op = "reverse_setup" => ~start_called
  /\ op = "start_module" => \A c \in Channel : rpc[c] # "reverse_setup"

Call(c, op) ==
  /\ rpc[c] = "loop" /\ c \notin hung_up
  /\ calls < MaxCalls /\ InOrder(op)
  /\ calls' = calls + 1
  /\ start_called' = (start_called \/ op = "start_module")
  /\ Goto(c, op)
  /\ UNCHANGED <<process, appVars, mainVars, serviceVars, hung_up, reverse>>

-----------------------------------------------------------------------------
(* The acceptor and the life of a connection. *)

Refuse(c) ==
  /\ accepting' = FALSE
  /\ Goto(c, "refused")
  /\ UNCHANGED conn_count

(* NaClSecureServiceAcceptConnection; it has no memory, or it counts.      *)
AcceptConnection(c) ==
  /\ accepting /\ \A d \in Channel : rpc[d] # "accepted"
  /\ rpc[c] = "pending"
  /\ \/ Refuse(c)
     \/ /\ conn_count' = conn_count + 1
        /\ Goto(c, "accepted")
        /\ UNCHANGED accepting
  /\ UNCHANGED <<process, appVars, mainVars, rendererVars, reverse>>

SpawnHandler(c) ==
  /\ rpc[c] = "accepted"
  /\ \/ Refuse(c)
     \/ /\ Goto(c, "loop")
        /\ UNCHANGED serviceVars
  /\ UNCHANGED <<process, appVars, mainVars, rendererVars, reverse>>

(* Bug: the connection is not counted off. *)
RpcHandlerEnds_Keep(c) ==
  /\ rpc[c] = "loop" /\ c \in hung_up
  /\ UNCHANGED conn_count
  /\ Goto(c, "ended")
  /\ UNCHANGED <<process, appVars, mainVars, accepting, rendererVars, reverse>>

(* NaClSecureServiceRpcHandler after its loop.                             *)
RpcHandlerEnds(c) ==
  /\ rpc[c] = "loop" /\ c \in hung_up
  /\ IF conn_count = 0
     THEN Exit("fatal") /\ UNCHANGED <<conn_count, rpc>>
     ELSE /\ conn_count' = conn_count - 1
          /\ Goto(c, IF conn_count' = 0 THEN "hard_shutdown" ELSE "ended")
          /\ UNCHANGED process
  /\ UNCHANGED <<appVars, mainVars, accepting, rendererVars, reverse>>

(* NaClAppShutdown.                                                        *)
Shutdown(c) ==
  /\ rpc[c] = "hard_shutdown" /\ NapMutexIsFree
  /\ Exit("shut_down")
  /\ UNCHANGED <<appVars, mainVars, rpc, serviceVars, rendererVars, reverse>>

-----------------------------------------------------------------------------
(* NaClAppLoadModule. *)

SetModuleState(s) == module_initialization_state' = s

(* It answers, here with LOAD_OK, before it loads.                         *)
LoadBegins(c) ==
  /\ rpc[c] = "load_module" /\ NapMutexIsFree
  /\ IF module_initialization_state # UNINITIALIZED
     THEN Goto(c, "loop") /\ UNCHANGED module_initialization_state
     ELSE Goto(c, "load_file") /\ SetModuleState(LOADING)
  /\ UNCHANGED <<process, load_ok, runtime_host_interface, mainVars,
                 serviceVars, rendererVars, reverse>>

(* Bug: the state is not set when the load has ended. *)
LoadFile_NoState(c) ==
  /\ rpc[c] = "load_file" /\ NapMutexIsFree
  /\ \/ /\ Goto(c, "prepare")
        /\ UNCHANGED load_ok
     \/ /\ load_ok' = FALSE
        /\ Goto(c, "loop")
  /\ UNCHANGED <<process, module_initialization_state,
                 runtime_host_interface, mainVars, serviceVars, rendererVars,
                 reverse>>

(* CHECK(nap->main_nexe_desc == NULL), then NaClAppLoadFile.               *)
LoadFile(c) ==
  /\ rpc[c] = "load_file" /\ NapMutexIsFree
  /\ \/ /\ \E d \in Channel : rpc[d] = "prepare"
        /\ Exit("fatal")
        /\ UNCHANGED <<rpc, appVars>>
     \/ /\ \A d \in Channel : rpc[d] # "prepare"
        /\ Goto(c, "prepare")
        /\ UNCHANGED <<process, appVars>>
     \/ /\ \A d \in Channel : rpc[d] # "prepare"
        /\ load_ok' = FALSE
        /\ SetModuleState(ERROR)
        /\ Goto(c, "loop")
        /\ UNCHANGED <<process, runtime_host_interface>>
  /\ UNCHANGED <<mainVars, serviceVars, rendererVars, reverse>>

(* NaClAppPrepareToLaunch, which may fail too.                             *)
LoadEnds(c) ==
  /\ rpc[c] = "prepare" /\ NapMutexIsFree
  /\ load_ok' \in BOOLEAN
  /\ SetModuleState(LOADED)
  /\ Goto(c, "loop")
  /\ UNCHANGED <<process, runtime_host_interface, mainVars, serviceVars,
                 rendererVars, reverse>>

-----------------------------------------------------------------------------
(* NaClSecureServiceStartModuleRpc and NaClAppStartModule. *)

(* Bug: the call does not wait for the reverse setup. *)
StartBegins_NoWait(c) ==
  /\ rpc[c] = "start_module"
  /\ Goto(c, "start")
  /\ UNCHANGED <<process, appVars, mainVars, serviceVars, rendererVars,
                 reverse>>

(* It waits for a reverse channel that is being set up; then it may have   *)
(* no memory for the state of its callback.                                *)
StartBegins(c) ==
  /\ rpc[c] = "start_module"
  /\ reverse \in {UNINITIALIZED, INITIALIZED}
  /\ Goto(c, "start") \/ Goto(c, "loop")
  /\ UNCHANGED <<process, appVars, mainVars, serviceVars, rendererVars,
                 reverse>>

(* Bug: the state goes to STARTED before the reply is sent. *)
Start_AtOnce(c) ==
  /\ NapMutexIsFree
  /\ \/ /\ rpc[c] = "start" /\ module_initialization_state = LOADING
        /\ Goto(c, "start_wait")
        /\ UNCHANGED module_initialization_state
     \/ /\ rpc[c] = "start"
        /\ module_initialization_state \notin {LOADING, LOADED}
        /\ Goto(c, "loop")     \* with an error
        /\ UNCHANGED module_initialization_state
     \/ /\ rpc[c] \in {"start", "start_wait"}
        /\ module_initialization_state = LOADED
        /\ SetModuleState(STARTED)
        /\ Goto(c, "start_reply")
  /\ UNCHANGED <<process, load_ok, runtime_host_interface, mainVars,
                 serviceVars, rendererVars, reverse>>

Start(c) ==
  /\ NapMutexIsFree
  /\ \/ /\ rpc[c] = "start" /\ module_initialization_state = LOADING
        /\ Goto(c, "start_wait")
        /\ UNCHANGED module_initialization_state
     \/ /\ rpc[c] = "start"
        /\ module_initialization_state \notin {LOADING, LOADED}
        /\ Goto(c, "loop")     \* with an error
        /\ UNCHANGED module_initialization_state
     \/ /\ rpc[c] \in {"start", "start_wait"}
        /\ module_initialization_state = LOADED
        /\ SetModuleState(STARTING)
        /\ Goto(c, "start_reply")
  /\ UNCHANGED <<process, load_ok, runtime_host_interface, mainVars,
                 serviceVars, rendererVars, reverse>>

(* The callback sends the reply.                                           *)
StartReplies(c) ==
  /\ rpc[c] = "start_reply"
  /\ Goto(c, "start_replied")
  /\ UNCHANGED <<process, appVars, mainVars, serviceVars, rendererVars,
                 reverse>>

StartEnds(c) ==
  /\ rpc[c] = "start_replied" /\ NapMutexIsFree
  /\ SetModuleState(STARTED)
  /\ Goto(c, "loop")
  /\ UNCHANGED <<process, load_ok, runtime_host_interface, mainVars,
                 serviceVars, rendererVars, reverse>>

-----------------------------------------------------------------------------
(* The main thread. *)

(* NaClWaitForLoadModuleCommand; then the IRT blob may fail to load.       *)
MainAwaitsLoad ==
  /\ main = "wait_load" /\ module_initialization_state >= LOADED
  /\ errcode_ok' \in {FALSE, load_ok}
  /\ main' = "wait_start"
  /\ UNCHANGED <<process, appVars, rpc, serviceVars, rendererVars, reverse>>

(* NaClWaitForStartModuleCommand; a bad errcode leads to                   *)
(* NaClBlockIfCommandChannelExists.                                        *)
MainAwaitsStart ==
  /\ main = "wait_start" /\ module_initialization_state >= STARTED
  /\ errcode_ok' = (errcode_ok /\ load_ok)
  /\ main' = IF errcode_ok' THEN "services" ELSE "blocked"
  /\ UNCHANGED <<process, appVars, rpc, serviceVars, rendererVars, reverse>>

(* NaClAppLaunchServiceThreads; the last disjunct is its failure to make   *)
(* the kernel service, for which the process exits.                        *)
LaunchServiceThreads ==
  /\ main = "services"
  /\ \/ /\ runtime_host_interface = "none"
        /\ main' = "self_deadlock"
        /\ UNCHANGED <<process, runtime_host_interface>>
     \/ /\ runtime_host_interface' =
             IF runtime_host_interface = "none" THEN "default"
             ELSE runtime_host_interface
        /\ \/ main' = "running" /\ UNCHANGED process
           \/ Exit("main_exit") /\ UNCHANGED main
  /\ UNCHANGED <<module_initialization_state, load_ok, errcode_ok, rpc,
                 serviceVars, rendererVars, reverse>>

(* The application ends: NaClWaitForMainThreadToExit, NaClExit.            *)
MainExits ==
  /\ main = "running"
  /\ Exit("main_exit")
  /\ UNCHANGED <<appVars, mainVars, rpc, serviceVars, rendererVars, reverse>>

-----------------------------------------------------------------------------

Renderer ==
  \E c \in Channel :
    Connect(c) \/ HangUp(c) \/ \E op \in Operation : Call(c, op)

RpcThread(c) ==
  \/ AcceptConnection(c) \/ SpawnHandler(c) \/ RpcHandlerEnds(c)
  \/ Shutdown(c)
  \/ LoadBegins(c) \/ LoadFile(c) \/ LoadEnds(c)
  \/ StartBegins(c) \/ Start(c) \/ StartReplies(c) \/ StartEnds(c)

MainThread == MainAwaitsLoad \/ MainAwaitsStart \/ LaunchServiceThreads

SecureTypeOK ==
  /\ process \in {"up", "fatal", "aborted", "shut_down", "main_exit"}
  /\ module_initialization_state \in UNINITIALIZED..ERROR
  /\ load_ok \in BOOLEAN /\ errcode_ok \in BOOLEAN
  /\ runtime_host_interface \in {"none", "default", "reverse"}
  /\ main \in {"wait_load", "wait_start", "services", "running", "blocked",
               "self_deadlock"}
  /\ rpc \in [Channel ->
       {"none", "pending", "accepted", "refused", "loop", "ended",
        "load_file", "prepare", "start", "start_wait", "start_reply",
        "start_replied"} \cup Operation]
  /\ hung_up \in SUBSET Channel
  /\ accepting \in BOOLEAN /\ conn_count \in Nat
  /\ reverse \in {UNINITIALIZED, INITIALIZATING, INITIALIZED}
  /\ calls \in 0..MaxCalls /\ start_called \in BOOLEAN

(***************************************************************************)
(* The main thread ends the process only after the reply to the            *)
(* StartModule call that let it run is sent (sel_ldr.c, the comment in     *)
(* NaClAppStartModule): no such call is between the state it has set and   *)
(* its callback.                                                           *)
(***************************************************************************)
NoAnswerLost == process = "main_exit" => \A c \in Channel : rpc[c] # "start_reply"

(***************************************************************************)
(* A StartModule call that waits for the module to be loaded is answered:  *)
(* the code after the wait has an answer for a load that failed.           *)
(***************************************************************************)
WaitingStartReturns ==
  \A c \in Channel :
    rpc[c] = "start_wait" ~> (rpc[c] # "start_wait" \/ process # "up")
=============================================================================
