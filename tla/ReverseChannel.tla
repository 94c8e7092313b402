--------------------------- MODULE ReverseChannel ---------------------------
(***************************************************************************)
(* The command channel of SecureService with the reverse channel it sets   *)
(* up: the renderer connects back, and the services that the runtime       *)
(* offers to the application over it, the manifest proxy and the ripple    *)
(* ledger service, ask it for a connection of their own for each           *)
(* connection of the application.                                          *)
(*                                                                         *)
(*   nacl_secure_service.c      setup, callback, handlers that wait        *)
(*   manifest_proxy.c, ripple_ledger_service.c   the two services          *)
(*   nacl_simple_service.c, nacl_simple_rservice.c  acceptors              *)
(*   reverse_service_c.c        the renderer's side of add_channel         *)
(*                                                                         *)
(* server->mu is held while add_channel is in flight.  The calls that the  *)
(* kernel service and the quota interface make on the reverse channel      *)
(* change no state here and are left out.                                  *)
(***************************************************************************)
EXTENDS SecureService

CONSTANTS
  MConn,        \* connections that the application makes to them
  ServiceOf,    \* the service of each
  Setup         \* the first handler, NaClSecureReverseClientCallback

(* The manifest proxy and the ripple ledger service. *)
Service == {"manifest", "ledger"}

ASSUME ReverseChannelAssumption ==
  /\ ServiceOf \in [MConn -> Service]
  /\ Setup \notin MConn

VARIABLES
  rthread,              \* position of the thread of the reverse client
  queue,                \* handlers that wait for a reverse connection
  arrivals,             \* reverse connections to accept: do they live?
  promised,             \* the renderer has the address to connect to
  unmade,               \* history: how many it failed to make
  quota,                \* nap->desc_quota_interface is set
  names,                \* services the name service knows
  acceptors,            \* services whose acceptor thread runs
  mconn,                \* where each connection is
  channel_initialized   \* of each

peerVars == <<promised, unmade>>
reverseVars == <<rthread, queue, arrivals, peerVars, quota, names, acceptors,
                 mconn, channel_initialized>>
vars == <<secureVars, reverseVars>>

Init ==
  /\ SecureInit
  /\ rthread = "none"
  /\ queue = <<>> /\ arrivals = <<>>
  /\ promised = FALSE /\ unmade = 0
  /\ quota = FALSE /\ names = {} /\ acceptors = {}
  /\ mconn = [k \in MConn |-> "none"]
  /\ channel_initialized = [k \in MConn |-> FALSE]

ServerMutexIsFree == \A k \in MConn : mconn[k] \notin {"adding", "added"}
Move(k, label) == mconn' = [mconn EXCEPT ![k] = label]

mconnVars == <<names, acceptors, mconn, channel_initialized>>

-----------------------------------------------------------------------------
(* Setting the reverse channel up. *)

(* NaClSecureServiceReverseSetupRpc: refused the second time; without      *)
(* memory or a thread it leaves the state as it has set it.                *)
ReverseSetup(c) ==
  /\ rpc[c] = "reverse_setup" /\ ServerMutexIsFree
  /\ \/ /\ reverse # UNINITIALIZED
        /\ UNCHANGED <<reverse, rthread, queue, promised>>
     \/ /\ reverse = UNINITIALIZED /\ reverse' = INITIALIZATING
        /\ UNCHANGED <<rthread, queue, promised>>
     \/ /\ reverse = UNINITIALIZED /\ reverse' = INITIALIZATING
        /\ rthread' = "accept"
        /\ queue' = <<Setup>>
        /\ promised' = TRUE
  /\ Goto(c, "loop")
  /\ UNCHANGED <<process, appVars, mainVars, serviceVars, rendererVars,
                 arrivals, unmade, quota, mconnVars>>

(* What the renderer does to make a reverse connection: it connects, or    *)
(* its thread does not start and the connection is closed at once, or it   *)
(* cannot connect.                                                         *)
ConnectAndSpawnHandler ==
  \/ arrivals' = Append(arrivals, TRUE) /\ UNCHANGED unmade
  \/ arrivals' = Append(arrivals, FALSE) /\ unmade' = unmade + 1
  \/ UNCHANGED arrivals /\ unmade' = unmade + 1

(* The renderer's ReverseService starts, with the address that the reply   *)
(* to the setup gave it.  A reply that it does not get is a connection     *)
(* that it does not make.                                                  *)
RendererConnects ==
  /\ promised
  /\ promised' = FALSE
  /\ ConnectAndSpawnHandler
  /\ UNCHANGED <<secureVars, rthread, queue, quota, mconnVars>>

(* A constructor or a thread of the setup fails, which is a LOG_FATAL.     *)
SetupFails ==
  /\ rthread \in {"host", "quota"} \cup Service
  /\ Exit("aborted")
  /\ UNCHANGED <<appVars, mainVars, rpc, serviceVars, rendererVars, reverse,
                 reverseVars>>

(* NaClAppRuntimeHostSetup.                                                *)
HostSetup ==
  /\ rthread = "host" /\ NapMutexIsFree
  /\ rthread' = "quota"
  /\ runtime_host_interface' =
       IF module_initialization_state > STARTING
       THEN runtime_host_interface ELSE "reverse"
  /\ UNCHANGED <<process, module_initialization_state, load_ok, mainVars, rpc,
                 serviceVars, rendererVars, reverse, queue, arrivals,
                 peerVars, quota, mconnVars>>

(* NaClAppDescQuotaSetup.                                                  *)
QuotaSetup ==
  /\ rthread = "quota" /\ NapMutexIsFree
  /\ rthread' = "manifest"
  /\ quota' = (quota \/ module_initialization_state <= STARTING)
  /\ UNCHANGED <<secureVars, queue, arrivals, peerVars, mconnVars>>

(* The service's constructor and acceptor thread, then its name.           *)
ServiceSetup(s) ==
  /\ rthread = s /\ NapMutexIsFree
  /\ rthread' = IF s = "manifest" THEN "ledger" ELSE "announce"
  /\ acceptors' = acceptors \cup {s}
  /\ names' = names \cup {s}
  /\ UNCHANGED <<secureVars, queue, arrivals, peerVars, quota, mconn,
                 channel_initialized>>

Announce ==
  /\ rthread = "announce" /\ ServerMutexIsFree
  /\ rthread' = "accept"
  /\ reverse' = INITIALIZED
  /\ UNCHANGED <<process, appVars, mainVars, rpc, serviceVars, rendererVars,
                 queue, arrivals, peerVars, quota, mconnVars>>

-----------------------------------------------------------------------------
(* The thread of the reverse client: NaClSecureReverseClientInternalCallback *)
(* with the next handler, for each connection it accepts.                  *)

(* NaClSecureReverseClientCallback up to NaClSrpcClientCtor, which must    *)
(* not fail.                                                               *)
SetupConnects(live) ==
  /\ IF reverse = INITIALIZATING /\ live
     THEN rthread' = "host" /\ UNCHANGED process
     ELSE /\ Exit(IF live THEN "fatal" ELSE "aborted")
          /\ UNCHANGED rthread
  /\ UNCHANGED channel_initialized

(* Bug: a connection that cannot be used ends the reverse thread. *)
RevHandleConnect_Stops(k, live) ==
  /\ mconn[k] # "calling"
  /\ IF channel_initialized[k]
     THEN Exit("fatal") /\ UNCHANGED channel_initialized
     ELSE /\ channel_initialized' = [channel_initialized EXCEPT ![k] = live]
          /\ UNCHANGED process
  /\ rthread' = IF live THEN "accept" ELSE "none"

(* NaClManifestProxyConnectionRevHandleConnect and its twin; the client's  *)
(* constructor fails on a connection that the other side has closed.       *)
RevHandleConnect(k, live) ==
  /\ mconn[k] # "calling"
  /\ IF channel_initialized[k]
     THEN Exit("fatal") /\ UNCHANGED channel_initialized
     ELSE /\ channel_initialized' = [channel_initialized EXCEPT ![k] = live]
          /\ UNCHANGED process
  /\ UNCHANGED rthread

RevAccept ==
  /\ rthread = "accept" /\ arrivals # <<>>
  /\ arrivals' = Tail(arrivals)
  /\ IF queue = <<>>
     THEN Exit("fatal") /\ UNCHANGED <<queue, rthread, channel_initialized>>
     ELSE /\ queue' = Tail(queue)
          /\ IF Head(queue) = Setup THEN SetupConnects(Head(arrivals))
             ELSE RevHandleConnect(Head(queue), Head(arrivals))
  /\ UNCHANGED <<appVars, mainVars, rpc, serviceVars, rendererVars, reverse,
                 peerVars, quota, names, acceptors, mconn>>

-----------------------------------------------------------------------------
(* Connections of the application to a service. *)

restVars == <<appVars, mainVars, rpc, serviceVars, rendererVars, reverse,
              rthread, peerVars, quota, names>>

AppConnects(k) ==
  /\ main = "running" /\ mconn[k] = "none" /\ ServiceOf[k] \in names
  /\ Move(k, "pending")
  /\ UNCHANGED <<process, restVars, queue, arrivals, acceptors,
                 channel_initialized>>

AcceptorIsFree(s) ==
  /\ s \in acceptors
  /\ \A k \in MConn :
       ServiceOf[k] = s =>
         mconn[k] \notin {"accepted", "adding", "added"}

(* NaClSimpleServiceAcceptConnection up to the lock of server->mu.         *)
ServiceAccepts(k) ==
  /\ mconn[k] = "pending" /\ AcceptorIsFree(ServiceOf[k])
  /\ \/ Move(k, "accepted") /\ UNCHANGED acceptors
     \/ /\ Move(k, "refused")
        /\ acceptors' = acceptors \ {ServiceOf[k]}
  /\ UNCHANGED <<process, restVars, queue, arrivals, channel_initialized>>

(* ConnectionFactory: InsertHandler, for which there must be memory, then  *)
(* add_channel.                                                            *)
Factory(k) ==
  /\ mconn[k] = "accepted" /\ ServerMutexIsFree
  /\ \/ /\ reverse # INITIALIZED
        /\ Exit("fatal")
        /\ UNCHANGED <<mconn, queue>>
     \/ /\ reverse = INITIALIZED
        /\ Exit("aborted")
        /\ UNCHANGED <<mconn, queue>>
     \/ /\ reverse = INITIALIZED
        /\ Move(k, "adding")
        /\ queue' = Append(queue, k)
        /\ UNCHANGED process
  /\ UNCHANGED <<restVars, arrivals, acceptors, channel_initialized>>

(* NaClReverseServiceAddChannelRpc in the renderer; the status it returns  *)
(* is not looked at.  Without an answer, for the renderer has ended its    *)
(* side of the reverse channel, the process ends with a LOG_FATAL.         *)
AddChannel(k) ==
  /\ mconn[k] = "adding"
  /\ \/ /\ Move(k, "added")
        /\ ConnectAndSpawnHandler
        /\ UNCHANGED process
     \/ /\ Exit("aborted")
        /\ UNCHANGED <<mconn, arrivals, unmade>>
  /\ UNCHANGED <<appVars, mainVars, rpc, serviceVars, rendererVars, reverse,
                 rthread, promised, quota, names, queue, acceptors,
                 channel_initialized>>

(* Back in the acceptor: server->mu is released and the handler's thread   *)
(* started.  Without it the acceptor runs the destructor and ends.         *)
SpawnService(k) ==
  /\ mconn[k] = "added"
  /\ \/ Move(k, "loop") /\ UNCHANGED acceptors
     \/ /\ Move(k, "closing")
        /\ acceptors' = acceptors \ {ServiceOf[k]}
  /\ UNCHANGED <<process, restVars, queue, arrivals, channel_initialized>>

(* The application makes a call on its connection, or closes it.           *)
AppCalls(k) ==
  /\ mconn[k] = "loop"
  /\ Move(k, "waiting") \/ Move(k, "closing")
  /\ UNCHANGED <<process, restVars, queue, arrivals, acceptors,
                 channel_initialized>>

(* NaClManifestWaitForChannel_yield_mu; the call is made with mu held.     *)
CallForwarded(k) ==
  /\ mconn[k] = "waiting" /\ channel_initialized[k]
  /\ Move(k, "calling")
  /\ UNCHANGED <<process, restVars, queue, arrivals, acceptors,
                 channel_initialized>>

CallReturns(k) ==
  /\ mconn[k] = "calling"
  /\ Move(k, "loop")
  /\ UNCHANGED <<process, restVars, queue, arrivals, acceptors,
                 channel_initialized>>

(* Bug: the connection is freed while its handler is in the queue. *)
ConnectionDtor_NoWait(k) ==
  /\ mconn[k] = "closing"
  /\ Move(k, "freed")
  /\ UNCHANGED <<process, restVars, queue, arrivals, acceptors,
                 channel_initialized>>

(* The destructor waits for the reverse connection too.                    *)
ConnectionDtor(k) ==
  /\ mconn[k] = "closing" /\ channel_initialized[k]
  /\ Move(k, "freed")
  /\ UNCHANGED <<process, restVars, queue, arrivals, acceptors,
                 channel_initialized>>

-----------------------------------------------------------------------------

ReverseThread ==
  HostSetup \/ QuotaSetup \/ SetupFails \/ Announce \/ RevAccept
    \/ \E s \in Service : ServiceSetup(s)

ServiceThread(k) ==
  \/ ServiceAccepts(k) \/ Factory(k) \/ AddChannel(k) \/ SpawnService(k)
  \/ CallForwarded(k) \/ CallReturns(k)
  \/ ConnectionDtor(k)

(* The steps of the command channel leave the reverse channel alone.       *)
SecureStep ==
  /\ Renderer \/ MainThread \/ MainExits \/ \E c \in Channel : RpcThread(c)
  /\ UNCHANGED reverseVars

Step ==
  \/ SecureStep
  \/ \E c \in Channel : ReverseSetup(c)
  \/ RendererConnects
  \/ ReverseThread
  \/ \E k \in MConn : ServiceThread(k) \/ AppConnects(k) \/ AppCalls(k)

Next == process = "up" /\ Step

Spec == Init /\ [][Next]_vars

(* Every thread of the runtime is scheduled, and the renderer, given the   *)
(* address or asked for a channel, connects or fails to.  Nothing makes    *)
(* the renderer call or hang up, or the application do anything.           *)
Up(A) == process = "up" /\ A
FairSpec ==
  /\ Spec
  /\ \A c \in Channel :
       WF_vars(Up(ReverseSetup(c) \/ (RpcThread(c) /\ UNCHANGED reverseVars)))
  /\ WF_vars(Up(MainThread /\ UNCHANGED reverseVars))
  /\ WF_vars(Up(RendererConnects))
  /\ WF_vars(Up(ReverseThread))
  /\ \A k \in MConn : WF_vars(Up(ServiceThread(k)))

-----------------------------------------------------------------------------
(* Properties.  What the code does not answer for is named first. *)

(* The setup failed after it had set the state.                            *)
SetupGaveUp == reverse = INITIALIZATING /\ rthread = "none"

(* The renderer did not make the first reverse connection.                 *)
SetupLost == reverse = INITIALIZATING /\ unmade > 0

(* A StartModule call that waits for what will not come.                   *)
StartIsStuck(c) ==
  \/ rpc[c] = "start_module" /\ (SetupGaveUp \/ SetupLost)
  \/ /\ rpc[c] = "start_wait"
     /\ module_initialization_state \notin {LOADING, LOADED}

(* Connections to a service that are without a reverse connection.         *)
Unconnected ==
  {k \in MConn : /\ mconn[k] \in {"adding", "added", "loop", "waiting",
                                  "closing"}
                 /\ ~channel_initialized[k]}

ReverseTypeOK ==
  /\ SecureTypeOK
  /\ rthread \in {"none", "accept", "host", "quota", "announce"} \cup Service
  /\ ToSet(queue) \subseteq MConn \cup {Setup} /\ IsInjective(queue)
  /\ \A i \in DOMAIN arrivals : arrivals[i] \in BOOLEAN
  /\ promised \in BOOLEAN /\ unmade \in Nat /\ quota \in BOOLEAN
  /\ names \in SUBSET Service /\ acceptors \in SUBSET Service
  /\ mconn \in [MConn ->
       {"none", "pending", "accepted", "adding", "added", "refused",
        "loop", "waiting", "calling", "closing", "freed"}]
  /\ channel_initialized \in [MConn -> BOOLEAN]

(***************************************************************************)
(* None of the LOG_FATALs and CHECKs on these paths is reached: a callback *)
(* with the channel in the wrong state, a service used before the channel  *)
(* is there, a second reverse connection for one of its connections, a     *)
(* reverse connection that no handler waits for, a connection count below  *)
(* zero, a second nexe.  ("aborted" is for those that say that the system   *)
(* ran out of memory or threads, or that the renderer has gone.)           *)
(***************************************************************************)
NoFatalCheck == process # "fatal"

(***************************************************************************)
(* The application runs with all of the reverse channel or with none of    *)
(* it: the runtime host and the quota interface are the ones that use the  *)
(* channel, and the name service knows both services.                      *)
(***************************************************************************)
ServicesReady ==
  main = "running" =>
    \/ reverse = UNINITIALIZED
    \/ /\ reverse = INITIALIZED
       /\ runtime_host_interface = "reverse" /\ quota
       /\ names = Service

HandlersAlive == \A k \in MConn : k \in ToSet(queue) => mconn[k] # "freed"

(***************************************************************************)
(* Types; no fatal check; and the handlers that wait for a                 *)
(* reverse connection, which hold plain pointers to the connections they   *)
(* serve, point at none that has been freed.                               *)
(***************************************************************************)
ReverseInv == ReverseTypeOK /\ NoFatalCheck /\ HandlersAlive

Waits(c) ==
  rpc[c] \in {"start_module", "start", "start_wait", "start_reply"}

(***************************************************************************)
(* StartModule answers: again and again no call waits for its answer,      *)
(* unless the load it waits for failed or was started by another call, the *)
(* setup it waits for failed, in the runtime or for want of the renderer's *)
(* connection, or the main thread has locked itself out with nap->mu.      *)
(***************************************************************************)
StartReturns ==
  []<>(\/ process # "up" \/ main = "self_deadlock"
       \/ \A c \in Channel : Waits(c) => StartIsStuck(c))

(***************************************************************************)
(* The process ends when the renderer has closed all its command channels, *)
(* in whatever state it left them, unless a StartModule call sleeps for    *)
(* ever and does not see it, the acceptor has failed or the main thread    *)
(* has locked itself out with nap->mu.                                     *)
(***************************************************************************)
ProcessEnds ==
  hung_up = Channel ~>
    \/ process # "up" \/ ~accepting \/ main = "self_deadlock"
    \/ \E c \in Channel : StartIsStuck(c)

(***************************************************************************)
(* A connection of the application to a service gets its reverse           *)
(* connection: again and again no more of them are without one, with their *)
(* calls and their destructors waiting, than the renderer failed to make.  *)
(* The runtime loses none.  Which ones are without is not said: handlers   *)
(* take the connections in the order of the queue, so the last ones wait.  *)
(***************************************************************************)
CallIsForwarded ==
  []<>(process # "up" \/ Cardinality(Unconnected) <= unmade)
=============================================================================
