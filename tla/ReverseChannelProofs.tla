------------------------ MODULE ReverseChannelProofs ------------------------
(***************************************************************************)
(* Module startup and the reverse channel, for any number of connections   *)
(* and calls: no fatal check is reached, the application finds all of the  *)
(* services or none, and the answer to StartModule is not cut off.         *)
(***************************************************************************)
EXTENDS ReverseChannel, FiniteSetTheorems, SequenceTheorems, TLAPS

(* Threads that load the module, and those that start it. *)
Loads(c) == rpc[c] \in {"load_file", "prepare"}
Starts(c) == rpc[c] \in {"start_reply", "start_replied"}

(* The module's state says which thread works on it; there is one at most. *)
ModuleInv ==
  /\ module_initialization_state = LOADING <=> \E c \in Channel : Loads(c)
  /\ module_initialization_state = STARTING <=> \E c \in Channel : Starts(c)
  /\ \A c, d \in Channel :
       (Loads(c) /\ Loads(d)) \/ (Starts(c) /\ Starts(d)) => c = d
  /\ module_initialization_state = ERROR => ~load_ok

(* The connections that have yet to be counted off. *)
Open == {c \in Channel : rpc[c] \notin {"none", "pending", "refused", "ended",
                                        "hard_shutdown"}}

ConnectionsInv == IsFiniteSet(Open) /\ Cardinality(Open) <= conn_count

StartedUp == module_initialization_state \in {STARTING, STARTED}

(* A module that starts has all of the reverse channel, or will have none. *)
StartInv ==
  /\ \A c \in Channel :
       rpc[c] \in {"start_module", "start", "start_wait", "start_reply",
                   "start_replied"} => start_called
  /\ StartedUp => start_called
  /\ start_called => \A c \in Channel : rpc[c] # "reverse_setup"
  /\ (\/ StartedUp
      \/ \E c \in Channel : rpc[c] \in {"start", "start_wait"})
        => reverse # INITIALIZATING

MainInv ==
  /\ main \in {"services", "running", "self_deadlock"}
       => module_initialization_state = STARTED
  /\ process = "main_exit" => main \in {"services", "running"}

(* What the setup thread has done, by its position. *)
SetupInv ==
  /\ reverse = UNINITIALIZED => rthread = "none" /\ names = {}
  /\ rthread = "none" => queue = <<>> /\ arrivals = <<>> /\ ~promised
  /\ reverse = INITIALIZED => rthread = "accept"
  /\ rthread \in {"host", "quota", "announce"} \cup Service => queue = <<>>
  /\ rthread = "accept" /\ reverse = INITIALIZATING /\ process = "up"
       => queue = <<Setup>>
  /\ Setup \in ToSet(queue) => reverse = INITIALIZATING /\ queue = <<Setup>>
  /\ promised => Setup \in ToSet(queue)
  /\ module_initialization_state # ERROR =>
       /\ rthread \in {"quota", "announce"} \cup Service
            \/ reverse = INITIALIZED => runtime_host_interface = "reverse"
       /\ rthread \in {"announce"} \cup Service \/ reverse = INITIALIZED
            => quota
  /\ rthread = "ledger" => "manifest" \in names
  /\ rthread = "announce" \/ reverse = INITIALIZED => names = Service

(* The connections that are in the hands of server->mu. *)
InMutex(k) == mconn[k] \in {"adding", "added"}

HandlersInv ==
  /\ \A j, k \in MConn : InMutex(j) /\ InMutex(k) => j = k
  /\ \A k \in MConn :
       /\ k \in ToSet(queue) =>
            /\ mconn[k] \in {"adding", "added", "loop", "waiting", "closing"}
            /\ ~channel_initialized[k]
       /\ mconn[k] \in {"none", "pending", "accepted", "refused"}
            => ~channel_initialized[k]
       /\ mconn[k] # "none" => reverse = INITIALIZED

(* For each reverse connection that comes, or may, a handler waits. *)
Adding == \E k \in MConn : mconn[k] = "adding"
PromisedOne == IF promised THEN 1 ELSE 0
AddingOne == IF Adding THEN 1 ELSE 0
Pledged == Len(arrivals) + PromisedOne + AddingOne

ReverseIInv ==
  /\ ReverseTypeOK
  /\ queue \in Seq(MConn \cup {Setup}) /\ arrivals \in Seq(BOOLEAN)
  /\ NoFatalCheck
  /\ ModuleInv
  /\ ConnectionsInv
  /\ StartInv
  /\ MainInv
  /\ SetupInv
  /\ HandlersInv
  /\ Pledged <= Len(queue)

-----------------------------------------------------------------------------
(* A handler put at the end of a queue it is not in. *)
LEMMA AppendHandler ==
  ASSUME NEW S, NEW q \in Seq(S), IsInjective(q), NEW k \in S, k \notin ToSet(q)
  PROVE  /\ Append(q, k) \in Seq(S) /\ IsInjective(Append(q, k))
         /\ ToSet(Append(q, k)) = ToSet(q) \cup {k}
         /\ Len(Append(q, k)) = Len(q) + 1
  <1>1. /\ Append(q, k) \in Seq(S) /\ Len(Append(q, k)) = Len(q) + 1
        /\ Len(q) \in Nat /\ DOMAIN q = 1..Len(q)
        /\ \A i \in 1..Len(q) : Append(q, k)[i] = q[i]
        /\ Append(q, k)[Len(q) + 1] = k
        /\ DOMAIN Append(q, k) = 1..(Len(q) + 1)
    OBVIOUS
  <1>2. ToSet(Append(q, k)) = ToSet(q) \cup {k}
    <2>1. ASSUME NEW x \in ToSet(Append(q, k)) PROVE x \in ToSet(q) \cup {k}
      BY <1>1, <2>1 DEF ToSet
    <2>2. ASSUME NEW x \in ToSet(q) PROVE x \in ToSet(Append(q, k))
      <3>1. PICK i \in 1..Len(q) : x = q[i]
        BY <1>1, <2>2 DEF ToSet
      <3>2. i \in 1..(Len(q) + 1) /\ Append(q, k)[i] = x
        BY <1>1, <3>1
      <3>3. QED
        BY <1>1, <3>2 DEF ToSet
    <2>3. k \in ToSet(Append(q, k))
      <3>1. Len(q) + 1 \in 1..(Len(q) + 1)
        BY <1>1
      <3>2. QED
        BY <1>1, <3>1 DEF ToSet
    <2>4. QED
      BY <2>1, <2>2, <2>3
  <1>3. IsInjective(Append(q, k))
    <2>1. \A i \in 1..Len(q) : q[i] # k
      BY <1>1 DEF ToSet
    <2>2. QED
      BY <1>1, <2>1 DEF IsInjective
  <1>4. QED
    BY <1>1, <1>2, <1>3

(* The first handler taken off. *)
LEMMA TakeHandler ==
  ASSUME NEW S, NEW q \in Seq(S), IsInjective(q), q # <<>>
  PROVE  /\ Tail(q) \in Seq(S) /\ IsInjective(Tail(q))
         /\ ToSet(Tail(q)) = ToSet(q) \ {Head(q)}
         /\ Head(q) \in ToSet(q) /\ Len(Tail(q)) = Len(q) - 1
         /\ Len(q) \in Nat /\ Len(q) > 0
  <1>1. /\ Len(q) \in Nat /\ Len(q) > 0 /\ DOMAIN q = 1..Len(q)
        /\ Head(q) = q[1] /\ Tail(q) \in Seq(S)
        /\ Len(Tail(q)) = Len(q) - 1 /\ DOMAIN Tail(q) = 1..(Len(q) - 1)
        /\ \A i \in 1..(Len(q) - 1) : Tail(q)[i] = q[i + 1]
    OBVIOUS
  <1>2. IsInjective(Tail(q))
    BY <1>1 DEF IsInjective
  <1>3. Head(q) \in ToSet(q)
    BY <1>1 DEF ToSet
  <1>4. ToSet(Tail(q)) = ToSet(q) \ {Head(q)}
    <2>1. ASSUME NEW x \in ToSet(Tail(q)) PROVE x \in ToSet(q) \ {Head(q)}
      <3>1. PICK i \in 1..(Len(q) - 1) : x = q[i + 1]
        BY <1>1, <2>1 DEF ToSet
      <3>2. i + 1 \in 1..Len(q) /\ i + 1 # 1 /\ 1 \in 1..Len(q)
        BY <1>1, <3>1
      <3>3. x # Head(q)
        BY <1>1, <3>1, <3>2 DEF IsInjective
      <3>4. QED
        BY <1>1, <3>1, <3>2, <3>3 DEF ToSet
    <2>2. ASSUME NEW x \in ToSet(q), x # Head(q) PROVE x \in ToSet(Tail(q))
      <3>1. PICK i \in 1..Len(q) : x = q[i]
        BY <1>1, <2>2 DEF ToSet
      <3>2. i # 1 /\ i - 1 \in 1..(Len(q) - 1) /\ q[(i - 1) + 1] = x
        BY <1>1, <2>2, <3>1
      <3>3. Tail(q)[i - 1] = x
        BY <1>1, <3>2
      <3>4. QED
        BY <1>1, <3>2, <3>3 DEF ToSet
    <2>3. QED
      BY <2>1, <2>2
  <1>5. QED
    BY <1>1, <1>2, <1>3, <1>4
-----------------------------------------------------------------------------
USE DEF UNINITIALIZED, LOADING, LOADED, STARTING, STARTED, ERROR,
        INITIALIZATING, INITIALIZED, peerVars

(* What the command channel does for one connection. *)
CommandOp(c) ==
  \/ Connect(c) \/ HangUp(c) \/ (\E op \in Operation : Call(c, op))
  \/ RpcThread(c)

(* The steps, by the thread that takes them. *)
LEMMA StepCases ==
  ASSUME Next
  PROVE  /\ process = "up"
         /\ \/ (\E c \in Channel : CommandOp(c)) /\ UNCHANGED reverseVars
            \/ (MainThread \/ MainExits) /\ UNCHANGED reverseVars
            \/ \E c \in Channel : ReverseSetup(c)
            \/ RendererConnects
            \/ ReverseThread
            \/ \E k \in MConn :
                 ServiceThread(k) \/ AppConnects(k) \/ AppCalls(k)
  BY DEF Next, Step, SecureStep, Renderer, CommandOp

(* The command channel does not see the steps of the reverse channel. *)
LEMMA ReverseFrame ==
  ASSUME \/ RendererConnects
         \/ ReverseThread
         \/ \E k \in MConn : ServiceThread(k) \/ AppConnects(k) \/ AppCalls(k)
  PROVE  UNCHANGED <<module_initialization_state, load_ok, main, errcode_ok,
                     rpc, accepting, conn_count, hung_up, calls, start_called>>
  BY DEF RendererConnects, ReverseThread, HostSetup, QuotaSetup, SetupFails,
         Announce, RevAccept, ServiceSetup, ServiceThread, ServiceAccepts,
         Factory, AddChannel, SpawnService, CallForwarded, CallReturns,
         ConnectionDtor, AppConnects, AppCalls, restVars, secureVars, appVars,
         mainVars, serviceVars, rendererVars

(* The reverse channel does not see the steps of the command channel. *)
LEMMA CommandFrame ==
  ASSUME (\E c \in Channel : CommandOp(c)) \/ MainThread \/ MainExits
  PROVE  UNCHANGED reverse
  BY DEF CommandOp, Connect, HangUp, Call, RpcThread, AcceptConnection,
         SpawnHandler, RpcHandlerEnds, Shutdown, LoadBegins, LoadFile,
         LoadEnds, StartBegins, Start, StartReplies, StartEnds, MainThread,
         MainAwaitsLoad, MainAwaitsStart, LaunchServiceThreads, MainExits

(* The main thread leaves the calls' state alone. *)
LEMMA MainFrame ==
  ASSUME MainThread \/ MainExits
  PROVE  UNCHANGED <<module_initialization_state, load_ok, rpc, accepting,
                     conn_count, hung_up, calls, start_called>>
  BY DEF MainThread, MainAwaitsLoad, MainAwaitsStart, LaunchServiceThreads,
         MainExits, appVars, serviceVars, rendererVars

(* The calls leave the main thread's state alone. *)
LEMMA CallFrame ==
  ASSUME NEW c \in Channel, CommandOp(c) \/ ReverseSetup(c)
  PROVE  UNCHANGED <<main, errcode_ok, runtime_host_interface>>
  BY DEF CommandOp, Connect, HangUp, Call, RpcThread, AcceptConnection,
         SpawnHandler, RpcHandlerEnds, Shutdown, LoadBegins, LoadFile,
         LoadEnds, StartBegins, Start, StartReplies, StartEnds, ReverseSetup,
         mainVars, appVars
-----------------------------------------------------------------------------
(* Types: each component of the state by the steps that write it. *)
RpcLabel ==
  {"none", "pending", "accepted", "refused", "loop", "ended",
   "load_file", "prepare", "start", "start_wait", "start_reply",
   "start_replied"} \cup Operation

(* A call of the command channel moves the thread of its connection only. *)
LEMMA CallMoves ==
  ASSUME rpc \in [Channel -> RpcLabel], NEW c \in Channel,
         CommandOp(c) \/ ReverseSetup(c)
  PROVE  \E l \in RpcLabel : rpc' = [rpc EXCEPT ![c] = l]
  <1>1. CASE UNCHANGED rpc
    <2>1. rpc' = [rpc EXCEPT ![c] = rpc[c]]
      BY <1>1
    <2>2. QED
      BY <2>1
  <1>2. CASE \E l \in RpcLabel : Goto(c, l)
    BY <1>2 DEF Goto
  <1>3. CASE Connect(c) \/ AcceptConnection(c) \/ SpawnHandler(c)
    BY <1>2, <1>3 DEF Connect, AcceptConnection, SpawnHandler, Refuse, RpcLabel
  <1>4. CASE HangUp(c) \/ Shutdown(c)
    BY <1>1, <1>4 DEF HangUp, Shutdown
  <1>5. CASE \E op \in Operation : Call(c, op)
    BY <1>2, <1>5 DEF Call, RpcLabel
  <1>6. CASE RpcHandlerEnds(c)
    BY <1>1, <1>2, <1>6 DEF RpcHandlerEnds, RpcLabel, Operation
  <1>7. CASE LoadBegins(c)
    BY <1>2, <1>7 DEF LoadBegins, RpcLabel
  <1>8. CASE LoadFile(c)
    BY <1>1, <1>2, <1>8 DEF LoadFile, RpcLabel
  <1>9. CASE LoadEnds(c)
    BY <1>2, <1>9 DEF LoadEnds, RpcLabel
  <1>10. CASE StartBegins(c) \/ Start(c)
    BY <1>2, <1>10 DEF StartBegins, Start, RpcLabel
  <1>11. CASE StartReplies(c) \/ StartEnds(c) \/ ReverseSetup(c)
    BY <1>2, <1>11 DEF StartReplies, StartEnds, ReverseSetup, RpcLabel
  <1>12. QED
    BY <1>3, <1>4, <1>5, <1>6, <1>7, <1>8, <1>9, <1>10, <1>11
    DEF CommandOp, RpcThread

(* What a call writes has its type. *)
LEMMA CallKeepsTypes ==
  ASSUME SecureTypeOK, NEW c \in Channel, CommandOp(c) \/ ReverseSetup(c)
  PROVE  SecureTypeOK'
  <1>1. rpc' \in [Channel -> RpcLabel]
    BY CallMoves DEF SecureTypeOK, RpcLabel
  <1> DEFINE Frame ==
               UNCHANGED <<process, load_ok, module_initialization_state>>
  <1>2. /\ process' \in {"up", "fatal", "aborted", "shut_down", "main_exit"}
        /\ load_ok' \in BOOLEAN
        /\ module_initialization_state' \in UNINITIALIZED..ERROR
    <2>1. CASE Frame
      BY <2>1 DEF SecureTypeOK
    <2>2. CASE \/ Connect(c) \/ HangUp(c) \/ (\E op \in Operation : Call(c, op))
               \/ AcceptConnection(c) \/ SpawnHandler(c) \/ StartBegins(c)
               \/ StartReplies(c) \/ ReverseSetup(c)
      <3>1. Frame
        BY <2>2 DEF Connect, HangUp, Call, AcceptConnection, SpawnHandler,
          StartBegins, StartReplies, ReverseSetup, appVars
      <3>2. QED
        BY <2>1, <3>1
    <2>3. CASE RpcHandlerEnds(c) \/ Shutdown(c)
      BY <2>3 DEF RpcHandlerEnds, Shutdown, appVars, Exit, SecureTypeOK
    <2>4. CASE LoadBegins(c) \/ Start(c) \/ StartEnds(c)
      BY <2>4 DEF LoadBegins, Start, StartEnds, SetModuleState, SecureTypeOK
    <2>5. CASE LoadFile(c) \/ LoadEnds(c)
      <3>1. load_ok' \in BOOLEAN
        BY <2>5, Zenon DEF LoadFile, LoadEnds, appVars, SecureTypeOK
      <3>2. process' \in {process, "fatal"}
        BY <2>5 DEF LoadFile, LoadEnds, Exit
      <3>3. module_initialization_state' \in
              {module_initialization_state, ERROR, LOADED}
        BY <2>5 DEF LoadFile, LoadEnds, SetModuleState, appVars
      <3>4. QED
        BY <3>1, <3>2, <3>3 DEF SecureTypeOK
    <2>6. QED
      BY <2>2, <2>3, <2>4, <2>5 DEF CommandOp, RpcThread
  <1>3. conn_count' \in Nat /\ accepting' \in BOOLEAN
    <2>1. CASE RpcHandlerEnds(c)
      BY <2>1 DEF RpcHandlerEnds, SecureTypeOK
    <2>2. CASE AcceptConnection(c) \/ SpawnHandler(c)
      <3>1. /\ conn_count' \in {conn_count, conn_count + 1}
            /\ (accepting' = accepting) \/ (accepting' = FALSE)
        BY <2>2 DEF AcceptConnection, SpawnHandler, Refuse, serviceVars
      <3>2. accepting' \in BOOLEAN
        BY <3>1, Zenon DEF SecureTypeOK
      <3>3. QED
        BY <3>1, <3>2 DEF SecureTypeOK
    <2>3. CASE ~RpcHandlerEnds(c) /\ ~AcceptConnection(c) /\ ~SpawnHandler(c)
      <3>1. UNCHANGED <<conn_count, accepting>>
        BY <2>3 DEF CommandOp, Connect, HangUp, Call, RpcThread,
           Shutdown, LoadBegins, LoadFile, LoadEnds, StartBegins, Start,
           StartReplies, StartEnds, ReverseSetup, serviceVars
      <3>2. QED
        BY <3>1 DEF SecureTypeOK
    <2>4. QED
      BY <2>1, <2>2, <2>3
  <1>4. /\ hung_up' \in SUBSET Channel /\ calls' \in 0..MaxCalls
        /\ start_called' \in BOOLEAN
    <2>1. CASE HangUp(c)
      BY <2>1 DEF HangUp, SecureTypeOK
    <2>2. CASE \E op \in Operation : Call(c, op)
      <3>1. PICK op \in Operation : Call(c, op)
        BY <2>2
      <3>2. calls' \in 0..MaxCalls
        BY <3>1, SecureServiceAssumption DEF Call, SecureTypeOK
      <3>3. start_called' \in BOOLEAN /\ UNCHANGED hung_up
        BY <3>1 DEF Call, SecureTypeOK
      <3>4. QED
        BY <3>2, <3>3 DEF SecureTypeOK
    <2>3. CASE Connect(c) \/ RpcThread(c) \/ ReverseSetup(c)
      BY <2>3 DEF Connect, RpcThread, AcceptConnection,
           SpawnHandler, RpcHandlerEnds, Shutdown, LoadBegins, LoadFile,
           LoadEnds, StartBegins, Start, StartReplies, StartEnds, ReverseSetup,
           rendererVars, SecureTypeOK
    <2>4. QED
      BY <2>1, <2>2, <2>3 DEF CommandOp
  <1>5. /\ UNCHANGED <<main, errcode_ok, runtime_host_interface>>
        /\ reverse' \in {UNINITIALIZED, INITIALIZATING, INITIALIZED}
    <2>1. CASE CommandOp(c)
      BY <2>1, CommandFrame, CallFrame DEF SecureTypeOK
    <2>2. CASE ReverseSetup(c)
      BY <2>2, CallFrame DEF ReverseSetup, SecureTypeOK
    <2>3. QED
      BY <2>1, <2>2
  <1>6. QED
    BY <1>1, <1>2, <1>3, <1>4, <1>5 DEF SecureTypeOK, RpcLabel

(* So has what the main thread writes. *)
LEMMA MainKeepsTypes ==
  ASSUME SecureTypeOK, MainThread \/ MainExits
  PROVE  SecureTypeOK'
  <1>1. errcode_ok' \in BOOLEAN
    <2>1. CASE MainAwaitsLoad
      BY <2>1, Zenon DEF MainAwaitsLoad, SecureTypeOK
    <2>2. CASE MainAwaitsStart
      BY <2>2 DEF MainAwaitsStart
    <2>3. CASE LaunchServiceThreads \/ MainExits
      BY <2>3 DEF LaunchServiceThreads, MainExits, mainVars, SecureTypeOK
    <2>4. QED
      BY <2>1, <2>2, <2>3 DEF MainThread
  <1>2. /\ process' \in {process, "main_exit"}
        /\ main' \in {main, "wait_start", "services", "blocked",
                      "self_deadlock", "running"}
        /\ runtime_host_interface' \in {runtime_host_interface, "default"}
    <2>1. CASE MainAwaitsLoad
      BY <2>1 DEF MainAwaitsLoad, appVars
    <2>2. CASE MainAwaitsStart
      BY <2>2 DEF MainAwaitsStart, appVars
    <2>3. CASE LaunchServiceThreads
      BY <2>3 DEF LaunchServiceThreads, Exit
    <2>4. CASE MainExits
      BY <2>4 DEF MainExits, Exit, appVars, mainVars
    <2>5. QED
      BY <2>1, <2>2, <2>3, <2>4 DEF MainThread
  <1>3. UNCHANGED <<module_initialization_state, load_ok, rpc, serviceVars,
                    rendererVars, reverse>>
    BY DEF MainThread, MainAwaitsLoad, MainAwaitsStart, LaunchServiceThreads,
           MainExits, appVars
  <1>4. QED
    BY <1>1, <1>2, <1>3 DEF SecureTypeOK, serviceVars, rendererVars

(* The reverse channel writes little of the command channel's state. *)
LEMMA ReverseKeepsSecureTypes ==
  ASSUME SecureTypeOK, 
         \/ RendererConnects
         \/ ReverseThread
         \/ \E k \in MConn : ServiceThread(k) \/ AppConnects(k) \/ AppCalls(k)
  PROVE  SecureTypeOK'
  <1>1. /\ process' \in {process, "fatal", "aborted"}
        /\ runtime_host_interface' \in {runtime_host_interface, "reverse"}
        /\ reverse' \in {reverse, INITIALIZED}
    BY DEF RendererConnects, ReverseThread, HostSetup, QuotaSetup, SetupFails,
           Announce, RevAccept, SetupConnects, RevHandleConnect, ServiceSetup,
           ServiceThread, ServiceAccepts,
           Factory, AddChannel, SpawnService, CallForwarded, CallReturns,
           ConnectionDtor, AppConnects, AppCalls, restVars, secureVars,
           appVars, Exit
  <1>2. QED
    BY <1>1, ReverseFrame DEF SecureTypeOK

(* The types of what the reverse channel has of its own. *)
OwnTypes ==
  /\ rthread \in {"none", "accept", "host", "quota", "announce"} \cup Service
  /\ queue \in Seq(MConn \cup {Setup}) /\ IsInjective(queue)
  /\ arrivals \in Seq(BOOLEAN)
  /\ promised \in BOOLEAN /\ unmade \in Nat /\ quota \in BOOLEAN
  /\ names \in SUBSET Service /\ acceptors \in SUBSET Service
  /\ mconn \in [MConn ->
       {"none", "pending", "accepted", "adding", "added", "refused",
        "loop", "waiting", "calling", "closing", "freed"}]
  /\ channel_initialized \in [MConn -> BOOLEAN]

(* They are part of the invariant. *)
LEMMA OwnTypesHold == ReverseIInv => OwnTypes /\ SecureTypeOK
  BY DEF OwnTypes, ReverseIInv, ReverseTypeOK

(* The renderer, when it is to connect, adds at most one connection.       *)
LEMMA ConnectTypes ==
  ASSUME arrivals \in Seq(BOOLEAN), unmade \in Nat, ConnectAndSpawnHandler
  PROVE  /\ arrivals' \in Seq(BOOLEAN) /\ unmade' \in Nat
         /\ Len(arrivals') \in {Len(arrivals), Len(arrivals) + 1}
  <1>1. unmade' \in {unmade, unmade + 1}
    BY DEF ConnectAndSpawnHandler
  <1>2. ASSUME NEW live \in BOOLEAN, arrivals' = Append(arrivals, live)
        PROVE  /\ arrivals' \in Seq(BOOLEAN)
               /\ Len(arrivals') = Len(arrivals) + 1
    BY <1>2
  <1>3. \/ arrivals' = arrivals
        \/ \E live \in BOOLEAN : arrivals' = Append(arrivals, live)
    BY DEF ConnectAndSpawnHandler
  <1>4. QED
    BY <1>1, <1>2, <1>3

(* The queue holds a connection once. *)
LEMMA OwnTypesStay ==
  ASSUME ReverseIInv, Next
  PROVE  OwnTypes'
  <1>1. OwnTypes /\ HandlersInv
    BY OwnTypesHold DEF ReverseIInv
  <1>2. CASE UNCHANGED reverseVars
    BY <1>1, <1>2 DEF reverseVars, OwnTypes
  <1>3. CASE \E c \in Channel : ReverseSetup(c)
    <2>1. <<Setup>> \in Seq(MConn \cup {Setup}) /\ IsInjective(<<Setup>>)
      BY DEF IsInjective
    <2>2. /\ rthread' \in {rthread, "accept"}
          /\ queue' \in {queue, <<Setup>>}
          /\ (promised' = promised) \/ (promised' = TRUE)
          /\ UNCHANGED <<arrivals, unmade, quota, mconnVars>>
      BY <1>3 DEF ReverseSetup
    <2>3. QED
      BY <1>1, <2>1, <2>2 DEF OwnTypes, mconnVars
  <1>4. CASE RendererConnects
    <2>1. /\ ConnectAndSpawnHandler /\ promised' = FALSE
          /\ UNCHANGED <<rthread, queue, quota, names, acceptors, mconn,
                         channel_initialized>>
      BY <1>4 DEF RendererConnects, mconnVars
    <2>2. arrivals' \in Seq(BOOLEAN) /\ unmade' \in Nat
      BY <1>1, <2>1, ConnectTypes DEF OwnTypes
    <2>3. QED
      BY <1>1, <2>1, <2>2 DEF OwnTypes
  <1>5. CASE HostSetup \/ QuotaSetup \/ SetupFails \/ Announce
    <2>1. /\ rthread' \in {rthread, "quota", "manifest", "accept"}
          /\ quota' \in BOOLEAN
          /\ UNCHANGED <<queue, arrivals, peerVars, names, acceptors, mconn,
                         channel_initialized>>
      BY <1>1, <1>5 DEF HostSetup, QuotaSetup, SetupFails, Announce, mconnVars,
        reverseVars, OwnTypes
    <2>2. QED
      BY <1>1, <2>1 DEF OwnTypes, Service
  <1>6. CASE \E s \in Service : ServiceSetup(s)
    <2>1. PICK s \in Service : ServiceSetup(s)
      BY <1>6
    <2>2. QED
      BY <1>1, <2>1 DEF ServiceSetup, OwnTypes, Service
  <1>7. CASE RevAccept
    <2>1. /\ UNCHANGED <<peerVars, quota, names, acceptors, mconn>>
          /\ arrivals' = Tail(arrivals) /\ arrivals # <<>>
          /\ (queue' = queue) \/ (queue # <<>> /\ queue' = Tail(queue))
      BY <1>7 DEF RevAccept
    <2>2. arrivals' \in Seq(BOOLEAN) /\ Head(arrivals) \in BOOLEAN
      BY <1>1, <2>1 DEF OwnTypes
    <2>3. queue' \in Seq(MConn \cup {Setup}) /\ IsInjective(queue')
      BY <1>1, <2>1, TakeHandler DEF OwnTypes
    <2>4. rthread' \in {rthread, "host"}
      BY <1>7 DEF RevAccept, SetupConnects, RevHandleConnect
    <2>5. channel_initialized' \in [MConn -> BOOLEAN]
      BY <1>1, <1>7, <2>2
      DEF RevAccept, SetupConnects, RevHandleConnect, OwnTypes
    <2>6. QED
      BY <1>1, <2>1, <2>2, <2>3, <2>4, <2>5 DEF OwnTypes
  <1>8. CASE \E k \in MConn : ServiceThread(k) \/ AppConnects(k) \/ AppCalls(k)
    <2>1. PICK k \in MConn : ServiceThread(k) \/ AppConnects(k) \/ AppCalls(k)
      BY <1>8
    <2>2. UNCHANGED <<rthread, promised, quota, names, channel_initialized>>
      BY <2>1
      DEF ServiceThread, ServiceAccepts, Factory, AddChannel, SpawnService,
          CallForwarded, CallReturns, ConnectionDtor, AppConnects, AppCalls,
          restVars
    <2>3. acceptors' \in SUBSET Service
      BY <1>1, <2>1
      DEF ServiceThread, ServiceAccepts, Factory, AddChannel, SpawnService,
          CallForwarded, CallReturns, ConnectionDtor, AppConnects, AppCalls,
          OwnTypes
    <2>4. mconn' \in [MConn ->
            {"none", "pending", "accepted", "adding", "added", "refused",
             "loop", "waiting", "calling", "closing", "freed"}]
      BY <1>1, <2>1
      DEF ServiceThread, ServiceAccepts, Factory, AddChannel, SpawnService,
          CallForwarded, CallReturns, ConnectionDtor, AppConnects, AppCalls,
          Move, OwnTypes
    <2>5. arrivals' \in Seq(BOOLEAN) /\ unmade' \in Nat
      <3>1. UNCHANGED <<arrivals, unmade>> \/ ConnectAndSpawnHandler
        BY <2>1
        DEF ServiceThread, ServiceAccepts, Factory, AddChannel, SpawnService,
            CallForwarded, CallReturns, ConnectionDtor, AppConnects, AppCalls,
            restVars
      <3>2. QED
        BY <1>1, <3>1, ConnectTypes DEF OwnTypes
    <2>6. queue' \in Seq(MConn \cup {Setup}) /\ IsInjective(queue')
      <3>1. \/ UNCHANGED queue
            \/ mconn[k] = "accepted" /\ queue' = Append(queue, k)
        BY <2>1
        DEF ServiceThread, ServiceAccepts, Factory, AddChannel, SpawnService,
            CallForwarded, CallReturns, ConnectionDtor, AppConnects, AppCalls
      <3>2. mconn[k] = "accepted" => k \notin ToSet(queue)
        BY <1>1 DEF HandlersInv
      <3>3. CASE UNCHANGED queue
        BY <1>1, <3>3 DEF OwnTypes
      <3>4. CASE mconn[k] = "accepted" /\ queue' = Append(queue, k)
        <4>1. /\ queue \in Seq(MConn \cup {Setup}) /\ IsInjective(queue)
              /\ k \in MConn \cup {Setup} /\ k \notin ToSet(queue)
          BY <1>1, <3>2, <3>4 DEF OwnTypes
        <4>2. QED
          BY <3>4, <4>1, AppendHandler
      <3>5. QED
        BY <3>1, <3>3, <3>4
    <2>7. QED
      BY <1>1, <2>2, <2>3, <2>4, <2>5, <2>6 DEF OwnTypes
  <1>9. QED
    BY <1>2, <1>3, <1>4, <1>5, <1>6, <1>7, <1>8, StepCases DEF ReverseThread

(* Every step keeps all the types. *)
LEMMA TypesStay ==
  ASSUME ReverseIInv, Next
  PROVE  OwnTypes' /\ SecureTypeOK' /\ ReverseTypeOK'
  <1>1. SecureTypeOK'
    BY OwnTypesHold, StepCases, CallKeepsTypes, MainKeepsTypes,
       ReverseKeepsSecureTypes
  <1>2. OwnTypes'
    BY OwnTypesStay
  <1>3. ReverseTypeOK'
    BY <1>1, <1>2 DEF OwnTypes, ReverseTypeOK, ToSet
  <1>4. QED
    BY <1>1, <1>2, <1>3

-----------------------------------------------------------------------------
(* What is pledged is counted in natural numbers. *)
LEMMA PledgedType ==
  ASSUME arrivals \in Seq(BOOLEAN)
  PROVE  /\ Pledged \in Nat /\ Pledged >= Len(arrivals)
         /\ promised \/ Adding => Pledged > Len(arrivals)
         /\ PromisedOne \in 0..1 /\ AddingOne \in 0..1
  <1>1. /\ PromisedOne \in 0..1 /\ AddingOne \in 0..1 /\ Len(arrivals) \in Nat
        /\ promised \/ Adding => PromisedOne = 1 \/ AddingOne = 1
    BY DEF PromisedOne, AddingOne
  <1>2. QED
    BY <1>1 DEF Pledged

(* No fatal check is reached. *)
LEMMA NoFatalStep ==
  ASSUME ReverseIInv, Next
  PROVE  NoFatalCheck'
  <1>1. /\ OwnTypes /\ SecureTypeOK /\ ModuleInv /\ ConnectionsInv /\ SetupInv
        /\ HandlersInv /\ Pledged <= Len(queue) /\ NoFatalCheck
    BY OwnTypesHold DEF ReverseIInv
  <1>2. ASSUME NEW c \in Channel, CommandOp(c) \/ ReverseSetup(c)
        PROVE  process' # "fatal"
    <2>1. CASE RpcHandlerEnds(c)
      <3>1. c \in Open
        BY <2>1 DEF RpcHandlerEnds, Open
      <3>2. Cardinality(Open) \in Nat /\ Cardinality(Open) # 0
        BY <1>1, <3>1, FS_CardinalityType, FS_EmptySet DEF ConnectionsInv
      <3>3. conn_count # 0
        BY <1>1, <3>2 DEF ConnectionsInv, SecureTypeOK
      <3>4. QED
        BY <1>1, <2>1, <3>3 DEF RpcHandlerEnds, NoFatalCheck
    <2>2. CASE LoadFile(c)
      <3>1. \A d \in Channel : rpc[d] # "prepare"
        BY <1>1, <2>2 DEF LoadFile, ModuleInv, Loads
      <3>2. UNCHANGED process
        BY <2>2, <3>1 DEF LoadFile
      <3>3. QED
        BY <1>1, <3>2 DEF NoFatalCheck
    <2>3. CASE Shutdown(c)
      BY <2>3 DEF Shutdown, Exit
    <2>4. CASE ~RpcHandlerEnds(c) /\ ~LoadFile(c) /\ ~Shutdown(c)
      <3>1. UNCHANGED process
        BY <1>2, <2>4
        DEF CommandOp, Connect, HangUp, Call, RpcThread, AcceptConnection,
            SpawnHandler, LoadBegins, LoadEnds, StartBegins, Start,
            StartReplies, StartEnds, ReverseSetup
      <3>2. QED
        BY <1>1, <3>1 DEF NoFatalCheck
    <2>5. QED
      BY <2>1, <2>2, <2>3, <2>4
  <1>3. ASSUME MainThread \/ MainExits PROVE process' # "fatal"
    BY <1>1, <1>3
    DEF MainThread, MainAwaitsLoad, MainAwaitsStart, LaunchServiceThreads,
        MainExits, Exit, NoFatalCheck
  <1>4. ASSUME RevAccept PROVE process' # "fatal"
    <2>1. Len(arrivals) \in Nat \ {0}
      BY <1>1, <1>4 DEF RevAccept, OwnTypes
    <2>2. Len(queue) # 0
      <3>1. Len(queue) \in Nat
        BY <1>1 DEF OwnTypes
      <3>2. Pledged \in Int /\ Pledged >= Len(arrivals)
        BY <1>1, <2>1, PledgedType DEF OwnTypes
      <3>3. QED
        BY <1>1, <2>1, <3>1, <3>2
    <2>3. queue # <<>> /\ Head(queue) \in ToSet(queue)
      BY <1>1, <2>2, TakeHandler DEF OwnTypes
    <2>4. CASE Head(queue) = Setup
      <3>1. reverse = INITIALIZATING
        BY <1>1, <2>3, <2>4 DEF SetupInv
      <3>2. process' = process \/ process' = "aborted"
        BY <1>4, <2>3, <2>4, <3>1 DEF RevAccept, SetupConnects, Exit
      <3>3. QED
        BY <1>1, <3>2 DEF NoFatalCheck
    <2>5. CASE Head(queue) # Setup
      <3>1. Head(queue) \in MConn
        BY <1>1, <2>3, <2>5 DEF OwnTypes
      <3>2. ~channel_initialized[Head(queue)]
        BY <1>1, <2>3, <3>1 DEF HandlersInv
      <3>3. QED
        BY <1>1, <1>4, <2>3, <2>5, <3>2
        DEF RevAccept, RevHandleConnect, NoFatalCheck
    <2>6. QED
      BY <2>4, <2>5
  <1>5. ASSUME RendererConnects \/ HostSetup \/ QuotaSetup \/ SetupFails
                 \/ Announce \/ \E s \in Service : ServiceSetup(s)
        PROVE  process' # "fatal"
    BY <1>1, <1>5
    DEF RendererConnects, HostSetup, QuotaSetup, SetupFails, Announce,
        ServiceSetup, Exit, secureVars, NoFatalCheck
  <1>6. ASSUME NEW k \in MConn,
               ServiceThread(k) \/ AppConnects(k) \/ AppCalls(k)
        PROVE  process' # "fatal"
    <2>1. CASE Factory(k)
      <3>1. reverse = INITIALIZED
        BY <1>1, <2>1 DEF Factory, HandlersInv
      <3>2. QED
        BY <1>1, <2>1, <3>1 DEF Factory, Exit, NoFatalCheck
    <2>2. CASE ~Factory(k)
      BY <1>1, <1>6, <2>2
      DEF ServiceThread, ServiceAccepts, AddChannel, SpawnService,
          CallForwarded, CallReturns, ConnectionDtor, AppConnects, AppCalls,
          Exit, NoFatalCheck
    <2>3. QED
      BY <2>1, <2>2
  <1>7. QED
    BY <1>2, <1>3, <1>4, <1>5, <1>6, StepCases DEF ReverseThread, NoFatalCheck
-----------------------------------------------------------------------------
(* The position of the thread of a connection after one of its calls: its  *)
(* own as the call says, the others where they were.                       *)
LEMMA RpcAfter ==
  ASSUME SecureTypeOK, NEW c \in Channel, CommandOp(c) \/ ReverseSetup(c)
  PROVE  /\ rpc \in [Channel -> RpcLabel] /\ rpc' \in [Channel -> RpcLabel]
         /\ \A d \in Channel : d # c => rpc'[d] = rpc[d]
  BY CallMoves DEF SecureTypeOK, RpcLabel

(* A step that moves no thread in or out of loading and starting.          *)
LEMMA ModuleKept ==
  ASSUME ModuleInv, UNCHANGED <<module_initialization_state, load_ok>>,
         \A c \in Channel : /\ Loads(c)' <=> Loads(c)
                            /\ Starts(c)' <=> Starts(c)
  PROVE  ModuleInv'
  BY DEF ModuleInv

(* One thread at a time works on the module, as its state says. *)
LEMMA ModuleStep ==
  ASSUME ReverseIInv, Next
  PROVE  ModuleInv'
  <1>1. ModuleInv /\ SecureTypeOK
    BY OwnTypesHold DEF ReverseIInv
  <1>2. CASE UNCHANGED <<module_initialization_state, load_ok, rpc>>
    BY <1>1, <1>2, ModuleKept DEF Loads, Starts
  <1>3. ASSUME NEW c \in Channel, CommandOp(c) \/ ReverseSetup(c)
        PROVE  ModuleInv'
    <2>1. /\ rpc \in [Channel -> RpcLabel] /\ rpc' \in [Channel -> RpcLabel]
          /\ \A d \in Channel : d # c => rpc'[d] = rpc[d]
      BY <1>1, <1>3, RpcAfter
    <2>2. \A d \in Channel : d # c => /\ Loads(d)' <=> Loads(d)
                                      /\ Starts(d)' <=> Starts(d)
      BY <2>1 DEF Loads, Starts
    <2>3. CASE \/ Connect(c) \/ HangUp(c) \/ AcceptConnection(c)
               \/ SpawnHandler(c) \/ RpcHandlerEnds(c) \/ Shutdown(c)
               \/ (\E op \in Operation : Call(c, op))
               \/ StartBegins(c) \/ ReverseSetup(c) \/ StartReplies(c)
      <3>1. /\ UNCHANGED <<module_initialization_state, load_ok>>
            /\ Loads(c)' <=> Loads(c)
            /\ Starts(c)' <=> Starts(c)
        BY <2>1, <2>3
        DEF Connect, HangUp, AcceptConnection, SpawnHandler, Refuse,
            RpcHandlerEnds, Shutdown, Call, Operation, StartBegins,
            ReverseSetup, StartReplies, Goto, appVars, Loads, Starts
      <3>2. QED
        BY <1>1, <2>2, <3>1, ModuleKept
    <2>4. CASE LoadBegins(c)
      <3>1. CASE module_initialization_state # UNINITIALIZED
        <4>1. /\ UNCHANGED <<module_initialization_state, load_ok>>
              /\ Loads(c)' <=> Loads(c)
              /\ Starts(c)' <=> Starts(c)
          BY <2>1, <2>4, <3>1 DEF LoadBegins, Goto, Loads, Starts
        <4>2. QED
          BY <1>1, <2>2, <4>1, ModuleKept
      <3>2. CASE module_initialization_state = UNINITIALIZED
        <4>1. /\ module_initialization_state' = LOADING
              /\ Loads(c)' /\ ~Starts(c)'
          BY <2>1, <2>4, <3>2
          DEF LoadBegins, SetModuleState, Goto, Loads, Starts
        <4>2. \A d \in Channel : ~Loads(d) /\ ~Starts(d)
          BY <1>1, <3>2 DEF ModuleInv
        <4>3. \A d \in Channel : (Loads(d)' => d = c) /\ ~Starts(d)'
          BY <2>2, <4>1, <4>2
        <4>4. QED
          BY <4>1, <4>3 DEF ModuleInv
      <3>3. QED
        BY <3>1, <3>2
    <2>5. CASE LoadFile(c)
      <3>1. Loads(c) /\ ~Starts(c) /\ module_initialization_state = LOADING
        BY <1>1, <2>5 DEF LoadFile, ModuleInv, Loads, Starts
      <3>2. \A d \in Channel : (Loads(d) <=> d = c) /\ ~Starts(d)
        BY <1>1, <3>1 DEF ModuleInv
      <3>3. CASE UNCHANGED <<module_initialization_state, load_ok>>
        <4>1. Loads(c)' /\ ~Starts(c)'
          BY <2>1, <2>5, <3>3, <3>1
          DEF LoadFile, SetModuleState, Goto, Loads, Starts
        <4>2. QED
          BY <1>1, <2>2, <3>1, <3>3, <4>1, ModuleKept
      <3>4. CASE load_ok' = FALSE /\ SetModuleState(ERROR) /\ Goto(c, "loop")
        <4>1. ~Loads(c)' /\ ~Starts(c)'
          BY <2>1, <3>4 DEF Goto, Loads, Starts
        <4>2. \A d \in Channel : ~Loads(d)' /\ ~Starts(d)'
          BY <2>2, <3>2, <4>1
        <4>3. QED
          BY <3>4, <4>2 DEF ModuleInv, SetModuleState
      <3>5. QED
        BY <2>5, <3>3, <3>4 DEF LoadFile, appVars
    <2>6. CASE LoadEnds(c)
      <3>1. Loads(c) /\ ~Starts(c) /\ module_initialization_state = LOADING
        BY <1>1, <2>6 DEF LoadEnds, ModuleInv, Loads, Starts
      <3>2. \A d \in Channel : (Loads(d) <=> d = c) /\ ~Starts(d)
        BY <1>1, <3>1 DEF ModuleInv
      <3>3. /\ module_initialization_state' = LOADED
            /\ ~Loads(c)' /\ ~Starts(c)'
        BY <2>1, <2>6 DEF LoadEnds, SetModuleState, Goto, Loads, Starts
      <3>4. \A d \in Channel : ~Loads(d)' /\ ~Starts(d)'
        BY <2>2, <3>2, <3>3
      <3>5. QED
        BY <3>3, <3>4 DEF ModuleInv
    <2>7. CASE Start(c)
      <3>1. UNCHANGED load_ok /\ ~Loads(c) /\ ~Starts(c) /\ ~Loads(c)'
        BY <2>1, <2>7 DEF Start, Goto, Loads, Starts
      <3>2. CASE UNCHANGED module_initialization_state /\ ~Starts(c)'
        BY <1>1, <2>2, <3>1, <3>2, ModuleKept
      <3>3. CASE /\ module_initialization_state = LOADED
                 /\ module_initialization_state' = STARTING /\ Starts(c)'
        <4>1. \A d \in Channel : ~Loads(d) /\ ~Starts(d)
          BY <1>1, <3>3 DEF ModuleInv
        <4>2. \A d \in Channel : (Starts(d)' => d = c) /\ ~Loads(d)'
          BY <2>2, <3>1, <4>1
        <4>3. QED
          BY <3>3, <4>2 DEF ModuleInv
      <3>4. QED
        BY <2>1, <2>7, <3>2, <3>3 DEF Start, SetModuleState, Goto, Starts
    <2>8. CASE StartEnds(c)
      <3>1. /\ Starts(c) /\ ~Loads(c)
            /\ module_initialization_state = STARTING
            /\ module_initialization_state' = STARTED
            /\ ~Loads(c)' /\ ~Starts(c)'
        BY <1>1, <2>1, <2>8
        DEF StartEnds, SetModuleState, Goto, ModuleInv, Loads, Starts
      <3>2. \A d \in Channel : (Starts(d) <=> d = c) /\ ~Loads(d)
        BY <1>1, <3>1 DEF ModuleInv
      <3>3. \A d \in Channel : ~Loads(d)' /\ ~Starts(d)'
        BY <2>2, <3>1, <3>2
      <3>4. QED
        BY <3>1, <3>3 DEF ModuleInv
    <2>9. QED
      BY <1>3, <2>3, <2>4, <2>5, <2>6, <2>7, <2>8 DEF CommandOp, RpcThread
  <1>4. QED
    BY <1>2, <1>3, StepCases, MainFrame, ReverseFrame

(* A connection stays open until it is counted off. *)
LEMMA ConnectionsStep ==
  ASSUME ReverseIInv, Next
  PROVE  ConnectionsInv'
  <1>1. /\ ConnectionsInv /\ SecureTypeOK /\ conn_count \in Nat
        /\ IsFiniteSet(Open) /\ Cardinality(Open) \in Nat
    BY OwnTypesHold, FS_CardinalityType
    DEF ReverseIInv, ConnectionsInv, SecureTypeOK
  <1>2. CASE UNCHANGED <<conn_count, rpc>>
    BY <1>1, <1>2 DEF ConnectionsInv, Open
  <1>3. ASSUME NEW c \in Channel, CommandOp(c) \/ ReverseSetup(c)
        PROVE  ConnectionsInv'
    <2>1. /\ rpc \in [Channel -> RpcLabel] /\ rpc' \in [Channel -> RpcLabel]
          /\ \A d \in Channel : d # c => rpc'[d] = rpc[d]
      BY <1>1, <1>3, RpcAfter
    <2>2. CASE Open' = Open /\ UNCHANGED conn_count
      BY <1>1, <2>2 DEF ConnectionsInv
    <2>3. CASE c \in Open /\ Open' = Open \ {c} /\ UNCHANGED conn_count
      <3>1. /\ IsFiniteSet(Open \ {c})
            /\ Cardinality(Open \ {c}) = Cardinality(Open) - 1
        BY <1>1, <2>3, FS_RemoveElement
      <3>2. QED
        BY <1>1, <2>3, <3>1 DEF ConnectionsInv
    <2>4. CASE /\ c \notin Open /\ Open' = Open \cup {c}
               /\ conn_count' = conn_count + 1
      BY <1>1, <2>4, FS_AddElement DEF ConnectionsInv
    <2>5. CASE /\ c \in Open /\ Open' = Open \ {c}
               /\ conn_count' = conn_count - 1
      BY <1>1, <2>5, FS_RemoveElement DEF ConnectionsInv
    <2>6. CASE AcceptConnection(c)
      <3>1. CASE Refuse(c)
        BY <2>1, <2>2, <2>6, <3>1 DEF AcceptConnection, Refuse, Goto, Open
      <3>2. CASE conn_count' = conn_count + 1 /\ Goto(c, "accepted")
        BY <2>1, <2>4, <2>6, <3>2 DEF AcceptConnection, Goto, Open
      <3>3. QED
        BY <2>6, <3>1, <3>2 DEF AcceptConnection
    <2>7. CASE SpawnHandler(c)
      <3>1. CASE Refuse(c)
        BY <2>1, <2>3, <2>7, <3>1 DEF SpawnHandler, Refuse, Goto, Open
      <3>2. CASE Goto(c, "loop") /\ UNCHANGED serviceVars
        BY <2>1, <2>2, <2>7, <3>2 DEF SpawnHandler, Goto, Open, serviceVars
      <3>3. QED
        BY <2>7, <3>1, <3>2 DEF SpawnHandler
    <2>8. CASE RpcHandlerEnds(c)
      <3>1. c \in Open
        BY <2>8 DEF RpcHandlerEnds, Open
      <3>2. CASE conn_count = 0
        BY <1>2, <2>8, <3>2 DEF RpcHandlerEnds
      <3>3. CASE conn_count # 0
        <4>1. /\ conn_count' = conn_count - 1
              /\ rpc'[c] \in {"hard_shutdown", "ended"}
          BY <2>1, <2>8, <3>3 DEF RpcHandlerEnds, Goto
        <4>2. Open' = Open \ {c}
          BY <2>1, <4>1 DEF Open
        <4>3. QED
          BY <2>5, <3>1, <4>1, <4>2
      <3>4. QED
        BY <3>2, <3>3
    <2>9. CASE \E op \in Operation : Call(c, op)
      <3>1. PICK op \in Operation : Call(c, op)
        BY <2>9
      <3>2. /\ rpc[c] = "loop" /\ rpc'[c] = op /\ UNCHANGED conn_count
        BY <2>1, <3>1 DEF Call, Goto, serviceVars
      <3>3. CASE op = "hard_shutdown"
        BY <2>1, <2>3, <3>2, <3>3 DEF Open
      <3>4. CASE op # "hard_shutdown"
        BY <2>1, <2>2, <3>2, <3>4 DEF Open, Operation
      <3>5. QED
        BY <3>3, <3>4
    <2>10. CASE \/ Connect(c) \/ HangUp(c) \/ Shutdown(c) \/ StartBegins(c)
                \/ ReverseSetup(c) \/ StartReplies(c) \/ LoadBegins(c)
                \/ LoadFile(c) \/ LoadEnds(c) \/ Start(c) \/ StartEnds(c)
      <3>1. UNCHANGED conn_count /\ (c \in Open' <=> c \in Open)
        BY <2>1, <2>10
        DEF Connect, HangUp, Shutdown, StartBegins, ReverseSetup, StartReplies,
            LoadBegins, LoadFile, LoadEnds, Start, StartEnds, Goto, Open,
            serviceVars
      <3>2. Open' = Open
        BY <2>1, <3>1 DEF Open
      <3>3. QED
        BY <2>2, <3>1, <3>2
    <2>11. QED
      BY <1>3, <2>6, <2>7, <2>8, <2>9, <2>10 DEF CommandOp, RpcThread
  <1>4. QED
    BY <1>2, <1>3, StepCases, MainFrame, ReverseFrame
-----------------------------------------------------------------------------
(* A module that starts: the renderer has called StartModule, and sets no  *)
(* reverse channel up any more.                                            *)
StartCalls == {"start_module", "start", "start_wait", "start_reply",
               "start_replied"}
Started(c) == rpc[c] \in {"start", "start_wait"}

(* No step sets a reverse channel up behind a start. *)
LEMMA StartStep ==
  ASSUME ReverseIInv, Next
  PROVE  StartInv'
  <1>1. /\ StartInv /\ SecureTypeOK /\ ModuleInv /\ SetupInv
        /\ start_called \in BOOLEAN
    BY OwnTypesHold DEF ReverseIInv, SecureTypeOK
  <1>2. CASE /\ UNCHANGED <<module_initialization_state, start_called, rpc>>
             /\ reverse' = reverse \/ reverse' = INITIALIZED
    BY <1>1, <1>2 DEF StartInv, StartedUp
  <1>3. ASSUME NEW c \in Channel, CommandOp(c)
        PROVE  StartInv'
    <2>1. /\ rpc \in [Channel -> RpcLabel] /\ rpc' \in [Channel -> RpcLabel]
          /\ \A d \in Channel : d # c => rpc'[d] = rpc[d]
      BY <1>1, <1>3, RpcAfter
    <2>2. UNCHANGED reverse
      BY <1>3, CommandFrame
    <2>3. CASE /\ UNCHANGED start_called
               /\ rpc'[c] \in StartCalls => rpc[c] \in StartCalls
               /\ StartedUp' => StartedUp \/ rpc[c] \in StartCalls
               /\ rpc'[c] # "reverse_setup"
               /\ StartedUp' \/ Started(c)' =>
                    StartedUp \/ Started(c) \/ reverse # INITIALIZATING
      <3>1. \A d \in Channel : rpc'[d] \in StartCalls => start_called
        BY <1>1, <2>1, <2>3 DEF StartInv, StartCalls
      <3>2. StartedUp' => start_called
        BY <1>1, <2>3 DEF StartInv, StartCalls
      <3>3. start_called => \A d \in Channel : rpc'[d] # "reverse_setup"
        BY <1>1, <2>1, <2>3 DEF StartInv
      <3>4. StartedUp' \/ (\E d \in Channel : Started(d)')
              => reverse # INITIALIZATING
        BY <1>1, <2>1, <2>3 DEF StartInv, Started
      <3>5. QED
        BY <2>2, <2>3, <3>1, <3>2, <3>3, <3>4 DEF StartInv, StartCalls, Started
    <2>4. CASE \E op \in Operation : Call(c, op)
      <3>1. PICK op \in Operation : Call(c, op)
        BY <2>4
      <3>2. /\ UNCHANGED module_initialization_state
            /\ rpc'[c] = op /\ InOrder(op)
            /\ start_called' = (start_called \/ op = "start_module")
        BY <2>1, <3>1 DEF Call, Goto, appVars
      <3>3. CASE op = "start_module"
        <4>1. /\ start_called' = TRUE
              /\ \A d \in Channel : rpc'[d] # "reverse_setup"
          BY <2>1, <3>2, <3>3 DEF InOrder
        <4>2. \A d \in Channel : Started(d)' <=> Started(d)
          BY <2>1, <3>1, <3>2, <3>3 DEF Call, Started
        <4>3. QED
          BY <1>1, <2>2, <3>2, <4>1, <4>2 DEF StartInv, StartedUp, Started
      <3>4. CASE op # "start_module"
        <4>1. UNCHANGED start_called
          BY <1>1, <3>2, <3>4
        <4>2. rpc'[c] \notin StartCalls /\ ~Started(c)'
          BY <3>2, <3>4 DEF Operation, StartCalls, Started
        <4>3. start_called => rpc'[c] # "reverse_setup"
          BY <3>2 DEF InOrder
        <4>4. QED
          BY <1>1, <2>1, <2>2, <3>2, <4>1, <4>2, <4>3
          DEF StartInv, StartedUp, StartCalls, Started
      <3>5. QED
        BY <3>3, <3>4
    <2>5. CASE StartBegins(c)
      BY <1>1, <2>1, <2>3, <2>5
      DEF StartBegins, Goto, StartCalls, Started, StartedUp, appVars,
          rendererVars
    <2>6. CASE Start(c)
      BY <1>1, <2>1, <2>3, <2>6
      DEF Start, SetModuleState, Goto, StartCalls, Started, StartedUp,
          rendererVars
    <2>7. CASE StartReplies(c) \/ StartEnds(c)
      BY <1>1, <2>1, <2>3, <2>7
      DEF StartReplies, StartEnds, SetModuleState, Goto, ModuleInv, Starts,
          StartCalls, Started, StartedUp, appVars, rendererVars
    <2>8. CASE LoadBegins(c) \/ LoadFile(c) \/ LoadEnds(c)
      BY <1>1, <2>1, <2>3, <2>8
      DEF LoadBegins, LoadFile, LoadEnds, SetModuleState, Goto, StartCalls,
          Started, StartedUp, appVars, rendererVars
    <2>9. CASE \/ Connect(c) \/ HangUp(c) \/ AcceptConnection(c)
               \/ SpawnHandler(c) \/ RpcHandlerEnds(c) \/ Shutdown(c)
      <3>1. UNCHANGED <<appVars, start_called>>
        BY <2>9 DEF Connect, HangUp, AcceptConnection, SpawnHandler,
          RpcHandlerEnds, Shutdown, rendererVars
      <3>2. CASE UNCHANGED rpc
        BY <1>2, <2>2, <3>1, <3>2 DEF appVars
      <3>3. CASE ~UNCHANGED rpc
        <4>1. rpc'[c] \in {"pending", "accepted", "refused", "loop", "ended",
                           "hard_shutdown"}
          BY <2>1, <2>9, <3>3
          DEF Connect, HangUp, AcceptConnection, SpawnHandler, Refuse,
              RpcHandlerEnds, Shutdown, Goto
        <4>2. QED
          BY <2>3, <3>1, <4>1 DEF StartCalls, Started, StartedUp, appVars
      <3>4. QED
        BY <3>2, <3>3
    <2>10. QED
      BY <1>3, <2>4, <2>5, <2>6, <2>7, <2>8, <2>9 DEF CommandOp, RpcThread
  <1>4. ASSUME NEW c \in Channel, ReverseSetup(c)
        PROVE  StartInv'
    <2>1. /\ rpc \in [Channel -> RpcLabel] /\ rpc' \in [Channel -> RpcLabel]
          /\ \A d \in Channel : d # c => rpc'[d] = rpc[d]
      BY <1>1, <1>4, RpcAfter
    <2>2. /\ UNCHANGED <<module_initialization_state, start_called>>
          /\ rpc[c] = "reverse_setup" /\ rpc'[c] = "loop"
      BY <2>1, <1>4 DEF ReverseSetup, Goto, appVars, rendererVars
    <2>3. ~start_called
      BY <1>1, <2>2 DEF StartInv
    <2>4. ~StartedUp /\ \A d \in Channel : rpc[d] \notin StartCalls
      BY <1>1, <2>3 DEF StartInv, StartCalls
    <2>5. \A d \in Channel : rpc'[d] \notin StartCalls
      BY <2>1, <2>2, <2>4 DEF StartCalls
    <2>6. QED
      BY <2>2, <2>3, <2>4, <2>5 DEF StartInv, StartedUp, StartCalls
  <1>5. ASSUME \/ RendererConnects
               \/ ReverseThread
               \/ \E k \in MConn :
                    ServiceThread(k) \/ AppConnects(k) \/ AppCalls(k)
        PROVE  reverse' = reverse \/ reverse' = INITIALIZED
    BY <1>5
    DEF RendererConnects, ReverseThread, HostSetup, QuotaSetup, SetupFails,
        Announce, RevAccept, ServiceSetup, ServiceThread, ServiceAccepts,
        Factory, AddChannel, SpawnService, CallForwarded, CallReturns,
        ConnectionDtor, AppConnects, AppCalls, restVars, secureVars
  <1>6. QED
    BY <1>2, <1>3, <1>4, <1>5, StepCases, MainFrame, CommandFrame, ReverseFrame

(* The module stays started, and only the application ends in success.     *)
LEMMA MainStep ==
  ASSUME ReverseIInv, Next
  PROVE  MainInv'
  <1>1. MainInv /\ ModuleInv /\ SecureTypeOK /\ process = "up"
    BY OwnTypesHold, StepCases DEF ReverseIInv
  <1>2. module_initialization_state = STARTED
          => module_initialization_state' = STARTED
    <2>1. ASSUME NEW c \in Channel, CommandOp(c) \/ ReverseSetup(c),
                 module_initialization_state = STARTED
          PROVE  module_initialization_state' = STARTED
      <3>1. ~Loads(c) /\ ~Starts(c)
        BY <1>1, <2>1 DEF ModuleInv
      <3>2. QED
        BY <2>1, <3>1
        DEF CommandOp, Connect, HangUp, Call, RpcThread, AcceptConnection,
            SpawnHandler, RpcHandlerEnds, Shutdown, LoadBegins, LoadFile,
            LoadEnds, StartBegins, Start, StartReplies, StartEnds,
            ReverseSetup, appVars, SetModuleState, Loads, Starts
    <2>2. QED
      BY <2>1, StepCases, MainFrame, ReverseFrame
  <1>3. CASE MainThread \/ MainExits
    <2>1. UNCHANGED module_initialization_state
      BY <1>3, MainFrame
    <2>2. CASE MainAwaitsLoad
      BY <1>1, <2>2 DEF MainAwaitsLoad, MainInv
    <2>3. CASE MainAwaitsStart
      <3>1. process' = "up" /\ main' \in {"services", "blocked"}
        BY <1>1, <2>3 DEF MainAwaitsStart
      <3>2. module_initialization_state = ERROR => main' = "blocked"
        BY <1>1, <2>3, Zenon DEF MainAwaitsStart, ModuleInv
      <3>3. module_initialization_state \in {STARTED, ERROR}
        BY <1>1, <2>3 DEF MainAwaitsStart, SecureTypeOK
      <3>4. QED
        BY <2>1, <3>1, <3>2, <3>3 DEF MainInv
    <2>4. CASE LaunchServiceThreads
      BY <1>1, <2>1, <2>4 DEF LaunchServiceThreads, Exit, MainInv
    <2>5. CASE MainExits
      BY <1>1, <2>1, <2>5 DEF MainExits, Exit, MainInv, mainVars
    <2>6. QED
      BY <1>3, <2>2, <2>3, <2>4, <2>5 DEF MainThread
  <1>4. CASE UNCHANGED main /\ process' # "main_exit"
    BY <1>1, <1>2, <1>4 DEF MainInv
  <1>5. ASSUME NEW c \in Channel, CommandOp(c) \/ ReverseSetup(c)
        PROVE  process' # "main_exit"
    BY <1>1, <1>5
    DEF CommandOp, Connect, HangUp, Call, RpcThread, AcceptConnection,
        SpawnHandler, RpcHandlerEnds, Shutdown, LoadBegins, LoadFile,
        LoadEnds, StartBegins, Start, StartReplies, StartEnds, ReverseSetup,
        Exit
  <1>6. ASSUME \/ RendererConnects
               \/ ReverseThread
               \/ \E k \in MConn :
                    ServiceThread(k) \/ AppConnects(k) \/ AppCalls(k)
        PROVE  process' # "main_exit"
    BY <1>1, <1>6
    DEF RendererConnects, ReverseThread, HostSetup, QuotaSetup, SetupFails,
        Announce, RevAccept, SetupConnects, RevHandleConnect, ServiceSetup,
        ServiceThread, ServiceAccepts, Factory, AddChannel, SpawnService,
        CallForwarded, CallReturns, ConnectionDtor, AppConnects, AppCalls,
        restVars, secureVars, Exit
  <1>7. QED
    BY <1>3, <1>4, <1>5, <1>6, StepCases, CallFrame, ReverseFrame
-----------------------------------------------------------------------------
(* A connection that comes finds a handler; the first of all is Setup, and *)
(* nothing else has been promised by then.                                 *)
LEMMA HandlerWaits ==
  ASSUME ReverseIInv, RevAccept
  PROVE  /\ queue # <<>> /\ Head(queue) \in ToSet(queue)
         /\ Len(arrivals) \in Nat \ {0} /\ Len(queue) \in Nat \ {0}
         /\ Head(queue) = Setup => ~promised /\ ~Adding
         /\ Head(queue) # Setup => Head(queue) \in MConn
  <1>1. OwnTypes /\ SetupInv /\ Pledged <= Len(queue) /\ arrivals # <<>>
    BY OwnTypesHold DEF ReverseIInv, RevAccept
  <1>2. Len(arrivals) \in Nat \ {0} /\ Len(queue) \in Nat
    BY <1>1 DEF OwnTypes
  <1>3. Pledged \in Nat /\ Pledged >= Len(arrivals)
    BY <1>1, PledgedType DEF OwnTypes
  <1>4. Len(queue) # 0
    BY <1>1, <1>2, <1>3
  <1>5. queue # <<>> /\ Head(queue) \in ToSet(queue)
    BY <1>1, <1>2, <1>4, TakeHandler DEF OwnTypes
  <1>6. Head(queue) \in MConn \cup {Setup}
    BY <1>1, <1>5 DEF OwnTypes
  <1>7. ASSUME Head(queue) = Setup PROVE ~promised /\ ~Adding
    <2>1. queue = <<Setup>>
      BY <1>1, <1>5, <1>7 DEF SetupInv
    <2>2. Len(queue) = 1
      BY <2>1
    <2>3. Pledged = 1
      BY <1>1, <1>2, <1>3, <2>2
    <2>4. QED
      BY <1>1, <1>2, <2>3, PledgedType DEF OwnTypes
  <1>8. QED
    BY <1>2, <1>4, <1>5, <1>6, <1>7

(* The service threads leave the setup alone; they put handlers in the     *)
(* queue and ask for connections once it is done.                          *)
LEMMA ServiceFrame ==
  ASSUME ReverseIInv, NEW k \in MConn,
         ServiceThread(k) \/ AppConnects(k) \/ AppCalls(k)
  PROVE  /\ UNCHANGED <<appVars, reverse, rthread, promised, quota, names,
                        channel_initialized>>
         /\ \/ UNCHANGED queue
            \/ reverse = INITIALIZED /\ queue' = Append(queue, k)
         /\ UNCHANGED arrivals \/ reverse = INITIALIZED
  <1>1. UNCHANGED <<appVars, reverse, rthread, promised, quota, names,
                    channel_initialized>>
    BY DEF ServiceThread, ServiceAccepts, Factory, AddChannel, SpawnService,
           CallForwarded, CallReturns, ConnectionDtor, AppConnects, AppCalls,
           restVars
  <1>2. mconn[k] # "none" => reverse = INITIALIZED
    BY DEF ReverseIInv, HandlersInv
  <1>3. CASE Factory(k) \/ AddChannel(k)
    BY <1>1, <1>2, <1>3 DEF Factory, AddChannel
  <1>4. CASE ~Factory(k) /\ ~AddChannel(k)
    <2>1. UNCHANGED <<queue, arrivals>>
      BY <1>4
      DEF ServiceThread, ServiceAccepts, SpawnService, CallForwarded,
          CallReturns, ConnectionDtor, AppConnects, AppCalls
    <2>2. QED
      BY <1>1, <2>1
  <1>5. QED
    BY <1>3, <1>4

(* The setup steps leave the connections and what is pledged alone.        *)
LEMMA SetupFrame ==
  ASSUME \/ HostSetup \/ QuotaSetup \/ SetupFails \/ Announce
         \/ \E s \in Service : ServiceSetup(s)
  PROVE  UNCHANGED <<queue, arrivals, promised, mconn, channel_initialized>>
  BY DEF HostSetup, QuotaSetup, SetupFails, Announce, ServiceSetup, mconnVars,
         reverseVars

(* A module whose load has failed stays so. *)
LEMMA ErrorStays ==
  ASSUME ReverseIInv, Next, module_initialization_state = ERROR
  PROVE  module_initialization_state' = ERROR
  <1>1. ModuleInv
    BY DEF ReverseIInv
  <1>2. ASSUME NEW c \in Channel, CommandOp(c) \/ ReverseSetup(c)
        PROVE  module_initialization_state' = ERROR
    <2>1. ~Loads(c) /\ ~Starts(c)
      BY <1>1 DEF ModuleInv
    <2>2. QED
      BY <1>2, <2>1
      DEF CommandOp, Connect, HangUp, Call, RpcThread, AcceptConnection,
          SpawnHandler, RpcHandlerEnds, Shutdown, LoadBegins, LoadFile,
          LoadEnds, StartBegins, Start, StartReplies, StartEnds,
          ReverseSetup, appVars, SetModuleState, Loads, Starts
  <1>3. QED
    BY <1>2, StepCases, MainFrame, ReverseFrame

(* The setup thread's position says what it has done. *)
LEMMA SetupStep ==
  ASSUME ReverseIInv, Next
  PROVE  SetupInv'
  <1>1. /\ OwnTypes /\ SecureTypeOK /\ SetupInv /\ StartInv /\ MainInv
        /\ HandlersInv /\ process = "up"
        /\ module_initialization_state = ERROR
             => module_initialization_state' = ERROR
    BY OwnTypesHold, StepCases, ErrorStays DEF ReverseIInv
  <1>2. CASE UNCHANGED <<reverseVars, reverse, runtime_host_interface>>
    BY <1>1, <1>2 DEF reverseVars, SetupInv
  <1>3. CASE (MainThread \/ MainExits) /\ UNCHANGED reverseVars
    <2>1. UNCHANGED reverse
      BY <1>3, CommandFrame
    <2>2. CASE UNCHANGED runtime_host_interface
      BY <1>2, <1>3, <2>1, <2>2
    <2>3. CASE ~UNCHANGED runtime_host_interface
      <3>1. main = "services" /\ runtime_host_interface = "none"
        BY <1>3, <2>3
        DEF MainThread, MainAwaitsLoad, MainAwaitsStart, LaunchServiceThreads,
            MainExits, appVars
      <3>2. module_initialization_state = STARTED /\ reverse # INITIALIZATING
        BY <1>1, <3>1 DEF MainInv, StartInv, StartedUp
      <3>3. reverse = UNINITIALIZED
        BY <1>1, <3>1, <3>2 DEF SetupInv, SecureTypeOK
      <3>4. QED
        BY <1>1, <1>3, <2>1, <3>3 DEF SetupInv, Service, reverseVars
    <2>4. QED
      BY <2>2, <2>3
  <1>4. ASSUME NEW c \in Channel, ReverseSetup(c) PROVE SetupInv'
    <2>1. UNCHANGED <<process, runtime_host_interface, arrivals, unmade, quota,
                      mconnVars>>
      BY <1>4 DEF ReverseSetup, appVars
    <2>2. CASE UNCHANGED <<reverse, rthread, queue, promised>>
      BY <1>2, <2>1, <2>2 DEF reverseVars, mconnVars
    <2>3. CASE ~UNCHANGED <<reverse, rthread, queue, promised>>
      <3>1. /\ reverse = UNINITIALIZED /\ reverse' = INITIALIZATING
            /\ \/ UNCHANGED <<rthread, queue, promised>>
               \/ rthread' = "accept" /\ queue' = <<Setup>> /\ promised' = TRUE
        BY <1>4, <2>3 DEF ReverseSetup
      <3>2. rthread = "none" /\ queue = <<>> /\ arrivals = <<>> /\ ~promised
        BY <1>1, <3>1 DEF SetupInv
      <3>3. Setup \notin ToSet(<<>>) /\ Setup \in ToSet(<<Setup>>)
        BY DEF ToSet
      <3>4. CASE UNCHANGED <<rthread, queue, promised>>
        BY <2>1, <3>1, <3>2, <3>3, <3>4 DEF SetupInv, Service
      <3>5. CASE rthread' = "accept" /\ queue' = <<Setup>> /\ promised' = TRUE
        BY <2>1, <3>1, <3>2, <3>3, <3>5 DEF SetupInv, Service
      <3>6. QED
        BY <3>1, <3>4, <3>5
    <2>4. QED
      BY <2>2, <2>3
  <1>5. CASE RendererConnects
    BY <1>1, <1>5
    DEF RendererConnects, SetupInv, mconnVars, secureVars, appVars
  <1>6. CASE HostSetup
    <2>1. /\ reverse = INITIALIZATING
          /\ module_initialization_state \notin {STARTING, STARTED}
          /\ UNCHANGED <<module_initialization_state, reverse>>
      BY <1>1, <1>6
      DEF HostSetup, SetupInv, StartInv, StartedUp, SecureTypeOK
    <2>2. module_initialization_state # ERROR
            => runtime_host_interface' = "reverse"
      BY <1>1, <1>6, <2>1 DEF HostSetup, SecureTypeOK
    <2>3. QED
      BY <1>1, <1>6, <2>1, <2>2
      DEF HostSetup, SetupInv, mconnVars, Service
  <1>7. CASE QuotaSetup
    <2>1. /\ reverse = INITIALIZATING
          /\ module_initialization_state \notin {STARTING, STARTED}
          /\ UNCHANGED <<module_initialization_state, reverse,
                         runtime_host_interface>>
      BY <1>1, <1>7
      DEF QuotaSetup, SetupInv, StartInv, StartedUp, SecureTypeOK, secureVars,
          appVars
    <2>2. module_initialization_state # ERROR
            => module_initialization_state <= STARTING
      BY <1>1, <2>1 DEF SecureTypeOK
    <2>3. module_initialization_state # ERROR => quota'
      BY <1>7, <2>2, Zenon DEF QuotaSetup
    <2>4. QED
      BY <1>1, <1>7, <2>1, <2>3 DEF QuotaSetup, SetupInv, mconnVars, Service
  <1>8. CASE \E s \in Service : ServiceSetup(s)
    <2>1. PICK s \in Service : ServiceSetup(s)
      BY <1>8
    <2>2. UNCHANGED <<reverse, runtime_host_interface>>
      BY <2>1 DEF ServiceSetup, secureVars, appVars
    <2>3. QED
      BY <1>1, <2>1, <2>2 DEF ServiceSetup, SetupInv, OwnTypes, Service
  <1>9. CASE Announce
    BY <1>1, <1>9 DEF Announce, SetupInv, Service, appVars, mconnVars
  <1>10. CASE SetupFails
    BY <1>2, <1>10 DEF SetupFails, appVars
  <1>11. CASE RevAccept
    <2>1. /\ queue # <<>> /\ Head(queue) \in ToSet(queue)
          /\ Head(queue) = Setup => ~promised
          /\ Head(queue) # Setup => Head(queue) \in MConn
      BY <1>11, HandlerWaits
    <2>2. /\ rthread = "accept" /\ queue' = Tail(queue)
          /\ UNCHANGED <<reverse, runtime_host_interface, promised, quota,
                         names>>
      BY <1>11, <2>1 DEF RevAccept, appVars
    <2>3. CASE Head(queue) = Setup
      <3>1. queue = <<Setup>> /\ reverse = INITIALIZATING
        BY <1>1, <2>1, <2>3 DEF SetupInv
      <3>2. queue' = <<>>
        BY <2>2, <3>1
      <3>3. Setup \notin ToSet(queue')
        BY <3>2 DEF ToSet
      <3>4. \/ rthread' = "host"
            \/ rthread' = "accept" /\ process' # "up"
        <4>1. SetupConnects(Head(arrivals))
          BY <1>11, <2>1, <2>3 DEF RevAccept
        <4>2. CASE Head(arrivals) = TRUE
          BY <2>2, <3>1, <4>1, <4>2 DEF SetupConnects, Exit
        <4>3. CASE Head(arrivals) = FALSE
          BY <2>2, <3>1, <4>1, <4>3 DEF SetupConnects, Exit
        <4>4. Head(arrivals) \in BOOLEAN
          BY <1>1, <1>11 DEF RevAccept, OwnTypes
        <4>5. QED
          BY <4>2, <4>3, <4>4
      <3>5. QED
        BY <1>1, <2>1, <2>2, <2>3, <3>1, <3>2, <3>3, <3>4
        DEF SetupInv, Service
    <2>4. CASE Head(queue) # Setup
      <3>1. UNCHANGED rthread
        BY <1>11, <2>1, <2>4 DEF RevAccept, RevHandleConnect
      <3>2. queue # <<Setup>>
        BY <2>4
      <3>3. Setup \notin ToSet(queue) /\ ~promised /\ reverse # INITIALIZATING
        BY <1>1, <2>2, <3>2 DEF SetupInv
      <3>4. Setup \notin ToSet(queue')
        BY <1>1, <2>1, <2>2, <3>3, TakeHandler DEF OwnTypes
      <3>5. QED
        BY <1>1, <2>2, <3>1, <3>3, <3>4 DEF SetupInv, Service
    <2>5. QED
      BY <2>3, <2>4
  <1>12. ASSUME NEW k \in MConn,
                ServiceThread(k) \/ AppConnects(k) \/ AppCalls(k)
         PROVE  SetupInv'
    <2>1. /\ UNCHANGED <<appVars, reverse, rthread, promised, quota, names>>
          /\ \/ UNCHANGED queue
             \/ reverse = INITIALIZED /\ queue' = Append(queue, k)
          /\ UNCHANGED arrivals \/ reverse = INITIALIZED
      BY <1>12, ServiceFrame
    <2>2. CASE reverse = INITIALIZED
      <3>1. rthread = "accept" /\ Setup \notin ToSet(queue) /\ ~promised
        BY <1>1, <2>2 DEF SetupInv
      <3>2. Setup \notin ToSet(queue')
        <4>1. CASE queue' = Append(queue, k)
          <5>1. k # Setup
            BY ReverseChannelAssumption
          <5>2. queue \in Seq(MConn \cup {Setup})
            BY <1>1 DEF OwnTypes
          <5>3. QED
            BY <3>1, <4>1, <5>1, <5>2 DEF ToSet
        <4>2. QED
          BY <2>1, <3>1, <4>1
      <3>3. QED
        BY <1>1, <2>1, <2>2, <3>1, <3>2 DEF SetupInv, Service, appVars
    <2>3. CASE reverse # INITIALIZED
      <3>1. UNCHANGED <<queue, arrivals>>
        BY <2>1, <2>3
      <3>2. process' = "up" => process = "up"
        BY <1>1
      <3>3. QED
        BY <1>1, <2>1, <2>3, <3>1, <3>2 DEF SetupInv, appVars
    <2>4. QED
      BY <2>2, <2>3
  <1>13. QED
    BY <1>2, <1>3, <1>4, <1>5, <1>6, <1>7, <1>8, <1>9, <1>10, <1>11, <1>12,
       StepCases, CommandFrame, CallFrame
    DEF ReverseThread
-----------------------------------------------------------------------------
(* Handlers in the queue are of live connections without a channel. *)
HandlerOk(k) ==
  /\ k \in ToSet(queue) =>
       /\ mconn[k] \in {"adding", "added", "loop", "waiting", "closing"}
       /\ ~channel_initialized[k]
  /\ mconn[k] \in {"none", "pending", "accepted", "refused"}
       => ~channel_initialized[k]
  /\ mconn[k] # "none" => reverse = INITIALIZED

(* A step for one connection does not move another. *)
LEMMA MovesOne ==
  ASSUME OwnTypes, NEW k \in MConn,
         ServiceThread(k) \/ AppConnects(k) \/ AppCalls(k),
         NEW j \in MConn, j # k
  PROVE  mconn'[j] = mconn[j]
  <1>1. ASSUME NEW l, Move(k, l) PROVE mconn'[j] = mconn[j]
    BY <1>1 DEF Move, OwnTypes
  <1>2. CASE Factory(k) \/ AddChannel(k)
    BY <1>1, <1>2 DEF Factory, AddChannel
  <1>3. CASE ServiceAccepts(k) \/ SpawnService(k) \/ AppCalls(k)
    BY <1>1, <1>3 DEF ServiceAccepts, SpawnService, AppCalls
  <1>4. CASE CallForwarded(k) \/ CallReturns(k) \/ ConnectionDtor(k)
    BY <1>1, <1>4 DEF CallForwarded, CallReturns, ConnectionDtor
  <1>5. CASE AppConnects(k)
    BY <1>1, <1>5 DEF AppConnects
  <1>6. QED
    BY <1>2, <1>3, <1>4, <1>5 DEF ServiceThread

(* A handler leaves the queue before its connection can be freed. *)
LEMMA HandlersStep ==
  ASSUME ReverseIInv, Next
  PROVE  HandlersInv'
  <1>1. /\ OwnTypes /\ SecureTypeOK /\ SetupInv /\ StartInv /\ MainInv
        /\ HandlersInv /\ \A k \in MConn : HandlerOk(k)
    BY OwnTypesHold DEF ReverseIInv, HandlersInv, HandlerOk
  <1>2. CASE /\ UNCHANGED <<mconn, channel_initialized, queue>>
             /\ reverse' = reverse \/ reverse' = INITIALIZED
    BY <1>1, <1>2 DEF HandlersInv, InMutex
  <1>3. ASSUME NEW c \in Channel, ReverseSetup(c) PROVE HandlersInv'
    <2>1. UNCHANGED <<mconn, channel_initialized>>
      BY <1>3 DEF ReverseSetup, mconnVars
    <2>2. CASE UNCHANGED <<reverse, queue>>
      BY <1>2, <2>1, <2>2
    <2>3. CASE ~UNCHANGED <<reverse, queue>>
      <3>1. /\ reverse = UNINITIALIZED
            /\ queue' = <<Setup>> \/ UNCHANGED queue
        BY <1>3, <2>3 DEF ReverseSetup
      <3>2. \A k \in MConn : mconn[k] = "none" /\ ~channel_initialized[k]
        BY <1>1, <3>1 DEF HandlersInv
      <3>3. ToSet(<<Setup>>) = {Setup}
        BY DEF ToSet
      <3>4. \A k \in MConn : k \notin ToSet(queue')
        BY <1>1, <3>1, <3>2, <3>3, ReverseChannelAssumption
        DEF HandlersInv
      <3>5. QED
        BY <2>1, <3>2, <3>4 DEF HandlersInv, InMutex
    <2>4. QED
      BY <2>2, <2>3
  <1>4. CASE RendererConnects
    BY <1>2, <1>4 DEF RendererConnects, mconnVars, secureVars
  <1>5. CASE HostSetup \/ QuotaSetup \/ SetupFails \/ Announce
               \/ \E s \in Service : ServiceSetup(s)
    <2>1. reverse' = reverse \/ reverse' = INITIALIZED
      BY <1>5 DEF HostSetup, QuotaSetup, SetupFails, Announce, ServiceSetup,
        secureVars
    <2>2. QED
      BY <1>2, <1>5, <2>1, SetupFrame
  <1>6. CASE RevAccept
    <2>1. /\ queue # <<>> /\ Head(queue) \in ToSet(queue)
          /\ Head(queue) # Setup => Head(queue) \in MConn
      BY <1>6, HandlerWaits
    <2>2. /\ queue' = Tail(queue) /\ UNCHANGED <<mconn, reverse>>
      BY <1>6, <2>1 DEF RevAccept
    <2>3. ToSet(queue') = ToSet(queue) \ {Head(queue)}
      BY <1>1, <2>1, <2>2, TakeHandler DEF OwnTypes
    <2>4. \A k \in MConn : k # Head(queue) =>
            channel_initialized'[k] = channel_initialized[k]
      BY <1>1, <1>6, <2>1
      DEF RevAccept, SetupConnects, RevHandleConnect, OwnTypes
    <2>5. ASSUME NEW k \in MConn PROVE HandlerOk(k)'
      <3>1. CASE k = Head(queue)
        BY <1>1, <2>1, <2>2, <2>3, <3>1 DEF HandlerOk
      <3>2. CASE k # Head(queue)
        BY <1>1, <2>2, <2>3, <2>4, <3>2 DEF HandlerOk
      <3>3. QED
        BY <3>1, <3>2
    <2>6. QED
      BY <1>1, <2>2, <2>5 DEF HandlersInv, InMutex, HandlerOk
  <1>7. ASSUME NEW k \in MConn,
               ServiceThread(k) \/ AppConnects(k) \/ AppCalls(k)
        PROVE  HandlersInv'
    <2>1. UNCHANGED <<reverse, channel_initialized>>
      BY <1>7, ServiceFrame
    <2>2. \A j \in MConn : j # k => mconn'[j] = mconn[j]
      BY <1>1, <1>7, MovesOne DEF OwnTypes
    <2>3. mconn[k] # "none" => reverse = INITIALIZED
      BY <1>1 DEF HandlersInv
    <2>4. CASE UNCHANGED mconn /\ UNCHANGED queue
      BY <1>2, <2>1, <2>4
    <2>5. CASE /\ UNCHANGED queue /\ HandlerOk(k)'
               /\ InMutex(k)' => InMutex(k)
      <3>1. \A j \in MConn : HandlerOk(j)'
        BY <1>1, <2>1, <2>2, <2>5 DEF HandlerOk
      <3>2. \A i, j \in MConn : InMutex(i)' /\ InMutex(j)' => i = j
        BY <1>1, <2>2, <2>5 DEF HandlersInv, InMutex
      <3>3. QED
        BY <3>1, <3>2 DEF HandlersInv, HandlerOk
    <2>6. CASE AppConnects(k)
      <3>1. /\ mconn[k] = "none" /\ mconn'[k] = "pending" /\ UNCHANGED queue
            /\ ~channel_initialized[k] /\ k \notin ToSet(queue)
        BY <1>1, <2>6 DEF AppConnects, Move, OwnTypes, HandlerOk
      <3>2. reverse # INITIALIZATING
        BY <1>1, <2>6 DEF AppConnects, MainInv, StartInv, StartedUp
      <3>3. reverse # UNINITIALIZED
        BY <1>1, <2>6 DEF AppConnects, SetupInv
      <3>4. reverse = INITIALIZED
        BY <1>1, <3>2, <3>3 DEF SecureTypeOK
      <3>5. QED
        BY <2>1, <2>5, <3>1, <3>4 DEF HandlerOk, InMutex
    <2>7. CASE ServiceAccepts(k)
      <3>1. /\ mconn[k] = "pending" /\ mconn'[k] \in {"accepted", "refused"}
            /\ UNCHANGED queue
            /\ ~channel_initialized[k] /\ k \notin ToSet(queue)
        BY <1>1, <2>7 DEF ServiceAccepts, Move, OwnTypes, HandlerOk
      <3>2. QED
        BY <2>1, <2>3, <2>5, <3>1 DEF HandlerOk, InMutex
    <2>8. CASE Factory(k)
      <3>1. /\ mconn[k] = "accepted" /\ k \notin ToSet(queue)
            /\ ~channel_initialized[k] /\ ServerMutexIsFree
        BY <1>1, <2>8 DEF Factory, HandlerOk
      <3>2. CASE UNCHANGED mconn /\ UNCHANGED queue
        BY <2>4, <3>2
      <3>3. CASE /\ mconn' = [mconn EXCEPT ![k] = "adding"]
                 /\ queue' = Append(queue, k)
        <4>1. mconn'[k] = "adding"
          BY <1>1, <3>3 DEF OwnTypes
        <4>2. ToSet(queue') = ToSet(queue) \cup {k}
          BY <1>1, <3>1, <3>3, AppendHandler DEF OwnTypes
        <4>3. \A j \in MConn : HandlerOk(j)'
          BY <1>1, <2>1, <2>2, <2>3, <3>1, <4>1, <4>2 DEF HandlerOk
        <4>4. \A i, j \in MConn : InMutex(i)' /\ InMutex(j)' => i = j
          BY <2>2, <3>1 DEF ServerMutexIsFree, InMutex
        <4>5. QED
          BY <4>3, <4>4 DEF HandlersInv, HandlerOk
      <3>4. QED
        BY <2>8, <3>2, <3>3 DEF Factory, Move
    <2>9. CASE AddChannel(k)
      BY <1>1, <2>1, <2>5, <2>9
      DEF AddChannel, Move, OwnTypes, HandlerOk, InMutex
    <2>10. CASE SpawnService(k) \/ AppCalls(k)
      BY <1>1, <2>1, <2>5, <2>10
      DEF SpawnService, AppCalls, Move, OwnTypes, HandlerOk, InMutex
    <2>11. CASE CallForwarded(k) \/ CallReturns(k) \/ ConnectionDtor(k)
      BY <1>1, <2>1, <2>5, <2>11
      DEF CallForwarded, CallReturns, ConnectionDtor, Move, OwnTypes,
          HandlerOk, InMutex
    <2>12. QED
      BY <1>7, <2>6, <2>7, <2>8, <2>9, <2>10, <2>11 DEF ServiceThread
  <1>8. CASE UNCHANGED reverseVars /\ UNCHANGED reverse
    BY <1>2, <1>8 DEF reverseVars
  <1>9. QED
    BY <1>3, <1>4, <1>5, <1>6, <1>7, <1>8, StepCases, CommandFrame
    DEF ReverseThread
(* The handlers are at least as many as the connections that may come. *)
LEMMA PledgedStep ==
  ASSUME ReverseIInv, Next
  PROVE  Pledged' <= Len(queue')
  <1>1. /\ OwnTypes /\ OwnTypes' /\ SetupInv /\ HandlersInv
        /\ Pledged <= Len(queue)
        /\ Len(queue) \in Nat /\ Len(arrivals) \in Nat
        /\ Pledged \in Nat /\ Pledged >= Len(arrivals)
        /\ promised \/ Adding => Pledged > Len(arrivals)
        /\ PromisedOne \in 0..1 /\ AddingOne \in 0..1
    BY OwnTypesHold, OwnTypesStay, PledgedType DEF ReverseIInv, OwnTypes
  <1>2. CASE /\ UNCHANGED <<arrivals, promised, queue>>
             /\ Adding' <=> Adding
    <2>1. Pledged' = Pledged
      BY <1>2 DEF Pledged, PromisedOne, AddingOne
    <2>2. QED
      BY <1>1, <1>2, <2>1
  <1>3. CASE UNCHANGED <<arrivals, promised, queue, mconn>>
    BY <1>2, <1>3 DEF Adding
  <1>4. ASSUME NEW c \in Channel, ReverseSetup(c)
        PROVE  Pledged' <= Len(queue')
    <2>1. UNCHANGED <<arrivals, mconn>>
      BY <1>4 DEF ReverseSetup, mconnVars
    <2>2. CASE UNCHANGED <<promised, queue>>
      BY <1>3, <2>1, <2>2
    <2>3. CASE ~UNCHANGED <<promised, queue>>
      <3>1. /\ reverse = UNINITIALIZED /\ promised' = TRUE
            /\ queue' = <<Setup>>
        BY <1>4, <2>3 DEF ReverseSetup
      <3>2. arrivals = <<>> /\ ~Adding
        BY <1>1, <3>1 DEF SetupInv, HandlersInv, Adding
      <3>3. ~Adding' /\ Len(arrivals') = 0 /\ Len(queue') = 1
        BY <2>1, <3>1, <3>2 DEF Adding
      <3>4. QED
        BY <3>1, <3>3 DEF Pledged, PromisedOne, AddingOne
    <2>4. QED
      BY <2>2, <2>3
  <1>5. CASE RendererConnects
    <2>1. /\ promised /\ promised' = FALSE /\ UNCHANGED <<queue, mconn>>
          /\ ConnectAndSpawnHandler
      BY <1>5 DEF RendererConnects, mconnVars
    <2>2. Len(arrivals') \in {Len(arrivals), Len(arrivals) + 1}
      BY <1>1, <2>1, ConnectTypes DEF OwnTypes
    <2>3. Adding' <=> Adding
      BY <2>1 DEF Adding
    <2>4. PromisedOne = 1 /\ PromisedOne' = 0 /\ AddingOne' = AddingOne
      BY <2>1, <2>3 DEF PromisedOne, AddingOne
    <2>5. QED
      BY <1>1, <2>1, <2>2, <2>4 DEF Pledged
  <1>6. CASE RevAccept
    <2>1. queue # <<>> /\ Len(queue) \in Nat \ {0}
      BY <1>6, HandlerWaits
    <2>2. /\ queue' = Tail(queue) /\ arrivals' = Tail(arrivals)
          /\ arrivals # <<>> /\ UNCHANGED <<promised, mconn>>
      BY <1>6, <2>1 DEF RevAccept
    <2>3. /\ Len(queue') = Len(queue) - 1
          /\ Len(arrivals') = Len(arrivals) - 1
      BY <1>1, <2>1, <2>2 DEF OwnTypes
    <2>4. Adding' <=> Adding
      BY <2>2 DEF Adding
    <2>5. Pledged' = Pledged - 1
      <3>1. PromisedOne' = PromisedOne /\ AddingOne' = AddingOne
        BY <2>2, <2>4 DEF PromisedOne, AddingOne
      <3>2. QED
        BY <1>1, <2>3, <3>1 DEF Pledged
    <2>6. QED
      BY <1>1, <2>3, <2>5
  <1>7. ASSUME NEW k \in MConn,
               ServiceThread(k) \/ AppConnects(k) \/ AppCalls(k)
        PROVE  Pledged' <= Len(queue')
    <2>1. UNCHANGED promised
      BY <1>7, ServiceFrame
    <2>2. \A j \in MConn : j # k => mconn'[j] = mconn[j]
      BY <1>1, <1>7, MovesOne
    <2>3. CASE Factory(k)
      <3>1. mconn[k] = "accepted" /\ ~Adding /\ UNCHANGED arrivals
        BY <2>3 DEF Factory, ServerMutexIsFree, Adding
      <3>2. CASE UNCHANGED <<mconn, queue>>
        BY <1>3, <2>1, <3>1, <3>2
      <3>3. CASE queue' = Append(queue, k)
        <4>1. Len(queue') = Len(queue) + 1
          BY <1>1, <3>3 DEF OwnTypes
        <4>2. /\ PromisedOne' = PromisedOne
              /\ AddingOne = 0 /\ AddingOne' \in 0..1
          BY <2>1, <3>1 DEF PromisedOne, AddingOne
        <4>3. Pledged' \in {Pledged, Pledged + 1}
          BY <1>1, <3>1, <4>2 DEF Pledged
        <4>4. QED
          BY <1>1, <4>1, <4>3
      <3>4. QED
        BY <2>3, <3>2, <3>3 DEF Factory
    <2>4. CASE AddChannel(k) /\ UNCHANGED <<mconn, arrivals>>
      BY <1>3, <2>1, <2>4 DEF AddChannel
    <2>5. CASE AddChannel(k) /\ ~UNCHANGED <<mconn, arrivals>>
      <3>1. Adding /\ UNCHANGED queue /\ mconn'[k] = "added"
        BY <1>1, <2>5 DEF AddChannel, Move, Adding, OwnTypes
      <3>2. ~Adding'
        BY <1>1, <2>2, <2>5, <3>1
        DEF AddChannel, HandlersInv, InMutex, Adding
      <3>3. Len(arrivals') \in {Len(arrivals), Len(arrivals) + 1}
        BY <1>1, <2>5, ConnectTypes DEF AddChannel, OwnTypes
      <3>4. /\ PromisedOne' = PromisedOne
            /\ AddingOne = 1 /\ AddingOne' = 0
        BY <2>1, <3>1, <3>2 DEF PromisedOne, AddingOne
      <3>5. QED
        BY <1>1, <3>1, <3>3, <3>4 DEF Pledged
    <2>6. CASE ~Factory(k) /\ ~AddChannel(k)
      <3>1. /\ UNCHANGED <<queue, arrivals>>
            /\ mconn[k] # "adding" /\ mconn'[k] # "adding"
        BY <1>1, <1>7, <2>6
        DEF ServiceThread, ServiceAccepts, SpawnService, CallForwarded,
            CallReturns, ConnectionDtor, AppConnects, AppCalls, Move, OwnTypes
      <3>2. Adding' <=> Adding
        BY <2>2, <3>1 DEF Adding
      <3>3. QED
        BY <1>2, <2>1, <3>1, <3>2
    <2>7. QED
      BY <2>3, <2>4, <2>5, <2>6
  <1>8. CASE HostSetup \/ QuotaSetup \/ SetupFails \/ Announce
               \/ \E s \in Service : ServiceSetup(s)
    BY <1>3, <1>8, SetupFrame
  <1>9. CASE UNCHANGED reverseVars
    BY <1>3, <1>9 DEF reverseVars
  <1>10. QED
    BY <1>4, <1>5, <1>6, <1>7, <1>8, <1>9, StepCases DEF ReverseThread

-----------------------------------------------------------------------------
(* When the process starts. *)
LEMMA ReverseInit == Init => ReverseIInv
  <1> SUFFICES ASSUME Init PROVE ReverseIInv
    OBVIOUS
  <1>1. SecureTypeOK
    <2>1. rpc \in [Channel -> RpcLabel]
      BY DEF Init, SecureInit, RpcLabel
    <2>2. calls \in 0..MaxCalls /\ hung_up \in SUBSET Channel
      BY SecureServiceAssumption DEF Init, SecureInit
    <2>3. /\ module_initialization_state \in UNINITIALIZED..ERROR
          /\ conn_count \in Nat
          /\ reverse \in {UNINITIALIZED, INITIALIZATING, INITIALIZED}
      BY DEF Init, SecureInit
    <2>4. /\ process = "up" /\ runtime_host_interface = "none"
          /\ main = "wait_load"
          /\ load_ok \in BOOLEAN /\ errcode_ok \in BOOLEAN
          /\ accepting \in BOOLEAN /\ start_called \in BOOLEAN
      BY DEF Init, SecureInit
    <2>5. QED
      BY <2>1, <2>2, <2>3, <2>4 DEF SecureTypeOK, RpcLabel
  <1>2. OwnTypes
    <2>1. <<>> \in Seq(MConn \cup {Setup}) /\ IsInjective(<<>>)
      BY DEF IsInjective
    <2>2. <<>> \in Seq(BOOLEAN)
      OBVIOUS
    <2>3. QED
      BY <2>1, <2>2 DEF Init, OwnTypes
  <1>3. ReverseTypeOK
    BY <1>1, <1>2 DEF OwnTypes, ReverseTypeOK, ToSet
  <1>4. ToSet(queue) = {} /\ ~Adding
    BY DEF Init, ToSet, Adding
  <1>5. Open = {}
    BY DEF Init, SecureInit, Open
  <1>6. ConnectionsInv
    BY <1>5, FS_EmptySet DEF Init, SecureInit, ConnectionsInv
  <1>7. NoFatalCheck /\ ModuleInv /\ StartInv /\ MainInv
    BY DEF Init, SecureInit, NoFatalCheck, ModuleInv, Loads, Starts, StartInv,
      StartedUp, MainInv
  <1>8. SetupInv /\ HandlersInv
    BY <1>4 DEF Init, SecureInit, SetupInv, HandlersInv, InMutex, Service
  <1>9. Pledged <= Len(queue)
    BY <1>4 DEF Init, Pledged, PromisedOne, AddingOne
  <1>10. QED
    BY <1>2, <1>3, <1>6, <1>7, <1>8, <1>9 DEF ReverseIInv, OwnTypes

(* Together. *)
LEMMA ReverseStep ==
  ASSUME ReverseIInv, Next
  PROVE  ReverseIInv'
  BY TypesStay, NoFatalStep, ModuleStep, ConnectionsStep, StartStep, MainStep,
     SetupStep, HandlersStep, PledgedStep
  DEF ReverseIInv, OwnTypes

(* What the steps preserve holds in every state of a behaviour. *)
LEMMA ReverseInvariant == Spec => []ReverseIInv
  <1>1. Init => ReverseIInv
    BY ReverseInit
  <1>2. ReverseIInv /\ [Next]_vars => ReverseIInv'
    <2>1. ASSUME ReverseIInv, Next PROVE ReverseIInv'
      BY <2>1, ReverseStep
    <2>2. ASSUME ReverseIInv, UNCHANGED vars PROVE ReverseIInv'
      <3>1. UNCHANGED <<process, module_initialization_state, load_ok,
                        runtime_host_interface, main, errcode_ok, rpc, hung_up,
                        accepting, conn_count, reverse, calls, start_called,
                        rthread, queue, arrivals, promised, unmade, quota,
                        names, acceptors, mconn, channel_initialized>>
        BY <2>2
        DEF vars, reverseVars, secureVars, appVars, mainVars, serviceVars,
            rendererVars
      <3>2. ReverseTypeOK'
        BY <2>2, <3>1 DEF ReverseIInv, ReverseTypeOK, SecureTypeOK
      <3>3. NoFatalCheck' /\ ModuleInv' /\ ConnectionsInv'
        BY <2>2, <3>1 DEF ReverseIInv, NoFatalCheck, ModuleInv, Loads, Starts,
          ConnectionsInv, Open
      <3>4. StartInv' /\ MainInv'
        BY <2>2, <3>1 DEF ReverseIInv, StartInv, StartedUp, MainInv
      <3>5. SetupInv' /\ HandlersInv'
        BY <2>2, <3>1 DEF ReverseIInv, SetupInv, HandlersInv, InMutex
      <3>6. Pledged' <= Len(queue')
        BY <2>2, <3>1 DEF ReverseIInv, Pledged, PromisedOne, AddingOne, Adding
      <3>7. QED
        BY <2>2, <3>1, <3>2, <3>3, <3>4, <3>5, <3>6 DEF ReverseIInv
    <2>3. QED
      BY <2>1, <2>2
  <1>3. QED
    BY <1>1, <1>2, PTL DEF Spec

(***************************************************************************)
(* No LOG_FATAL or CHECK on the paths of the startup and the reverse       *)
(* channel is reached that does not say the system ran out of memory or    *)
(* threads, and the handlers in the queue point at no freed connection     *)
(* (nacl_secure_service.c, sel_ldr.c, manifest_proxy.c and                 *)
(* ripple_ledger_service.c): each reverse connection that may come has a   *)
(* handler that waits for it.                                              *)
(***************************************************************************)
THEOREM ReverseCorrect == Spec => []ReverseInv
  <1>1. ReverseIInv => ReverseInv
    BY DEF ReverseIInv, HandlersInv, ReverseInv, HandlersAlive
  <1>2. QED
    BY <1>1, ReverseInvariant, PTL

(***************************************************************************)
(* The application runs with the runtime host, the quota interface and     *)
(* both services of the reverse channel, or with none of it: StartModule   *)
(* waits for a setup under way, and none begins after it (the wait in      *)
(* NaClSecureServiceStartModuleRpc).                                       *)
(***************************************************************************)
THEOREM ServicesAreReady == Spec => []ServicesReady
  <1>1. ReverseIInv => ServicesReady
    BY DEF ReverseIInv, ReverseTypeOK, SecureTypeOK, MainInv, StartInv,
      StartedUp, SetupInv, ServicesReady
  <1>2. QED
    BY <1>1, ReverseInvariant, PTL

(***************************************************************************)
(* The main thread ends the process only when StartModule has been         *)
(* answered: the state it waits for is set after the callback that sends   *)
(* the reply has returned (NaClAppStartModule in sel_ldr.c).               *)
(***************************************************************************)
THEOREM AnswerPrecedesExit == Spec => []NoAnswerLost
  <1>1. ReverseIInv => NoAnswerLost
    BY DEF ReverseIInv, MainInv, ModuleInv, Starts, NoAnswerLost
  <1>2. QED
    BY <1>1, ReverseInvariant, PTL
=============================================================================
