---------------------------- MODULE VmSpaceProofs ----------------------------
(***************************************************************************)
(* Nothing gets into a hole of the address space, for any number of        *)
(* threads, pages and calls.  The proof follows the locks: whoever has a   *)
(* hole open has nap->mu and threads_mu, so that nobody is being launched  *)
(* and the table of the threads it has suspended does not change.          *)
(***************************************************************************)
EXTENDS VmSpace, FiniteSetTheorems, TLAPS

VmTypes ==
  /\ {mu, threads_mu} \subseteq Actor \cup {NoThread}
  /\ threads_launching \in Nat /\ leaked \in Nat
  /\ vm_hole_may_exist \in BOOLEAN
  /\ mapFailed \in BOOLEAN /\ protectFailed \in BOOLEAN
  /\ pc \in [Actor -> PC]
  /\ host \in [Page -> {"reserved", "anon", "view", "hole", "stack"}]

(* A thread that is not registered has no code of its own to run yet. *)
TableIsRight ==
  \A t \in Thread :
    pc[t] \notin {"unborn", "launched", "gone"} => t \in registered

(* As long as threads_mu is held everybody in the table is suspended. *)
AllSuspended == threads_mu # NoThread => suspended = registered

(* A page is a hole only between its two steps. *)
HoleIsHere ==
  ~mapFailed => \A p \in Page :
    /\ host[p] # "stack"
    /\ host[p] = "hole" => p = here /\ \E a \in Actor : pc[a] = "fill"

HoleInv ==
  /\ VmTypes
  /\ LocksAreRight
  /\ TableIsRight
  /\ AllSuspended
  /\ HoleIsHere

-----------------------------------------------------------------------------
(* Counting the launches under way. *)

LEMMA LaunchingIsFinite == IsFiniteSet(Actor) /\ IsFiniteSet(Launching)
  <1>1. IsFiniteSet(Actor)
    BY VmAssumption, FS_Union DEF Actor
  <1>2. QED
    BY <1>1, FS_Subset DEF Launching

(* Nobody is counted, so nobody is being launched. *)
LEMMA NobodyLaunches ==
  ASSUME VmTypes, LocksAreRight, threads_launching = 0
  PROVE  Launching = {} /\ leaked = 0
  <1>1. Cardinality(Launching) \in Nat
    BY LaunchingIsFinite, FS_CardinalityType
  <1>2. Cardinality(Launching) = 0
    BY <1>1 DEF VmTypes, LocksAreRight
  <1>3. QED
    BY <1>1, <1>2, LaunchingIsFinite, FS_EmptySet DEF VmTypes, LocksAreRight

(* The lock invariant from its parts, when the same threads are launching. *)
LEMMA SameLaunches ==
  ASSUME LocksAreRight, Launching' = Launching,
         UNCHANGED <<threads_launching, leaked>>
  PROVE  threads_launching' = Cardinality(Launching)' + leaked'
  BY DEF LocksAreRight

(* Whoever is launching keeps holes out: nap->mu is free of them. *)
LEMMA LaunchingMeansNoHole ==
  ASSUME VmTypes, LocksAreRight, HoleIsHere, Launching # {}
  PROVE  /\ ~vm_hole_may_exist
         /\ ~mapFailed => \A p \in Page : host[p] # "hole"
  <1>1. ~vm_hole_may_exist
    BY NobodyLaunches DEF LocksAreRight
  <1>2. \A a \in Actor : pc[a] # "fill"
    BY <1>1, VmAssumption DEF LocksAreRight, Actor
  <1>3. QED
    BY <1>1, <1>2 DEF HoleIsHere

(* Between the steps for two pages, and outside the loop, nothing is a hole. *)
LEMMA NoHoleUnlessFilling ==
  ASSUME VmTypes, LocksAreRight, HoleIsHere,
         NEW t \in Actor, mu \in {t, NoThread}, pc[t] # "fill"
  PROVE  ~mapFailed => \A p \in Page : host[p] # "hole"
  BY VmAssumption DEF LocksAreRight, HoleIsHere, Actor

-----------------------------------------------------------------------------
(* At the start there is no hole and nobody is being launched. *)
LEMMA HoleInvInit == VmInit => HoleInv
  <1> SUFFICES ASSUME VmInit PROVE HoleInv
    OBVIOUS
  <1>1. VmTypes
    BY VmAssumption DEF VmInit, VmTypes, Actor, PC
  <1>2. Launching = {}
    BY DEF VmInit, Launching
  <1>3. Cardinality(Launching) = 0
    BY <1>2, FS_EmptySet
  <1>4. LocksAreRight
    BY <1>3, VmAssumption DEF VmInit, LocksAreRight, Actor
  <1>5. TableIsRight /\ AllSuspended /\ HoleIsHere
    BY VmAssumption DEF VmInit, TableIsRight, AllSuspended, HoleIsHere, Actor
  <1>6. QED
    BY <1>1, <1>4, <1>5 DEF HoleInv

(* A step of a launch: the counter follows it, and no hole is open. *)
LEMMA LaunchStep ==
  ASSUME HoleInv, NEW a \in Actor,
         WaitToStartThread(a) \/ ThreadSpawn(a) \/ ServiceSpawn(a)
           \/ AddThread(a) \/ ThreadStackIsSafe(a)
  PROVE  HoleInv'
  <1> USE DEF HoleInv
  <1>1. CASE WaitToStartThread(a)
    <2>1. CASE vm_hole_may_exist
      BY <1>1, <2>1 DEF WaitToStartThread, spaceVars, historyVars, VmTypes,
         LocksAreRight, TableIsRight, AllSuspended, HoleIsHere, Launching, here
    <2>2. CASE ~vm_hole_may_exist
      <3>1. Launching' = Launching \cup {a} /\ a \notin Launching
        BY <1>1, <2>2 DEF WaitToStartThread, Goto, Launching, VmTypes
      <3>2. Cardinality(Launching)' = Cardinality(Launching) + 1
        BY <3>1, LaunchingIsFinite, FS_AddElement
      <3>3. VmTypes'
        BY <1>1, <2>2
        DEF WaitToStartThread, spaceVars, historyVars, Goto, VmTypes, PC
      <3>4. threads_launching' = Cardinality(Launching)' + leaked'
        BY <1>1, <2>2, <3>2, LaunchingIsFinite, FS_CardinalityType
        DEF WaitToStartThread, spaceVars, historyVars, LocksAreRight, VmTypes
      <3>5. LocksAreRight'
        BY <1>1, <2>2, <3>4 DEF WaitToStartThread, Goto, LocksAreRight, VmTypes
      <3>6. TableIsRight' /\ AllSuspended' /\ HoleIsHere'
        BY <1>1, <2>2 DEF WaitToStartThread, spaceVars, historyVars, Goto,
           VmTypes, TableIsRight, AllSuspended, HoleIsHere, here, Actor
      <3>7. QED
        BY <3>3, <3>5, <3>6
    <2>3. QED
      BY <2>1, <2>2
  <1>2. CASE ThreadSpawn(a)
    <2>1. a \in Launching
      BY <1>2 DEF ThreadSpawn, Launching
    <2>2. ~vm_hole_may_exist /\ (~mapFailed => \A p \in Page : host[p] # "hole")
      BY <2>1, LaunchingMeansNoHole
    <2>3. IsFiniteSet(Launching) /\ Cardinality(Launching) \in Nat
      BY LaunchingIsFinite, FS_CardinalityType
    <2>4. /\ IsFiniteSet(Launching \ {a})
          /\ Cardinality(Launching \ {a}) = Cardinality(Launching) - 1
      BY <2>1, <2>3, FS_RemoveElement
    <2>5. VmTypes'
      <3>1. pc' \in [Actor -> PC]
        BY <1>2 DEF ThreadSpawn, Goto, VmTypes, PC
      <3>2. QED
        BY <1>2, <3>1 DEF ThreadSpawn, StackIsPlaced, lockVars, VmTypes
    <2>6. threads_launching' = Cardinality(Launching)' + leaked'
      <3>1. CASE leaked' = leaked + 1 /\ Goto(a, "return")
        <4>1. Launching' = Launching \ {a}
          BY <3>1 DEF Goto, Launching, VmTypes
        <4>2. QED
          BY <1>2, <2>3, <2>4, <3>1, <4>1
          DEF ThreadSpawn, lockVars, LocksAreRight, VmTypes
      <3>2. ASSUME NEW c \in Thread, pc[c] = "unborn", leaked' = leaked,
                   pc' = [pc EXCEPT ![a] = "return", ![c] = "launched"]
            PROVE  threads_launching' = Cardinality(Launching)' + leaked'
        <4>1. /\ Launching' = (Launching \ {a}) \cup {c}
              /\ c \notin Launching \ {a}
          BY <1>2, <3>2 DEF ThreadSpawn, Launching, VmTypes, Actor
        <4>2. Cardinality((Launching \ {a}) \cup {c})
                = Cardinality(Launching \ {a}) + 1
          BY <2>4, <4>1, FS_AddElement
        <4>3. Cardinality(Launching)' = Cardinality(Launching)
          BY <2>3, <2>4, <4>1, <4>2
        <4>4. QED
          BY <1>2, <3>2, <4>3 DEF ThreadSpawn, lockVars, LocksAreRight
      <3>3. QED
        BY <1>2, <3>1, <3>2 DEF ThreadSpawn
    <2>7. LocksAreRight'
      BY <1>2, <2>2, <2>6
      DEF ThreadSpawn, Goto, lockVars, LocksAreRight, VmTypes, Actor
    <2>8. TableIsRight' /\ AllSuspended'
      BY <1>2 DEF ThreadSpawn, Goto, lockVars, VmTypes, TableIsRight,
         AllSuspended, Actor
    <2>9. HoleIsHere'
      BY <1>2, <2>2 DEF ThreadSpawn, StackIsPlaced, HoleIsHere, VmTypes
    <2>10. QED
      BY <2>5, <2>7, <2>8, <2>9
  <1>3. CASE ServiceSpawn(a)
    <2>1. a \in Launching
      BY <1>3 DEF ServiceSpawn, Launching
    <2>2. ~mapFailed => \A p \in Page : host[p] # "hole"
      BY <2>1, LaunchingMeansNoHole
    <2>3. Launching' = Launching
      BY <1>3 DEF ServiceSpawn, Goto, Launching, VmTypes
    <2>4. VmTypes'
      BY <1>3 DEF ServiceSpawn, StackIsPlaced, Goto, lockVars, historyVars,
         VmTypes, PC
    <2>5. LocksAreRight'
      BY <1>3, <2>3, SameLaunches
      DEF ServiceSpawn, Goto, lockVars, historyVars, LocksAreRight, VmTypes
    <2>6. TableIsRight' /\ AllSuspended'
      BY <1>3, VmAssumption DEF ServiceSpawn, Goto, lockVars, VmTypes,
         TableIsRight, AllSuspended
    <2>7. HoleIsHere'
      BY <1>3, <2>2
      DEF ServiceSpawn, StackIsPlaced, historyVars, HoleIsHere, VmTypes
    <2>8. QED
      BY <2>4, <2>5, <2>6, <2>7
  <1>4. CASE AddThread(a)
    <2>1. Launching' = Launching
      BY <1>4 DEF AddThread, Goto, Launching, VmTypes
    <2>2. VmTypes'
      BY <1>4 DEF AddThread, Goto, lockVars, spaceVars, historyVars, VmTypes, PC
    <2>3. LocksAreRight'
      BY <1>4, <2>1, SameLaunches
      DEF AddThread, Goto, lockVars, historyVars, LocksAreRight, VmTypes
    <2>4. TableIsRight' /\ AllSuspended' /\ HoleIsHere'
      BY <1>4 DEF AddThread, Goto, lockVars, spaceVars, historyVars, VmTypes,
         TableIsRight, AllSuspended, HoleIsHere, here
    <2>5. QED
      BY <2>2, <2>3, <2>4
  <1>5. CASE ThreadStackIsSafe(a)
    <2>1. a \in Launching
      BY <1>5 DEF ThreadStackIsSafe, Launching
    <2>2. ~vm_hole_may_exist
      BY <2>1, LaunchingMeansNoHole
    <2>3. Launching' = Launching \ {a}
      BY <1>5 DEF ThreadStackIsSafe, Goto, Launching, VmTypes
    <2>4. /\ Cardinality(Launching)' = Cardinality(Launching) - 1
          /\ Cardinality(Launching)' \in Nat
      BY <2>1, <2>3, LaunchingIsFinite, FS_RemoveElement, FS_CardinalityType
    <2>5. threads_launching' = Cardinality(Launching)' + leaked'
      BY <1>5, <2>4, LaunchingIsFinite, FS_CardinalityType
      DEF ThreadStackIsSafe, historyVars, LocksAreRight, VmTypes
    <2>6. VmTypes'
      BY <1>5, <2>4, <2>5
      DEF ThreadStackIsSafe, Goto, spaceVars, historyVars, VmTypes, PC
    <2>7. LocksAreRight'
      BY <1>5, <2>2, <2>5 DEF ThreadStackIsSafe, Goto, LocksAreRight, VmTypes
    <2>8. TableIsRight' /\ AllSuspended' /\ HoleIsHere'
      BY <1>5 DEF ThreadStackIsSafe, Goto, spaceVars, historyVars, VmTypes,
         TableIsRight, AllSuspended, HoleIsHere, here
    <2>9. QED
      BY <2>6, <2>7, <2>8
  <1>6. QED
    BY <1>1, <1>2, <1>3, <1>4, <1>5

(* A step of whoever has, or asks for, the locks of a hole. *)
LEMMA HoleStep ==
  ASSUME HoleInv, NEW a \in Actor,
         VmHoleOpening(a) \/ SuspendAll(a) \/ VmCheck(a) \/ VmPage(a)
           \/ VmPageFails(a) \/ VmFill(a) \/ VmFillFails(a)
           \/ MapViewFails(a) \/ ProtectViewFails(a) \/ VmClose(a)
  PROVE  HoleInv'
  <1> USE DEF HoleInv, lockVars, spaceVars, historyVars
  <1>1. CASE VmHoleOpening(a)
    <2>1. Launching' = Launching
      BY <1>1 DEF VmHoleOpening, Goto, Launching, VmTypes
    <2>2. VmTypes'
      BY <1>1 DEF VmHoleOpening, Goto, VmTypes, PC
    <2>3. LocksAreRight'
      BY <1>1, <2>1, SameLaunches, VmAssumption
      DEF VmHoleOpening, MuIsFree, Goto, LocksAreRight, VmTypes, Actor
    <2>4. TableIsRight' /\ AllSuspended'
      BY <1>1 DEF VmHoleOpening, Goto, VmTypes, TableIsRight, AllSuspended,
         Actor
    <2>5. HoleIsHere'
      BY <1>1 DEF VmHoleOpening, Goto, VmTypes, HoleIsHere, here
    <2>6. QED
      BY <2>2, <2>3, <2>4, <2>5
  <1>2. CASE SuspendAll(a)
    <2>1. Launching' = Launching
      BY <1>2 DEF SuspendAll, Goto, Launching, VmTypes
    <2>2. VmTypes'
      BY <1>2 DEF SuspendAll, Goto, VmTypes, PC
    <2>3. LocksAreRight'
      BY <1>2, <2>1, SameLaunches, VmAssumption
      DEF SuspendAll, Goto, LocksAreRight, VmTypes, Actor
    <2>4. TableIsRight' /\ AllSuspended' /\ HoleIsHere'
      BY <1>2 DEF SuspendAll, Goto, VmTypes, TableIsRight, AllSuspended,
         HoleIsHere, here, Actor
    <2>5. QED
      BY <2>2, <2>3, <2>4
  <1>3. ASSUME pc[a] \in {"check", "page", "fill"},
               \E label \in {"check", "page", "fill", "close"} : Goto(a, label),
               UNCHANGED <<mu, threads_mu, threads_launching, registered,
                           vm_hole_may_exist, suspended, leaked>>
        PROVE  LocksAreRight' /\ TableIsRight' /\ AllSuspended'
    <2>1. Launching' = Launching
      BY <1>3 DEF Goto, Launching, VmTypes
    <2>2. LocksAreRight'
      BY <1>3, <2>1, SameLaunches DEF Goto, LocksAreRight, VmTypes
    <2>3. TableIsRight' /\ AllSuspended'
      BY <1>3 DEF Goto, VmTypes, TableIsRight, AllSuspended, Actor
    <2>4. QED
      BY <2>2, <2>3
  <1>4. ASSUME NEW why, Die(why)
        PROVE  HoleInv'
    BY <1>4 DEF Die, VmTypes, LocksAreRight, TableIsRight, AllSuspended,
       HoleIsHere, Launching, here
  <1>5. pc[a] \in {"check", "page", "fill", "close"} =>
          mu = a /\ \A b \in Actor : b # a => pc[b] # "fill"
    BY DEF LocksAreRight
  <1>6. CASE VmCheck(a)
    <2>1. CASE \E why : Die(why)
      BY <1>4, <2>1
    <2>2. CASE ~ \E why : Die(why)
      <3>1. /\ \E label \in {"page", "close"} : Goto(a, label)
            /\ UNCHANGED <<lockVars, registered, suspended, host, historyVars>>
        BY <1>6, <2>2 DEF VmCheck
      <3>2. ~mapFailed => \A p \in Page : host[p] # "hole"
        BY <1>5, <1>6, NoHoleUnlessFilling DEF VmCheck
      <3>3. VmTypes' /\ HoleIsHere'
        BY <3>1, <3>2 DEF Goto, VmTypes, PC, HoleIsHere
      <3>4. QED
        BY <1>3, <1>6, <3>1, <3>3 DEF VmCheck
    <2>3. QED
      BY <2>1, <2>2
  <1>7. CASE VmPage(a)
    <2>1. ~mapFailed => \A p \in Page : host[p] # "hole"
      BY <1>5, <1>7, NoHoleUnlessFilling DEF VmPage
    <2>2. /\ \E label \in {"page", "fill", "close"} : Goto(a, label)
          /\ UNCHANGED <<lockVars, registered, suspended, historyVars>>
      BY <1>7 DEF VmPage, Advance
    <2>3. \/ host' = host
          \/ host' = [host EXCEPT ![here] = "reserved"]
          \/ /\ host' = [host EXCEPT ![here] = "hole"]
             /\ Goto(a, "fill") /\ op' = op
      BY <1>7 DEF VmPage, SetHere
    <2>4. VmTypes'
      BY <2>2, <2>3 DEF Goto, VmTypes, PC
    <2>5. HoleIsHere'
      BY <2>1, <2>2, <2>3 DEF Goto, VmTypes, HoleIsHere, here
    <2>6. QED
      BY <1>3, <1>7, <2>2, <2>4, <2>5 DEF VmPage
  <1>8. CASE VmFill(a)
    <2>1. /\ \E label \in {"page", "close"} : Goto(a, label)
          /\ UNCHANGED <<lockVars, registered, suspended, historyVars>>
      BY <1>8 DEF VmFill, Advance
    <2>2. \E w \in {"reserved", "anon", "view"} :
            host' = [host EXCEPT ![here] = w]
      BY <1>8 DEF VmFill, SetHere
    <2>3. VmTypes'
      BY <2>1, <2>2 DEF Goto, VmTypes, PC
    <2>4. HoleIsHere'
      BY <2>1, <2>2 DEF VmTypes, HoleIsHere
    <2>5. QED
      BY <1>3, <1>8, <2>1, <2>3, <2>4 DEF VmFill
  <1>9. CASE MapViewFails(a)
    <2>1. VmTypes' /\ HoleIsHere'
      BY <1>9 DEF MapViewFails, Goto, VmTypes, PC, HoleIsHere
    <2>2. QED
      BY <1>3, <1>9, <2>1 DEF MapViewFails
  <1>10. CASE ProtectViewFails(a)
    <2>1. host' = [host EXCEPT ![here] = "view"]
      BY <1>10 DEF ProtectViewFails, SetHere
    <2>2. VmTypes' /\ HoleIsHere'
      BY <1>10, <2>1 DEF ProtectViewFails, Goto, VmTypes, PC, HoleIsHere
    <2>3. QED
      BY <1>3, <1>10, <2>2 DEF ProtectViewFails
  <1>11. CASE VmClose(a)
    <2>1. ~mapFailed => \A p \in Page : host[p] # "hole"
      BY <1>5, <1>11, NoHoleUnlessFilling DEF VmClose
    <2>2. Launching' = Launching
      BY <1>11 DEF VmClose, Goto, Launching, VmTypes
    <2>3. VmTypes'
      BY <1>11 DEF VmClose, Goto, VmTypes, PC
    <2>4. LocksAreRight'
      BY <1>11, <2>2, SameLaunches, VmAssumption
      DEF VmClose, Goto, LocksAreRight, VmTypes, Actor
    <2>5. TableIsRight' /\ AllSuspended'
      BY <1>11 DEF VmClose, Goto, VmTypes, TableIsRight, AllSuspended, Actor
    <2>6. HoleIsHere'
      BY <1>11, <2>1 DEF VmClose, HoleIsHere
    <2>7. QED
      BY <2>3, <2>4, <2>5, <2>6
  <1>12. QED
    BY <1>1, <1>2, <1>4, <1>6, <1>7, <1>8, <1>9, <1>10, <1>11
    DEF VmPageFails, VmFillFails

(* A step that has nothing to do with holes, or waits for them to close. *)
LEMMA OtherStep ==
  ASSUME HoleInv, NEW a \in Actor,
         Return(a) \/ ThreadTeardown(a) \/ SysMprotect(a)
           \/ VmIoWillStart(a) \/ SystemCall(a) \/ VmIoHasEnded(a)
           \/ ServiceCall(a)
  PROVE  HoleInv'
  <1> USE DEF HoleInv, lockVars, spaceVars, historyVars
  <1>1. /\ pc[a] \in {"return", "exit", "mprotect", "io", "untrusted",
                      "transfer", "unborn"}
        /\ \E label \in {"untrusted", "gone", "return", "transfer", "create",
                          "vm", "mprotect", "io", "exit"} :
             /\ Goto(a, label)
             /\ a \in Thread => pc[a] # "unborn"
             /\ IF label = "gone"
                THEN threads_mu = NoThread /\ registered' = registered \ {a}
                ELSE UNCHANGED registered
        /\ UNCHANGED <<lockVars, suspended, host, op, historyVars>>
    BY VmAssumption DEF Return, ThreadTeardown, SysMprotect, VmIoWillStart,
       SystemCall, VmIoHasEnded, ServiceCall
  <1>2. Launching' = Launching
    BY <1>1 DEF Goto, Launching, VmTypes
  <1>3. VmTypes'
    BY <1>1 DEF Goto, VmTypes, PC
  <1>4. LocksAreRight'
    BY <1>1, <1>2, SameLaunches DEF Goto, LocksAreRight, VmTypes
  <1>5. TableIsRight' /\ AllSuspended'
    BY <1>1 DEF Goto, VmTypes, TableIsRight, AllSuspended, Actor
  <1>6. HoleIsHere'
    BY <1>1 DEF Goto, VmTypes, HoleIsHere, here
  <1>7. QED
    BY <1>3, <1>4, <1>5, <1>6

(* A step keeps the invariant.                                             *)
LEMMA HoleNext ==
  ASSUME HoleInv, [Next]_vars
  PROVE  HoleInv'
  <1>1. CASE UNCHANGED vars
    BY <1>1 DEF HoleInv, vars, lockVars, spaceVars, historyVars, VmTypes,
       LocksAreRight, TableIsRight, AllSuspended, HoleIsHere, Launching, here
  <1>2. ASSUME NEW a \in Actor, Work(a) PROVE HoleInv'
    BY <1>2, LaunchStep, HoleStep, OtherStep DEF Work
  <1>3. ASSUME NEW t \in Thread, SystemCall(t) \/ VmIoHasEnded(t)
        PROVE  HoleInv'
    BY <1>3, OtherStep DEF Actor
  <1>4. ASSUME NEW s \in Service, ServiceCall(s) PROVE HoleInv'
    BY <1>4, OtherStep DEF Actor
  <1>5. QED
    BY <1>1, <1>2, <1>3, <1>4 DEF Next

-----------------------------------------------------------------------------
(***************************************************************************)
(* Whatever the threads, services and memory calls do: until               *)
(* MapViewOfFileEx fails, no stack lies in a hole, and as long as there is *)
(* one nobody is being launched and all untrusted threads are suspended    *)
(* (vm_hole.c:52-68); and the locks and the counter of launches are as     *)
(* they should be.                                                         *)
(***************************************************************************)
THEOREM HolesAreQuiet == Spec => [](HoleIsQuiet /\ LocksAreRight)
  <1>1. HoleInv /\ [Next]_vars => HoleInv'
    BY HoleNext
  <1>2. HoleInv => HoleIsQuiet /\ LocksAreRight
    <2> SUFFICES ASSUME HoleInv PROVE HoleIsQuiet /\ LocksAreRight
      OBVIOUS
    <2>1. ASSUME ~mapFailed, NEW p \in Page, host[p] = "hole"
          PROVE  /\ Launching = {}
                 /\ \A t \in Thread : pc[t] = "untrusted" => t \in suspended
      <3>1. PICK a \in Actor : pc[a] = "fill"
        BY <2>1 DEF HoleInv, HoleIsHere
      <3>2. vm_hole_may_exist /\ threads_mu # NoThread
        BY <3>1, VmAssumption DEF HoleInv, LocksAreRight, Actor
      <3>3. Launching = {}
        BY <3>2, NobodyLaunches DEF HoleInv, LocksAreRight
      <3>4. QED
        BY <3>2, <3>3 DEF HoleInv, TableIsRight, AllSuspended
    <2>2. QED
      BY <2>1 DEF HoleInv, HoleIsQuiet, HoleIsHere
  <1>3. QED
    BY <1>1, <1>2, HoleInvInit, PTL DEF Spec
-----------------------------------------------------------------------------
(***************************************************************************)
(* The memory map and the host.  An entry whose offset is one of a page    *)
(* tells what the host has at each of its pages, but for those that the    *)
(* memory call under way has already replaced.                             *)
(***************************************************************************)
Covers(e, p) == e.page <= p /\ p < End(e)
Right(e) == e.offset % MapBytes = 0

(* What the host has at page p of an entry. *)
Shown(e, p) ==
  IF e.desc = "anon" THEN "anon"
  ELSE IF e.offset + (p - e.page) * MapBytes < e.size THEN "view"
  ELSE "reserved"

EntryOK(e) ==
  /\ e \in Entry /\ e.page + e.n <= NumPages
  /\ (e.offset % MapBytes) + (e.offset \div MapBytes) <= e.page

(* The map agrees with the host about a page. *)
PageOK(p) ==
  /\ \A e \in mem_map : Covers(e, p) /\ Right(e) => host[p] = Shown(e, p)
  /\ (\A e \in mem_map : ~Covers(e, p)) => host[p] = "reserved"

In(label) == \E a \in Actor : pc[a] = label

(* The pages that the call has done. *)
Done(p) ==
  /\ op.kind # "none" /\ op.first <= p /\ p < op.first + op.n
  /\ p < here \/ In("close")

InFile(p) == p < op.first + op.backed

HostMatches ==
  ~HostDescMapFailed => \A p \in Page :
    IF Done(p) /\ InFile(p)
    THEN host[p] = IF op.kind = "anon" THEN "anon" ELSE "view"
    ELSE IF p = here /\ In("fill") THEN host[p] = "hole"
    ELSE /\ PageOK(p)
         /\ Done(p) => \A e \in mem_map : ~Covers(e, p)

OpInv ==
  /\ op \in [kind : {"none", "munmap", "anon", "file"}, first : Nat, n : Nat,
             backed : Nat, at : Nat]
  /\ [op EXCEPT !.at = 0] \in Op \cup {NoOp}
  /\ op.kind = "none" => op = NoOp
  /\ op.kind # "none" => /\ op.n > 0 /\ op.first + op.n <= NumPages
                         /\ op.at < op.n /\ op.backed <= op.n
  /\ op.kind = "munmap" => op.backed = 0
  /\ op.kind = "anon" => op.backed = op.n
  /\ In("page") \/ In("fill") => op.kind # "none"
  /\ op.kind # "none" => In("page") \/ In("fill") \/ In("close")

IoIsApart ==
  In("page") \/ In("fill") =>
    \A t \in Thread : mem_io_regions[t] \cap CheckedPages(op) = {}

(* What else has a type, and nobody is suspended without threads_mu.       *)
OtherTypes ==
  /\ cv \subseteq Actor
  /\ registered \subseteq Thread /\ suspended \subseteq registered
  /\ none \subseteq Page
  /\ mem_io_regions \in [Thread -> SUBSET Page]
  /\ fatal \in {"no", "io_race", "unmap", "fill", "protect"}
  /\ calls \in 0 .. MaxCalls
  /\ threads_mu = NoThread => suspended = {}

Apart(d, e) == End(d) <= e.page \/ End(e) <= d.page

MapOK(M) ==
  /\ \A e \in M : EntryOK(e)
  /\ \A d, e \in M : d # e => Apart(d, e)

(* Only a thread of the application adds itself to the table.              *)
OnlyThreads == \A a \in Actor : pc[a] = "launched" => a \in Thread

MapInv ==
  /\ OtherTypes
  /\ MapOK(mem_map)
  /\ OpInv /\ HostMatches /\ IoIsApart
  /\ MapIsTrusted

USE DEF HostDescMapFailed

-----------------------------------------------------------------------------
(* Offsets, in bytes and in pages. *)

LEMMA MulOrder ==
  ASSUME NEW a \in Int, NEW b \in Int, NEW m \in Nat, a <= b
  PROVE  a * m <= b * m
  <1>1. b - a \in Nat
    OBVIOUS
  <1>2. (b - a) * m >= 0
    BY <1>1
  <1>3. (b - a) * m = b * m - a * m
    OBVIOUS
  <1>4. a * m \in Int /\ b * m \in Int
    OBVIOUS
  <1>5. QED
    BY <1>2, <1>3, <1>4

(* Quotient and remainder, which the provers do not relate by themselves.   *)
LEMMA DivMod ==
  ASSUME NEW x \in Nat, NEW m \in Nat, m > 0
  PROVE  /\ x \div m \in Nat /\ x % m \in 0 .. m - 1
         /\ x = (x \div m) * m + (x % m)
  OBVIOUS

(* There is only one way to write x as q * m + d with d < m.                *)
LEMMA DivModUnique ==
  ASSUME NEW x \in Nat, NEW m \in Nat, m > 0, NEW q \in Nat,
         NEW d \in 0 .. m - 1,
         x = q * m + d
  PROVE  x \div m = q /\ x % m = d
  <1>1. PICK r \in Nat, c \in 0 .. m - 1 :
          r = x \div m /\ c = x % m /\ x = r * m + c
    BY DivMod
  <1>2. /\ q * m \in Int /\ r * m \in Int
        /\ (q + 1) * m = q * m + m /\ (r + 1) * m = r * m + m
    OBVIOUS
  <1>3. CASE q < r
    <2>1. (q + 1) * m <= r * m
      BY <1>3, MulOrder
    <2>2. QED
      BY <1>1, <1>2, <2>1
  <1>4. CASE r < q
    <2>1. (r + 1) * m <= q * m
      BY <1>4, MulOrder
    <2>2. QED
      BY <1>1, <1>2, <2>1
  <1>5. CASE r = q
    BY <1>1, <1>2, <1>5
  <1>6. QED
    BY <1>3, <1>4, <1>5

(* An offset that moves by whole pages keeps its remainder.                 *)
LEMMA DivModAdd ==
  ASSUME NEW x \in Nat, NEW m \in Nat, m > 0, NEW k \in Nat
  PROVE  /\ x + k * m \in Nat /\ (x + k * m) \div m = (x \div m) + k
         /\ (x + k * m) % m = x % m
  <1>1. PICK r \in Nat, c \in 0 .. m - 1 :
          r = x \div m /\ c = x % m /\ x = r * m + c
    BY DivMod
  <1>2. k * m \in Nat /\ r * m \in Nat /\ (r + k) * m = r * m + k * m
    OBVIOUS
  <1>3. x + k * m \in Nat /\ x + k * m = (r + k) * m + c /\ r + k \in Nat
    BY <1>1, <1>2
  <1>4. (x + k * m) \div m = r + k /\ (x + k * m) % m = c
    BY <1>3, DivModUnique
  <1>5. QED
    BY <1>1, <1>3, <1>4

(* An offset that moves by a few bytes keeps its quotient as long as the    *)
(* remainder has room.                                                      *)
LEMMA DivModSmall ==
  ASSUME NEW x \in Nat, NEW m \in Nat, m > 0, NEW k \in Nat, (x % m) + k < m
  PROVE  (x + k) \div m = x \div m /\ (x + k) % m = (x % m) + k
  <1>1. PICK r \in Nat, c \in 0 .. m - 1 :
          r = x \div m /\ c = x % m /\ x = r * m + c
    BY DivMod
  <1>2. r * m \in Nat
    OBVIOUS
  <1>3. c + k \in 0 .. m - 1 /\ x + k \in Nat /\ x + k = r * m + (c + k)
    BY <1>1, <1>2
  <1>4. (x + k) \div m = r /\ (x + k) % m = c + k
    BY <1>3, DivModUnique
  <1>5. QED
    BY <1>1, <1>4

-----------------------------------------------------------------------------
(* Pieces of an entry. *)

(* A piece is within its entry and, if its own offset is one of a page,    *)
(* stands for what the entry stood for.                                    *)
Piece(m, e) ==
  /\ EntryOK(m) /\ e.page <= m.page /\ End(m) <= End(e)
  /\ Right(m) => Right(e) /\ \A p \in Int : Shown(m, p) = Shown(e, p)

(* What the fields of an entry of the map are.                              *)
LEMMA EntryFields ==
  ASSUME NEW e, EntryOK(e)
  PROVE  /\ e.page \in Nat /\ e.n \in Nat /\ e.n > 0 /\ e.page + e.n <= NumPages
         /\ e.offset \in Nat /\ e.size \in Int /\ NumPages \in Nat
         /\ MapBytes \in Nat /\ MapBytes > NumPages /\ MapBytes > 0
         /\ End(e) = e.page + e.n /\ End(e) \in Nat
         /\ (e.offset % MapBytes) \in Nat /\ (e.offset \div MapBytes) \in Nat
         /\ (e.offset % MapBytes) + (e.offset \div MapBytes) <= e.page
  <1>1. /\ e \in Entry /\ e.page + e.n <= NumPages
        /\ (e.offset % MapBytes) + (e.offset \div MapBytes) <= e.page
    BY DEF EntryOK
  <1>2. /\ NumPages \in Nat /\ NumPages > 0 /\ MapBytes \in Nat
        /\ MapBytes > NumPages
    BY VmAssumption
  <1>3. NumPages * MapBytes \in Nat
    BY <1>2
  <1>4. /\ e.page \in Nat /\ e.n \in Nat /\ e.n > 0 /\ e.offset \in Nat
        /\ e.size \in Int
    BY <1>1, <1>2, <1>3 DEF Entry, Page
  <1>5. /\ (e.offset % MapBytes) \in Nat /\ (e.offset \div MapBytes) \in Nat
    BY <1>2, <1>4, DivMod
  <1>6. QED
    BY <1>1, <1>2, <1>4, <1>5 DEF End

(* The offset of an entry never goes beyond its own page.                  *)
LEMMA OffsetIsSmall ==
  ASSUME NEW x \in Nat, NEW p \in Nat, p <= NumPages,
         (x % MapBytes) + (x \div MapBytes) <= p
  PROVE  x \in 0 .. NumPages * MapBytes
  <1>1. NumPages \in Nat /\ MapBytes \in Nat /\ MapBytes > 0
    BY VmAssumption
  <1>2. PICK r \in Nat, c \in 0 .. MapBytes - 1 :
          r = x \div MapBytes /\ c = x % MapBytes /\ x = r * MapBytes + c
    BY <1>1, DivMod
  <1>3. c * 1 <= c * MapBytes /\ c * 1 = c
    <2>1. 1 * c <= MapBytes * c
      BY <1>1, MulOrder
    <2>2. QED
      BY <1>1, <2>1
  <1>4. (r + c) * MapBytes <= NumPages * MapBytes
    BY <1>1, <1>2, MulOrder
  <1>5. (r + c) * MapBytes = r * MapBytes + c * MapBytes
    BY <1>1
  <1>6. QED
    BY <1>1, <1>2, <1>3, <1>4, <1>5

(* A part of an entry is a piece of it, whether its offset was advanced by  *)
(* whole pages (VmmapUpdate, VmmapRemove) or, as in VmmapChangeProt, by a   *)
(* number of pages taken for bytes.                                         *)
LEMMA PartPiece ==
  ASSUME NEW e, EntryOK(e), NEW from \in Int, NEW to \in Int, NEW o \in Nat,
         e.page <= from, to <= End(e),
         \/ o = e.offset + (from - e.page) * MapBytes
         \/ o = e.offset + (from - e.page),
         NEW m \in Part(e, from, to, o)
  PROVE  /\ m.page = from /\ End(m) = to /\ from < to
         /\ m.desc = e.desc /\ m.size = e.size /\ m.offset = o
         /\ Piece(m, e)
  <1>1. /\ from < to
        /\ m = [e EXCEPT !.page = from, !.n = to - from, !.offset = o]
    BY DEF Part
  <1>2. e \in Entry
    BY DEF EntryOK
  <1>3. /\ m.page = from /\ m.n = to - from /\ m.offset = o
        /\ m.desc = e.desc /\ m.size = e.size
    BY <1>1, <1>2 DEF Entry
  <1>4. End(m) = to
    BY <1>3 DEF End
  <1>5. PICK k : k = from - e.page
    OBVIOUS
  <1>6. k \in Nat /\ from = e.page + k /\ k < NumPages
    BY <1>1, <1>5, EntryFields
  <1>7. /\ (o % MapBytes) \in Nat /\ (o \div MapBytes) \in Nat
        /\ (o % MapBytes) + (o \div MapBytes) <= from
        /\ (o % MapBytes) = 0
           => /\ e.offset % MapBytes = 0
              /\ o = e.offset + k * MapBytes
    <2>0. PICK x \in Nat, b \in Nat : x = e.offset /\ b = MapBytes /\ b > 0
      BY EntryFields
    <2>1. CASE o = e.offset + k * MapBytes
      <3>1. /\ (x + k * b) \div b = (x \div b) + k
            /\ (x + k * b) % b = x % b
        <4>1. x \in Nat /\ b \in Nat /\ b > 0 /\ k \in Nat
          BY <1>6, <2>0
        <4>2. QED
          BY <4>1, DivModAdd
      <3>2. QED
        BY <1>6, <2>0, <2>1, <3>1, EntryFields
    <2>2. CASE o = e.offset + k
      <3>1. (e.offset % MapBytes) + k < MapBytes
        BY <1>1, <1>6, EntryFields
      <3>2. (x + k) \div b = x \div b /\ (x + k) % b = (x % b) + k
        <4>1. x \in Nat /\ b \in Nat /\ b > 0 /\ k \in Nat
          BY <1>6, <2>0
        <4>2. (x % b) + k < b
          BY <2>0, <3>1
        <4>3. QED
          BY <4>1, <4>2, DivModSmall
      <3>3. k = 0 => k * MapBytes = 0
        BY VmAssumption
      <3>4. QED
        BY <1>6, <2>0, <2>2, <3>2, <3>3, EntryFields
    <2>3. QED
      BY <1>5, <2>1, <2>2
  <1>8. EntryOK(m)
    <2>1. o \in 0 .. NumPages * MapBytes
      BY <1>1, <1>6, <1>7, EntryFields, OffsetIsSmall
    <2>2. from \in Page /\ to - from \in 1 .. NumPages
      BY <1>1, EntryFields DEF Page
    <2>3. m \in Entry
      BY <1>1, <1>2, <2>1, <2>2 DEF Entry
    <2>4. QED
      BY <1>3, <1>7, <2>3, EntryFields DEF EntryOK
  <1>9. ASSUME Right(m)
        PROVE  Right(e) /\ \A p \in Int : Shown(m, p) = Shown(e, p)
    <2>1. e.offset % MapBytes = 0 /\ o = e.offset + k * MapBytes
      BY <1>3, <1>7, <1>9 DEF Right
    <2>2. ASSUME NEW p \in Int
          PROVE  o + (p - from) * MapBytes
                   = e.offset + (p - e.page) * MapBytes
      <3>1. (p - e.page) * MapBytes = (p - from) * MapBytes + k * MapBytes
        BY <1>6, EntryFields
      <3>2. (p - from) * MapBytes \in Int /\ k * MapBytes \in Int
        BY <1>6, EntryFields
      <3>3. QED
        BY <2>1, <3>1, <3>2, EntryFields
    <2>3. QED
      BY <1>3, <2>1, <2>2 DEF Right, Shown
  <1>10. QED
    BY <1>1, <1>3, <1>4, <1>8, <1>9 DEF Piece
(* What is left of an entry below page f.                                   *)
LEMMA BeforePiece ==
  ASSUME NEW e, EntryOK(e), NEW f \in Int, f <= End(e), NEW m \in Before(e, f)
  PROVE  m.page = e.page /\ End(m) = f /\ e.page < f /\ Piece(m, e)
  <1>1. /\ e.page \in Int /\ e.offset \in Nat /\ e.page <= e.page
        /\ e.offset = e.offset + (e.page - e.page)
    BY EntryFields
  <1>2. m \in Part(e, e.page, f, e.offset)
    BY DEF Before
  <1>3. QED
    BY <1>1, <1>2, PartPiece

(* What is left of an entry from page g on.                                 *)
LEMMA AfterPiece ==
  ASSUME NEW e, EntryOK(e), NEW g \in Int, e.page <= g, NEW m \in After(e, g)
  PROVE  m.page = g /\ End(m) = End(e) /\ g < End(e) /\ Piece(m, e)
  <1>1. PICK o : o = e.offset + (g - e.page) * MapBytes
    OBVIOUS
  <1>2. o \in Nat
    <2>1. g - e.page \in Nat /\ MapBytes \in Nat /\ e.offset \in Nat
      BY EntryFields
    <2>2. (g - e.page) * MapBytes \in Nat
      BY <2>1
    <2>3. QED
      BY <1>1, <2>1, <2>2
  <1>3. m \in Part(e, g, End(e), o)
    BY <1>1 DEF After
  <1>4. End(e) \in Int /\ End(e) <= End(e)
    BY EntryFields
  <1>5. QED
    BY <1>1, <1>2, <1>3, <1>4, PartPiece

(* The part of an entry whose protection VmmapChangeProt changes.           *)
LEMMA MiddlePiece ==
  ASSUME NEW e, EntryOK(e), NEW f \in Int, NEW g \in Int,
         NEW m \in Middle(e, f, g)
  PROVE  /\ m.page = (IF e.page < f THEN f ELSE e.page)
         /\ End(m) = (IF g < End(e) THEN g ELSE End(e))
         /\ Piece(m, e)
  <1>1. PICK from : from = (IF e.page < f THEN f ELSE e.page)
    OBVIOUS
  <1>2. PICK to : to = (IF g < End(e) THEN g ELSE End(e))
    OBVIOUS
  <1>3. /\ from \in Int /\ to \in Int /\ e.page <= from /\ to <= End(e)
    BY <1>1, <1>2, EntryFields
  <1>4. PICK o : o = e.offset + (from - e.page)
    OBVIOUS
  <1>5. o \in Nat
    BY <1>3, <1>4, EntryFields
  <1>6. m \in Part(e, from, to, o)
    BY <1>1, <1>2, <1>4 DEF Middle
  <1>7. QED
    BY <1>1, <1>2, <1>3, <1>4, <1>5, <1>6, PartPiece

-----------------------------------------------------------------------------
(* The memory map. *)

LEMMA ApartIsNoOverlap ==
  ASSUME NEW d, NEW e, EntryOK(d), EntryOK(e)
  PROVE  Apart(d, e) <=> ~Overlaps(d, e.page, e.n)
  BY EntryFields DEF Apart, Overlaps

(* Pieces of entries that are apart are apart.                             *)
LEMMA PiecesApart ==
  ASSUME NEW d, NEW e, EntryOK(d), EntryOK(e), Apart(d, e),
         NEW x, NEW y, Piece(x, d), Piece(y, e)
  PROVE  Apart(x, y)
  <1>1. EntryOK(x) /\ EntryOK(y)
    BY DEF Piece
  <1>2. QED
    BY <1>1, EntryFields DEF Piece, Apart

(* An entry is a piece of itself.                                           *)
LEMMA WholePiece ==
  ASSUME NEW e, EntryOK(e)
  PROVE  Piece(e, e)
  BY EntryFields DEF Piece

(* What is left of the entries when pages f, ..., g - 1 are cut out.       *)
Rest(M, f, g) ==
  {e \in M : ~Overlaps(e, f, g - f)}
    \cup UNION {Before(e, f) \cup After(e, g)
                 : e \in {d \in M : Overlaps(d, f, g - f)}}

RestOf(e, f, g) ==
  IF Overlaps(e, f, g - f) THEN Before(e, f) \cup After(e, g) ELSE {e}

(* Taking pages f to g - 1 out of a map leaves pieces of its entries, which *)
(* cover all other pages and none of these.                                 *)
LEMMA RestOfMap ==
  ASSUME NEW M, MapOK(M), NEW f \in Nat, NEW g \in Nat, f < g
  PROVE  /\ MapOK(Rest(M, f, g))
         /\ \A m \in Rest(M, f, g) :
              /\ End(m) <= f \/ g <= m.page
              /\ \E e \in M : Piece(m, e)
         /\ \A e \in M, p \in Int :
              Covers(e, p) /\ (p < f \/ g <= p)
                => \E m \in Rest(M, f, g) : Covers(m, p)
  <1>1. ASSUME NEW e \in M
        PROVE  /\ EntryOK(e)
               /\ e.page \in Nat /\ End(e) \in Nat /\ e.page < End(e)
               /\ Overlaps(e, f, g - f) <=> e.page < g /\ f < End(e)
    <2>1. EntryOK(e)
      BY DEF MapOK
    <2>2. f + (g - f) = g
      OBVIOUS
    <2>3. QED
      BY <2>1, <2>2, EntryFields DEF Overlaps
  <1>2. \A m \in Rest(M, f, g) : \E e \in M : m \in RestOf(e, f, g)
    BY DEF Rest, RestOf
  <1>3. \A e \in M : \A m \in RestOf(e, f, g) : m \in Rest(M, f, g)
    BY DEF Rest, RestOf
  <1>4. ASSUME NEW e \in M, NEW m \in RestOf(e, f, g)
        PROVE  /\ Piece(m, e) /\ (End(m) <= f \/ g <= m.page)
               /\ m.page < End(m) /\ m.page \in Nat /\ End(m) \in Nat
    <2>1. CASE m = e /\ ~Overlaps(e, f, g - f)
      BY <1>1, <2>1, WholePiece
    <2>2. CASE Overlaps(e, f, g - f) /\ m \in Before(e, f)
      <3>1. f <= End(e)
        BY <1>1, <2>2
      <3>2. m.page = e.page /\ End(m) = f /\ e.page < f /\ Piece(m, e)
        BY <1>1, <2>2, <3>1, BeforePiece
      <3>3. QED
        BY <1>1, <3>2
    <2>3. CASE Overlaps(e, f, g - f) /\ m \in After(e, g)
      <3>1. e.page <= g
        BY <1>1, <2>3
      <3>2. m.page = g /\ End(m) = End(e) /\ g < End(e) /\ Piece(m, e)
        BY <1>1, <2>3, <3>1, AfterPiece
      <3>3. QED
        BY <1>1, <3>2
    <2>4. QED
      BY <2>1, <2>2, <2>3 DEF RestOf
  <1>5. ASSUME NEW e \in M, NEW x \in RestOf(e, f, g),
               NEW y \in RestOf(e, f, g), x # y
        PROVE  Apart(x, y)
    <2>1. Overlaps(e, f, g - f)
      BY <1>5 DEF RestOf
    <2>2. e.page < g /\ f < End(e)
      BY <1>1, <2>1
    <2>3. ASSUME NEW b \in Before(e, f), NEW a \in After(e, g)
          PROVE  End(b) = f /\ a.page = g
      <3>1. f <= End(e) /\ e.page <= g /\ EntryOK(e)
        BY <1>1, <2>2
      <3>2. End(b) = f
        BY <3>1, BeforePiece
      <3>3. a.page = g
        BY <3>1, AfterPiece
      <3>4. QED
        BY <3>2, <3>3
    <2>4. \A b, c \in Before(e, f) : b = c
      BY DEF Before, Part
    <2>5. \A b, c \in After(e, g) : b = c
      BY DEF After, Part
    <2>6. QED
      BY <1>5, <2>1, <2>3, <2>4, <2>5 DEF Apart, RestOf
  <1>6. ASSUME NEW d \in M, NEW e \in M, NEW x \in RestOf(d, f, g),
               NEW y \in RestOf(e, f, g),
               x # y
        PROVE  Apart(x, y)
    <2>1. CASE d = e
      BY <1>5, <1>6, <2>1
    <2>2. CASE d # e
      <3>1. Apart(d, e) /\ Piece(x, d) /\ Piece(y, e)
        BY <1>4, <2>2 DEF MapOK
      <3>2. QED
        BY <1>1, <3>1, PiecesApart
    <2>3. QED
      BY <2>1, <2>2
  <1>7. MapOK(Rest(M, f, g))
    <2>1. ASSUME NEW x \in Rest(M, f, g) PROVE EntryOK(x)
      <3>1. PICK e \in M : x \in RestOf(e, f, g)
        BY <1>2
      <3>2. Piece(x, e)
        BY <1>4, <3>1
      <3>3. QED
        BY <3>2 DEF Piece
    <2>2. ASSUME NEW x \in Rest(M, f, g), NEW y \in Rest(M, f, g), x # y
          PROVE  Apart(x, y)
      BY <1>2, <1>6, <2>2
    <2>3. QED
      BY <2>1, <2>2 DEF MapOK
  <1>8. ASSUME NEW m \in Rest(M, f, g)
        PROVE  (End(m) <= f \/ g <= m.page) /\ \E e \in M : Piece(m, e)
    <2>1. PICK e \in M : m \in RestOf(e, f, g)
      BY <1>2
    <2>2. QED
      BY <1>4, <2>1
  <1>9. ASSUME NEW e \in M, NEW p \in Int, Covers(e, p), p < f \/ g <= p
        PROVE  \E m \in Rest(M, f, g) : Covers(m, p)
    <2>1. e.page <= p /\ p < End(e)
      BY <1>9 DEF Covers
    <2>2. CASE ~Overlaps(e, f, g - f)
      BY <1>3, <1>9, <2>2 DEF RestOf
    <2>3. CASE Overlaps(e, f, g - f) /\ p < f
      <3>1. /\ e.page < f /\ f <= End(e)
            /\ Before(e, f) = {[e EXCEPT !.page = e.page, !.n = f - e.page,
                                         !.offset = e.offset]}
        BY <1>1, <2>1, <2>3 DEF Before, Part
      <3>2. PICK m : m \in Before(e, f)
        BY <3>1
      <3>3. m.page = e.page /\ End(m) = f
        <4>1. EntryOK(e) /\ f <= End(e)
          BY <1>1, <3>1
        <4>2. QED
          BY <3>2, <4>1, BeforePiece
      <3>4. QED
        BY <1>3, <2>1, <2>3, <3>2, <3>3 DEF Covers, RestOf
    <2>4. CASE Overlaps(e, f, g - f) /\ g <= p
      <3>1. /\ g < End(e) /\ e.page <= g
            /\ After(e, g) = {[e EXCEPT !.page = g, !.n = End(e) - g,
                               !.offset = e.offset + (g - e.page) * MapBytes]}
        BY <1>1, <2>1, <2>4 DEF After, Part
      <3>2. PICK m : m \in After(e, g)
        BY <3>1
      <3>3. m.page = g /\ End(m) = End(e)
        <4>1. EntryOK(e) /\ e.page <= g
          BY <1>1, <3>1
        <4>2. QED
          BY <3>2, <4>1, AfterPiece
      <3>4. QED
        BY <1>3, <2>1, <2>4, <3>2, <3>3 DEF Covers, RestOf
    <2>5. QED
      BY <1>9, <2>2, <2>3, <2>4
  <1>10. QED
    BY <1>7, <1>8, <1>9
(* The map N says of page p what the map M said.                           *)
Follows(N, M, p) ==
  /\ \A m \in N : Covers(m, p) /\ Right(m) =>
       \E e \in M : Covers(e, p) /\ Right(e) /\ Shown(m, p) = Shown(e, p)
  /\ (\E m \in N : Covers(m, p)) <=> (\E e \in M : Covers(e, p))

(* A piece tells of its pages what its entry does; its offset is right only *)
(* if that of the entry is.                                                 *)
LEMMA PieceFollows ==
  ASSUME NEW e, EntryOK(e), NEW m, Piece(m, e), NEW p \in Int, Covers(m, p)
  PROVE  /\ Covers(e, p)
         /\ Right(m) => Right(e) /\ Shown(m, p) = Shown(e, p)
  <1>1. EntryOK(m) /\ e.page <= m.page /\ End(m) <= End(e)
    BY DEF Piece
  <1>2. Covers(e, p)
    BY <1>1, EntryFields DEF Covers
  <1>3. QED
    BY <1>2 DEF Piece

(* VmmapUpdate keeps the map well-formed, tells the same as before of the   *)
(* pages outside the range, and of those in it only what the new entry      *)
(* says.                                                                    *)
LEMMA UpdateMap ==
  ASSUME NEW M, MapOK(M), NEW f \in Nat, NEW n \in Nat, n > 0, NEW new,
         \/ new = {}
         \/ \E w : new = {w} /\ EntryOK(w) /\ w.page = f /\ w.n = n
  PROVE  /\ MapOK(VmmapUpdate(M, f, n, new))
         /\ \A p \in Int : p < f \/ f + n <= p
              => Follows(VmmapUpdate(M, f, n, new), M, p)
         /\ \A p \in f .. f + n - 1 :
              \A m \in VmmapUpdate(M, f, n, new) : Covers(m, p) => m \in new
         /\ new \subseteq VmmapUpdate(M, f, n, new)
  <1>1. PICK g \in Nat : g = f + n
    OBVIOUS
  <1>2. f < g /\ g - f = n
    BY <1>1
  <1>3. VmmapUpdate(M, f, n, new) = Rest(M, f, g) \cup new
    BY <1>1, <1>2 DEF VmmapUpdate, Rest
  <1>4. /\ MapOK(Rest(M, f, g))
        /\ \A m \in Rest(M, f, g) : End(m) <= f \/ g <= m.page
        /\ \A m \in Rest(M, f, g) : \E e \in M : Piece(m, e)
        /\ \A e \in M, p \in Int :
             Covers(e, p) /\ (p < f \/ g <= p)
               => \E m \in Rest(M, f, g) : Covers(m, p)
    BY <1>2, RestOfMap
  <1>5. ASSUME NEW w \in new
        PROVE  EntryOK(w) /\ w.page = f /\ End(w) = g /\ new = {w}
    BY <1>1 DEF End
  <1>6. MapOK(Rest(M, f, g) \cup new)
    BY <1>4, <1>5 DEF MapOK, Apart
  <1>7. ASSUME NEW p \in Int, p < f \/ g <= p
        PROVE  Follows(Rest(M, f, g) \cup new, M, p)
    <2>1. ASSUME NEW m \in Rest(M, f, g) \cup new, Covers(m, p)
          PROVE  \E e \in M : /\ Covers(e, p)
                              /\ Right(m) => /\ Right(e)
                                             /\ Shown(m, p) = Shown(e, p)
      <3>1. m \in Rest(M, f, g)
        BY <1>5, <1>7, <2>1 DEF Covers
      <3>2. PICK e \in M : Piece(m, e)
        BY <1>4, <3>1
      <3>3. EntryOK(e)
        BY DEF MapOK
      <3>4. QED
        BY <2>1, <3>2, <3>3, PieceFollows
    <2>2. ASSUME NEW e \in M, Covers(e, p)
          PROVE  \E m \in Rest(M, f, g) \cup new : Covers(m, p)
      BY <1>4, <1>7, <2>2
    <2>3. QED
      BY <2>1, <2>2 DEF Follows
  <1>8. ASSUME NEW p \in f .. f + n - 1, NEW m \in Rest(M, f, g) \cup new,
               Covers(m, p)
        PROVE  m \in new
    <2>1. SUFFICES ASSUME m \in Rest(M, f, g) PROVE FALSE
      BY <1>8
    <2>2. EntryOK(m) /\ (End(m) <= f \/ g <= m.page)
      BY <1>4, <2>1 DEF MapOK
    <2>3. QED
      BY <1>1, <1>8, <2>2, EntryFields DEF Covers
  <1>9. QED
    BY <1>1, <1>3, <1>6, <1>7, <1>8

(* VmmapChangeProt keeps the map well-formed, and where it still tells      *)
(* something right it is what the map told before.                          *)
LEMMA ChangeMap ==
  ASSUME NEW M, MapOK(M), NEW f \in Nat, NEW n \in Nat, n > 0
  PROVE  /\ MapOK(VmmapChangeProt(M, f, n))
         /\ \A p \in Int : Follows(VmmapChangeProt(M, f, n), M, p)
  <1>1. PICK g \in Nat : g = f + n
    OBVIOUS
  <1>2. f < g /\ g - f = n
    BY <1>1
  <1>3. PICK cut :
          cut = UNION {Middle(e, f, g) : e \in {d \in M : Overlaps(d, f, n)}}
    OBVIOUS
  <1>4. VmmapChangeProt(M, f, n) = Rest(M, f, g) \cup cut
    BY <1>1, <1>2, <1>3 DEF VmmapChangeProt, Rest
  <1>5. /\ MapOK(Rest(M, f, g))
        /\ \A m \in Rest(M, f, g) : End(m) <= f \/ g <= m.page
        /\ \A m \in Rest(M, f, g) : \E e \in M : Piece(m, e)
        /\ \A e \in M, p \in Int :
             Covers(e, p) /\ (p < f \/ g <= p)
               => \E m \in Rest(M, f, g) : Covers(m, p)
    BY <1>2, RestOfMap
  <1>6. ASSUME NEW e \in M, NEW m \in Middle(e, f, g)
        PROVE  Piece(m, e) /\ f <= m.page /\ End(m) <= g
    <2>1. EntryOK(e)
      BY DEF MapOK
    <2>2. /\ m.page = (IF e.page < f THEN f ELSE e.page)
          /\ End(m) = (IF g < End(e) THEN g ELSE End(e))
          /\ Piece(m, e)
      BY <2>1, MiddlePiece
    <2>3. QED
      BY <2>1, <2>2, EntryFields
  <1>7. ASSUME NEW e \in M, NEW p \in Int, Covers(e, p), f <= p, p < g
        PROVE  \E m \in cut : Covers(m, p)
    <2>1. EntryOK(e) /\ e.page <= p /\ p < End(e)
      BY <1>7 DEF MapOK, Covers
    <2>2. Overlaps(e, f, n)
      BY <1>1, <1>7, <2>1, EntryFields DEF Overlaps
    <2>3. PICK from : from = (IF e.page < f THEN f ELSE e.page)
      OBVIOUS
    <2>4. PICK to : to = (IF g < End(e) THEN g ELSE End(e))
      OBVIOUS
    <2>5. from <= p /\ p < to /\ from < to
      BY <1>7, <2>1, <2>3, <2>4, EntryFields
    <2>6. PICK m : m \in Middle(e, f, g)
      BY <2>3, <2>4, <2>5 DEF Middle, Part
    <2>7. m.page = from /\ End(m) = to
      BY <2>1, <2>3, <2>4, <2>6, MiddlePiece
    <2>8. m \in cut
      BY <1>3, <2>2, <2>6
    <2>9. QED
      BY <2>5, <2>7, <2>8 DEF Covers
  <1>8. \A m \in cut : \E e \in M : m \in Middle(e, f, g)
    BY <1>3
  <1>9. \A e \in M : \A b, c \in Middle(e, f, g) : b = c
    BY DEF Middle, Part
  <1>10. MapOK(Rest(M, f, g) \cup cut)
    <2>1. ASSUME NEW m \in cut
          PROVE  EntryOK(m) /\ f <= m.page /\ End(m) <= g
      <3>1. PICK e \in M : m \in Middle(e, f, g)
        BY <1>8
      <3>2. QED
        BY <1>6, <3>1 DEF Piece
    <2>2. ASSUME NEW x \in cut, NEW y \in cut, x # y
          PROVE  Apart(x, y)
      <3>1. PICK d \in M : x \in Middle(d, f, g)
        BY <1>8
      <3>2. PICK e \in M : y \in Middle(e, f, g)
        BY <1>8
      <3>3. d # e
        BY <1>9, <2>2, <3>1, <3>2
      <3>4. /\ EntryOK(d) /\ EntryOK(e) /\ Apart(d, e)
            /\ Piece(x, d) /\ Piece(y, e)
        BY <1>6, <3>1, <3>2, <3>3 DEF MapOK
      <3>5. QED
        BY <3>4, PiecesApart
    <2>3. ASSUME NEW x \in Rest(M, f, g), NEW y \in cut
          PROVE  Apart(x, y) /\ Apart(y, x)
      <3>1. EntryOK(x) /\ EntryOK(y) /\ f <= y.page /\ End(y) <= g
        BY <1>5, <2>1 DEF MapOK
      <3>2. End(x) <= f \/ g <= x.page
        BY <1>5
      <3>3. QED
        BY <3>1, <3>2, EntryFields DEF Apart
    <2>4. QED
      BY <1>5, <2>1, <2>2, <2>3 DEF MapOK
  <1>11. ASSUME NEW p \in Int
         PROVE  Follows(Rest(M, f, g) \cup cut, M, p)
    <2>1. ASSUME NEW m \in Rest(M, f, g) \cup cut, Covers(m, p)
          PROVE  \E e \in M : /\ Covers(e, p)
                              /\ Right(m) => /\ Right(e)
                                             /\ Shown(m, p) = Shown(e, p)
      <3>1. PICK e \in M : Piece(m, e)
        BY <1>5, <1>6, <1>8
      <3>2. EntryOK(e)
        BY DEF MapOK
      <3>3. QED
        BY <2>1, <3>1, <3>2, PieceFollows
    <2>2. ASSUME NEW e \in M, Covers(e, p)
          PROVE  \E m \in Rest(M, f, g) \cup cut : Covers(m, p)
      <3>1. CASE p < f \/ g <= p
        BY <1>5, <2>2, <3>1
      <3>2. CASE f <= p /\ p < g
        BY <1>7, <2>2, <3>2
      <3>3. QED
        BY <3>1, <3>2
    <2>3. QED
      BY <2>1, <2>2 DEF Follows
  <1>12. QED
    BY <1>4, <1>10, <1>11
-----------------------------------------------------------------------------
(* Where the memory call is. *)

(* Whoever holds nap->mu for a memory call is alone in it.                 *)
LEMMA GotoIn ==
  ASSUME VmTypes, LocksAreRight, NEW a \in Actor, mu = a, NEW label,
         Goto(a, label)
  PROVE  \A l \in {"page", "fill", "close"} :
           (In(l) <=> pc[a] = l) /\ (In(l)' <=> label = l)
  <1>1. \A b \in Actor \ {a} : pc[b] \notin {"page", "fill", "close"}
    BY DEF LocksAreRight
  <1>2. pc' = [pc EXCEPT ![a] = label] /\ pc \in [Actor -> PC]
    BY DEF Goto, VmTypes
  <1>3. pc'[a] = label /\ \A b \in Actor \ {a} : pc'[b] = pc[b]
    BY <1>2
  <1>4. QED
    BY <1>1, <1>3 DEF In

(* A step between labels outside the calls that replace pages.              *)
LEMMA GotoOutside ==
  ASSUME VmTypes, NEW a \in Actor, NEW label, Goto(a, label),
         pc[a] \notin {"page", "fill", "close"},
         label \notin {"page", "fill", "close"}
  PROVE  \A l \in {"page", "fill", "close"} : In(l)' <=> In(l)
  <1>1. pc' = [pc EXCEPT ![a] = label] /\ pc \in [Actor -> PC]
    BY DEF Goto, VmTypes
  <1>2. pc'[a] = label /\ \A b \in Actor \ {a} : pc'[b] = pc[b]
    BY <1>1
  <1>3. QED
    BY <1>2 DEF In

(* While nap->mu is free there is no memory call.                          *)
LEMMA FreeMeansNoCall ==
  ASSUME VmTypes, LocksAreRight, OpInv, mu = NoThread
  PROVE  op = NoOp /\ ~In("page") /\ ~In("fill") /\ ~In("close")
  <1>1. \A b \in Actor : pc[b] \notin {"page", "fill", "close"}
    BY VmAssumption DEF LocksAreRight, Actor
  <1>2. QED
    BY <1>1 DEF OpInv, In

(* A step that leaves the map, the pages and the call alone.               *)
LEMMA QuietMapStep ==
  ASSUME MapInv, OtherTypes', mem_map' = mem_map, op' = op,
         UNCHANGED <<mapFailed, protectFailed>>,
         HostDescMapFailed \/ host' = host,
         \A l \in {"page", "fill", "close"} : In(l)' <=> In(l),
         mem_io_regions' = mem_io_regions \/ ~(In("page") \/ In("fill")),
         fatal' \in {fatal, "io_race"}
  PROVE  MapInv'
  <1>1. /\ In("page")' <=> In("page")
        /\ In("fill")' <=> In("fill")
        /\ In("close")' <=> In("close")
    OBVIOUS
  <1>2. MapOK(mem_map)'
    BY DEF MapInv, MapOK
  <1>3. OpInv'
    BY <1>1 DEF MapInv, OpInv
  <1>4. HostMatches'
    <2>1. CASE HostDescMapFailed
      BY <2>1 DEF HostMatches
    <2>2. CASE host' = host
      <3>1. \A p \in Page : (Done(p)' <=> Done(p)) /\ (InFile(p)' <=> InFile(p))
                            /\ (PageOK(p)' <=> PageOK(p)) /\ here' = here
        BY <1>1, <2>2 DEF Done, InFile, PageOK, here
      <3>2. QED
        BY <1>1, <2>2, <3>1 DEF MapInv, HostMatches
    <2>3. QED
      BY <2>1, <2>2
  <1>5. IoIsApart'
    BY <1>1 DEF MapInv, IoIsApart
  <1>6. MapIsTrusted'
    BY DEF MapInv, MapIsTrusted, OffsetIsWrong
  <1>7. QED
    BY <1>2, <1>3, <1>4, <1>5, <1>6 DEF MapInv
-----------------------------------------------------------------------------
(* The steps that are not of a memory call, and those before its pages. *)

LEMMA QuietSteps ==
  ASSUME HoleInv, OnlyThreads, MapInv, NEW a \in Actor, fatal = "no",
         \/ WaitToStartThread(a) \/ ThreadSpawn(a) \/ ServiceSpawn(a)
         \/ AddThread(a) \/ ThreadStackIsSafe(a) \/ Return(a)
         \/ ThreadTeardown(a) \/ VmHoleOpening(a) \/ SuspendAll(a)
         \/ VmIoWillStart(a) \/ SystemCall(a) \/ VmIoHasEnded(a)
         \/ ServiceCall(a)
  PROVE  MapInv'
  <1> USE DEF HoleInv, lockVars, spaceVars, historyVars
  <1>1. /\ cv \subseteq Actor
        /\ registered \subseteq Thread /\ suspended \subseteq registered
        /\ none \subseteq Page
        /\ mem_io_regions \in [Thread -> SUBSET Page]
        /\ calls \in 0 .. MaxCalls
        /\ threads_mu = NoThread => suspended = {}
        /\ MaxCalls \in Nat
    BY VmAssumption DEF MapInv, OtherTypes
  <1>2. ASSUME NEW label, Goto(a, label),
               pc[a] \notin {"page", "fill", "close"},
               label \notin {"page", "fill", "close"}
        PROVE  \A l \in {"page", "fill", "close"} : In(l)' <=> In(l)
    BY <1>2, GotoOutside
  <1>3. CASE \/ AddThread(a) \/ ThreadStackIsSafe(a) \/ Return(a)
             \/ ThreadTeardown(a) \/ SystemCall(a) \/ ServiceCall(a)
    <2>1. /\ \E label \in {"stack", "return", "gone", "untrusted", "create",
                           "vm", "mprotect", "io", "exit"} : Goto(a, label)
          /\ pc[a] \notin {"page", "fill", "close"}
      BY <1>3 DEF AddThread, ThreadStackIsSafe, Return, ThreadTeardown,
         SystemCall, ServiceCall
    <2>2. \A l \in {"page", "fill", "close"} : In(l)' <=> In(l)
      BY <1>2, <2>1
    <2>3. /\ UNCHANGED <<mem_map, op, mapFailed, protectFailed>>
          /\ host' = host /\ mem_io_regions' = mem_io_regions
          /\ fatal' = fatal /\ none' = none /\ threads_mu' = threads_mu
          /\ suspended' = suspended
      BY <1>3 DEF AddThread, ThreadStackIsSafe, Return, ThreadTeardown,
         SystemCall, ServiceCall
    <2>4. /\ cv' \subseteq Actor /\ calls' \in 0 .. MaxCalls
          /\ registered' \subseteq Thread /\ suspended \subseteq registered'
      <3>1. CASE AddThread(a)
        BY <1>1, <3>1 DEF AddThread, OnlyThreads
      <3>2. CASE ThreadTeardown(a)
        BY <1>1, <3>2 DEF ThreadTeardown
      <3>3. CASE \/ ThreadStackIsSafe(a) \/ Return(a)
                 \/ SystemCall(a) \/ ServiceCall(a)
        BY <1>1, <3>3 DEF ThreadStackIsSafe, Return, SystemCall, ServiceCall
      <3>4. QED
        BY <1>3, <3>1, <3>2, <3>3
    <2>5. OtherTypes'
      BY <1>1, <2>3, <2>4 DEF MapInv, OtherTypes
    <2>6. QED
      BY <2>2, <2>3, <2>5, QuietMapStep
  <1>4. CASE WaitToStartThread(a) \/ VmHoleOpening(a)
    <2>1. \/ pc' = pc
          \/ /\ \E label \in {"spawn", "suspend"} : Goto(a, label)
             /\ pc[a] \notin {"page", "fill", "close"}
      BY <1>4 DEF WaitToStartThread, VmHoleOpening
    <2>2. \A l \in {"page", "fill", "close"} : In(l)' <=> In(l)
      <3>1. CASE pc' = pc
        BY <3>1 DEF In
      <3>2. QED
        BY <1>2, <2>1, <3>1
    <2>3. /\ UNCHANGED <<mem_map, op, mapFailed, protectFailed>>
          /\ host' = host /\ mem_io_regions' = mem_io_regions
          /\ fatal' = fatal /\ none' = none /\ threads_mu' = threads_mu
          /\ suspended' = suspended /\ registered' = registered
          /\ calls' = calls /\ cv' \subseteq cv \cup {a}
      BY <1>4 DEF WaitToStartThread, VmHoleOpening
    <2>4. OtherTypes'
      BY <1>1, <2>3 DEF MapInv, OtherTypes
    <2>5. QED
      BY <2>2, <2>3, <2>4, QuietMapStep
  <1>5. CASE SuspendAll(a)
    <2>1. \A l \in {"page", "fill", "close"} : In(l)' <=> In(l)
      BY <1>2, <1>5 DEF SuspendAll
    <2>2. OtherTypes'
      BY <1>1, <1>5, VmAssumption DEF SuspendAll, MapInv, OtherTypes, Actor
    <2>3. QED
      BY <1>5, <2>1, <2>2, QuietMapStep DEF SuspendAll
  <1>6. CASE VmIoWillStart(a) \/ VmIoHasEnded(a)
    <2>1. /\ \E label \in {"transfer", "return"} : Goto(a, label)
          /\ pc[a] \notin {"page", "fill", "close"}
      BY <1>6 DEF VmIoWillStart, VmIoHasEnded
    <2>2. \A l \in {"page", "fill", "close"} : In(l)' <=> In(l)
      BY <1>2, <2>1
    <2>3. ~In("page") /\ ~In("fill")
      BY <1>6, FreeMeansNoCall DEF VmIoWillStart, VmIoHasEnded, MuIsFree,
         MapInv
    <2>4. \A r \in Region : r \subseteq Page
      BY VmAssumption DEF Region, Pages, Extent, Page
    <2>5. mem_io_regions' \in [Thread -> SUBSET Page]
      BY <1>1, <1>6, <2>4 DEF VmIoWillStart, VmIoHasEnded, NoIo
    <2>6. /\ UNCHANGED <<mem_map, op, mapFailed, protectFailed>>
          /\ host' = host
          /\ fatal' = fatal /\ none' = none /\ threads_mu' = threads_mu
          /\ suspended' = suspended /\ registered' = registered
          /\ calls' = calls /\ cv' = cv
      BY <1>6 DEF VmIoWillStart, VmIoHasEnded
    <2>7. OtherTypes'
      BY <1>1, <2>5, <2>6 DEF MapInv, OtherTypes
    <2>8. QED
      BY <2>2, <2>3, <2>6, <2>7, QuietMapStep
  <1>7. CASE ThreadSpawn(a) \/ ServiceSpawn(a)
    <2>1. a \in Launching
      BY <1>7 DEF ThreadSpawn, ServiceSpawn, Launching
    <2>2. ~mapFailed => \A p \in Page : host[p] # "hole"
      BY <2>1, LaunchingMeansNoHole
    <2>3. HostDescMapFailed \/ host' = host
      BY <1>7, <2>2 DEF ThreadSpawn, ServiceSpawn, StackIsPlaced
    <2>4. /\ UNCHANGED <<mem_map, op, mapFailed, protectFailed>>
          /\ mem_io_regions' = mem_io_regions
          /\ fatal' = fatal /\ none' = none /\ threads_mu' = threads_mu
          /\ suspended' = suspended /\ registered' = registered
          /\ calls' = calls /\ cv' = cv
      BY <1>7 DEF ThreadSpawn, ServiceSpawn
    <2>5. OtherTypes'
      BY <1>1, <2>4 DEF MapInv, OtherTypes
    <2>6. \A l \in {"page", "fill", "close"} : In(l)' <=> In(l)
      <3>1. ASSUME NEW c \in Thread, pc[c] = "unborn",
                   pc' = [pc EXCEPT ![a] = "return", ![c] = "launched"]
            PROVE  \A l \in {"page", "fill", "close"} : In(l)' <=> In(l)
        <4>1. /\ pc'[a] \in {"return", "launched"} /\ pc'[c] = "launched"
              /\ \A b \in Actor \ {a, c} : pc'[b] = pc[b]
          BY <3>1 DEF VmTypes, Actor
        <4>2. pc[a] = "spawn"
          BY <1>7 DEF ThreadSpawn, ServiceSpawn
        <4>3. QED
          BY <3>1, <4>1, <4>2 DEF In
      <3>2. ASSUME NEW label \in {"return", "stack"}, Goto(a, label)
            PROVE  \A l \in {"page", "fill", "close"} : In(l)' <=> In(l)
        BY <1>2, <1>7, <3>2 DEF ThreadSpawn, ServiceSpawn
      <3>3. QED
        BY <1>7, <3>1, <3>2 DEF ThreadSpawn, ServiceSpawn
    <2>7. QED
      BY <2>3, <2>4, <2>5, <2>6, QuietMapStep
  <1>8. QED
    BY <1>3, <1>4, <1>5, <1>6, <1>7
(* Only threads of the program are in system calls; the service threads and *)
(* those not yet started are not.                                           *)
LEMMA OnlyThreadsStep ==
  ASSUME VmTypes, OnlyThreads, [Next]_vars
  PROVE  OnlyThreads'
  <1>1. ASSUME NEW a \in Actor, NEW label, Goto(a, label), label # "launched"
        PROVE  OnlyThreads'
    BY <1>1 DEF Goto, VmTypes, OnlyThreads
  <1>2. ASSUME pc' = pc
        PROVE  OnlyThreads'
    BY <1>2 DEF OnlyThreads
  <1>3. ASSUME NEW a \in Actor, Work(a)
        PROVE  OnlyThreads'
    <2>1. CASE ThreadSpawn(a)
      <3>1. ASSUME NEW c \in Thread, pc[c] = "unborn",
                   pc' = [pc EXCEPT ![a] = "return", ![c] = "launched"]
            PROVE  OnlyThreads'
        BY <3>1 DEF VmTypes, OnlyThreads
      <3>2. QED
        BY <1>1, <2>1, <3>1 DEF ThreadSpawn
    <2>2. CASE ~ThreadSpawn(a)
      <3>1. \/ pc' = pc
            \/ \E label \in {"untrusted", "create", "spawn", "stack", "return",
                             "exit", "gone", "vm", "suspend", "check", "page",
                             "fill", "close", "mprotect", "io", "transfer"} :
                 Goto(a, label)
        BY <1>3, <2>2 DEF Work, WaitToStartThread, ServiceSpawn, AddThread,
           ThreadStackIsSafe, Return, ThreadTeardown, VmHoleOpening,
           SuspendAll, VmCheck, VmPage, VmPageFails, VmFill, VmFillFails,
           MapViewFails, ProtectViewFails, VmClose, SysMprotect,
           VmIoWillStart, Advance, Die
      <3>2. QED
        BY <1>1, <1>2, <3>1
    <2>3. QED
      BY <2>1, <2>2
  <1>4. ASSUME NEW a \in Actor,
               SystemCall(a) \/ VmIoHasEnded(a) \/ ServiceCall(a)
        PROVE  OnlyThreads'
    BY <1>1, <1>4 DEF SystemCall, VmIoHasEnded, ServiceCall
  <1>5. CASE UNCHANGED vars
    BY <1>2, <1>5 DEF vars
  <1>6. QED
    BY <1>3, <1>4, <1>5 DEF Next, Actor
-----------------------------------------------------------------------------
(* The pages of a memory call. *)

LEMMA CoversIsOverlap ==
  ASSUME NEW e, EntryOK(e), NEW p \in Int
  PROVE  Overlaps(e, p, 1) <=> Covers(e, p)
  BY EntryFields DEF Overlaps, Covers

(* Where the map tells of a view, and is right, there is one; and where it *)
(* tells of none there is memory that can be released.                     *)
LEMMA MapShowsViews ==
  ASSUME MapOK(mem_map), NEW p \in Page, PageOK(p), ~OffsetIsWrong
  PROVE  /\ IsView(mem_map, p) => host[p] = "view"
         /\ ~IsView(mem_map, p) => host[p] \in {"anon", "reserved"}
         /\ \A e \in mem_map : Overlaps(e, p, 1) /\ e.desc = "anon"
              => host[p] = "anon"
  <1>1. p \in Int
    BY VmAssumption DEF Page
  <1>2. ASSUME NEW e \in mem_map
        PROVE  /\ EntryOK(e) /\ Right(e) /\ e.desc \in {"anon", "file"}
               /\ Overlaps(e, p, 1) <=> Covers(e, p)
    <2>1. EntryOK(e) /\ Right(e)
      BY DEF MapOK, OffsetIsWrong, Right
    <2>2. e.desc \in {"anon", "file"}
      BY <2>1 DEF EntryOK, Entry
    <2>3. QED
      BY <1>1, <2>1, <2>2, CoversIsOverlap
  <1>3. \A e \in mem_map : Overlaps(e, p, 1) => host[p] = Shown(e, p)
    BY <1>2 DEF PageOK
  <1>4. (\A e \in mem_map : ~Overlaps(e, p, 1)) => host[p] = "reserved"
    BY <1>2 DEF PageOK
  <1>5. IsView(mem_map, p)
          <=> \E e \in mem_map : Overlaps(e, p, 1) /\ Shown(e, p) = "view"
    BY <1>2 DEF IsView, Shown
  <1>6. \A e \in mem_map : Shown(e, p) \in {"anon", "view", "reserved"}
    BY DEF Shown
  <1>7. \A e \in mem_map : e.desc = "anon" => Shown(e, p) = "anon"
    BY DEF Shown
  <1>8. QED
    BY <1>3, <1>4, <1>5, <1>6, <1>7

(* The page that the call has come to.                                     *)
LEMMA HereIsNext ==
  ASSUME HoleInv, MapInv, NEW a \in Actor, pc[a] \in {"page", "fill"}
  PROVE  /\ mu = a /\ op.kind # "none" /\ ~In("close")
         /\ In("page") <=> pc[a] = "page"
         /\ In("fill") <=> pc[a] = "fill"
         /\ here \in Page /\ here \in Int /\ ~Done(here)
         /\ here = op.first + op.at
         /\ here \in op.first .. op.first + op.n - 1
         /\ IsUnmapping <=> ~InFile(here)
         /\ {op.first, op.n, op.at, op.backed} \subseteq Nat
         /\ op.first + op.n <= NumPages /\ op.at < op.n
  <1>1. mu = a
    BY DEF HoleInv, LocksAreRight
  <1>2. \A b \in Actor \ {a} : pc[b] \notin {"page", "fill", "close"}
    BY <1>1 DEF HoleInv, LocksAreRight
  <1>3. /\ ~In("close")
        /\ In("page") <=> pc[a] = "page"
        /\ In("fill") <=> pc[a] = "fill"
    BY <1>2 DEF In
  <1>4. /\ op.kind # "none" /\ op.n > 0 /\ op.first + op.n <= NumPages
        /\ op.at < op.n /\ op.backed <= op.n
        /\ op.kind = "munmap" => op.backed = 0
        /\ op.first \in Nat /\ op.n \in Nat /\ op.backed \in Nat
        /\ op.at \in Nat
    BY <1>3 DEF MapInv, OpInv
  <1>5. NumPages \in Nat
    BY VmAssumption
  <1>6. QED
    BY <1>1, <1>3, <1>4, <1>5 DEF here, Page, Done, IsUnmapping, InFile

(* What HostMatches says of it.                                            *)
LEMMA HereMatches ==
  ASSUME HoleInv, MapInv, NEW a \in Actor, pc[a] \in {"page", "fill"},
         ~HostDescMapFailed
  PROVE  /\ pc[a] = "page" => PageOK(here)
         /\ pc[a] = "fill" => host[here] = "hole"
  BY HereIsNext DEF MapInv, HostMatches

(* Advancing a call changes nothing else of it.                             *)
LEMMA SameCall ==
  ASSUME NEW o \in [kind : {"none", "munmap", "anon", "file"}, first : Nat,
                    n : Nat, backed : Nat, at : Nat],
         NEW k \in Nat, NEW r, r = [o EXCEPT !.at = k]
  PROVE  [r EXCEPT !.at = 0] = [o EXCEPT !.at = 0]
  OBVIOUS

(* After a page is dealt with, the call is at the next one or closes.       *)
LEMMA AdvanceStep ==
  ASSUME HoleInv, MapInv, NEW a \in Actor, pc[a] \in {"page", "fill"},
         Advance(a)
  PROVE  /\ OpInv' /\ ~In("fill")' /\ op'.kind = op.kind
         /\ op'.first = op.first /\ op'.n = op.n /\ op'.backed = op.backed
         /\ \A p \in Page : /\ Done(p)' <=> Done(p) \/ p = here
                            /\ InFile(p)' <=> InFile(p)
  <1>1. /\ mu = a /\ op.kind # "none" /\ ~In("close")
        /\ here = op.first + op.at
        /\ op.first \in Nat /\ op.n \in Nat /\ op.backed \in Nat
        /\ op.at \in Nat
        /\ op.first + op.n <= NumPages /\ op.at < op.n
        /\ NumPages \in Nat
    BY HereIsNext, VmAssumption
  <1>2. OpInv
    BY DEF MapInv
  <1>3. CASE op.at + 1 < op.n
    <2>1. op' = [op EXCEPT !.at = @ + 1] /\ Goto(a, "page")
      BY <1>3 DEF Advance
    <2>2. \A l \in {"page", "fill", "close"} : In(l)' <=> "page" = l
      BY <1>1, <2>1, GotoIn DEF HoleInv
    <2>3. /\ op' \in [kind : {"none", "munmap", "anon", "file"}, first : Nat,
                      n : Nat, backed : Nat, at : Nat]
          /\ op'.kind = op.kind /\ op'.first = op.first /\ op'.n = op.n
          /\ op'.backed = op.backed /\ op'.at = op.at + 1
      BY <1>1, <1>2, <2>1 DEF OpInv
    <2>3a. [op' EXCEPT !.at = 0] = [op EXCEPT !.at = 0]
      <3>1. op.at + 1 \in Nat /\ op' = [op EXCEPT !.at = op.at + 1]
        BY <1>1, <2>1
      <3>2. QED
        BY <1>2, <3>1, SameCall DEF OpInv
    <2>4. OpInv'
      BY <1>1, <1>2, <1>3, <2>2, <2>3, <2>3a DEF OpInv
    <2>5. here' = here + 1
      BY <1>1, <2>3 DEF here
    <2>6. ASSUME NEW p \in Page
          PROVE  /\ Done(p)' <=> Done(p) \/ p = here
                 /\ InFile(p)' <=> InFile(p)
      BY <1>1, <1>3, <2>2, <2>3, <2>5 DEF Done, InFile, Page
    <2>7. QED
      BY <2>2, <2>3, <2>4, <2>6
  <1>4. CASE ~(op.at + 1 < op.n)
    <2>1. op' = op /\ Goto(a, "close")
      BY <1>4 DEF Advance
    <2>2. \A l \in {"page", "fill", "close"} : In(l)' <=> "close" = l
      BY <1>1, <2>1, GotoIn DEF HoleInv
    <2>3. OpInv'
      BY <1>1, <1>2, <2>1, <2>2 DEF OpInv
    <2>4. here = op.first + op.n - 1 /\ here' = here
      BY <1>1, <1>4, <2>1 DEF here
    <2>5. ASSUME NEW p \in Page
          PROVE  /\ Done(p)' <=> Done(p) \/ p = here
                 /\ InFile(p)' <=> InFile(p)
      BY <1>1, <2>1, <2>2, <2>4 DEF Done, InFile, Page
    <2>6. QED
      BY <2>1, <2>2, <2>3, <2>5
  <1>5. QED
    BY <1>3, <1>4

(* What follows a map that agrees agrees.                                  *)
LEMMA FollowsKeeps ==
  ASSUME NEW p \in Page, Follows(mem_map', mem_map, p), host'[p] = host[p]
  PROVE  /\ PageOK(p) => PageOK(p)'
         /\ (\A e \in mem_map : ~Covers(e, p))
              => (\A e \in mem_map' : ~Covers(e, p))
  BY DEF Follows, PageOK, Covers, Right, Shown, End

(* One page is done, and the call goes on.                                 *)
LEMMA NextPage ==
  ASSUME HoleInv, MapInv, NEW a \in Actor, pc[a] \in {"page", "fill"},
         Advance(a), OtherTypes', MapOK(mem_map)',
         UNCHANGED <<mapFailed, protectFailed, mem_io_regions, fatal>>,
         fatal = "no",
         \A p \in Page \ {here} :
           host'[p] = host[p] /\ Follows(mem_map', mem_map, p),
         ~HostDescMapFailed /\ InFile(here) =>
           host'[here] = IF op.kind = "anon" THEN "anon" ELSE "view",
         ~HostDescMapFailed /\ ~InFile(here) =>
           host'[here] = "reserved" /\ \A e \in mem_map' : ~Covers(e, here)
  PROVE  MapInv'
  <1>1. /\ OpInv' /\ ~In("fill")' /\ op'.kind = op.kind
        /\ op'.first = op.first /\ op'.n = op.n /\ op'.backed = op.backed
        /\ \A p \in Page : /\ Done(p)' <=> Done(p) \/ p = here
                           /\ InFile(p)' <=> InFile(p)
    BY AdvanceStep
  <1>2. here \in Page /\ ~Done(here)
    BY HereIsNext
  <1>3. HostMatches'
    <2>1. SUFFICES ASSUME ~HostDescMapFailed, NEW p \in Page
                   PROVE  IF (Done(p) /\ InFile(p))'
                          THEN host'[p] = IF op.kind = "anon" THEN "anon"
                                          ELSE "view"
                          ELSE /\ PageOK(p)'
                               /\ Done(p)' => \A e \in mem_map' : ~Covers(e, p)
      BY <1>1 DEF HostMatches, Covers, End
    <2>2. CASE p = here
      <3>1. CASE InFile(p)
        BY <1>1, <2>1, <2>2, <3>1
      <3>2. CASE ~InFile(p)
        BY <1>1, <2>1, <2>2, <3>2 DEF PageOK, Covers, End
      <3>3. QED
        BY <3>1, <3>2
    <2>3. CASE p # here
      <3>1. host'[p] = host[p] /\ Follows(mem_map', mem_map, p)
        BY <2>3
      <3>2. /\ PageOK(p) => PageOK(p)'
            /\ (\A e \in mem_map : ~Covers(e, p))
                 => (\A e \in mem_map' : ~Covers(e, p))
        BY <3>1, FollowsKeeps
      <3>3. IF Done(p) /\ InFile(p)
            THEN host[p] = IF op.kind = "anon" THEN "anon" ELSE "view"
            ELSE /\ PageOK(p)
                 /\ Done(p) => \A e \in mem_map : ~Covers(e, p)
        BY <2>1, <2>3 DEF MapInv, HostMatches
      <3>4. QED
        BY <1>1, <2>3, <3>1, <3>2, <3>3
    <2>4. QED
      BY <2>2, <2>3
  <1>4. IoIsApart'
    <2>1. \A t \in Thread : mem_io_regions[t] \cap CheckedPages(op) = {}
      BY HereIsNext DEF MapInv, IoIsApart
    <2>2. CheckedPages(op)' = CheckedPages(op)
      BY <1>1 DEF CheckedPages
    <2>3. QED
      BY <2>1, <2>2 DEF IoIsApart
  <1>5. MapIsTrusted'
    BY DEF MapIsTrusted
  <1>6. QED
    BY <1>1, <1>3, <1>4, <1>5 DEF MapInv

(* A page becomes a hole.                                                  *)
LEMMA OpenHole ==
  ASSUME HoleInv, MapInv, NEW a \in Actor, pc[a] = "page", Goto(a, "fill"),
         op' = op, mem_map' = mem_map, host' = [host EXCEPT ![here] = "hole"],
         OtherTypes', fatal = "no",
         UNCHANGED <<mapFailed, protectFailed, mem_io_regions, fatal>>
  PROVE  MapInv'
  <1>1. /\ mu = a /\ op.kind # "none" /\ ~In("close") /\ here \in Page
        /\ ~Done(here) /\ In("page") /\ ~In("fill")
    BY HereIsNext
  <1>2. In("fill")' /\ ~In("page")' /\ ~In("close")'
    BY <1>1, GotoIn DEF HoleInv
  <1>3. OpInv'
    BY <1>1, <1>2 DEF MapInv, OpInv
  <1>4. here' = here /\ host'[here] = "hole"
        /\ \A p \in Page \ {here} : host'[p] = host[p]
    BY <1>1 DEF here, HoleInv, VmTypes
  <1>5. \A p \in Page : (Done(p)' <=> Done(p)) /\ (InFile(p)' <=> InFile(p))
    BY <1>1, <1>2, <1>4 DEF Done, InFile
  <1>6. HostMatches'
    <2>1. SUFFICES ASSUME ~HostDescMapFailed, NEW p \in Page
                   PROVE  IF Done(p) /\ InFile(p)
                          THEN host'[p] = IF op.kind = "anon" THEN "anon"
                                          ELSE "view"
                          ELSE IF p = here THEN host'[p] = "hole"
                          ELSE /\ PageOK(p)'
                               /\ Done(p) => \A e \in mem_map : ~Covers(e, p)
      BY <1>2, <1>4, <1>5 DEF HostMatches
    <2>2. CASE p = here
      BY <1>1, <1>4, <2>2
    <2>3. CASE p # here
      <3>1. PageOK(p)' <=> PageOK(p)
        BY <1>4, <2>3 DEF PageOK
      <3>2. QED
        BY <1>1, <1>4, <2>1, <2>3, <3>1 DEF MapInv, HostMatches
    <2>4. QED
      BY <2>2, <2>3
  <1>7. IoIsApart'
    BY <1>1 DEF MapInv, IoIsApart
  <1>8. MapOK(mem_map)' /\ MapIsTrusted'
    BY DEF MapInv, MapOK, MapIsTrusted
  <1>9. QED
    BY <1>3, <1>6, <1>7, <1>8 DEF MapInv
-----------------------------------------------------------------------------
(* The steps of a memory call. *)

(* The process dies, for a reason that is right.                           *)
LEMMA DieStep ==
  ASSUME MapInv, NEW why \in {"io_race", "unmap", "fill"}, Die(why),
         why # "io_race" => HostDescMapFailed \/ OffsetIsWrong
  PROVE  MapInv'
  <1>1. /\ UNCHANGED <<lockVars, pc, registered, suspended, spaceVars,
                       mem_io_regions, calls, historyVars>>
        /\ fatal' = why
    BY DEF Die
  <1>2. OtherTypes'
    BY <1>1 DEF lockVars, spaceVars, historyVars, MapInv, OtherTypes
  <1>3. MapOK(mem_map)' /\ OpInv' /\ HostMatches' /\ IoIsApart'
    BY <1>1 DEF spaceVars, historyVars, MapInv, MapOK, OpInv, HostMatches,
       IoIsApart, In, Done, InFile, PageOK, here
  <1>4. MapIsTrusted'
    BY <1>1 DEF spaceVars, historyVars, MapIsTrusted, OffsetIsWrong
  <1>5. QED
    BY <1>2, <1>3, <1>4 DEF MapInv

(* The checks of a memory call, and its change of the map.                  *)
LEMMA VmCheckStep ==
  ASSUME HoleInv, MapInv, NEW a \in Actor, fatal = "no", VmCheck(a)
  PROVE  MapInv'
  <1>1. pc[a] = "check" /\ mu = a
    BY DEF VmCheck, HoleInv, LocksAreRight
  <1>2. ~In("page") /\ ~In("fill") /\ ~In("close")
    BY <1>1 DEF HoleInv, LocksAreRight, In
  <1>3. op = NoOp /\ op.kind = "none"
    BY <1>2 DEF MapInv, OpInv, NoOp
  <1>4. ~HostDescMapFailed => \A p \in Page : PageOK(p)
    BY <1>2, <1>3 DEF MapInv, HostMatches, Done
  <1>5. CASE Goto(a, "close") /\ UNCHANGED <<lockVars, registered, suspended,
               spaceVars, mem_io_regions, fatal, calls, historyVars>>
    <2>1. ~In("page")' /\ ~In("fill")'
      BY <1>1, <1>5, GotoIn DEF HoleInv
    <2>2. /\ mem_map' = mem_map /\ host' = host /\ op' = op
          /\ UNCHANGED <<mapFailed, protectFailed>>
      BY <1>5 DEF spaceVars, historyVars
    <2>3. OtherTypes'
      BY <1>5 DEF lockVars, spaceVars, MapInv, OtherTypes
    <2>4. OpInv' /\ IoIsApart'
      BY <1>3, <2>1, <2>2 DEF MapInv, OpInv, IoIsApart
    <2>5. HostMatches'
      BY <1>3, <1>4, <2>1, <2>2 DEF HostMatches, Done, PageOK
    <2>6. MapOK(mem_map)' /\ MapIsTrusted'
      BY <1>5, <2>2 DEF MapInv, MapOK, MapIsTrusted
    <2>7. QED
      BY <2>3, <2>4, <2>5, <2>6 DEF MapInv
  <1>6. ASSUME Die("io_race")
        PROVE  MapInv'
    BY <1>6, DieStep
  <1>7. ASSUME NEW o \in Op, ~MustFindIo(o),
               op' = o, Goto(a, "page"),
               UNCHANGED <<lockVars, registered, suspended, mem_map, host,
                           none, mem_io_regions, fatal, calls, historyVars>>
        PROVE  MapInv'
    <2>1. In("page")' /\ ~In("fill")' /\ ~In("close")'
      BY <1>1, <1>7, GotoIn DEF HoleInv
    <2>2. NumPages \in Nat
      BY VmAssumption
    <2>3. PICK x \in Extent, kind \in {"munmap", "anon", "file"}, b \in Nat :
            /\ o = Call(kind, x, b) /\ b <= x[2]
            /\ kind = "munmap" => b = 0
            /\ kind = "anon" => b = x[2]
      BY <2>2 DEF Op, Extent
    <2>4. /\ x[1] \in Nat /\ x[2] \in Nat /\ x[2] > 0
          /\ x[1] + x[2] <= NumPages
      BY <2>2 DEF Extent, Page
    <2>5. /\ o \in [kind : {"none", "munmap", "anon", "file"}, first : Nat,
                    n : Nat, backed : Nat, at : Nat]
          /\ o.kind = kind /\ o.first = x[1] /\ o.n = x[2] /\ o.backed = b
          /\ o.at = 0 /\ b <= x[2]
      BY <2>3, <2>4 DEF Call
    <2>6. [o EXCEPT !.at = 0] = o
      BY <2>5
    <2>7. OpInv'
      BY <1>7, <2>1, <2>3, <2>4, <2>5, <2>6 DEF OpInv
    <2>8. here' = o.first
      BY <1>7, <2>4, <2>5 DEF here
    <2>9. \A p \in Page : ~Done(p)'
      BY <1>7, <2>1, <2>4, <2>5, <2>8 DEF Done, Page
    <2>10. HostMatches'
      BY <1>4, <1>7, <2>1, <2>9 DEF HostMatches, PageOK, historyVars
    <2>11. IoIsApart'
      <3>1. CASE CheckedPages(o) = {}
        BY <1>7, <3>1 DEF IoIsApart, CheckedPages
      <3>2. CASE CheckedPages(o) # {}
        <4>1. ~IoIsPending(CheckedPages(o))
          BY <1>7, <3>2 DEF MustFindIo
        <4>2. QED
          BY <1>7, <4>1 DEF IoIsApart, IoIsPending, CheckedPages
      <3>3. QED
        BY <3>1, <3>2
    <2>12. OtherTypes' /\ MapOK(mem_map)' /\ MapIsTrusted'
      BY <1>7 DEF MapInv, OtherTypes, MapOK, MapIsTrusted, lockVars,
         historyVars
    <2>13. QED
      BY <2>7, <2>10, <2>11, <2>12 DEF MapInv
  <1>8. QED
    BY <1>5, <1>6, <1>7 DEF VmCheck

(* The host refuses to unmap a page: a fatal error, for which MapIsTrusted  *)
(* needs its excuse.                                                        *)
LEMMA VmPageFailsStep ==
  ASSUME HoleInv, MapInv, NEW a \in Actor, fatal = "no", VmPageFails(a)
  PROVE  MapInv'
  <1>1. pc[a] = "page" /\ Die("unmap")
    BY DEF VmPageFails
  <1>2. HostDescMapFailed \/ OffsetIsWrong
    <2>1. SUFFICES ASSUME ~HostDescMapFailed, ~OffsetIsWrong PROVE FALSE
      OBVIOUS
    <2>2. here \in Page /\ PageOK(here) /\ MapOK(mem_map)
      BY <1>1, <2>1, HereIsNext, HereMatches DEF MapInv
    <2>3. /\ IsView(mem_map, here) => host[here] = "view"
          /\ ~IsView(mem_map, here) => host[here] \in {"anon", "reserved"}
      BY <2>1, <2>2, MapShowsViews
    <2>4. QED
      BY <2>3 DEF VmPageFails
  <1>3. QED
    BY <1>1, <1>2, DieStep

(* Somebody has taken the page before it is filled: the same.               *)
LEMMA VmFillFailsStep ==
  ASSUME HoleInv, MapInv, NEW a \in Actor, fatal = "no", VmFillFails(a)
  PROVE  MapInv'
  <1>1. pc[a] = "fill" /\ host[here] # "hole" /\ Die("fill")
    BY DEF VmFillFails
  <1>2. HostDescMapFailed
    BY <1>1, HereMatches
  <1>3. QED
    BY <1>1, <1>2, DieStep

(* Unmapping a page forgets it and nothing else.                           *)
LEMMA ForgetHere ==
  ASSUME HoleInv, MapInv, here \in Page, Forget
  PROVE  /\ MapOK(mem_map)'
         /\ \A p \in Page \ {here} : Follows(mem_map', mem_map, p)
         /\ \A e \in mem_map' : ~Covers(e, here)
  <1>1. PICK h : h = here
    OBVIOUS
  <1>2. h \in Nat /\ mem_map' = VmmapUpdate(mem_map, h, 1, {})
    BY <1>1, VmAssumption DEF Forget, Page
  <1>3. /\ MapOK(VmmapUpdate(mem_map, h, 1, {}))
        /\ \A p \in Int : p < h \/ h + 1 <= p
             => Follows(VmmapUpdate(mem_map, h, 1, {}), mem_map, p)
        /\ \A p \in h .. h + 1 - 1 :
             \A m \in VmmapUpdate(mem_map, h, 1, {}) : ~Covers(m, p)
    <2>1. MapOK(mem_map) /\ 1 \in Nat /\ 1 > 0
      BY DEF MapInv
    <2>2. PICK none_new : none_new = {}
      OBVIOUS
    <2>3. /\ MapOK(VmmapUpdate(mem_map, h, 1, none_new))
          /\ \A p \in Int : p < h \/ h + 1 <= p
               => Follows(VmmapUpdate(mem_map, h, 1, none_new), mem_map, p)
          /\ \A p \in h .. h + 1 - 1 :
               \A m \in VmmapUpdate(mem_map, h, 1, none_new) :
                 Covers(m, p) => m \in none_new
      BY <1>2, <2>1, <2>2, UpdateMap
    <2>4. QED
      BY <2>2, <2>3
  <1>4. MapOK(mem_map)'
    BY <1>2, <1>3 DEF MapOK
  <1>5. \A p \in Page \ {h} : p \in Int /\ (p < h \/ h + 1 <= p)
    BY <1>2, VmAssumption DEF Page
  <1>6. \A e \in mem_map' : ~Covers(e, h)
    BY <1>2, <1>3
  <1>7. QED
    BY <1>1, <1>2, <1>3, <1>4, <1>5, <1>6

(* A page is unmapped or replaced by anonymous memory.                      *)
LEMMA VmPageStep ==
  ASSUME HoleInv, MapInv, NEW a \in Actor, fatal = "no", VmPage(a)
  PROVE  MapInv'
  <1>1. /\ pc[a] = "page"
        /\ UNCHANGED <<lockVars, registered, suspended, mem_io_regions, fatal,
                       calls, historyVars>>
    BY DEF VmPage
  <1>2. /\ here \in Page /\ (IsUnmapping <=> ~InFile(here)) /\ here \in Int
    BY <1>1, HereIsNext
  <1>3. /\ UNCHANGED <<mapFailed, protectFailed, mem_io_regions, fatal>>
    BY <1>1 DEF historyVars
  <1>4. OtherTypes'
    <2>1. none' \subseteq none
      BY DEF VmPage, SetHere
    <2>2. QED
      BY <1>1, <2>1 DEF lockVars, MapInv, OtherTypes
  <1>5. MapOK(mem_map)
    BY DEF MapInv
  <1>6. \A p \in Page : mem_map' = mem_map => Follows(mem_map', mem_map, p)
    BY DEF Follows
  <1>7. ASSUME NEW what, SetHere(what)
        PROVE  host'[here] = what /\ \A p \in Page \ {here} : host'[p] = host[p]
    BY <1>2, <1>7 DEF SetHere, HoleInv, VmTypes
  <1>8. CASE IsUnmapping /\ ~IsMapped(mem_map, here)
    <2>1. Advance(a) /\ mem_map' = mem_map /\ host' = host
      BY <1>8 DEF VmPage
    <2>2. \A e \in mem_map : ~Covers(e, here)
      BY <1>2, <1>5, <1>8, CoversIsOverlap DEF IsMapped, MapOK
    <2>3. ~HostDescMapFailed => host[here] = "reserved"
      BY <1>1, <2>2, HereMatches DEF PageOK
    <2>4. MapOK(mem_map)' /\ \A e \in mem_map' : ~Covers(e, here)
      BY <1>5, <2>1, <2>2 DEF MapOK
    <2>5. QED
      BY <1>1, <1>2, <1>3, <1>4, <1>6, <1>8, <2>1, <2>3, <2>4, NextPage
  <1>9. CASE SetHere("hole") /\ Goto(a, "fill") /\ UNCHANGED <<mem_map, op>>
    <2>1. host' = [host EXCEPT ![here] = "hole"]
      BY <1>9 DEF SetHere
    <2>2. QED
      BY <1>1, <1>3, <1>4, <1>9, <2>1, OpenHole
  <1>10. CASE IsUnmapping /\ SetHere("reserved") /\ Forget /\ Advance(a)
    <2>1. /\ host'[here] = "reserved"
          /\ \A p \in Page \ {here} : host'[p] = host[p]
      BY <1>7, <1>10
    <2>2. /\ MapOK(mem_map)'
          /\ \A p \in Page \ {here} : Follows(mem_map', mem_map, p)
          /\ \A e \in mem_map' : ~Covers(e, here)
      BY <1>2, <1>10, ForgetHere
    <2>3. QED
      BY <1>1, <1>2, <1>3, <1>4, <1>10, <2>1, <2>2, NextPage
  <1>11. QED
    BY <1>8, <1>9, <1>10 DEF VmPage

(* A page that was unmapped is filled with the view of a file.              *)
LEMMA VmFillStep ==
  ASSUME HoleInv, MapInv, NEW a \in Actor, fatal = "no", VmFill(a)
  PROVE  MapInv'
  <1>1. /\ pc[a] = "fill" /\ Advance(a)
        /\ UNCHANGED <<lockVars, registered, suspended, mem_io_regions, fatal,
                       calls, historyVars>>
    BY DEF VmFill
  <1>2. here \in Page /\ (IsUnmapping <=> ~InFile(here))
    BY <1>1, HereIsNext
  <1>3. UNCHANGED <<mapFailed, protectFailed, mem_io_regions, fatal>>
    BY <1>1 DEF historyVars
  <1>4. OtherTypes'
    <2>1. none' \subseteq none
      BY DEF VmFill, SetHere
    <2>2. QED
      BY <1>1, <2>1 DEF lockVars, MapInv, OtherTypes
  <1>5. ASSUME NEW what, SetHere(what)
        PROVE  host'[here] = what /\ \A p \in Page \ {here} : host'[p] = host[p]
    BY <1>2, <1>5 DEF SetHere, HoleInv, VmTypes
  <1>6. CASE IsUnmapping
    <2>1. SetHere("reserved") /\ Forget
      BY <1>6 DEF VmFill
    <2>2. /\ host'[here] = "reserved"
          /\ \A p \in Page \ {here} : host'[p] = host[p]
      BY <1>5, <2>1
    <2>3. /\ MapOK(mem_map)'
          /\ \A p \in Page \ {here} : Follows(mem_map', mem_map, p)
          /\ \A e \in mem_map' : ~Covers(e, here)
      BY <1>2, <2>1, ForgetHere
    <2>4. QED
      BY <1>1, <1>2, <1>3, <1>4, <1>6, <2>2, <2>3, NextPage
  <1>7. CASE ~IsUnmapping
    <2>1. /\ SetHere(IF op.kind = "anon" THEN "anon" ELSE "view")
          /\ mem_map' = mem_map
      BY <1>7 DEF VmFill
    <2>2. /\ host'[here] = IF op.kind = "anon" THEN "anon" ELSE "view"
          /\ \A p \in Page \ {here} : host'[p] = host[p]
      BY <1>5, <2>1
    <2>3. /\ MapOK(mem_map)'
          /\ \A p \in Page \ {here} : Follows(mem_map', mem_map, p)
      BY <2>1 DEF MapInv, MapOK, Follows
    <2>4. QED
      BY <1>1, <1>2, <1>3, <1>4, <1>7, <2>2, <2>3, NextPage
  <1>8. QED
    BY <1>6, <1>7
(* MapViewOfFileEx fails: the page stays open.                              *)
LEMMA MapViewFailsStep ==
  ASSUME HoleInv, MapInv, NEW a \in Actor, fatal = "no", MapViewFails(a)
  PROVE  MapInv'
  <1>1. /\ pc[a] = "fill" /\ op' = NoOp /\ mapFailed' = TRUE
        /\ Goto(a, "close") /\ mem_map' = mem_map /\ none' = none
        /\ UNCHANGED <<lockVars, registered, suspended, mem_io_regions, fatal,
                       calls>>
    BY DEF MapViewFails
  <1>2. ~In("page")' /\ ~In("fill")'
    BY <1>1, HereIsNext, GotoIn DEF HoleInv
  <1>3. OtherTypes'
    BY <1>1 DEF lockVars, MapInv, OtherTypes
  <1>4. OpInv' /\ IoIsApart'
    BY <1>1, <1>2 DEF OpInv, IoIsApart, NoOp
  <1>5. MapOK(mem_map)' /\ HostMatches' /\ MapIsTrusted'
    BY <1>1 DEF MapInv, MapOK, HostMatches, MapIsTrusted
  <1>6. QED
    BY <1>3, <1>4, <1>5 DEF MapInv

(* VirtualProtect fails: the view stays, and the map does not know of it.   *)
LEMMA ProtectViewFailsStep ==
  ASSUME HoleInv, MapInv, NEW a \in Actor, fatal = "no", ProtectViewFails(a)
  PROVE  MapInv'
  <1>1. /\ pc[a] = "fill" /\ op' = NoOp /\ protectFailed' = TRUE
        /\ Goto(a, "close") /\ mem_map' = mem_map /\ none' \subseteq none
        /\ UNCHANGED <<lockVars, registered, suspended, mem_io_regions, fatal,
                       calls>>
    BY DEF ProtectViewFails, SetHere
  <1>2. ~In("page")' /\ ~In("fill")'
    BY <1>1, HereIsNext, GotoIn DEF HoleInv
  <1>3. OtherTypes'
    BY <1>1 DEF lockVars, MapInv, OtherTypes
  <1>4. OpInv' /\ IoIsApart'
    BY <1>1, <1>2 DEF OpInv, IoIsApart, NoOp
  <1>5. MapOK(mem_map)' /\ HostMatches' /\ MapIsTrusted'
    BY <1>1 DEF MapInv, MapOK, HostMatches, MapIsTrusted
  <1>6. QED
    BY <1>3, <1>4, <1>5 DEF MapInv

(* The entry of a new mapping says what the call has put there.            *)
LEMMA NewEntryOK ==
  ASSUME OpInv, op.kind \in {"anon", "file"}
  PROVE  \E w : /\ NewEntries = {w} /\ EntryOK(w) /\ w.page = op.first
                /\ w.n = op.n
                /\ \A p \in Int : op.first <= p =>
                     Shown(w, p) = IF op.kind = "anon" THEN "anon"
                                   ELSE IF InFile(p) THEN "view"
                                   ELSE "reserved"
  <1> DEFINE w == [page |-> op.first, n |-> op.n, desc |-> op.kind,
                   offset |-> 0, size |-> op.backed * MapBytes]
  <1>1. NewEntries = {w}
    BY DEF NewEntries
  <1>2. /\ NumPages \in Nat /\ MapBytes \in Nat /\ MapBytes > 0
    BY VmAssumption
  <1>3. /\ op.first \in Nat /\ op.n \in Nat /\ op.backed \in Nat
        /\ op.n > 0 /\ op.first + op.n <= NumPages /\ op.backed <= op.n
    BY DEF OpInv
  <1>4. op.backed * MapBytes \in 0 .. NumPages * MapBytes
    <2>1. op.backed * MapBytes <= NumPages * MapBytes
      BY <1>2, <1>3, MulOrder
    <2>2. op.backed * MapBytes \in Nat /\ NumPages * MapBytes \in Nat
      BY <1>2, <1>3
    <2>3. QED
      BY <2>1, <2>2
  <1>5. 0 % MapBytes = 0 /\ 0 \div MapBytes = 0
    <2>1. 0 = 0 * MapBytes + 0 /\ 0 \in 0 .. MapBytes - 1
      BY <1>2
    <2>2. QED
      BY <1>2, <2>1, DivModUnique
  <1>6. EntryOK(w)
    <2>1. w \in Entry
      BY <1>2, <1>3, <1>4 DEF Entry, Page
    <2>2. QED
      BY <1>3, <1>5, <2>1 DEF EntryOK
  <1>7. ASSUME NEW p \in Int, op.first <= p
        PROVE  Shown(w, p) = IF op.kind = "anon" THEN "anon"
                             ELSE IF InFile(p) THEN "view" ELSE "reserved"
    <2>1. PICK k \in Nat : k = p - op.first
      BY <1>3, <1>7
    <2>2. k * MapBytes < op.backed * MapBytes <=> k < op.backed
      <3>1. k * MapBytes \in Nat /\ op.backed * MapBytes \in Nat
        BY <1>2, <1>3
      <3>2. CASE k < op.backed
        <4>1. (k + 1) * MapBytes <= op.backed * MapBytes
          BY <1>2, <1>3, <3>2, MulOrder
        <4>2. (k + 1) * MapBytes = k * MapBytes + MapBytes
          BY <1>2
        <4>3. QED
          BY <1>2, <3>1, <3>2, <4>1, <4>2
      <3>3. CASE op.backed <= k
        <4>1. op.backed * MapBytes <= k * MapBytes
          BY <1>2, <1>3, <3>3, MulOrder
        <4>2. QED
          BY <1>3, <3>1, <3>3, <4>1
      <3>4. QED
        BY <1>3, <3>2, <3>3
    <2>3. InFile(p) <=> k < op.backed
      BY <1>3, <2>1 DEF InFile
    <2>4. w.offset + (p - w.page) * MapBytes = k * MapBytes
      <3>1. k * MapBytes \in Nat
        BY <1>2
      <3>2. QED
        BY <2>1, <3>1
    <2>5. QED
      BY <2>2, <2>3, <2>4 DEF Shown
  <1>8. QED
    <2> HIDE DEF w
    <2>1. w.page = op.first /\ w.n = op.n
      BY DEF w
    <2>2. QED
      BY <1>1, <1>6, <1>7, <2>1

(* A call ends: its entry takes the place of the old ones.                  *)
LEMMA VmCloseStep ==
  ASSUME HoleInv, MapInv, NEW a \in Actor, fatal = "no", VmClose(a)
  PROVE  MapInv'
  <1>1. /\ pc[a] = "close" /\ mu = a /\ Goto(a, "return") /\ op' = NoOp
        /\ suspended' = {} /\ cv' = {} /\ host' = host /\ none' = none
        /\ registered' = registered /\ mem_io_regions' = mem_io_regions
        /\ UNCHANGED <<fatal, calls, mapFailed, protectFailed>>
    BY DEF VmClose, HoleInv, LocksAreRight, historyVars
  <1>2. /\ ~In("page") /\ ~In("fill") /\ In("close")
        /\ ~In("page")' /\ ~In("fill")'
    BY <1>1, GotoIn DEF HoleInv
  <1>3. OpInv
    BY DEF MapInv
  <1>4. OtherTypes'
    BY <1>1 DEF MapInv, OtherTypes
  <1>5. OpInv' /\ IoIsApart' /\ MapIsTrusted'
    BY <1>1, <1>2 DEF OpInv, IoIsApart, NoOp, MapIsTrusted
  <1>6. ASSUME ~HostDescMapFailed, NEW p \in Page
        PROVE  IF Done(p) /\ InFile(p)
               THEN host[p] = IF op.kind = "anon" THEN "anon" ELSE "view"
               ELSE PageOK(p) /\ (Done(p) => \A e \in mem_map : ~Covers(e, p))
    BY <1>2, <1>6 DEF MapInv, HostMatches
  <1>7. \A p \in Page : Done(p) <=> /\ op.kind # "none" /\ op.first <= p
                                    /\ p < op.first + op.n
    BY <1>2 DEF Done
  <1>8. /\ MapOK(mem_map)'
        /\ ~HostDescMapFailed => \A p \in Page : PageOK(p)'
    <2>1. CASE op.kind \notin {"anon", "file"}
      <3>1. mem_map' = mem_map
        BY <2>1 DEF VmClose, NewEntries
      <3>2. ASSUME ~HostDescMapFailed, NEW p \in Page
            PROVE  PageOK(p)
        <4>1. ~(Done(p) /\ InFile(p))
          BY <1>3, <1>7, <2>1, VmAssumption DEF OpInv, InFile, Page
        <4>2. QED
          BY <1>6, <3>2, <4>1
      <3>3. QED
        BY <1>1, <3>1, <3>2 DEF MapInv, MapOK, PageOK
    <2>2. CASE op.kind \in {"anon", "file"}
      <3>1. PICK w : /\ NewEntries = {w} /\ EntryOK(w) /\ w.page = op.first
                     /\ w.n = op.n
                     /\ \A p \in Int : op.first <= p =>
                          Shown(w, p) = IF op.kind = "anon" THEN "anon"
                                        ELSE IF InFile(p) THEN "view"
                                        ELSE "reserved"
        BY <1>3, <2>2, NewEntryOK
      <3>2. PICK M, new : M = mem_map /\ new = NewEntries
        OBVIOUS
      <3>3. PICK f \in Nat, n \in Nat : f = op.first /\ n = op.n /\ n > 0
        BY <1>3, <2>2 DEF OpInv
      <3>4. mem_map' = VmmapUpdate(M, f, n, new)
        BY <3>1, <3>2, <3>3 DEF VmClose
      <3>5. /\ MapOK(VmmapUpdate(M, f, n, new))
            /\ \A p \in Int : p < f \/ f + n <= p
                 => Follows(VmmapUpdate(M, f, n, new), M, p)
            /\ \A p \in f .. f + n - 1 :
                 \A m \in VmmapUpdate(M, f, n, new) : Covers(m, p) => m \in new
            /\ new \subseteq VmmapUpdate(M, f, n, new)
        <4>1. MapOK(M)
          BY <3>2 DEF MapInv
        <4>2. new = {w} /\ EntryOK(w) /\ w.page = f /\ w.n = n
          BY <3>1, <3>2, <3>3
        <4>3. QED
          BY <3>3, <4>1, <4>2, UpdateMap
      <3>6. ASSUME ~HostDescMapFailed, NEW p \in Page
            PROVE  PageOK(p)'
        <4>1. p \in Int
          BY VmAssumption DEF Page
        <4>2. CASE p < f \/ f + n <= p
          <5>1. Follows(mem_map', mem_map, p) /\ host'[p] = host[p]
            BY <1>1, <3>2, <3>4, <3>5, <4>1, <4>2
          <5>2. PageOK(p)
            BY <1>6, <1>7, <3>3, <3>6, <4>1, <4>2
          <5>3. QED
            BY <5>1, <5>2, FollowsKeeps
        <4>3. CASE f <= p /\ p < f + n
          <5>1. p \in f .. f + n - 1
            BY <4>1, <4>3
          <5>2. w \in mem_map' /\ \A m \in mem_map' : Covers(m, p) => m = w
            BY <3>1, <3>2, <3>3, <3>4, <3>5, <5>1
          <5>3. Covers(w, p)
            BY <3>1, <3>3, <4>3 DEF Covers, End
          <5>4. host[p] = Shown(w, p)
            <6>1. Done(p)
              BY <1>7, <2>2, <3>3, <4>3
            <6>2. Shown(w, p) = IF op.kind = "anon" THEN "anon"
                                ELSE IF InFile(p) THEN "view" ELSE "reserved"
              BY <3>1, <3>3, <4>1, <4>3
            <6>3. CASE InFile(p)
              BY <1>6, <2>2, <3>6, <6>1, <6>2, <6>3
            <6>4. CASE ~InFile(p)
              <7>1. PageOK(p) /\ \A e \in mem_map : ~Covers(e, p)
                BY <1>6, <3>6, <6>1, <6>4
              <7>2. op.kind # "anon"
                BY <1>3, <3>3, <4>1, <4>3, <6>4 DEF OpInv, InFile
              <7>3. QED
                BY <2>2, <6>2, <6>4, <7>1, <7>2 DEF PageOK
            <6>5. QED
              BY <6>3, <6>4
          <5>5. QED
            BY <1>1, <5>2, <5>3, <5>4 DEF PageOK, Covers, Shown, End, Right
        <4>4. QED
          BY <3>3, <4>1, <4>2, <4>3
      <3>7. QED
        BY <3>4, <3>5, <3>6 DEF MapOK
    <2>3. QED
      BY <2>1, <2>2
  <1>9. HostMatches'
    BY <1>1, <1>2, <1>8 DEF HostMatches, Done, NoOp
  <1>10. QED
    BY <1>4, <1>5, <1>8, <1>9 DEF MapInv

(* mprotect cuts the entries that it changes in pieces; only a piece whose *)
(* offset it has got wrong tells something else of its pages.              *)
LEMMA SysMprotectStep ==
  ASSUME HoleInv, MapInv, NEW a \in Actor, fatal = "no", SysMprotect(a)
  PROVE  MapInv'
  <1>1. /\ pc[a] = "mprotect" /\ mu = NoThread /\ Goto(a, "return")
        /\ UNCHANGED <<lockVars, registered, suspended, host, op,
                       mem_io_regions, calls, historyVars>>
    BY DEF SysMprotect, MuIsFree, spaceVars
  <1>2. op = NoOp /\ ~In("page") /\ ~In("fill") /\ ~In("close")
    BY <1>1, FreeMeansNoCall DEF HoleInv, MapInv
  <1>3. \A l \in {"page", "fill", "close"} : In(l)' <=> In(l)
    BY <1>1, GotoOutside DEF HoleInv
  <1>4. ~HostDescMapFailed => \A p \in Page : PageOK(p)
    BY <1>2 DEF MapInv, HostMatches, Done, NoOp
  <1>5. /\ host' = host /\ op' = op /\ UNCHANGED <<mapFailed, protectFailed>>
        /\ mem_io_regions' = mem_io_regions
    BY <1>1 DEF historyVars
  <1>6. CASE UNCHANGED <<mem_map, none, fatal>>
    <2>1. OtherTypes'
      BY <1>1, <1>6 DEF lockVars, MapInv, OtherTypes
    <2>2. QED
      BY <1>3, <1>5, <1>6, <2>1, QuietMapStep
  <1>7. ASSUME NEW x \in Extent, NEW M,
               M = VmmapChangeProt(mem_map, x[1], x[2]), mem_map' = M,
               fatal' = (IF IoIsPending(Pages(x)) THEN "io_race"
                         ELSE IF \A p \in Pages(x) : Protectable(M, p)
                         THEN "no" ELSE "protect"),
               IF fatal' # "no" THEN none' = none
               ELSE none' \in {none \cup Pages(x), none \ Pages(x)}
        PROVE  MapInv'
    <2>1. /\ x[1] \in Nat /\ x[2] \in Nat /\ x[2] > 0 /\ Pages(x) \subseteq Page
      BY VmAssumption DEF Extent, Page, Pages
    <2>2. MapOK(M) /\ \A p \in Int : Follows(M, mem_map, p)
      BY <1>7, <2>1, ChangeMap DEF MapInv
    <2>3. OtherTypes'
      BY <1>1, <1>7, <2>1 DEF lockVars, MapInv, OtherTypes
    <2>4. OpInv' /\ IoIsApart'
      BY <1>2, <1>3, <1>5 DEF MapInv, OpInv, IoIsApart
    <2>5. MapOK(mem_map)'
      BY <1>7, <2>2 DEF MapOK
    <2>6. ASSUME ~HostDescMapFailed, NEW p \in Page
          PROVE  PageOK(p)'
      <3>1. Follows(mem_map', mem_map, p)
        BY <1>7, <2>2, VmAssumption DEF Page
      <3>2. QED
        BY <1>4, <1>5, <2>6, <3>1, FollowsKeeps
    <2>7. HostMatches'
      BY <1>2, <1>3, <1>5, <2>6 DEF HostMatches, Done, NoOp
    <2>8. MapIsTrusted'
      <3>1. SUFFICES ASSUME fatal' = "protect", ~HostDescMapFailed,
                            ~OffsetIsWrong'
                     PROVE  FALSE
        BY <1>5, <1>7 DEF MapIsTrusted
      <3>2. PICK p \in Pages(x) : ~Protectable(M, p)
        BY <1>7, <3>1
      <3>3. p \in Page /\ p \in Int
        BY <2>1, VmAssumption DEF Page
      <3>4. ASSUME NEW e \in M
            PROVE  /\ EntryOK(e) /\ Right(e)
                   /\ Overlaps(e, p, 1) => host[p] = Shown(e, p)
        <4>1. EntryOK(e) /\ Right(e)
          BY <1>7, <2>2, <3>1 DEF MapOK, OffsetIsWrong, Right
        <4>2. Overlaps(e, p, 1) <=> Covers(e, p)
          BY <3>3, <4>1, CoversIsOverlap
        <4>3. PageOK(p)'
          BY <2>6, <3>1, <3>3
        <4>4. QED
          BY <1>5, <1>7, <4>1, <4>2, <4>3
             DEF PageOK, Covers, Right, Shown, End
      <3>5. IsView(M, p) => host[p] = "view"
        BY <3>4 DEF IsView, Shown
      <3>6. \A e \in M : Overlaps(e, p, 1) /\ e.desc = "anon"
              => host[p] = "anon"
        BY <3>4 DEF Shown
      <3>7. QED
        BY <3>2, <3>5, <3>6 DEF Protectable
    <2>9. QED
      BY <2>3, <2>4, <2>5, <2>7, <2>8 DEF MapInv
  <1>8. QED
    <2>1. SUFFICES ASSUME ~ UNCHANGED <<mem_map, none, fatal>>
                   PROVE  MapInv'
      BY <1>6
    <2>2. PICK x \in Extent :
            LET M == VmmapChangeProt(mem_map, x[1], x[2])
            IN /\ mem_map' = M
               /\ fatal' = IF IoIsPending(Pages(x)) THEN "io_race"
                           ELSE IF \A p \in Pages(x) : Protectable(M, p)
                           THEN "no" ELSE "protect"
               /\ IF fatal' # "no" THEN UNCHANGED none
                  ELSE none' \in {none \cup Pages(x), none \ Pages(x)}
      BY <2>1 DEF SysMprotect, spaceVars
    <2>3. QED
      BY <1>7, <2>2

-----------------------------------------------------------------------------
(* The specification. *)

LEMMA MapInvInit == VmInit => MapInv
  <1> SUFFICES ASSUME VmInit PROVE MapInv
    OBVIOUS
  <1>1. OtherTypes
    BY VmAssumption DEF VmInit, OtherTypes, NoIo
  <1>2. \A a \in Actor : pc[a] \in {"untrusted", "unborn"}
    BY DEF VmInit
  <1>3. ~In("page") /\ ~In("fill") /\ ~In("close")
    BY <1>2 DEF In
  <1>4. OpInv /\ IoIsApart
    BY <1>3 DEF VmInit, OpInv, IoIsApart, NoOp
  <1>5. HostMatches
    BY <1>3 DEF VmInit, HostMatches, Done, NoOp, PageOK
  <1>6. MapOK(mem_map) /\ MapIsTrusted
    BY DEF VmInit, MapOK, MapIsTrusted
  <1>7. QED
    BY <1>1, <1>4, <1>5, <1>6 DEF MapInv

VmIInv == HoleInv /\ OnlyThreads /\ MapInv

(* The inductive step.                                                      *)
LEMMA MapNext ==
  ASSUME VmIInv, [Next]_vars
  PROVE  VmIInv'
  <1> USE DEF VmIInv
  <1>1. HoleInv' /\ OnlyThreads'
    BY HoleNext, OnlyThreadsStep DEF HoleInv
  <1>2. ASSUME NEW a \in Actor, Work(a)
        PROVE  MapInv'
    <2>1. fatal = "no"
      BY <1>2 DEF Work
    <2>2. CASE \/ WaitToStartThread(a) \/ ThreadSpawn(a) \/ ServiceSpawn(a)
               \/ AddThread(a) \/ ThreadStackIsSafe(a) \/ Return(a)
               \/ ThreadTeardown(a) \/ VmHoleOpening(a) \/ SuspendAll(a)
               \/ VmIoWillStart(a)
      BY <2>1, <2>2, QuietSteps
    <2>3. CASE VmCheck(a) \/ VmPage(a) \/ VmPageFails(a) \/ VmFill(a)
      BY <2>1, <2>3, VmCheckStep, VmPageStep, VmPageFailsStep, VmFillStep
    <2>4. CASE VmFillFails(a) \/ MapViewFails(a) \/ ProtectViewFails(a)
               \/ VmClose(a) \/ SysMprotect(a)
      BY <2>1, <2>4, VmFillFailsStep, MapViewFailsStep, ProtectViewFailsStep,
         VmCloseStep, SysMprotectStep
    <2>5. QED
      BY <1>2, <2>2, <2>3, <2>4 DEF Work
  <1>3. ASSUME NEW a \in Actor, fatal = "no",
               SystemCall(a) \/ VmIoHasEnded(a) \/ ServiceCall(a)
        PROVE  MapInv'
    BY <1>3, QuietSteps
  <1>4. ASSUME UNCHANGED vars
        PROVE  MapInv'
    <2>1. OtherTypes'
      BY <1>4 DEF vars, lockVars, spaceVars, VmIInv, MapInv, OtherTypes
    <2>2. \A l \in {"page", "fill", "close"} : In(l)' <=> In(l)
      BY <1>4 DEF vars, In
    <2>3. UNCHANGED <<mem_map, op, mapFailed, protectFailed>>
      BY <1>4 DEF vars, spaceVars, historyVars
    <2>4. HostDescMapFailed \/ host' = host
      BY <1>4 DEF vars, spaceVars
    <2>5. mem_io_regions' = mem_io_regions \/ ~(In("page") \/ In("fill"))
      BY <1>4 DEF vars
    <2>6. fatal' \in {fatal, "io_race"}
      BY <1>4 DEF vars
    <2>7. QED
      BY <2>1, <2>2, <2>3, <2>4, <2>5, <2>6, QuietMapStep DEF VmIInv
  <1>5. QED
    BY <1>1, <1>2, <1>3, <1>4 DEF Next, Actor

(* The invariant from which the theorems below follow.                      *)
LEMMA MapInduction == Spec => []VmIInv
  <1>1. VmInit => VmIInv
    <2>1. VmInit => OnlyThreads
      BY DEF VmInit, OnlyThreads
    <2>2. QED
      BY <2>1, HoleInvInit, MapInvInit DEF VmIInv
  <1>2. VmIInv /\ [Next]_vars => VmIInv'
    BY MapNext
  <1>3. QED
    BY <1>1, <1>2, PTL DEF Spec

(***************************************************************************)
(* No call to the host about a page fails because the memory map has it    *)
(* wrong, or because somebody has taken the page: not for any number of    *)
(* threads, pages and calls, until MapViewOfFileEx or VirtualProtect fails *)
(* in an mmap, or mprotect has got the offset of an entry wrong (the       *)
(* LOG_FATALs of MunmapInternal, MprotectInternal and                      *)
(* NaClDescEffLdrUnmapMemory).                                             *)
(***************************************************************************)
THEOREM MapCanBeTrusted == Spec => []MapIsTrusted
  <1>1. VmIInv => MapIsTrusted
    BY DEF VmIInv, MapInv
  <1>2. QED
    BY <1>1, MapInduction, PTL

(***************************************************************************)
(* The variables have their types, the locks and the counter of launches   *)
(* are right, and no two entries of the memory map overlap (sel_mem.h:52). *)
(***************************************************************************)
THEOREM VmSpaceCorrect == Spec => []VmInv
  <1>1. ASSUME VmIInv PROVE VmInv
    <2>1. EntriesAreDisjoint
      BY <1>1, ApartIsNoOverlap DEF VmIInv, MapInv, MapOK, EntriesAreDisjoint
    <2>2. mem_map \subseteq Entry
      BY <1>1 DEF VmIInv, MapInv, MapOK, EntryOK
    <2>3. op.at \in 0 .. op.n
      BY <1>1 DEF VmIInv, MapInv, OpInv, NoOp
    <2>4. VmTypeOK
      BY <1>1, <2>2, <2>3
         DEF VmIInv, HoleInv, VmTypes, MapInv, OtherTypes, OpInv, VmTypeOK
    <2>5. QED
      BY <1>1, <2>1, <2>4 DEF VmIInv, HoleInv, VmInv
  <1>2. QED
    BY <1>1, MapInduction, PTL

(***************************************************************************)
(* Memory on which I/O is in flight is not unmapped, replaced or made      *)
(* inaccessible before the I/O has ended (sel_ldr.c:1275-1309), but for    *)
(* the pages beyond the end of the file of an mmap.                        *)
(***************************************************************************)
THEOREM IoKeepsItsMemory == Spec => IoMemoryStays
  <1> DEFINE Stays ==
        \A t \in Thread : mem_io_regions[t] # NoIo /\ mem_io_regions'[t] # NoIo
          => \A p \in mem_io_regions[t] \ BeyondFile :
               /\ host[p] \in {"anon", "view"} => host'[p] = host[p]
               /\ p \in none' => p \in none
  <1>1. ASSUME VmIInv, [Next]_vars
        PROVE  Stays
    <2>1. SUFFICES ASSUME NEW t \in Thread,
                          NEW p \in mem_io_regions[t] \ BeyondFile
                   PROVE  /\ host[p] \in {"anon", "view"} => host'[p] = host[p]
                          /\ p \in none' => p \in none
      OBVIOUS
    <2>2. p \in Page
      BY <1>1, <2>1 DEF VmIInv, MapInv, OtherTypes
    <2>3. host \in [Page -> {"reserved", "anon", "view", "hole", "stack"}]
      BY <1>1 DEF VmIInv, HoleInv, VmTypes
    <2>4. CASE host' = host /\ none' = none
      BY <2>4
    <2>5. ASSUME NEW a \in Actor,
                 \/ VmPage(a) \/ VmFill(a)
                 \/ MapViewFails(a) \/ ProtectViewFails(a)
          PROVE  host'[p] = host[p] /\ (p \in none' => p \in none)
      <3>1. pc[a] \in {"page", "fill"}
        BY <2>5 DEF VmPage, VmFill, MapViewFails, ProtectViewFails
      <3>2. /\ here = op.first + op.at
            /\ {op.first, op.n, op.at, op.backed} \subseteq Nat
            /\ op.at < op.n /\ (In("page") \/ In("fill"))
        BY <1>1, <3>1, HereIsNext DEF VmIInv
      <3>3. p \notin op.first .. op.first + op.n - 1
        <4>1. p \notin CheckedPages(op)
          BY <1>1, <2>1, <3>2 DEF VmIInv, MapInv, IoIsApart
        <4>2. QED
          BY <2>1, <4>1 DEF BeyondFile, Pages
      <3>4. p # here /\ ~(op.first <= p /\ p < here)
        BY <2>2, <3>2, <3>3, VmAssumption DEF Page
      <3>5. CASE VmPage(a) \/ VmFill(a) \/ ProtectViewFails(a)
        <4>1. \/ host' = host /\ none' = none
              \/ \E what : SetHere(what)
          BY <3>5 DEF VmPage, VmFill, ProtectViewFails
        <4>2. QED
          BY <2>2, <2>3, <3>4, <4>1 DEF SetHere
      <3>6. CASE MapViewFails(a)
        BY <2>2, <3>4, <3>6 DEF MapViewFails
      <3>7. QED
        BY <2>5, <3>5, <3>6
    <2>6. ASSUME NEW a \in Actor, ThreadSpawn(a) \/ ServiceSpawn(a)
          PROVE  /\ host[p] \in {"anon", "view"} => host'[p] = host[p]
                 /\ none' = none
      BY <2>2, <2>3, <2>6 DEF ThreadSpawn, ServiceSpawn, StackIsPlaced
    <2>7. ASSUME NEW a \in Actor, SysMprotect(a)
          PROVE  host' = host /\ (p \in none' => p \in none)
      <3>1. host' = host
        BY <2>7 DEF SysMprotect, spaceVars
      <3>2. CASE none' = none
        BY <3>1, <3>2
      <3>3. CASE none' # none
        <4>1. PICK x \in Extent :
                /\ ~IoIsPending(Pages(x))
                /\ none' \in {none \cup Pages(x), none \ Pages(x)}
          BY <2>7, <3>3 DEF SysMprotect, spaceVars
        <4>2. p \notin Pages(x)
          BY <2>1, <4>1 DEF IoIsPending
        <4>3. QED
          BY <3>1, <4>1, <4>2
      <3>4. QED
        BY <3>2, <3>3
    <2>8. ASSUME NEW a \in Actor, Work(a), ~VmPage(a), ~VmFill(a),
                 ~MapViewFails(a), ~ProtectViewFails(a), ~ThreadSpawn(a),
                 ~ServiceSpawn(a), ~SysMprotect(a)
          PROVE  host' = host /\ none' = none
      BY <2>8 DEF Work, WaitToStartThread, AddThread, ThreadStackIsSafe,
         Return, ThreadTeardown, VmHoleOpening, SuspendAll, VmCheck,
         VmPageFails, VmFillFails, VmClose, VmIoWillStart, Die, spaceVars
    <2>9. ASSUME NEW a \in Actor,
                 SystemCall(a) \/ VmIoHasEnded(a) \/ ServiceCall(a)
          PROVE  host' = host /\ none' = none
      BY <2>9 DEF SystemCall, VmIoHasEnded, ServiceCall, spaceVars
    <2>10. CASE UNCHANGED vars
      BY <2>10 DEF vars, spaceVars
    <2>11. QED
      BY <1>1, <2>4, <2>5, <2>6, <2>7, <2>8, <2>9, <2>10 DEF Next, Actor
  <1>2. IoMemoryStays <=> [][Stays]_vars
    BY DEF IoMemoryStays
  <1> HIDE DEF Stays
  <1>3. VmIInv /\ [Next]_vars => [Stays]_vars
    BY <1>1
  <1>4. QED
    BY <1>2, <1>3, MapInduction, PTL DEF Spec
=============================================================================
