---------------------------- MODULE FutexProofs ----------------------------
(***************************************************************************)
(* Each operation of the futex wait queue preserves QueueInv, for any      *)
(* threads and words: the proofs about the pthread library rest on these   *)
(* lemmas too.  Then what holds of the futex system calls.                 *)
(***************************************************************************)
EXTENDS Futex, FiniteSetTheorems, TLAPS

USE FutexAssumption

(* Joining the queue at its end leaves a queue in which everybody who was  *)
(* on it is ahead of the newcomer (ListAddNodeAtEnd, sys_futex.c:37-43).   *)
LEMMA AddKeepsQueue ==
  ASSUME QueueTypeOK, ListIsAQueue,
         NEW t \in Thread, t \notin linked, ListAddNodeAtEnd(t)
  PROVE  /\ ListIsAQueue'
         /\ linked' \in SUBSET Thread
         /\ ahead' \in [Thread -> SUBSET Thread]
  <1>1. ahead \in [Thread -> SUBSET Thread] /\ linked \in SUBSET Thread
    BY DEF QueueTypeOK
  <1>2. linked' = linked \cup {t}
    BY DEF ListAddNodeAtEnd
  <1>3. ahead'[t] = linked /\ \A u \in Thread : u # t => ahead'[u] = ahead[u]
    BY <1>1 DEF ListAddNodeAtEnd
  <1>4. QED
    BY <1>1, <1>2, <1>3 DEF ListIsAQueue, ListAddNodeAtEnd

(* Unlinking any set of nodes leaves the others in the order they had      *)
(* (ListRemoveNode, sys_futex.c:45-48).                                    *)
LEMMA RemoveKeepsQueue ==
  ASSUME QueueTypeOK, ListIsAQueue, NEW S \in SUBSET Thread, ListRemoveNodes(S)
  PROVE  /\ ListIsAQueue'
         /\ linked' \in SUBSET Thread
         /\ ahead' \in [Thread -> SUBSET Thread]
  <1>1. ahead \in [Thread -> SUBSET Thread] /\ linked \in SUBSET Thread
    BY DEF QueueTypeOK
  <1>2. linked' = linked \ S
    BY DEF ListRemoveNodes
  <1>3. \A u \in Thread : ahead'[u] = IF u \in S THEN {} ELSE ahead[u] \ S
    BY DEF ListRemoveNodes
  <1>4. ahead' \in [Thread -> SUBSET Thread]
    BY <1>1 DEF ListRemoveNodes
  <1>5. QED
    BY <1>1, <1>2, <1>3, <1>4 DEF ListIsAQueue

(* Going to sleep in futex_wait_abs preserves the invariant. *)
LEMMA SleepKeepsInv ==
  ASSUME QueueInv, mem' \in [Addr -> Word],
         NEW t \in Thread, NEW a \in Addr, NEW value, NEW b \in BOOLEAN,
         FutexWaitSleep(t, a, value, b)
  PROVE  QueueInv'
  <1> USE DEF FutexWaitSleep
  <1>1. QueueTypeOK /\ ListMatchesAddr /\ SleeperIsLinked /\ ListIsAQueue
    BY DEF QueueInv
  <1>2. t \notin linked
    BY <1>1 DEF ListMatchesAddr
  <1>3. /\ ListIsAQueue'
        /\ linked' \in SUBSET Thread
        /\ ahead' \in [Thread -> SUBSET Thread]
    BY <1>1, <1>2, AddKeepsQueue
  <1>4. linked' = linked \cup {t}
    BY DEF ListAddNodeAtEnd
  <1>5. QueueTypeOK'
    BY <1>1, <1>3 DEF QueueTypeOK, CondState
  <1>6. ListMatchesAddr'
    BY <1>1, <1>4 DEF QueueTypeOK, ListMatchesAddr
  <1>7. SleeperIsLinked'
    BY <1>1, <1>4 DEF QueueTypeOK, SleeperIsLinked
  <1>8. QED
    BY <1>3, <1>5, <1>6, <1>7 DEF QueueInv

(* Returning from futex_wait_abs preserves the invariant. *)
LEMMA ReturnKeepsInv ==
  ASSUME QueueInv, mem' \in [Addr -> Word],
         NEW t \in Thread, FutexWaitReturn(t)
  PROVE  QueueInv'
  <1> USE DEF FutexWaitReturn
  <1>1. QueueTypeOK /\ ListMatchesAddr /\ SleeperIsLinked /\ ListIsAQueue
    BY DEF QueueInv
  <1>2. /\ ListIsAQueue'
        /\ linked' \in SUBSET Thread
        /\ ahead' \in [Thread -> SUBSET Thread]
    BY <1>1, RemoveKeepsQueue, {t} \in SUBSET Thread
  <1>3. linked' = linked \ {t}
    BY DEF ListRemoveNodes
  <1>4. QueueTypeOK'
    BY <1>1, <1>2 DEF QueueTypeOK, CondState
  <1>5. ListMatchesAddr'
    BY <1>1, <1>3 DEF QueueTypeOK, ListMatchesAddr
  <1>6. SleeperIsLinked'
    BY <1>1, <1>3 DEF QueueTypeOK, SleeperIsLinked
  <1>7. QED
    BY <1>2, <1>4, <1>5, <1>6 DEF QueueInv

(* A futex_wake preserves the invariant. *)
LEMMA WakeKeepsInv ==
  ASSUME QueueInv, mem' \in [Addr -> Word],
         NEW a, NEW nwake, FutexWake(a, nwake)
  PROVE  QueueInv'
  <1> DEFINE W == Woken(a, nwake)
  <1>1. QueueTypeOK /\ ListMatchesAddr /\ SleeperIsLinked /\ ListIsAQueue
    BY DEF QueueInv
  <1>2. W \in SUBSET linked /\ W \in SUBSET Thread
    BY <1>1 DEF Woken, QueueTypeOK
  <1>3. /\ ListRemoveNodes(W)
        /\ futex_wait_addr' = [t \in Thread |-> IF t \in W THEN NoAddr
                                                ELSE futex_wait_addr[t]]
        /\ cond' = [t \in Thread |-> IF t \in W /\ cond[t] = "waiting"
                                     THEN "woken" ELSE cond[t]]
        /\ UNCHANGED timed
    BY DEF FutexWake
  <1> HIDE DEF W
  <1>4. /\ ListIsAQueue'
        /\ linked' \in SUBSET Thread
        /\ ahead' \in [Thread -> SUBSET Thread]
    BY <1>1, <1>2, <1>3, RemoveKeepsQueue
  <1>5. linked' = linked \ W
    BY <1>3 DEF ListRemoveNodes
  <1>6. QueueTypeOK'
    BY <1>1, <1>3, <1>4 DEF QueueTypeOK, CondState
  <1>7. ListMatchesAddr'
    BY <1>1, <1>2, <1>3, <1>5 DEF QueueTypeOK, ListMatchesAddr
  <1>8. SleeperIsLinked'
    BY <1>1, <1>2, <1>3, <1>5 DEF QueueTypeOK, SleeperIsLinked
  <1>9. QED
    BY <1>4, <1>6, <1>7, <1>8 DEF QueueInv

(* Steps that only move a thread's condition variable preserve it. *)
LEMMA QuietKeepsInv ==
  ASSUME QueueInv, mem' \in [Addr -> Word],
         UNCHANGED <<linked, ahead, futex_wait_addr, timed>>,
         cond' \in [Thread -> CondState],
         \A t \in Thread : /\ cond'[t] = "out" <=> cond[t] = "out"
                           /\ cond'[t] = "waiting" => cond[t] = "waiting"
  PROVE  QueueInv'
  BY DEF QueueInv, QueueTypeOK, ListMatchesAddr, SleeperIsLinked, ListIsAQueue

(* The end of an abstime preserves the invariant. *)
LEMMA TimeoutKeepsInv ==
  ASSUME QueueInv, mem' \in [Addr -> Word], NEW t \in Thread, CondTimeout(t)
  PROVE  QueueInv'
  <1>1. cond \in [Thread -> CondState]
    BY DEF QueueInv, QueueTypeOK
  <1>2. QED
    BY <1>1, QuietKeepsInv DEF CondTimeout, CondState

(* A spurious wakeup preserves the invariant. *)
LEMMA SpuriousKeepsInv ==
  ASSUME QueueInv, mem' \in [Addr -> Word], NEW t \in Thread, CondSpurious(t)
  PROVE  QueueInv'
  <1>1. cond \in [Thread -> CondState]
    BY DEF QueueInv, QueueTypeOK
  <1>2. QED
    BY <1>1, QuietKeepsInv DEF CondSpurious, CondState

(* A step that leaves the queue alone and stores words in memory. *)
LEMMA StoreKeepsInv ==
  ASSUME QueueInv, mem' \in [Addr -> Word], UNCHANGED queueVars
  PROVE  QueueInv'
  <1>1. cond \in [Thread -> CondState]
    BY DEF QueueInv, QueueTypeOK
  <1>2. QED
    BY <1>1, QuietKeepsInv DEF queueVars

(* The list is empty and nobody waits when the program starts. *)
LEMMA InitQueueInv ==
  ASSUME QueueInit, mem \in [Addr -> Word] PROVE QueueInv
  BY DEF QueueInit, QueueInv, QueueTypeOK, ListMatchesAddr, SleeperIsLinked,
         ListIsAQueue, CondState

-----------------------------------------------------------------------------
(* How many threads a futex_wake finds. *)

(* The threads that wait on a. *)
OnAddr(a) == {t \in linked : futex_wait_addr[t] = a}

(* How many of them are ahead of t on the list. *)
Rank(a, t) == Cardinality(ahead[t] \cap OnAddr(a))

(***************************************************************************)
(* The ranks of the n waiters of an address are 0, ..., n - 1: the list    *)
(* orders them, and counting who is ahead numbers them.                    *)
(***************************************************************************)
LEMMA RanksAreBijection ==
  ASSUME QueueInv, NEW a
  PROVE  LET n == Cardinality(OnAddr(a))
         IN  /\ IsFiniteSet(OnAddr(a)) /\ n \in Nat
             /\ [t \in OnAddr(a) |-> Rank(a, t)]
                  \in Bijection(OnAddr(a), 0 .. n - 1)
  <1> DEFINE S == OnAddr(a)
             n == Cardinality(S)
             r == [t \in S |-> Rank(a, t)]
  <1>1. /\ linked \subseteq Thread /\ ahead \in [Thread -> SUBSET Thread]
        /\ ListIsAQueue
    BY DEF QueueInv, QueueTypeOK
  <1>2. S \subseteq linked
    BY DEF OnAddr
  <1>3. S \in SUBSET Thread
    BY <1>1, <1>2
  <1>4. IsFiniteSet(S) /\ n \in Nat
    BY <1>3, FS_Subset, FS_CardinalityType, FutexAssumption
  <1>5. ASSUME NEW t \in S, NEW U \in SUBSET S
        PROVE  IsFiniteSet(U) /\ Cardinality(U) \in Nat
    BY <1>4, FS_Subset, FS_CardinalityType
  <1>6. ASSUME NEW t \in S PROVE Rank(a, t) \in 0 .. n - 1
    <2>1. ahead[t] \cap S \in SUBSET S /\ t \notin ahead[t] \cap S
      BY <1>1, <1>2 DEF ListIsAQueue
    <2>2. Rank(a, t) \in Nat /\ Rank(a, t) <= n
      BY <1>4, <1>5, <2>1, FS_Subset DEF Rank
    <2>3. Rank(a, t) # n
      BY <1>4, <2>1, FS_Subset DEF Rank
    <2>4. QED
      BY <1>4, <2>2, <2>3
  <1>7. ASSUME NEW t \in S, NEW u \in S, t \in ahead[u]
        PROVE  Rank(a, t) < Rank(a, u)
    <2>1. ahead[t] \cap S \in SUBSET (ahead[u] \cap S)
      BY <1>1, <1>2, <1>7 DEF ListIsAQueue
    <2>2. t \in ahead[u] \cap S /\ t \notin ahead[t] \cap S
      BY <1>1, <1>2, <1>7 DEF ListIsAQueue
    <2>3. IsFiniteSet(ahead[u] \cap S)
      BY <1>5
    <2>4. Rank(a, t) <= Rank(a, u) /\ Rank(a, t) # Rank(a, u)
      BY <2>1, <2>2, <2>3, FS_Subset DEF Rank
    <2>5. QED
      BY <1>6, <2>4
  <1>8. r \in [S -> 0 .. n - 1]
    BY <1>6
  <1>9. IsInjective(r)
    <2> SUFFICES ASSUME NEW t \in S, NEW u \in S, t # u PROVE r[t] # r[u]
      BY DEF IsInjective
    <2>1. t \in ahead[u] \/ u \in ahead[t]
      BY <1>1, <1>2 DEF ListIsAQueue
    <2>2. QED
      BY <1>6, <1>7, <2>1
  <1>10. r \in Injection(S, 0 .. n - 1)
    BY <1>8, <1>9 DEF Injection
  <1>11. IsFiniteSet(0 .. n - 1) /\ Cardinality(0 .. n - 1) = n
    <2>1. 0 \in Int /\ n - 1 \in Int /\ n \in Nat
      BY <1>4
    <2>2. /\ IsFiniteSet(0 .. n - 1)
          /\ Cardinality(0 .. n - 1)
               = IF 0 > n - 1 THEN 0 ELSE (n - 1) - 0 + 1
      BY <2>1, FS_Interval
    <2>3. QED
      BY <2>1, <2>2
  <1>12. r \in Surjection(S, 0 .. n - 1)
    BY <1>10, <1>11, FS_Injection
  <1>13. QED
    BY <1>4, <1>10, <1>12 DEF Bijection

(***************************************************************************)
(* A futex_wake unlinks nwake threads, or all that wait on the address if  *)
(* there are no more (sys_futex.c:136-147).                                *)
(***************************************************************************)
LEMMA WokenCount ==
  ASSUME QueueInv, NEW a, NEW nwake \in Nat
  PROVE  /\ Woken(a, nwake) \subseteq OnAddr(a)
         /\ \/ Cardinality(Woken(a, nwake)) = nwake
            \/ /\ Cardinality(Woken(a, nwake)) < nwake
               /\ Woken(a, nwake) = OnAddr(a)
  <1> DEFINE S == OnAddr(a)
             n == Cardinality(S)
             r == [t \in S |-> Rank(a, t)]
             W == Woken(a, nwake)
  <1>1. IsFiniteSet(S) /\ n \in Nat /\ r \in Bijection(S, 0 .. n - 1)
    BY RanksAreBijection
  <1>2. W = {t \in S : r[t] < nwake}
    BY DEF Woken, OnAddr, Rank
  <1>3. W \in SUBSET S
    BY <1>2
  <1> HIDE DEF W, r, S
  <1>4. CASE n <= nwake
    <2>1. \A t \in S : r[t] < nwake
      BY <1>1, <1>4 DEF Bijection, Injection
    <2>2. W = S
      BY <1>2, <2>1
    <2>3. QED
      BY <1>1, <1>4, <2>2 DEF S, W
  <1>5. CASE nwake < n
    <2> DEFINE q == [t \in W |-> r[t]]
    <2>1. /\ r \in [S -> 0 .. n - 1] /\ IsInjective(r)
          /\ \A k \in 0 .. n - 1 : \E t \in S : r[t] = k
      BY <1>1 DEF Bijection, Injection, Surjection
    <2>2. q \in [W -> 0 .. nwake - 1]
      BY <1>2, <2>1
    <2>3. IsInjective(q)
      BY <1>3, <2>1 DEF IsInjective
    <2>4. \A k \in 0 .. nwake - 1 : \E t \in W : q[t] = k
      <3> SUFFICES ASSUME NEW k \in 0 .. nwake - 1 PROVE \E t \in W : q[t] = k
        OBVIOUS
      <3>1. k \in 0 .. n - 1 /\ k < nwake
        BY <1>1, <1>5
      <3>2. PICK t \in S : r[t] = k
        BY <2>1, <3>1
      <3>3. t \in W
        BY <1>2, <3>1, <3>2
      <3>4. QED
        BY <3>2, <3>3
    <2>5. q \in Bijection(W, 0 .. nwake - 1)
      BY <2>2, <2>3, <2>4 DEF Bijection, Injection, Surjection
    <2>6. IsFiniteSet(W)
      BY <1>1, <1>3, FS_Subset
    <2>7. Cardinality(0 .. nwake - 1) = Cardinality(W)
      BY <2>5, <2>6, FS_Bijection DEF ExistsBijection
    <2>8. Cardinality(0 .. nwake - 1) = nwake
      BY FS_Interval
    <2>9. QED
      BY <1>3, <2>7, <2>8 DEF S, W
  <1>6. QED
    BY <1>1, <1>4, <1>5

-----------------------------------------------------------------------------
(* The futex system calls, for any threads and any memory. *)

(* Recording what a futex_wait_abs returned keeps result well-typed. *)
LEMMA ReturnsTypeOK ==
  ASSUME NEW t \in Thread, NEW r \in Result,
         result \in [Thread -> Result], Returns(t, r)
  PROVE  result' \in [Thread -> Result]
  BY DEF Returns

(* A futex_wake counts what it woke. *)
LEMMA WakeTypeOK ==
  ASSUME FutexInv, [FutexNext]_futexVars
  PROVE  wake' \in [nwake : Nat, woken_count : Nat]
  <1>1. wake \in [nwake : Nat, woken_count : Nat]
    BY DEF FutexInv, FutexTypeOK
  <1>2. ASSUME NEW t \in Thread, Wake(t)
        PROVE  wake' \in [nwake : Nat, woken_count : Nat]
    <2>1. PICK a \in Addr, nwake \in NWake :
            wake' = [nwake |-> nwake,
                     woken_count |-> Cardinality(Woken(a, nwake))]
      BY <1>2 DEF Wake
    <2>2. Woken(a, nwake) \subseteq Thread
      BY DEF FutexInv, QueueInv, QueueTypeOK, Woken
    <2>3. Cardinality(Woken(a, nwake)) \in Nat
      BY <2>2, FS_Subset, FS_CardinalityType, FutexAssumption
    <2>4. QED
      BY <2>1, <2>3, NWakeAssumption
  <1>3. CASE UNCHANGED wake
    BY <1>1, <1>3
  <1>4. QED
    BY <1>2, <1>3 DEF FutexNext, FutexThreadStep, UntrustedStore, futexVars

(* A wait brings its abstime and takes it away again. *)
LEMMA AbstimeStep ==
  ASSUME FutexInv, [FutexNext]_futexVars
  PROVE  AbstimeIsTheWaits'
  <1>1. /\ cond \in [Thread -> CondState] /\ timed \in [Thread -> BOOLEAN]
        /\ linked \in SUBSET Thread
        /\ \A t \in linked : cond[t] # "out"
    BY DEF FutexInv, QueueInv, QueueTypeOK, ListMatchesAddr
  <1>2. \A u \in Thread : /\ cond[u] = "timedout" => timed[u]
                          /\ cond[u] = "out" => ~timed[u]
    BY DEF FutexInv, AbstimeIsTheWaits
  <1>3. SUFFICES ASSUME NEW u \in Thread
                 PROVE  /\ cond'[u] = "timedout" => timed'[u]
                        /\ cond'[u] = "out" => ~timed'[u]
    BY DEF AbstimeIsTheWaits
  <1>4. ASSUME cond'[u] = cond[u], timed'[u] = timed[u]
        PROVE  /\ cond'[u] = "timedout" => timed'[u]
               /\ cond'[u] = "out" => ~timed'[u]
    BY <1>2, <1>4, Zenon
  <1>5. ASSUME NEW t \in Thread, WaitSleeps(t)
        PROVE  \/ cond'[u] = "waiting"
               \/ cond'[u] = cond[u] /\ timed'[u] = timed[u]
    BY <1>1, <1>5 DEF WaitSleeps, FutexWaitSleep
  <1>6. ASSUME NEW t \in Thread, WaitReturns(t)
        PROVE  \/ cond'[u] = "out" /\ timed'[u] = FALSE
               \/ cond'[u] = cond[u] /\ timed'[u] = timed[u]
    BY <1>1, <1>6 DEF WaitReturns, FutexWaitReturn
  <1>7. ASSUME NEW t \in Thread, CondGivesUp(t)
        PROVE  \/ cond'[u] = "woken"
               \/ cond'[u] = "timedout" /\ timed[u] /\ timed'[u] = timed[u]
               \/ cond'[u] = cond[u] /\ timed'[u] = timed[u]
    BY <1>1, <1>7 DEF CondGivesUp, CondTimeout, CondSpurious
  <1>8. ASSUME NEW t \in Thread, Wake(t)
        PROVE  \/ cond'[u] = "woken"
               \/ cond'[u] = cond[u] /\ timed'[u] = timed[u]
    <2>1. PICK a \in Addr, nwake \in NWake : FutexWake(a, nwake)
      BY <1>8 DEF Wake
    <2>2. QED
      BY <1>1, <2>1 DEF FutexWake
  <1>9. \/ cond'[u] = cond[u] /\ timed'[u] = timed[u]
        \/ \E t \in Thread : \/ WaitSleeps(t) \/ WaitReturns(t)
                             \/ CondGivesUp(t) \/ Wake(t)
    BY DEF FutexNext, FutexThreadStep, UntrustedStore, WaitFaults, WaitRefused,
           FutexWaitMismatch, futexVars, queueVars
  <1>10. \/ cond'[u] \in {"waiting", "woken"}
         \/ cond'[u] = "out" /\ timed'[u] = FALSE
         \/ cond'[u] = "timedout" /\ timed[u] /\ timed'[u] = timed[u]
         \/ cond'[u] = cond[u] /\ timed'[u] = timed[u]
    BY <1>5, <1>6, <1>7, <1>8, <1>9
  <1>11. ASSUME timed'[u] = FALSE
         PROVE  ~timed'[u]
    BY <1>11, Zenon
  <1>12. QED
    BY <1>4, <1>10, <1>11

(* Every system call, timeout, spurious wakeup and store preserves it. *)
LEMMA FutexStep == FutexInv /\ [FutexNext]_futexVars => FutexInv'
  <1> SUFFICES ASSUME FutexInv, [FutexNext]_futexVars PROVE FutexInv'
    OBVIOUS
  <1>1. /\ QueueInv
        /\ result \in [Thread -> Result]
        /\ mem \in [Addr -> Word]
    BY DEF FutexInv, FutexTypeOK, QueueTypeOK
  <1>2. SUFFICES QueueInv' /\ result' \in [Thread -> Result]
    BY WakeTypeOK, AbstimeStep DEF FutexInv, FutexTypeOK, QueueInv
  <1>3. ASSUME NEW t \in Thread, FutexThreadStep(t)
        PROVE  QueueInv' /\ result' \in [Thread -> Result]
    <2>0. mem' \in [Addr -> Word]
      BY <1>1, <1>3 DEF FutexThreadStep
    <2>1. CASE WaitFaults(t)
      <3>1. "EFAULT" \in Result
        BY DEF Result
      <3>2. QED
        BY <1>1, <2>0, <2>1, <3>1, StoreKeepsInv, ReturnsTypeOK DEF WaitFaults
    <2>2. CASE WaitRefused(t)
      <3>1. "EWOULDBLOCK" \in Result
        BY DEF Result
      <3>2. UNCHANGED queueVars /\ Returns(t, "EWOULDBLOCK")
        BY <2>2 DEF WaitRefused, FutexWaitMismatch
      <3>3. QED
        BY <1>1, <2>0, <3>1, <3>2, StoreKeepsInv, ReturnsTypeOK
    <2>3. CASE WaitSleeps(t)
      <3>1. "none" \in Result
        BY DEF Result
      <3>2. PICK a \in Addr, value \in Word, b \in BOOLEAN :
              FutexWaitSleep(t, a, value, b)
        BY <2>3 DEF WaitSleeps
      <3>3. QueueInv'
        BY <1>1, <2>0, <3>2, SleepKeepsInv
      <3>4. QED
        BY <1>1, <2>3, <3>1, <3>3, ReturnsTypeOK DEF WaitSleeps
    <2>4. CASE WaitReturns(t)
      <3>1. WaitResult(t) \in Result
        BY DEF Result, WaitResult
      <3>2. FutexWaitReturn(t) /\ Returns(t, WaitResult(t))
        BY <2>4 DEF WaitReturns
      <3>3. QueueInv'
        BY <1>1, <2>0, <3>2, ReturnKeepsInv
      <3>4. QED
        BY <1>1, <3>1, <3>2, <3>3, ReturnsTypeOK
    <2>5. CASE Wake(t)
      <3>1. PICK a \in Addr, nwake \in NWake : FutexWake(a, nwake)
        BY <2>5 DEF Wake
      <3>2. QueueInv'
        BY <1>1, <2>0, <3>1, WakeKeepsInv
      <3>3. QED
        BY <1>1, <2>5, <3>2 DEF Wake
    <2>6. CASE CondGivesUp(t)
      BY <1>1, <2>0, <2>6, TimeoutKeepsInv, SpuriousKeepsInv DEF CondGivesUp
    <2>7. QED
      BY <1>3, <2>1, <2>2, <2>3, <2>4, <2>5, <2>6 DEF FutexThreadStep
  <1>4. ASSUME NEW a \in Addr, NEW value \in Word, UntrustedStore(a, value)
        PROVE  QueueInv' /\ result' \in [Thread -> Result]
    <2>1. mem' \in [Addr -> Word] /\ UNCHANGED <<queueVars, result>>
      BY <1>1, <1>4 DEF UntrustedStore
    <2>2. QED
      BY <1>1, <2>1, StoreKeepsInv
  <1>5. CASE UNCHANGED futexVars
    BY <1>1, <1>5, StoreKeepsInv DEF futexVars
  <1>6. QED
    BY <1>3, <1>4, <1>5 DEF FutexNext

(* It holds before the first system call. *)
LEMMA InitFutexInv == FutexInit => FutexInv
  <1> SUFFICES ASSUME FutexInit PROVE FutexInv
    OBVIOUS
  <1>1. QueueInv
    BY InitQueueInv DEF FutexInit
  <1>2. QED
    BY <1>1 DEF FutexInit, QueueInit, FutexInv, FutexTypeOK, QueueInv, Result,
                AbstimeIsTheWaits

(***************************************************************************)
(* The wait queue is sound whatever untrusted code does: the list and the  *)
(* recorded addresses agree, the list is one queue, and every thread       *)
(* asleep in futex_wait_abs can be found by a futex_wake.                  *)
(***************************************************************************)
THEOREM FutexCorrect ==
  FutexSpec => [](FutexInv /\ SleeperIsLinked)
  <1>1. FutexInit => FutexInv
    BY InitFutexInv
  <1>2. FutexInv => SleeperIsLinked
    BY DEF FutexInv, QueueInv
  <1>3. QED
    BY <1>1, <1>2, FutexStep, PTL DEF FutexSpec

(* The threads a futex_wake takes are a prefix of those on its address.    *)
LEMMA WokenIsPrefix ==
  ASSUME QueueInv, NEW a, NEW nwake \in Nat,
         NEW t \in Thread, NEW u \in Woken(a, nwake),
         t \in ahead[u], futex_wait_addr[t] = futex_wait_addr[u]
  PROVE  t \in Woken(a, nwake)
  <1> DEFINE onAddr == {v \in linked : futex_wait_addr[v] = a}
             before(v) == ahead[v] \cap onAddr
  <1>1. linked \subseteq Thread /\ ahead \in [Thread -> SUBSET Thread]
    BY DEF QueueInv, QueueTypeOK
  <1>2. u \in onAddr /\ Cardinality(before(u)) < nwake
    BY DEF Woken
  <1>3. t \in onAddr
    BY <1>1, <1>2 DEF QueueInv, ListIsAQueue
  <1>4. before(t) \subseteq before(u)
    BY <1>1, <1>2, <1>3 DEF QueueInv, ListIsAQueue
  <1>5. IsFiniteSet(before(u))
    <2>1. before(u) \subseteq Thread
      BY <1>1
    <2>2. QED
      BY <2>1, FS_Subset, FutexAssumption
  <1>6. /\ Cardinality(before(t)) \in Nat
        /\ Cardinality(before(u)) \in Nat
        /\ Cardinality(before(t)) <= Cardinality(before(u))
    BY <1>4, <1>5, FS_Subset, FS_CardinalityType
  <1>7. Cardinality(before(t)) < nwake
    BY <1>2, <1>6
  <1>8. QED
    BY <1>3, <1>7 DEF Woken

(***************************************************************************)
(* futex_wake serves the waiters of an address in the order in which they  *)
(* began to wait, whatever else goes on (sys_futex.c:129-152).             *)
(***************************************************************************)
THEOREM FutexIsFifo == FutexSpec => WakeIsFifo
  <1> DEFINE Overtaken(t, u) ==
        /\ u \in linked \ linked'
        /\ cond'[u] # "out"
        /\ t \in ahead[u]
        /\ futex_wait_addr[t] = futex_wait_addr[u]
  <1>1. ASSUME FutexInv, [FutexNext]_futexVars,
               NEW t \in Thread, NEW u \in Thread, Overtaken(t, u)
        PROVE  t \notin linked'
    <2>0. /\ QueueInv
          /\ cond \in [Thread -> CondState]
      BY <1>1 DEF FutexInv, QueueInv, QueueTypeOK
    <2>1. ASSUME NEW v \in Thread, FutexThreadStep(v), ~Wake(v)
          PROVE  FALSE
      <3>1. CASE linked \subseteq linked'
        BY <1>1, <3>1
      <3>2. CASE WaitReturns(v)
        BY <1>1, <2>0, <3>2 DEF WaitReturns, FutexWaitReturn, ListRemoveNodes
      <3>3. linked \subseteq linked' \/ WaitReturns(v)
        BY <2>1 DEF FutexThreadStep, WaitFaults, WaitRefused, WaitSleeps,
                    CondGivesUp, FutexWaitMismatch, FutexWaitSleep,
                    ListAddNodeAtEnd, CondTimeout, CondSpurious, queueVars
      <3>4. QED
        BY <3>1, <3>2, <3>3
    <2>2. ASSUME NEW v \in Thread, Wake(v)
          PROVE  t \notin linked'
      <3>1. PICK a \in Addr, nwake \in NWake : FutexWake(a, nwake)
        BY <2>2 DEF Wake
      <3>2. linked' = linked \ Woken(a, nwake)
        BY <3>1 DEF FutexWake, ListRemoveNodes
      <3>3. u \in Woken(a, nwake)
        BY <1>1, <3>2
      <3>4. t \in Woken(a, nwake)
        BY <1>1, <2>0, <3>3, WokenIsPrefix, NWakeAssumption
      <3>5. QED
        BY <3>2, <3>4
    <2>3. CASE UNCHANGED linked
      BY <1>1, <2>3
    <2>4. QED
      BY <1>1, <2>1, <2>2, <2>3
      DEF FutexNext, UntrustedStore, futexVars, queueVars
  <1>2. FutexInv /\ [FutexNext]_futexVars => [InOrder]_futexVars
    BY <1>1 DEF InOrder
  <1>3. FutexSpec => []FutexInv
    <2>1. FutexInit => FutexInv
      BY InitFutexInv
    <2>2. QED
      BY <2>1, FutexStep, PTL DEF FutexSpec
  <1>4. QED
    BY <1>2, <1>3, PTL DEF FutexSpec, WakeIsFifo

-----------------------------------------------------------------------------
(* The refinement of the contract. *)

(* Taking threads off the list takes them off the waiters of each address. *)
LEMMA RemoveWaiters ==
  ASSUME QueueInv, NEW S \in SUBSET Thread, ListRemoveNodes(S),
         \A t \in Thread \ S : futex_wait_addr'[t] = futex_wait_addr[t]
  PROVE  \A a \in Addr : waitersOf'[a] = waitersOf[a] \ S
  BY DEF ListRemoveNodes, waitersOf, QueueInv, QueueTypeOK

(* A futex_wake of nwake threads is one of the contract. *)
LEMMA WakeImplements ==
  ASSUME FutexInv, NEW a \in Addr, NEW nwake \in NWake,
         FutexWake(a, nwake), UNCHANGED <<mem, result>>,
         wake' = [nwake |-> nwake, woken_count |-> Cardinality(Woken(a, nwake))]
  PROVE  Contract!Wake(a, nwake)
  <1> DEFINE W == Woken(a, nwake)
  <1>1. QueueInv /\ nwake \in Nat
    BY NWakeAssumption DEF FutexInv
  <1>2. /\ linked \in SUBSET Thread /\ cond \in [Thread -> CondState]
        /\ futex_wait_addr \in [Thread -> Addr \cup {NoAddr}]
        /\ \A t \in linked : cond[t] # "out"
    BY <1>1 DEF QueueInv, QueueTypeOK, ListMatchesAddr
  <1>3. waitersOf[a] = OnAddr(a)
    BY DEF waitersOf, OnAddr
  <1>4. /\ W \in SUBSET waitersOf[a] /\ W \subseteq linked
        /\ \/ Cardinality(W) = nwake
           \/ Cardinality(W) < nwake /\ W = waitersOf[a]
    BY <1>1, <1>3, WokenCount DEF OnAddr
  <1>5. \A t \in W : futex_wait_addr[t] = a
    BY <1>3, <1>4 DEF OnAddr
  <1>6. /\ ListRemoveNodes(W)
        /\ futex_wait_addr' = [t \in Thread |-> IF t \in W THEN NoAddr
                                                ELSE futex_wait_addr[t]]
        /\ cond' = [t \in Thread |-> IF t \in W /\ cond[t] = "waiting"
                                     THEN "woken" ELSE cond[t]]
    BY DEF FutexWake
  <1> HIDE DEF W
  <1>7. waitersOf' = [waitersOf EXCEPT ![a] = @ \ W]
    <2>1. \A b \in Addr : waitersOf'[b] = waitersOf[b] \ W
      BY <1>1, <1>2, <1>4, <1>6, RemoveWaiters
    <2>2. \A b \in Addr \ {a} : waitersOf[b] \ W = waitersOf[b]
      BY <1>5 DEF waitersOf
    <2>3. QED
      BY <2>1, <2>2 DEF waitersOf
  <1>8. statusOf' = [t \in Thread |-> IF t \in W THEN "woken" ELSE statusOf[t]]
    <2>1. linked' = linked \ W
      BY <1>6 DEF ListRemoveNodes
    <2>2. QED
      BY <1>2, <1>4, <1>6, <2>1 DEF statusOf
  <1>9. QED
    <2>1. \A S : Contract!Cardinality(S) = Cardinality(S)
      BY DEF Contract!Cardinality, Cardinality
    <2>2. timed' = timed
      BY DEF FutexWake
    <2>3. QED
      BY <1>4, <1>7, <1>8, <2>1, <2>2 DEF Contract!Wake, W

(* Every step is one of the contract or leaves its state as it is. *)
LEMMA StepImplements ==
  ASSUME FutexInv, [FutexNext]_futexVars
  PROVE  [Contract!Next]_(Contract!contractVars)
  <1>1. /\ QueueInv
        /\ linked \in SUBSET Thread /\ cond \in [Thread -> CondState]
        /\ timed \in [Thread -> BOOLEAN]
        /\ futex_wait_addr \in [Thread -> Addr \cup {NoAddr}]
        /\ linked = {t \in Thread : futex_wait_addr[t] # NoAddr}
        /\ \A t \in linked : cond[t] # "out"
    BY DEF FutexInv, QueueInv, QueueTypeOK, ListMatchesAddr
  <1>2. ASSUME UNCHANGED <<mem, wake, linked, futex_wait_addr, timed, result>>,
               cond' \in [Thread -> CondState],
               \A t \in Thread : cond'[t] = "out" <=> cond[t] = "out"
        PROVE  UNCHANGED Contract!contractVars
    BY <1>1, <1>2 DEF Contract!contractVars, waitersOf, statusOf
  <1>3. ASSUME NEW t \in Thread, WaitSleeps(t), UNCHANGED <<mem, wake>>
        PROVE  Contract!Next
    <2>1. PICK a \in Addr, value \in Word, b \in BOOLEAN :
            FutexWaitSleep(t, a, value, b)
      BY <1>3 DEF WaitSleeps
    <2>2. linked' = linked \cup {t} /\ t \notin linked
      BY <1>1, <2>1 DEF FutexWaitSleep, ListAddNodeAtEnd
    <2>3. waitersOf' = [waitersOf EXCEPT ![a] = @ \cup {t}]
      <3>1. \A u \in Thread :
              futex_wait_addr'[u] = IF u = t THEN a ELSE futex_wait_addr[u]
        BY <1>1, <2>1 DEF FutexWaitSleep
      <3>2. ASSUME NEW b1 \in Addr
            PROVE  waitersOf'[b1] = IF b1 = a THEN waitersOf[b1] \cup {t}
                                    ELSE waitersOf[b1]
        <4>1. /\ waitersOf[b1] = {u \in linked : futex_wait_addr[u] = b1}
              /\ waitersOf'[b1] = {u \in linked' : futex_wait_addr'[u] = b1}
          BY DEF waitersOf
        <4>2. \A u \in linked : u \in Thread /\ u # t
          BY <1>1, <2>2
        <4>3. QED
          BY <2>2, <3>1, <4>1, <4>2
      <3>3. QED
        BY <3>2 DEF waitersOf
    <2>4. /\ statusOf[t] = "running"
          /\ statusOf' = [statusOf EXCEPT ![t] = "waiting"]
      BY <1>1, <2>1, <2>2 DEF FutexWaitSleep, statusOf
    <2>5. Contract!Wait(t, a, value, b)
      BY <1>3, <2>1, <2>3, <2>4
      DEF WaitSleeps, Returns, FutexWaitSleep, Contract!Wait, Contract!Answers
    <2>6. QED
      BY <2>5 DEF Contract!Next
  <1>4. ASSUME NEW t \in Thread, WaitReturns(t), UNCHANGED <<mem, wake>>
        PROVE  Contract!Next
    <2>1. /\ cond[t] # "out" /\ linked' = linked \ {t}
          /\ cond' = [cond EXCEPT ![t] = "out"]
          /\ ListRemoveNodes({t})
          /\ futex_wait_addr' = [futex_wait_addr EXCEPT ![t] = NoAddr]
      BY <1>4 DEF WaitReturns, FutexWaitReturn, ListRemoveNodes
    <2>2. statusOf' = [statusOf EXCEPT ![t] = "running"]
      BY <1>1, <2>1 DEF statusOf
    <2>3. \A a \in Addr : waitersOf'[a] = waitersOf[a] \ {t}
      BY <1>1, <2>1, RemoveWaiters, {t} \in SUBSET Thread
    <2>6. Contract!Leave(t, WaitResult(t))
      BY <1>4, <2>2
      DEF WaitReturns, FutexWaitReturn, Returns, Contract!Leave,
          Contract!Answers
    <2>7. \/ WaitResult(t) = "OK"
          \/ WaitResult(t) = "ETIMEDOUT" /\ timed[t]
      BY DEF WaitResult, FutexInv, AbstimeIsTheWaits
    <2>4. CASE t \in linked
      <3>1. statusOf[t] = "waiting"
        BY <1>1, <2>4 DEF statusOf
      <3>2. waitersOf' = [a \in Addr |-> waitersOf[a] \ {t}]
        BY <2>3 DEF waitersOf
      <3>3. QED
        BY <2>6, <2>7, <3>1, <3>2 DEF Contract!GiveUp, Contract!Next
    <2>5. CASE t \notin linked
      <3>1. statusOf[t] = "woken"
        BY <1>1, <2>1, <2>5 DEF statusOf
      <3>2. waitersOf' = waitersOf
        BY <2>3, <2>5 DEF waitersOf
      <3>3. QED
        BY <2>6, <2>7, <3>1, <3>2
        DEF Contract!Resume, Contract!ResumeLate, Contract!Next
    <2>8. QED
      BY <2>4, <2>5
  <1>5. ASSUME NEW t \in Thread, Wake(t), UNCHANGED mem
        PROVE  Contract!Next
    <2>1. PICK a \in Addr, nwake \in NWake :
            /\ FutexWake(a, nwake)
            /\ wake' = [nwake |-> nwake,
                        woken_count |-> Cardinality(Woken(a, nwake))]
      BY <1>5 DEF Wake
    <2>2. QED
      BY <1>5, <2>1, WakeImplements DEF Contract!Next, Wake
  <1>6. ASSUME NEW t \in Thread, UNCHANGED <<mem, wake>>, CondGivesUp(t)
        PROVE  UNCHANGED Contract!contractVars
    BY <1>1, <1>2, <1>6
    DEF CondGivesUp, CondTimeout, CondSpurious, CondState
  <1>10. ASSUME NEW t \in Thread, UNCHANGED <<mem, wake>>,
                WaitFaults(t) \/ WaitRefused(t)
         PROVE  Contract!Next
    <2>1. UNCHANGED queueVars /\ cond[t] = "out"
      BY <1>10 DEF WaitFaults, WaitRefused, FutexWaitMismatch
    <2>2. /\ UNCHANGED <<mem, wake, waitersOf, statusOf, timed>>
          /\ statusOf[t] = "running"
      BY <1>10, <2>1 DEF queueVars, waitersOf, statusOf
    <2>3. CASE WaitFaults(t)
      <3>1. Contract!Fault(t)
        BY <2>2, <2>3
        DEF WaitFaults, Returns, Contract!Fault, Contract!Answers
      <3>2. QED
        BY <3>1 DEF Contract!Next
    <2>4. CASE WaitRefused(t)
      <3>1. PICK a \in Addr, value \in Word : FutexWaitMismatch(t, a, value)
        BY <2>4 DEF WaitRefused
      <3>2. Contract!Refuse(t, a, value)
        BY <2>2, <2>4, <3>1
        DEF WaitRefused, FutexWaitMismatch, Returns, Contract!Refuse,
            Contract!Answers
      <3>3. QED
        BY <3>2 DEF Contract!Next
    <2>5. QED
      BY <1>10, <2>3, <2>4
  <1>7. ASSUME NEW a \in Addr, NEW value \in Word, UntrustedStore(a, value)
        PROVE  Contract!Next
    <2>1. Contract!Store(a, value)
      BY <1>7 DEF UntrustedStore, queueVars, waitersOf, statusOf, Contract!Store
    <2>2. QED
      BY <2>1 DEF Contract!Next
  <1>8. CASE UNCHANGED futexVars
    BY <1>8 DEF futexVars, queueVars, Contract!contractVars, waitersOf, statusOf
  <1>9. QED
    BY <1>3, <1>4, <1>5, <1>6, <1>7, <1>8, <1>10
    DEF FutexNext, FutexThreadStep

(***************************************************************************)
(* sys_futex.c keeps the promises of irt.h, whatever untrusted code does,  *)
(* but for one: a futex_wake wakes exactly the smaller of nwake and the    *)
(* number of the waiters of its address and returns how many, nobody is    *)
(* woken twice, a call is refused only when the word has changed, and      *)
(* ETIMEDOUT is returned only to a call with an abstime.  The exception is *)
(* the contract's ResumeLate: such a call may return it though it was      *)
(* woken, where irt.h:249-250 says that it returns 0.                      *)
(***************************************************************************)
THEOREM FutexRefines == FutexSpec => ImplementsContract
  <1>1. FutexInit => Contract!Init
    BY DEF FutexInit, QueueInit, Contract!Init, waitersOf, statusOf
  <1>2. FutexInit => FutexInv
    BY InitFutexInv
  <1>3. FutexInv /\ [FutexNext]_futexVars
          => [Contract!Next]_(Contract!contractVars)
    BY StepImplements
  <1>4. QED
    BY <1>1, <1>2, <1>3, FutexStep, PTL
    DEF FutexSpec, ImplementsContract, Contract!Spec
=============================================================================
