---------------------------- MODULE NcSyncProofs ----------------------------
(***************************************************************************)
(* What untrusted/pthread builds on futexes, for any number of threads and *)
(* calls: semaphores, mutexes, pthread_once and condition variables.       *)
(***************************************************************************)
EXTENDS NcSem, NcOnce, NcCond, FutexProofs

-----------------------------------------------------------------------------
(***************************************************************************)
(* The semaphore of nc_semaphore.c, for any bound on its value too.  The   *)
(* compare-and-swaps account for the units; that no unit is left while     *)
(* threads sleep needs to follow, over the futex queue, who is going to    *)
(* look at the count again.                                                *)
(***************************************************************************)
USE SemAssumption

SemTypes ==
  /\ mem[count] \in 0..SEM_VALUE_MAX
  /\ spc \in [Thread -> SPC]
  /\ old_value \in [Thread -> 0..SEM_VALUE_MAX]
  /\ posts \in 0..MaxPosts
  /\ waits \in [Thread -> 0..MaxWaits]
  /\ given \in Nat
  /\ taken \in Nat

(* A thread is in futex_wait_abs exactly when it is asleep in sem_wait, and *)
(* it waits for nothing else; no wait has a time limit.                     *)
SleepersAreQueued ==
  \A t \in Thread :
    /\ spc[t] = "asleep" <=> cond[t] # "out"
    /\ cond[t] # "timedout"
    /\ t \in linked => futex_wait_addr[t] = count

(* What a thread is about to compare the count with can be stepped. *)
ReadWasInRange ==
  \A t \in Thread :
    /\ spc[t] \in {"tryCas", "waitCas", "againCas"} => old_value[t] > 0
    /\ spc[t] = "postCas" => old_value[t] < SEM_VALUE_MAX

(* A thread that has woken by itself is no helper before it has left the   *)
(* queue: until then a futex_wake may be spent on it.                      *)
Helpers ==
  {t \in Thread : \/ spc[t] \in {"check", "wake", "again", "againCas"}
                  \/ spc[t] = "asleep" /\ cond[t] = "woken" /\ t \notin linked}

OneSleeps == \E t \in Thread : spc[t] = "asleep" /\ cond[t] = "waiting"

UnitsHaveHelpers == OneSleeps => mem[count] <= Cardinality(Helpers)

SemIInv ==
  /\ QueueInv
  /\ SemTypes
  /\ SleepersAreQueued
  /\ ReadWasInRange
  /\ NothingLost
  /\ WaitersAreCounted
  /\ UnitsHaveHelpers

-----------------------------------------------------------------------------
(* Both sets of threads are finite and can be counted. *)
LEMMA CountsAreNaturals ==
  /\ IsFiniteSet(InSlowPath) /\ Cardinality(InSlowPath) \in Nat
  /\ Cardinality(InSlowPath) <= Cardinality(Thread)
  /\ IsFiniteSet(Helpers) /\ Cardinality(Helpers) \in Nat
  <1>1. InSlowPath \in SUBSET Thread /\ Helpers \in SUBSET Thread
    BY DEF InSlowPath, Helpers
  <1>2. QED
    BY <1>1, FS_Subset, FS_CardinalityType, FutexAssumption

(* The invariant says what the run checks. *)
LEMMA SemIInvSuffices == SemIInv => SemInv /\ NoStrandedUnit
  <1> SUFFICES ASSUME SemIInv PROVE SemInv /\ NoStrandedUnit
    OBVIOUS
  <1>1. Cardinality(Thread) \in Nat
    BY FS_CardinalityType, FutexAssumption
  <1>2. SemInv
    BY <1>1, CountsAreNaturals
    DEF SemIInv, SemInv, SemTypes, SemTypeOK, QueueInv, WaitersAreCounted
  <1>3. NoStrandedUnit
    <2> DEFINE H == {t \in Thread :
                       \/ spc[t] \in {"check", "wake", "again", "againCas"}
                       \/ spc[t] = "asleep" /\ cond[t] = "woken"}
    <2>1. Helpers \in SUBSET H /\ H \in SUBSET Thread
      BY DEF Helpers
    <2>2. IsFiniteSet(H)
      BY <2>1, FS_Subset, FutexAssumption
    <2>3. /\ Cardinality(H) \in Nat
          /\ Cardinality(Helpers) <= Cardinality(H)
      BY <2>1, <2>2, FS_Subset, FS_CardinalityType
    <2>4. OneSleeps => mem[count] <= Cardinality(H)
      BY <2>3, CountsAreNaturals DEF SemIInv, SemTypes, UnitsHaveHelpers
    <2>5. QED
      BY <2>4 DEF NoStrandedUnit, OneSleeps
  <1>4. QED
    BY <1>2, <1>3

(* Nobody stops helping, nobody new sleeps, and there are no more units. *)
LEMMA HelpersAreKept ==
  ASSUME UnitsHaveHelpers, SemTypes, OneSleeps' => OneSleeps,
         Helpers \subseteq Helpers', Helpers' \subseteq Thread,
         mem'[count] \in Nat, mem'[count] <= mem[count]
  PROVE  UnitsHaveHelpers'
  <1>1. /\ IsFiniteSet(Helpers')
        /\ Cardinality(Helpers') \in Nat
        /\ Cardinality(Helpers) <= Cardinality(Helpers')
    BY FS_Subset, FS_CardinalityType, FutexAssumption
  <1>2. QED
    BY <1>1, CountsAreNaturals DEF UnitsHaveHelpers, SemTypes

(* It holds when the semaphore has just been initialised. *)
LEMMA SemInitInv == SemInit => SemIInv
  <1> SUFFICES ASSUME SemInit PROVE SemIInv
    OBVIOUS
  <1>1. QueueInv
    BY InitQueueInv DEF SemInit
  <1>2. SemTypes /\ SleepersAreQueued /\ ReadWasInRange /\ NothingLost
    BY FutexAssumption
    DEF SemInit, QueueInit, SemTypes, SPC, SleepersAreQueued, ReadWasInRange,
        NothingLost
  <1>3. InSlowPath = {} /\ ~OneSleeps
    BY DEF SemInit, InSlowPath, OneSleeps
  <1>4. WaitersAreCounted /\ UnitsHaveHelpers
    BY <1>3, FS_EmptySet DEF SemInit, WaitersAreCounted, UnitsHaveHelpers
  <1>5. QED
    BY <1>1, <1>2, <1>4 DEF SemIInv

-----------------------------------------------------------------------------
(* One step of one thread. *)
Step(t) ==
  \/ SemWait(t) \/ SemPost(t) \/ SemStep(t)
  \/ CondSpurious(t) /\ UNCHANGED <<mem, semVars>>

(* A step stores nothing in memory but words in the count. *)
LEMMA StepKeepsMemory ==
  ASSUME SemIInv, NEW t \in Thread, Step(t)
  PROVE  /\ mem' \in [Addr -> Word] /\ mem'[count] \in 0..SEM_VALUE_MAX
         /\ old_value' \in [Thread -> 0..SEM_VALUE_MAX]
         /\ NothingLost'
  <1>1. /\ mem \in [Addr -> Word] /\ mem[count] \in 0..SEM_VALUE_MAX
        /\ old_value \in [Thread -> 0..SEM_VALUE_MAX]
        /\ given \in Nat /\ taken \in Nat /\ InitialValue \in Nat
        /\ mem[count] + taken = InitialValue + given
        /\ count \in Addr
    BY FutexAssumption
    DEF SemIInv, QueueInv, QueueTypeOK, SemTypes, NothingLost
  <1>2. CASE SemWait(t) \/ SemPost(t) \/ WaitInc(t) \/ WaitFutex(t)
             \/ WaitAwake(t) \/ WaitDec(t) \/ PostCheck(t) \/ PostWake(t)
             \/ (CondSpurious(t) /\ UNCHANGED <<mem, semVars>>)
    <2>1. UNCHANGED <<mem, old_value, given, taken>>
      BY <1>2 DEF SemWait, SemPost, WaitInc, WaitFutex, WaitAwake, WaitDec,
                  PostCheck, PostWake, semVars
    <2>2. QED
      BY <1>1, <2>1 DEF NothingLost
  <1>3. CASE DecrementRead(t) \/ PostRead(t)
    <2>1. UNCHANGED <<mem, given, taken>>
      BY <1>3 DEF DecrementRead, PostRead
    <2>2. \/ UNCHANGED old_value
          \/ old_value' = [old_value EXCEPT ![t] = mem[count]]
      BY <1>3 DEF DecrementRead, PostRead
    <2>3. QED
      BY <1>1, <2>1, <2>2 DEF NothingLost
  <1>4. CASE DecrementCas(t)
    <2>1. old_value' = [old_value EXCEPT ![t] = 0] /\ UNCHANGED given
      BY <1>4 DEF DecrementCas
    <2>2. CASE UNCHANGED <<mem, taken>>
      BY <1>1, <2>1, <2>2 DEF NothingLost
    <2>3. CASE /\ mem[count] = old_value[t] /\ SetCount(old_value[t] - 1)
               /\ taken' = taken + 1
      <3>1. old_value[t] - 1 \in 0..SEM_VALUE_MAX
        BY <1>1, <1>4 DEF DecrementCas, SemIInv, ReadWasInRange
      <3>2. old_value[t] - 1 \in Word
        BY <3>1
      <3>3. mem' \in [Addr -> Word] /\ mem'[count] = old_value[t] - 1
        BY <1>1, <2>3, <3>2 DEF SetCount
      <3>4. QED
        BY <1>1, <2>1, <2>3, <3>1, <3>3 DEF NothingLost
    <2>4. QED
      BY <1>4, <2>2, <2>3 DEF DecrementCas
  <1>5. CASE PostCas(t)
    <2>1. old_value' = [old_value EXCEPT ![t] = 0] /\ UNCHANGED taken
      BY <1>5 DEF PostCas
    <2>2. CASE UNCHANGED <<mem, given>>
      BY <1>1, <2>1, <2>2 DEF NothingLost
    <2>3. CASE /\ mem[count] = old_value[t] /\ SetCount(old_value[t] + 1)
               /\ given' = given + 1
      <3>1. old_value[t] + 1 \in 0..SEM_VALUE_MAX
        BY <1>1, <1>5 DEF PostCas, SemIInv, ReadWasInRange
      <3>2. old_value[t] + 1 \in Word
        BY <3>1
      <3>3. mem' \in [Addr -> Word] /\ mem'[count] = old_value[t] + 1
        BY <1>1, <2>3, <3>2 DEF SetCount
      <3>4. QED
        BY <1>1, <2>1, <2>3, <3>1, <3>3 DEF NothingLost
    <2>4. QED
      BY <1>5, <2>2, <2>3 DEF PostCas
  <1>6. \/ SemWait(t) \/ SemPost(t) \/ DecrementRead(t) \/ DecrementCas(t)
        \/ WaitInc(t) \/ WaitFutex(t) \/ WaitAwake(t) \/ WaitDec(t)
        \/ PostRead(t) \/ PostCas(t) \/ PostCheck(t) \/ PostWake(t)
        \/ CondSpurious(t) /\ UNCHANGED <<mem, semVars>>
    BY DEF Step, SemStep
  <1>7. QED
    BY <1>2, <1>3, <1>4, <1>5, <1>6

(* A step leaves a queue, on which exactly the threads asleep wait. *)
LEMMA StepKeepsQueue ==
  ASSUME SemIInv, NEW t \in Thread, Step(t)
  PROVE  QueueInv' /\ SleepersAreQueued'
  <1>1. mem' \in [Addr -> Word]
    BY StepKeepsMemory
  <1>2. QueueInv /\ SleepersAreQueued /\ spc \in [Thread -> SPC]
    BY DEF SemIInv, SemTypes
  <1>3. /\ cond \in [Thread -> CondState] /\ linked \in SUBSET Thread
        /\ futex_wait_addr \in [Thread -> Addr \cup {NoAddr}]
        /\ count \in Addr
    BY <1>2, FutexAssumption DEF QueueInv, QueueTypeOK
  <1>4. CASE WaitFutex(t) /\ ~UNCHANGED queueVars
    <2>1. FutexWaitSleep(t, count, 0, FALSE) /\ SGoto(t, "asleep")
      BY <1>4 DEF WaitFutex, FutexWaitMismatch
    <2>2. QueueInv'
      BY <1>1, <1>2, <1>3, <2>1, SleepKeepsInv
    <2>3. SleepersAreQueued'
      BY <1>2, <1>3, <2>1
      DEF SleepersAreQueued, FutexWaitSleep, ListAddNodeAtEnd, SGoto
    <2>4. QED
      BY <2>2, <2>3
  <1>5. CASE WaitAwake(t)
    <2>1. QueueInv'
      BY <1>1, <1>2, <1>5, ReturnKeepsInv DEF WaitAwake
    <2>2. SleepersAreQueued'
      BY <1>2, <1>3, <1>5
      DEF WaitAwake, SleepersAreQueued, FutexWaitReturn, ListRemoveNodes, SGoto
    <2>3. QED
      BY <2>1, <2>2
  <1>6. CASE PostWake(t)
    <2>1. QueueInv'
      BY <1>1, <1>2, <1>6, WakeKeepsInv DEF PostWake
    <2> DEFINE W == Woken(count, 1)
    <2>2. /\ linked' = linked \ W
          /\ futex_wait_addr' = [u \in Thread |-> IF u \in W THEN NoAddr
                                                  ELSE futex_wait_addr[u]]
          /\ cond' = [u \in Thread |-> IF u \in W /\ cond[u] = "waiting"
                                       THEN "woken" ELSE cond[u]]
          /\ spc[t] = "wake" /\ spc' = [spc EXCEPT ![t] = "idle"]
      BY <1>6 DEF PostWake, FutexWake, ListRemoveNodes, SGoto
    <2> HIDE DEF W
    <2>3. SleepersAreQueued'
      BY <1>2, <1>3, <2>2 DEF SleepersAreQueued
    <2>4. QED
      BY <2>1, <2>3
  <1>7. CASE CondSpurious(t) /\ UNCHANGED <<mem, semVars>>
    <2>1. QueueInv'
      BY <1>1, <1>2, <1>7, SpuriousKeepsInv
    <2>2. SleepersAreQueued'
      BY <1>2, <1>3, <1>7 DEF CondSpurious, SleepersAreQueued, semVars
    <2>3. QED
      BY <2>1, <2>2
  <1>8. CASE /\ UNCHANGED queueVars
             /\ \/ SemWait(t) \/ SemPost(t) \/ DecrementRead(t)
                \/ DecrementCas(t) \/ WaitInc(t) \/ WaitFutex(t)
                \/ WaitDec(t) \/ PostRead(t) \/ PostCas(t) \/ PostCheck(t)
    <2>1. QueueInv'
      BY <1>1, <1>2, <1>8, StoreKeepsInv
    <2>2. UNCHANGED <<linked, ahead, futex_wait_addr, cond, timed>>
      BY <1>8 DEF queueVars
    <2>3. spc[t] # "asleep"
      BY <1>8
      DEF SemWait, SemPost, DecrementRead, DecrementCas, WaitInc, WaitFutex,
          WaitDec, PostRead, PostCas, PostCheck
    <2>4. \E l \in SPC \ {"asleep"} : spc' = [spc EXCEPT ![t] = l]
      <3>1. CASE WaitFutex(t)
        <4>1. ~FutexWaitSleep(t, count, 0, FALSE)
          BY <1>2, <1>3, <2>2 DEF FutexWaitSleep
        <4>2. QED
          BY <3>1, <4>1 DEF WaitFutex, SGoto, SPC
      <3>2. CASE SemWait(t) \/ SemPost(t) \/ WaitInc(t) \/ WaitDec(t)
                 \/ PostRead(t) \/ PostCas(t) \/ PostCheck(t)
        BY <3>2 DEF SemWait, SemPost, WaitInc, WaitDec, PostRead, PostCas,
                    PostCheck, SGoto, SPC
      <3>3. CASE DecrementRead(t)
        BY <3>3 DEF DecrementRead, SGoto, SPC
      <3>4. CASE DecrementCas(t)
        BY <3>4 DEF DecrementCas, SGoto, SPC
      <3>5. QED
        BY <1>8, <3>1, <3>2, <3>3, <3>4
    <2>5. SleepersAreQueued'
      BY <1>2, <2>2, <2>3, <2>4 DEF SleepersAreQueued
    <2>6. QED
      BY <2>1, <2>5
  <1>9. QED
    <2>1. \/ SemWait(t) \/ SemPost(t) \/ DecrementRead(t) \/ DecrementCas(t)
          \/ WaitInc(t) \/ WaitDec(t) \/ PostRead(t) \/ PostCas(t)
          \/ PostCheck(t)
          => UNCHANGED queueVars
      BY DEF SemWait, SemPost, DecrementRead, DecrementCas, WaitInc, WaitDec,
             PostRead, PostCas, PostCheck
    <2>2. QED
      BY <1>4, <1>5, <1>6, <1>7, <1>8, <2>1 DEF Step, SemStep

(* A step moves one thread, and moves nobody else's program counter. *)
LEMMA StepKeepsTypes ==
  ASSUME SemIInv, NEW t \in Thread, Step(t)
  PROVE  SemTypes' /\ ReadWasInRange'
  <1>1. /\ SemTypes /\ ReadWasInRange
        /\ mem'[count] \in 0..SEM_VALUE_MAX
        /\ old_value' \in [Thread -> 0..SEM_VALUE_MAX]
    BY StepKeepsMemory DEF SemIInv
  <1>2. CASE SemWait(t)
    BY <1>1, <1>2 DEF SemWait, SGoto, SemTypes, ReadWasInRange, SPC
  <1>3. CASE SemPost(t)
    BY <1>1, <1>3 DEF SemPost, SGoto, SemTypes, ReadWasInRange, SPC
  <1>4. CASE DecrementRead(t)
    BY <1>1, <1>4 DEF DecrementRead, SGoto, SemTypes, ReadWasInRange, SPC
  <1>5. CASE DecrementCas(t)
    BY <1>1, <1>5 DEF DecrementCas, SGoto, SemTypes, ReadWasInRange, SPC
  <1>6. CASE WaitInc(t) \/ WaitDec(t)
    BY <1>1, <1>6 DEF WaitInc, WaitDec, SGoto, SemTypes, ReadWasInRange, SPC
  <1>7. CASE WaitFutex(t)
    BY <1>1, <1>7 DEF WaitFutex, SGoto, SemTypes, ReadWasInRange, SPC
  <1>8. CASE WaitAwake(t)
    BY <1>1, <1>8 DEF WaitAwake, SGoto, SemTypes, ReadWasInRange, SPC
  <1>9. CASE PostRead(t)
    BY <1>1, <1>9 DEF PostRead, SGoto, SemTypes, ReadWasInRange, SPC
  <1>10. CASE PostCas(t)
    BY <1>1, <1>10 DEF PostCas, SGoto, SemTypes, ReadWasInRange, SPC
  <1>11. CASE PostCheck(t) \/ PostWake(t)
    BY <1>1, <1>11 DEF PostCheck, PostWake, SGoto, SemTypes, ReadWasInRange, SPC
  <1>12. CASE CondSpurious(t) /\ UNCHANGED <<mem, semVars>>
    BY <1>1, <1>12 DEF semVars, SemTypes, ReadWasInRange
  <1>13. QED
    BY <1>2, <1>3, <1>4, <1>5, <1>6, <1>7, <1>8, <1>9, <1>10, <1>11, <1>12
    DEF Step, SemStep

(***************************************************************************)
(* nwaiters follows the threads that sem_post has to know about: a thread  *)
(* is one of them exactly from its increment to its decrement.             *)
(***************************************************************************)
LEMMA StepKeepsWaiters ==
  ASSUME SemIInv, NEW t \in Thread, Step(t)
  PROVE  WaitersAreCounted'
  <1>1. spc \in [Thread -> SPC] /\ nwaiters = Cardinality(InSlowPath)
    BY DEF SemIInv, SemTypes, WaitersAreCounted
  <1>2. CASE WaitInc(t)
    <2>1. InSlowPath' = InSlowPath \cup {t} /\ t \notin InSlowPath
      BY <1>1, <1>2 DEF WaitInc, SGoto, InSlowPath
    <2>2. QED
      BY <1>1, <1>2, <2>1, CountsAreNaturals, FS_AddElement
      DEF WaitInc, WaitersAreCounted
  <1>3. CASE WaitDec(t)
    <2>1. InSlowPath' = InSlowPath \ {t} /\ t \in InSlowPath
      BY <1>1, <1>3 DEF WaitDec, SGoto, InSlowPath
    <2>2. QED
      BY <1>1, <1>3, <2>1, CountsAreNaturals, FS_RemoveElement
      DEF WaitDec, WaitersAreCounted
  <1>4. CASE UNCHANGED nwaiters /\ InSlowPath' = InSlowPath
    BY <1>1, <1>4 DEF WaitersAreCounted
  <1>5. CASE SemWait(t) \/ SemPost(t) \/ WaitAwake(t) \/ WaitFutex(t)
             \/ PostRead(t) \/ PostCas(t) \/ PostCheck(t) \/ PostWake(t)
    BY <1>1, <1>4, <1>5
    DEF SemWait, SemPost, WaitAwake, WaitFutex, PostRead, PostCas, PostCheck,
        PostWake, SGoto, InSlowPath
  <1>6. CASE DecrementRead(t)
    BY <1>1, <1>4, <1>6 DEF DecrementRead, SGoto, InSlowPath
  <1>7. CASE DecrementCas(t)
    BY <1>1, <1>4, <1>7 DEF DecrementCas, SGoto, InSlowPath
  <1>8. CASE CondSpurious(t) /\ UNCHANGED <<mem, semVars>>
    BY <1>4, <1>8 DEF semVars, InSlowPath
  <1>9. QED
    BY <1>2, <1>3, <1>5, <1>6, <1>7, <1>8 DEF Step, SemStep

(* A futex_wake of one thread turns a sleeper into a helper. *)
LEMMA WakeMakesHelper ==
  ASSUME SemIInv, NEW t \in Thread, PostWake(t)
  PROVE  UnitsHaveHelpers'
  <1> DEFINE W == Woken(count, 1)
  <1>1. /\ QueueInv /\ SleepersAreQueued /\ UnitsHaveHelpers
        /\ spc \in [Thread -> SPC] /\ mem[count] \in Nat
        /\ cond \in [Thread -> CondState] /\ linked \in SUBSET Thread
        /\ ListMatchesAddr
    BY DEF SemIInv, SemTypes, QueueInv, QueueTypeOK
  <1>2. /\ linked' = linked \ W
        /\ cond' = [u \in Thread |-> IF u \in W /\ cond[u] = "waiting"
                                     THEN "woken" ELSE cond[u]]
        /\ spc[t] = "wake" /\ spc' = [spc EXCEPT ![t] = "idle"]
        /\ UNCHANGED mem
    BY DEF PostWake, FutexWake, ListRemoveNodes, SGoto
  <1>3. /\ W \subseteq OnAddr(count)
        /\ Cardinality(W) = 1 \/ W = OnAddr(count)
    BY <1>1, WokenCount
  <1> HIDE DEF W
  <1> SUFFICES ASSUME OneSleeps' PROVE mem[count] <= Cardinality(Helpers')
    BY <1>2 DEF UnitsHaveHelpers
  <1>4. PICK u \in Thread : spc'[u] = "asleep" /\ cond'[u] = "waiting"
    BY DEF OneSleeps
  <1>5. spc[u] = "asleep" /\ cond[u] = "waiting" /\ u \notin W
    BY <1>1, <1>2, <1>4
  <1>6. u \in OnAddr(count)
    BY <1>1, <1>5 DEF QueueInv, SleeperIsLinked, SleepersAreQueued, OnAddr
  <1>7. Cardinality(W) = 1
    BY <1>3, <1>5, <1>6
  <1>8. PICK x : W = {x}
    <2>1. OnAddr(count) \in SUBSET Thread
      BY <1>1 DEF OnAddr
    <2>2. W \in SUBSET Thread
      BY <1>3, <2>1
    <2>3. IsFiniteSet(W)
      BY <2>2, FS_Subset, FutexAssumption
    <2>4. QED
      BY <1>7, <2>3, FS_Singleton
  <1>9. x \in linked /\ x \in Thread /\ cond[x] # "out"
    BY <1>1, <1>3, <1>8 DEF OnAddr, ListMatchesAddr
  <1>10. spc[x] = "asleep" /\ cond[x] \in {"waiting", "woken"} /\ x # t
    BY <1>1, <1>2, <1>9 DEF SleepersAreQueued, CondState
  <1>11. x \notin Helpers /\ t \in Helpers
    BY <1>2, <1>9, <1>10 DEF Helpers
  <1>12. x \in Helpers'
    BY <1>1, <1>2, <1>8, <1>9, <1>10 DEF Helpers
  <1>13. Helpers \ {t} \subseteq Helpers'
    BY <1>1, <1>2 DEF Helpers
  <1> DEFINE K == (Helpers \ {t}) \cup {x}
  <1>14. /\ IsFiniteSet(Helpers \ {t})
         /\ Cardinality(Helpers \ {t}) = Cardinality(Helpers) - 1
    BY <1>11, CountsAreNaturals, FS_RemoveElement
  <1>15. IsFiniteSet(K) /\ Cardinality(K) = Cardinality(Helpers)
    BY <1>11, <1>14, CountsAreNaturals, FS_AddElement
  <1>16. K \in SUBSET Helpers' /\ Helpers' \in SUBSET Thread
    BY <1>12, <1>13 DEF Helpers
  <1>17. /\ Cardinality(K) <= Cardinality(Helpers')
         /\ Cardinality(Helpers') \in Nat
    BY <1>16, FS_Subset, FS_CardinalityType, FutexAssumption
  <1>18. mem[count] <= Cardinality(Helpers)
    BY <1>1, <1>5 DEF UnitsHaveHelpers, OneSleeps
  <1>19. QED
    BY <1>1, <1>15, <1>17, <1>18, CountsAreNaturals

(***************************************************************************)
(* Every unit keeps its helper: a successful post makes one, a successful  *)
(* wait takes both away, and who gives up being one hands it on or finds   *)
(* that there is nothing left to help with.                                *)
(***************************************************************************)
LEMMA StepKeepsHelpers ==
  ASSUME SemIInv, NEW t \in Thread, Step(t)
  PROVE  UnitsHaveHelpers'
  <1>1. /\ SemTypes /\ UnitsHaveHelpers /\ SleepersAreQueued
        /\ spc \in [Thread -> SPC] /\ mem[count] \in Nat
        /\ mem'[count] \in Nat
        /\ cond \in [Thread -> CondState] /\ linked \in SUBSET Thread
        /\ SleeperIsLinked /\ mem \in [Addr -> Word] /\ count \in Addr
        /\ old_value \in [Thread -> 0..SEM_VALUE_MAX]
    BY StepKeepsMemory, FutexAssumption
    DEF SemIInv, SemTypes, QueueInv, QueueTypeOK
  <1>2. Helpers' \subseteq Thread
    BY DEF Helpers
  <1>3. CASE SemWait(t) \/ SemPost(t) \/ WaitInc(t) \/ WaitDec(t) \/ PostRead(t)
    <2>1. /\ UNCHANGED <<mem, cond, linked>>
          /\ \E l \in {"wait", "try", "post", "futex", "idle", "postCas"} :
               spc' = [spc EXCEPT ![t] = l]
          /\ spc[t] \in {"idle", "inc", "dec", "post"}
      BY <1>3 DEF SemWait, SemPost, WaitInc, WaitDec, PostRead, SGoto, queueVars
    <2>2. Helpers' = Helpers /\ (OneSleeps' => OneSleeps)
      BY <1>1, <2>1 DEF Helpers, OneSleeps
    <2>3. QED
      BY <1>1, <1>2, <2>1, <2>2, HelpersAreKept
  <1>4. CASE DecrementRead(t)
    <2>1. UNCHANGED <<mem, cond, linked>>
      BY <1>4 DEF DecrementRead, queueVars
    <2>2. CASE mem[count] = 0
      BY <2>1, <2>2, <1>2, FS_Subset, FS_CardinalityType, FutexAssumption
      DEF UnitsHaveHelpers
    <2>3. CASE mem[count] # 0
      <3>1. /\ Helpers' = Helpers
            /\ OneSleeps' => OneSleeps
        BY <1>1, <1>4, <2>1, <2>3 DEF DecrementRead, SGoto, Helpers, OneSleeps
      <3>2. QED
        BY <1>1, <1>2, <2>1, <3>1, HelpersAreKept
    <2>4. QED
      BY <2>2, <2>3
  <1>5. CASE DecrementCas(t)
    <2>1. UNCHANGED <<cond, linked>>
      BY <1>5 DEF DecrementCas, queueVars
    <2>2. OneSleeps' => OneSleeps
      BY <1>1, <1>5, <2>1 DEF DecrementCas, SGoto, OneSleeps
    <2>3. CASE UNCHANGED mem /\ mem[count] # old_value[t]
      <3>1. Helpers' = Helpers
        BY <1>1, <1>5, <2>1, <2>3 DEF DecrementCas, SGoto, Helpers
      <3>2. QED
        BY <1>1, <1>2, <2>2, <2>3, <3>1, HelpersAreKept
    <2>4. CASE mem[count] = old_value[t]
      <3>1. old_value[t] > 0 /\ old_value[t] - 1 \in Word
        <4>1. old_value[t] > 0
          BY <1>5 DEF DecrementCas, SemIInv, ReadWasInRange
        <4>2. old_value[t] - 1 \in 0..SEM_VALUE_MAX
          BY <1>1, <4>1
        <4>3. QED
          BY <4>1, <4>2
      <3>2. mem'[count] = mem[count] - 1
        BY <1>1, <1>5, <2>4 DEF DecrementCas, SetCount
      <3>3. CASE spc[t] = "againCas"
        <4>1. Helpers' = Helpers \ {t} /\ t \in Helpers
          BY <1>1, <1>5, <2>1, <2>4, <3>3 DEF DecrementCas, SGoto, Helpers
        <4>2. Cardinality(Helpers') = Cardinality(Helpers) - 1
          BY <4>1, CountsAreNaturals, FS_RemoveElement
        <4>3. QED
          BY <1>1, <2>2, <3>2, <4>2, CountsAreNaturals DEF UnitsHaveHelpers
      <3>4. CASE spc[t] # "againCas"
        <4>1. Helpers' = Helpers
          BY <1>1, <1>5, <2>1, <2>4, <3>4 DEF DecrementCas, SGoto, Helpers
        <4>2. QED
          BY <1>1, <1>2, <2>2, <3>2, <4>1, HelpersAreKept
      <3>5. QED
        BY <3>3, <3>4
    <2>5. QED
      BY <1>5, <2>3, <2>4 DEF DecrementCas
  <1>6. CASE WaitFutex(t)
    <2>1. CASE FutexWaitMismatch(t, count, 0) /\ SGoto(t, "again")
      <3>1. UNCHANGED <<mem, cond, linked>>
        BY <1>6, <2>1 DEF WaitFutex, FutexWaitMismatch, queueVars
      <3>2. Helpers \subseteq Helpers' /\ (OneSleeps' => OneSleeps)
        BY <1>1, <1>6, <2>1, <3>1 DEF WaitFutex, SGoto, Helpers, OneSleeps
      <3>3. QED
        BY <1>1, <1>2, <3>1, <3>2, HelpersAreKept
    <2>2. CASE FutexWaitSleep(t, count, 0, FALSE)
      <3>1. mem'[count] = 0
        BY <1>6, <2>2 DEF WaitFutex, FutexWaitSleep
      <3>2. QED
        BY <1>2, <3>1, FS_Subset, FS_CardinalityType, FutexAssumption
        DEF UnitsHaveHelpers
    <2>3. QED
      BY <1>6, <2>1, <2>2 DEF WaitFutex
  <1>7. CASE WaitAwake(t)
    <2>1. /\ UNCHANGED mem /\ cond[t] \in {"woken", "timedout"}
          /\ linked' = linked \ {t} /\ cond' = [cond EXCEPT ![t] = "out"]
          /\ spc' = [spc EXCEPT ![t] = "again"]
      BY <1>7 DEF WaitAwake, FutexWaitReturn, ListRemoveNodes, SGoto
    <2>2. Helpers \subseteq Helpers' /\ (OneSleeps' => OneSleeps)
      BY <1>1, <2>1 DEF Helpers, OneSleeps
    <2>3. QED
      BY <1>1, <1>2, <2>1, <2>2, HelpersAreKept
  <1>8. CASE PostCas(t)
    <2>1. UNCHANGED <<cond, linked>> /\ spc[t] = "postCas"
      BY <1>8 DEF PostCas, queueVars
    <2>2. OneSleeps' => OneSleeps
      BY <1>1, <1>8, <2>1 DEF PostCas, SGoto, OneSleeps
    <2>3. CASE SGoto(t, "post") /\ UNCHANGED mem
      <3>1. Helpers' = Helpers
        BY <1>1, <2>1, <2>3 DEF SGoto, Helpers
      <3>2. QED
        BY <1>1, <1>2, <2>2, <2>3, <3>1, HelpersAreKept
    <2>4. CASE /\ mem[count] = old_value[t] /\ SetCount(old_value[t] + 1)
               /\ SGoto(t, "check")
      <3>1. mem'[count] = mem[count] + 1
        BY <1>1, <2>4 DEF SetCount
      <3>2. Helpers' = Helpers \cup {t} /\ t \notin Helpers
        BY <1>1, <2>1, <2>4 DEF SGoto, Helpers
      <3>3. Cardinality(Helpers') = Cardinality(Helpers) + 1
        BY <3>2, CountsAreNaturals, FS_AddElement
      <3>4. QED
        BY <1>1, <2>2, <3>1, <3>3, CountsAreNaturals DEF UnitsHaveHelpers
    <2>5. QED
      BY <1>8, <2>3, <2>4 DEF PostCas
  <1>9. CASE PostCheck(t)
    <2>1. /\ UNCHANGED <<mem, cond, linked>> /\ spc[t] = "check"
          /\ spc' = [spc EXCEPT ![t] = IF nwaiters # 0 THEN "wake" ELSE "idle"]
      BY <1>9 DEF PostCheck, SGoto, queueVars
    <2>2. CASE nwaiters # 0
      <3>1. Helpers' = Helpers /\ (OneSleeps' => OneSleeps)
        BY <1>1, <2>1, <2>2 DEF Helpers, OneSleeps
      <3>2. QED
        BY <1>1, <1>2, <2>1, <3>1, HelpersAreKept
    <2>3. CASE nwaiters = 0
      <3>1. InSlowPath = {}
        BY <2>3, CountsAreNaturals, FS_EmptySet
        DEF SemIInv, WaitersAreCounted
      <3>2. ~OneSleeps'
        BY <1>1, <2>1, <3>1 DEF InSlowPath, OneSleeps
      <3>3. QED
        BY <3>2 DEF UnitsHaveHelpers
    <2>4. QED
      BY <2>2, <2>3
  <1>10. CASE PostWake(t)
    BY <1>10, WakeMakesHelper
  <1>11. CASE CondSpurious(t) /\ UNCHANGED <<mem, semVars>>
    <2>1. /\ UNCHANGED <<mem, spc, linked>> /\ cond[t] = "waiting"
          /\ cond' = [cond EXCEPT ![t] = "woken"]
      BY <1>11 DEF CondSpurious, semVars
    <2>2. Helpers \subseteq Helpers' /\ (OneSleeps' => OneSleeps)
      BY <1>1, <2>1 DEF Helpers, OneSleeps
    <2>3. QED
      BY <1>1, <1>2, <2>1, <2>2, HelpersAreKept
  <1>12. QED
    BY <1>3, <1>4, <1>5, <1>6, <1>7, <1>8, <1>9, <1>10, <1>11
    DEF Step, SemStep

-----------------------------------------------------------------------------
(* What the steps preserve holds in every state of a behaviour. *)
LEMMA SemIInvariant == SemSpec => []SemIInv
  <1>1. SemInit => SemIInv
    BY SemInitInv
  <1>2. SemIInv /\ [SemNext]_semAllVars => SemIInv'
    <2> SUFFICES ASSUME SemIInv, [SemNext]_semAllVars PROVE SemIInv'
      OBVIOUS
    <2>1. CASE SemNext
      <3>1. PICK t \in Thread : Step(t)
        BY <2>1 DEF SemNext, Step
      <3>2. QED
        BY <3>1, StepKeepsMemory, StepKeepsQueue, StepKeepsTypes,
           StepKeepsWaiters, StepKeepsHelpers
        DEF SemIInv
    <2>2. CASE UNCHANGED semAllVars
      <3>1. UNCHANGED <<mem, linked, ahead, futex_wait_addr, cond, timed,
                        nwaiters, spc, old_value, posts, waits, given, taken>>
        BY <2>2 DEF semAllVars, queueVars, semVars
      <3>2. QueueInv'
        BY <3>1, StoreKeepsInv DEF SemIInv, QueueInv, QueueTypeOK, queueVars
      <3>3. QED
        BY <3>1, <3>2
        DEF SemIInv, SemTypes, SleepersAreQueued, ReadWasInRange, NothingLost,
            WaitersAreCounted, InSlowPath, UnitsHaveHelpers, OneSleeps, Helpers
    <2>3. QED
      BY <2>1, <2>2
  <1>3. QED
    BY <1>1, <1>2, PTL DEF SemSpec

(***************************************************************************)
(* The count never leaves 0..SEM_VALUE_MAX, nothing is let through that    *)
(* was not posted and no post is lost, and nwaiters is the number of the   *)
(* threads in the slow path of sem_wait (nc_semaphore.c:71-122).           *)
(***************************************************************************)
THEOREM SemAccountsForUnits == SemSpec => []SemInv
  BY SemIInvariant, SemIInvSuffices, PTL

(***************************************************************************)
(* While a thread sleeps in sem_wait, every unit of the count belongs to   *)
(* somebody who will look at it again: sem_post's look at nwaiters without *)
(* a lock misses nobody, and one futex_wake for each post is enough        *)
(* (nc_semaphore.c:85-88, 110-122).                                        *)
(***************************************************************************)
THEOREM SemStrandsNoUnit == SemSpec => []NoStrandedUnit
  BY SemIInvariant, SemIInvSuffices, PTL

HIDE SemAssumption

-----------------------------------------------------------------------------
(***************************************************************************)
(* The mutexes of nc_mutex.c and what is built on them.  First mutual      *)
(* exclusion of the three kinds, with timed locks, trylocks and spurious   *)
(* wakeups: none of it depends on the futexes, which decide only who       *)
(* waits.  That nobody is left waiting does, and it holds only without     *)
(* timed locks.  Then pthread_once runs init_routine once and makes        *)
(* everybody wait for it, and no signal of a condition variable is lost.   *)
(***************************************************************************)
USE MutexAssumption, FutexAssumption DEF UNLOCKED, LOCKED_WITHOUT_WAITERS,
    LOCKED_WITH_WAITERS, mutexFields

state == mem[mutex_state]

(***************************************************************************)
(* The strengthening: the state word is UNLOCKED exactly when nobody has   *)
(* the mutex, and the owner's bookkeeping follows what it holds.           *)
(***************************************************************************)
LockTypeOK ==
  /\ mem \in [Addr -> Word]
  /\ state \in {UNLOCKED, LOCKED_WITHOUT_WAITERS, LOCKED_WITH_WAITERS}
  /\ pc \in [Thread -> PC]
  /\ mutex_type \in {"FAST", "RECURSIVE", "ERRORCHECK"}
  /\ owner_thread_id \in Thread \cup {NoThread}
  /\ recursion_counter \in Nat
  /\ holds \in [Thread -> Nat]
  /\ mutex_type # "RECURSIVE" => holds \in [Thread -> {0, 1}]

WordSaysLocked == (state = UNLOCKED) <=> (\A t \in Thread : ~InLock(t))

HolderHasLeft ==
  \A t \in Thread : pc[t] \in {"own", "sub", "store"} => holds[t] = 0

CountIsHolds ==
  mutex_type # "FAST" =>
    \A t \in Thread : owner_thread_id = t => recursion_counter = holds[t]

MutexInv ==
  /\ LockTypeOK
  /\ WordSaysLocked
  /\ MutualExclusion
  /\ HolderHasLeft
  /\ OwnerReadIsSafe
  /\ CountIsHolds

(* One of the compare-and-swaps from UNLOCKED succeeds for t. *)
LEMMA AcquireKeepsInv ==
  ASSUME MutexInv, NEW t \in Thread,
         NEW v \in {LOCKED_WITHOUT_WAITERS, LOCKED_WITH_WAITERS},
         Acquire(t, v), UNCHANGED mutexFields
  PROVE  MutexInv'
  <1>1. \A u \in Thread : ~InLock(u)
    BY DEF MutexInv, WordSaysLocked, Acquire, state
  <1>2. state' = v /\ mem' \in [Addr -> Word]
    BY DEF MutexInv, LockTypeOK, Acquire, SetMem, state
  <1>3. /\ InLock(t)'
        /\ \A u \in Thread : u # t => ~InLock(u)'
    BY <1>1 DEF MutexInv, LockTypeOK, InLock, Acquire, ReturnTo, Goto
  <1>4. LockTypeOK'
    BY <1>2 DEF MutexInv, LockTypeOK, Acquire, ReturnTo, Goto, PC
  <1>5. WordSaysLocked' /\ MutualExclusion'
    BY <1>2, <1>3 DEF WordSaysLocked, MutualExclusion
  <1>6. HolderHasLeft'
    BY <1>1 DEF MutexInv, LockTypeOK, HolderHasLeft, Acquire, ReturnTo, Goto,
                InLock
  <1>7. OwnerReadIsSafe' /\ CountIsHolds'
    BY <1>1 DEF MutexInv, LockTypeOK, OwnerReadIsSafe, CountIsHolds, Acquire,
                ReturnTo, Goto, InLock
  <1>8. QED
    BY <1>4, <1>5, <1>6, <1>7 DEF MutexInv

(* A step in which nobody takes or gives back the mutex. *)
LEMMA WalkKeepsInv ==
  ASSUME MutexInv, NEW t \in Thread,
         mem' \in [Addr -> Word],
         state' \in {UNLOCKED, LOCKED_WITHOUT_WAITERS, LOCKED_WITH_WAITERS},
         state' = UNLOCKED <=> state = UNLOCKED,
         pc' \in [Thread -> PC],
         \A u \in Thread : pc'[u] \in {"own", "sub", "store"}
                             <=> pc[u] \in {"own", "sub", "store"},
         UNCHANGED <<mutexFields, holds>>
  PROVE  MutexInv'
  BY DEF MutexInv, LockTypeOK, WordSaysLocked, MutualExclusion, HolderHasLeft,
         OwnerReadIsSafe, CountIsHolds, InLock

(* Entering mutex_lock, and the re-lock of a recursive mutex, preserve it. *)
LEMMA LockKeepsInv ==
  ASSUME MutexInv, NEW t \in Thread, NEW k \in LockKind, MutexLock(t, k)
  PROVE  MutexInv'
  <1>1. UNCHANGED <<mem, mutex_type, owner_thread_id>> /\ pc[t] = "idle"
    BY DEF MutexLock
  <1>2. CASE UNCHANGED <<recursion_counter, holds>>
    <2>1. pc' \in [Thread -> PC]
      BY <1>1 DEF MutexInv, LockTypeOK, MutexLock, Goto, PC
    <2>2. \A u \in Thread : pc'[u] \in {"own", "sub", "store"}
                              <=> pc[u] \in {"own", "sub", "store"}
      BY <1>1 DEF MutexInv, LockTypeOK, MutexLock, Goto
    <2>3. QED
      BY <1>1, <1>2, <2>1, <2>2, WalkKeepsInv DEF MutexInv, LockTypeOK, state
  <1>3. CASE /\ mutex_type = "RECURSIVE" /\ owner_thread_id = t
             /\ recursion_counter' = recursion_counter + 1
             /\ holds' = [holds EXCEPT ![t] = @ + 1]
             /\ UNCHANGED pc
    <2>1. LockTypeOK'
      BY <1>1, <1>3 DEF MutexInv, LockTypeOK, state
    <2>2. holds[t] > 0
      BY <1>3 DEF MutexInv, OwnerReadIsSafe
    <2>3. \A u \in Thread : holds'[u] > 0 <=> holds[u] > 0
      BY <1>3, <2>2 DEF MutexInv, LockTypeOK
    <2>4. WordSaysLocked' /\ MutualExclusion' /\ OwnerReadIsSafe'
      BY <1>1, <1>3, <2>3 DEF MutexInv, WordSaysLocked, MutualExclusion,
                              OwnerReadIsSafe, InLock, state
    <2>5. HolderHasLeft' /\ CountIsHolds'
      BY <1>1, <1>3 DEF MutexInv, LockTypeOK, HolderHasLeft, CountIsHolds
    <2>6. QED
      BY <2>1, <2>4, <2>5 DEF MutexInv
  <1>4. QED
    BY <1>2, <1>3 DEF MutexLock

(* Becoming the owner of a recursive or error-checking mutex preserves it. *)
LEMMA OwnKeepsInv ==
  ASSUME MutexInv, NEW t \in Thread, LockOwn(t)
  PROVE  MutexInv'
  <1>1. InLock(t) /\ UNCHANGED <<mem, mutex_type>>
    BY DEF LockOwn, InLock
  <1>2. \A u \in Thread : u # t => ~InLock(u)
    BY <1>1 DEF MutexInv, MutualExclusion
  <1>3. LockTypeOK'
    BY DEF MutexInv, LockTypeOK, LockOwn, Goto, PC, state
  <1>4. InLock(t)' /\ \A u \in Thread : u # t => ~InLock(u)'
    BY <1>2 DEF MutexInv, LockTypeOK, LockOwn, Goto, InLock
  <1>5. WordSaysLocked' /\ MutualExclusion'
    BY <1>1, <1>4 DEF MutexInv, WordSaysLocked, MutualExclusion, state
  <1>6. HolderHasLeft'
    BY <1>2 DEF MutexInv, LockTypeOK, HolderHasLeft, LockOwn, Goto
  <1>7. OwnerReadIsSafe' /\ CountIsHolds'
    BY <1>2 DEF MutexInv, LockTypeOK, OwnerReadIsSafe, CountIsHolds, LockOwn,
                InLock
  <1>8. QED
    BY <1>3, <1>5, <1>6, <1>7 DEF MutexInv

(* pthread_mutex_unlock up to the decrement preserves it. *)
LEMMA UnlockKeepsInv ==
  ASSUME MutexInv, NEW t \in Thread, MutexUnlock(t)
  PROVE  MutexInv'
  <1>1. UNCHANGED <<mem, mutex_type>> /\ pc[t] = "idle"
    BY DEF MutexUnlock
  <1>2. CASE /\ mutex_type = "RECURSIVE" /\ recursion_counter > 1
             /\ recursion_counter' = recursion_counter - 1
             /\ holds[t] > 0 /\ holds' = [holds EXCEPT ![t] = @ - 1]
             /\ UNCHANGED <<pc, owner_thread_id>>
    <2>1. owner_thread_id = t /\ holds[t] = recursion_counter
      BY <1>2 DEF MutexInv, OwnerReadIsSafe, CountIsHolds
    <2>2. LockTypeOK'
      BY <1>1, <1>2, <2>1 DEF MutexInv, LockTypeOK, state
    <2>3. \A u \in Thread : holds'[u] > 0 <=> holds[u] > 0
      BY <1>2, <2>1 DEF MutexInv, LockTypeOK
    <2>4. WordSaysLocked' /\ MutualExclusion' /\ OwnerReadIsSafe'
      BY <1>1, <1>2, <2>3 DEF MutexInv, WordSaysLocked, MutualExclusion,
                              OwnerReadIsSafe, InLock, state
    <2>5. HolderHasLeft' /\ CountIsHolds'
      BY <1>1, <1>2, <2>1 DEF MutexInv, LockTypeOK, HolderHasLeft, CountIsHolds
    <2>6. QED
      BY <2>2, <2>4, <2>5 DEF MutexInv
  <1>3. CASE /\ holds[t] > 0
             /\ holds' = [holds EXCEPT ![t] = 0]
             /\ Goto(t, "sub")
             /\ \/ mutex_type = "FAST"
                   /\ UNCHANGED <<owner_thread_id, recursion_counter>>
                \/ owner_thread_id' = NoThread /\ recursion_counter' = 0
    <2>1. InLock(t) /\ \A u \in Thread : u # t => ~InLock(u)
      BY <1>3 DEF MutexInv, MutualExclusion, InLock
    <2>2. LockTypeOK'
      BY <1>1, <1>3 DEF MutexInv, LockTypeOK, Goto, PC, state
    <2>3. InLock(t)' /\ \A u \in Thread : u # t => ~InLock(u)'
      BY <1>3, <2>1 DEF MutexInv, LockTypeOK, Goto, InLock
    <2>4. WordSaysLocked' /\ MutualExclusion'
      BY <1>1, <2>1, <2>3 DEF MutexInv, WordSaysLocked, MutualExclusion, state
    <2>5. HolderHasLeft'
      BY <1>3 DEF MutexInv, LockTypeOK, HolderHasLeft, Goto
    <2>6. OwnerReadIsSafe' /\ CountIsHolds'
      BY <1>1, <1>3, <2>1
      DEF MutexInv, LockTypeOK, OwnerReadIsSafe, CountIsHolds,
                        InLock
    <2>7. QED
      BY <2>2, <2>4, <2>5, <2>6 DEF MutexInv
  <1>4. CASE UNCHANGED <<pc, owner_thread_id, recursion_counter, holds>>
    BY <1>1, <1>4, WalkKeepsInv DEF MutexInv, LockTypeOK, state
  <1>5. holds[t] > 0 \/ mutex_type = "ERRORCHECK"
    BY DEF MutexUnlock
  <1>6. mutex_type = "ERRORCHECK" /\ owner_thread_id = t => holds[t] > 0
    BY DEF MutexInv, OwnerReadIsSafe
  <1>7. /\ mutex_type # "RECURSIVE" /\ holds[t] > 0 => holds[t] = 1
        /\ mutex_type = "RECURSIVE" /\ holds[t] > 0
             => recursion_counter = holds[t]
    BY DEF MutexInv, LockTypeOK, OwnerReadIsSafe, CountIsHolds
  <1>8. holds' = [holds EXCEPT ![t] = @ - 1] /\ holds[t] = 1
        => holds' = [holds EXCEPT ![t] = 0]
    OBVIOUS
  <1>9. QED
    BY <1>2, <1>3, <1>4, <1>5, <1>6, <1>7, <1>8 DEF MutexUnlock

(* The decrement and the store that give the mutex back. *)
LEMMA ReleaseKeepsInv ==
  ASSUME MutexInv, NEW t \in Thread, UnlockSub(t) \/ UnlockStore(t)
  PROVE  MutexInv'
  <1>1. InLock(t) /\ UNCHANGED <<mutexFields, holds>>
    BY DEF UnlockSub, UnlockStore, InLock
  <1>2. \A u \in Thread : u # t => ~InLock(u)
    BY <1>1 DEF MutexInv, MutualExclusion
  <1>3. state # UNLOCKED
    BY <1>1 DEF MutexInv, WordSaysLocked
  <1>4. holds[t] = 0
    BY DEF MutexInv, HolderHasLeft, UnlockSub, UnlockStore
  <1>5. \/ state' = UNLOCKED /\ ~InLock(t)'
        \/ state' = LOCKED_WITHOUT_WAITERS /\ pc'[t] = "store"
    BY <1>3, <1>4 DEF MutexInv, LockTypeOK, UnlockSub, UnlockStore, SetMem,
                      Goto, InLock, state
  <1>6. \A u \in Thread : u # t => ~InLock(u)'
    BY <1>2 DEF MutexInv, LockTypeOK, UnlockSub, UnlockStore, Goto, InLock
  <1>7. mem' \in [Addr -> Word]
    BY <1>3 DEF MutexInv, LockTypeOK, UnlockSub, UnlockStore, SetMem, state
  <1>8. pc' \in [Thread -> PC]
    BY DEF MutexInv, LockTypeOK, UnlockSub, UnlockStore, Goto, PC
  <1>9. LockTypeOK'
    BY <1>1, <1>5, <1>7, <1>8 DEF MutexInv, LockTypeOK
  <1>10. WordSaysLocked' /\ MutualExclusion'
    BY <1>5, <1>6 DEF WordSaysLocked, MutualExclusion, InLock
  <1>11. HolderHasLeft' /\ OwnerReadIsSafe' /\ CountIsHolds'
    BY <1>1, <1>2, <1>4, <1>6 DEF MutexInv, HolderHasLeft, OwnerReadIsSafe,
                                  CountIsHolds, InLock
  <1>12. QED
    BY <1>9, <1>10, <1>11 DEF MutexInv

(* The steps on the way through mutex_lock_nonrecursive. *)
LEMMA WaitingKeepsInv ==
  ASSUME MutexInv, NEW t \in Thread,
         \/ LockMark(t) \/ LockWait(t) \/ LockAwake(t) \/ UnlockWake(t)
         \/ /\ pc[t] \in {"cas", "retake"}
            /\ \/ MustWait(t)
               \/ ReturnTo(t, "idle") /\ UNCHANGED <<mem, holds>>
            /\ UNCHANGED mutexFields
  PROVE  MutexInv'
  <1> USE DEF LockMark, LockWait, LockAwake, UnlockWake, MustWait, ReturnTo,
              Goto, SetMem
  <1>1. UNCHANGED <<mutexFields, holds>>
    OBVIOUS
  <1>2. /\ mem' \in [Addr -> Word]
        /\ state' \in {UNLOCKED, LOCKED_WITHOUT_WAITERS, LOCKED_WITH_WAITERS}
        /\ state' = UNLOCKED <=> state = UNLOCKED
    BY DEF MutexInv, LockTypeOK, state
  <1>3. /\ pc' \in [Thread -> PC]
        /\ \A u \in Thread : pc'[u] \in {"own", "sub", "store"}
                               <=> pc[u] \in {"own", "sub", "store"}
    BY DEF MutexInv, LockTypeOK, PC
  <1>4. QED
    BY <1>1, <1>2, <1>3, WalkKeepsInv

(* Every step of the library, its callers and the host preserves it. *)
LEMMA MutexStep == MutexInv /\ [Next]_vars => MutexInv'
  <1> SUFFICES ASSUME MutexInv, [Next]_vars PROVE MutexInv'
    OBVIOUS
  <1>1. ASSUME NEW t \in Thread, NEW k \in LockKind, MutexLock(t, k)
        PROVE  MutexInv'
    BY <1>1, LockKeepsInv
  <1>2. ASSUME NEW t \in Thread, MutexUnlock(t) PROVE MutexInv'
    BY <1>2, UnlockKeepsInv
  <1>3. ASSUME NEW t \in Thread, LibraryStep(t) PROVE MutexInv'
    <2>1. CASE LockCas(t) \/ LockRetake(t)
      <3>1. CASE Acquire(t, LOCKED_WITHOUT_WAITERS)
                 \/ Acquire(t, LOCKED_WITH_WAITERS)
        BY <2>1, <3>1, AcquireKeepsInv DEF LockCas, LockRetake
      <3>2. CASE \/ MustWait(t)
                 \/ ReturnTo(t, "idle") /\ UNCHANGED <<mem, holds>>
        BY <2>1, <3>2, WaitingKeepsInv DEF LockCas, LockRetake
      <3>3. QED
        BY <2>1, <3>1, <3>2 DEF LockCas, LockRetake
    <2>2. CASE LockMark(t) \/ LockWait(t) \/ LockAwake(t) \/ UnlockWake(t)
      BY <2>2, WaitingKeepsInv
    <2>3. CASE LockOwn(t)
      BY <2>3, OwnKeepsInv
    <2>4. CASE UnlockSub(t) \/ UnlockStore(t)
      BY <2>4, ReleaseKeepsInv
    <2>5. QED
      BY <1>3, <2>1, <2>2, <2>3, <2>4 DEF LibraryStep
  <1>4. ASSUME UNCHANGED <<mem, mutexVars>> PROVE MutexInv'
    BY <1>4 DEF mutexVars, MutexInv, LockTypeOK, WordSaysLocked,
                MutualExclusion, HolderHasLeft, OwnerReadIsSafe, CountIsHolds,
                InLock, state
  <1>5. QED
    BY <1>1, <1>2, <1>3, <1>4 DEF Next, HostStep, vars

(* It holds of a mutex that has just been initialized. *)
LEMMA MutexInitInv == MutexInit => MutexInv
  BY DEF MutexInit, MutexInv, LockTypeOK, WordSaysLocked, MutualExclusion,
         HolderHasLeft, OwnerReadIsSafe, CountIsHolds, InLock, PC, state

(***************************************************************************)
(* At most one thread has the mutex, and the unsynchronised read of        *)
(* owner_thread_id in mutex_lock tells a thread exactly whether it is the  *)
(* one (nc_mutex.c:91-239).                                                *)
(***************************************************************************)
THEOREM MutexCorrect == Spec => [](MutualExclusion /\ OwnerReadIsSafe)
  <1>1. MutexInv => MutualExclusion /\ OwnerReadIsSafe
    BY DEF MutexInv
  <1>2. QED
    BY <1>1, MutexInitInv, MutexStep, PTL DEF Spec

-----------------------------------------------------------------------------
(* The mutex and its futex queue. *)

CallTypes ==
  /\ kind \in [Thread -> LockKind \cup {"none"}]
  /\ mutex_type \in MutexType
  /\ recursion_counter \in 0..MaxDepth
  /\ holds \in [Thread -> 0..MaxDepth]
  /\ calls \in [Thread -> 0..MaxCalls]

(***************************************************************************)
(* On the list at the address of the state word are threads that are       *)
(* asleep in mutex_lock_nonrecursive.  What else a thread may sleep on is  *)
(* left open, for the condition variables.                                 *)
(***************************************************************************)
AsleepOnMutex ==
  \A t \in Thread :
    /\ pc[t] = "asleep" => cond[t] # "out"
    /\ t \in linked => (futex_wait_addr[t] = mutex_state <=> pc[t] = "asleep")

MutexQueueInv == MutexInv /\ QueueInv /\ CallTypes /\ AsleepOnMutex

(* Without timed locks nobody gives up waiting for the mutex. *)
SleepsUntimed ==
  \A t \in Thread : pc[t] = "asleep" => ~timed[t] /\ cond[t] # "timedout"

WaiterInv == MutexQueueInv /\ SleepsUntimed /\ NoStrandedWaiter

(* The calls and their counters. *)
LEMMA StepKeepsCallTypes == MutexInv /\ CallTypes /\ [Next]_vars => CallTypes'
  <1> SUFFICES ASSUME MutexInv, CallTypes, [Next]_vars PROVE CallTypes'
    OBVIOUS
  <1>1. ASSUME NEW t \in Thread, NEW k \in LockKind, MutexLock(t, k)
        PROVE  CallTypes'
    <2>1. owner_thread_id = t /\ mutex_type = "RECURSIVE"
          => recursion_counter = holds[t]
      BY DEF MutexInv, CountIsHolds
    <2>2. QED
      BY <1>1, <2>1 DEF CallTypes, MutexLock
  <1>2. ASSUME NEW t \in Thread, MutexUnlock(t) PROVE CallTypes'
    <2>1. mutex_type = "ERRORCHECK" /\ owner_thread_id = t => holds[t] > 0
      BY DEF MutexInv, OwnerReadIsSafe
    <2>2. QED
      BY <1>2, <2>1 DEF CallTypes, MutexUnlock
  <1>3. ASSUME NEW t \in Thread, LibraryStep(t) PROVE CallTypes'
    BY <1>3
    DEF CallTypes, LibraryStep, LockCas, LockMark, LockWait, LockAwake,
        LockRetake, LockOwn, UnlockSub, UnlockStore, UnlockWake, Acquire,
        MustWait, ReturnTo
  <1>4. ASSUME UNCHANGED mutexVars PROVE CallTypes'
    BY <1>4 DEF CallTypes, mutexVars
  <1>5. QED
    BY <1>1, <1>2, <1>3, <1>4 DEF Next, HostStep, vars

(* The steps of mutex_lock and pthread_mutex_unlock that leave the queue,  *)
(* and the threads on it, alone.                                           *)
Walks(t) ==
  \/ \E k \in LockKind : MutexLock(t, k)
  \/ MutexUnlock(t) \/ LockCas(t) \/ LockMark(t) \/ LockRetake(t)
  \/ LockOwn(t) \/ UnlockSub(t) \/ UnlockStore(t)
  \/ pc[t] = "wait" /\ Goto(t, "retake") /\ UNCHANGED <<queueVars, kind, mem>>

(* Such a step is taken by a thread that is awake and stays awake.          *)
LEMMA WalkersAreAwake ==
  ASSUME pc \in [Thread -> PC], NEW t \in Thread, Walks(t)
  PROVE  /\ UNCHANGED queueVars
         /\ pc[t] # "asleep" /\ pc'[t] # "asleep"
         /\ \A u \in Thread \ {t} : pc'[u] = pc[u]
  BY DEF Walks, MutexLock, MutexUnlock, LockCas, LockMark, LockRetake, LockOwn,
         UnlockSub, UnlockStore, Acquire, MustWait, ReturnTo, Goto

(***************************************************************************)
(* A step inside the mutex keeps the queue, and the threads on it at the   *)
(* state word are the threads asleep in the mutex.                         *)
(***************************************************************************)
LEMMA StepKeepsAsleep ==
  ASSUME MutexInv, QueueInv, AsleepOnMutex, mem' \in [Addr -> Word],
         NEW t \in Thread,
         \/ \E k \in LockKind : MutexLock(t, k)
         \/ MutexUnlock(t) \/ LibraryStep(t) \/ HostStep(t)
  PROVE  QueueInv' /\ AsleepOnMutex'
  <1>1. /\ pc \in [Thread -> PC] /\ linked \in SUBSET Thread
        /\ cond \in [Thread -> CondState] /\ mutex_state \in Addr
        /\ futex_wait_addr \in [Thread -> Addr \cup {NoAddr}]
        /\ ListMatchesAddr
    BY DEF MutexInv, LockTypeOK, QueueInv, QueueTypeOK
  <1>2. CASE Walks(t)
    <2>1. /\ UNCHANGED queueVars
          /\ pc[t] # "asleep" /\ pc'[t] # "asleep"
          /\ \A u \in Thread \ {t} : pc'[u] = pc[u]
      BY <1>1, <1>2, WalkersAreAwake
    <2>2. QueueInv'
      BY <2>1, StoreKeepsInv
    <2>3. AsleepOnMutex'
      BY <1>1, <2>1 DEF AsleepOnMutex, queueVars
    <2>4. QED
      BY <2>2, <2>3
  <1>3. CASE LockWait(t) /\ ~Walks(t)
    <2>1. /\ FutexWaitSleep(t, mutex_state, LOCKED_WITH_WAITERS,
                            kind[t] = "timedlock")
          /\ Goto(t, "asleep")
      BY <1>3 DEF LockWait, Walks, FutexWaitMismatch
    <2>2. QueueInv'
      BY <1>1, <2>1, SleepKeepsInv
    <2>3. AsleepOnMutex'
      BY <1>1, <2>1
      DEF AsleepOnMutex, FutexWaitSleep, ListAddNodeAtEnd, Goto
    <2>4. QED
      BY <2>2, <2>3
  <1>4. CASE LockAwake(t)
    <2>1. FutexWaitReturn(t) /\ (Goto(t, "retake") \/ Goto(t, "idle"))
      BY <1>4 DEF LockAwake, ReturnTo
    <2>2. QueueInv'
      BY <2>1, ReturnKeepsInv
    <2>3. AsleepOnMutex'
      BY <1>1, <2>1 DEF AsleepOnMutex, FutexWaitReturn, ListRemoveNodes, Goto
    <2>4. QED
      BY <2>2, <2>3
  <1>5. CASE UnlockWake(t)
    <2> DEFINE W == Woken(mutex_state, 1)
    <2>1. QueueInv'
      BY <1>5, WakeKeepsInv DEF UnlockWake
    <2>2. /\ linked' = linked \ W
          /\ futex_wait_addr' = [u \in Thread |-> IF u \in W THEN NoAddr
                                                  ELSE futex_wait_addr[u]]
          /\ cond' = [u \in Thread |-> IF u \in W /\ cond[u] = "waiting"
                                       THEN "woken" ELSE cond[u]]
          /\ pc[t] = "wake" /\ pc' = [pc EXCEPT ![t] = "idle"]
      BY <1>5 DEF UnlockWake, FutexWake, ListRemoveNodes, Goto
    <2> HIDE DEF W
    <2>3. AsleepOnMutex'
      BY <1>1, <2>2 DEF AsleepOnMutex
    <2>4. QED
      BY <2>1, <2>3
  <1>6. CASE HostStep(t)
    <2>1. QueueInv'
      BY <1>6, TimeoutKeepsInv, SpuriousKeepsInv DEF HostStep
    <2>2. AsleepOnMutex'
      BY <1>1, <1>6
      DEF HostStep, CondTimeout, CondSpurious, AsleepOnMutex, mutexVars
    <2>3. QED
      BY <2>1, <2>2
  <1>7. QED
    BY <1>2, <1>3, <1>4, <1>5, <1>6 DEF LibraryStep, Walks

(* The queue and the mutex together. *)
LEMMA MutexQueueStep == MutexQueueInv /\ [Next]_vars => MutexQueueInv'
  <1> SUFFICES ASSUME MutexQueueInv, [Next]_vars PROVE MutexQueueInv'
    OBVIOUS
  <1>1. MutexInv' /\ CallTypes' /\ mem' \in [Addr -> Word]
    BY MutexStep, StepKeepsCallTypes DEF MutexQueueInv, MutexInv, LockTypeOK
  <1>2. CASE Next
    BY <1>1, <1>2, StepKeepsAsleep DEF MutexQueueInv, Next
  <1>3. CASE UNCHANGED vars
    <2>1. UNCHANGED <<queueVars, linked, futex_wait_addr, cond, pc>>
      BY <1>3 DEF vars, queueVars, mutexVars
    <2>2. QED
      BY <1>1, <2>1, StoreKeepsInv DEF MutexQueueInv, AsleepOnMutex
  <1>4. QED
    BY <1>2, <1>3

(* A mutex that has just been initialized has nobody on its queue. *)
LEMMA MutexQueueInit == MutexInit => MutexQueueInv
  <1> SUFFICES ASSUME MutexInit PROVE MutexQueueInv
    OBVIOUS
  <1>1. MutexInv
    BY MutexInitInv
  <1>2. QueueInv
    BY <1>1, InitQueueInv DEF MutexInit, MutexInv, LockTypeOK
  <1>3. CallTypes /\ AsleepOnMutex
    BY DEF MutexInit, QueueInit, CallTypes, AsleepOnMutex
  <1>4. QED
    BY <1>1, <1>2, <1>3 DEF MutexQueueInv

(***************************************************************************)
(* Types and owner of the mutex: recursion_counter and the number of times *)
(* a caller holds the mutex stay within bounds, and the unsynchronised     *)
(* read of owner_thread_id is right (nc_mutex.c:147-151, 169-178).         *)
(***************************************************************************)
THEOREM OwnersCorrect == Spec => []OwnersAreRight
  <1>1. MutexQueueInv => OwnersAreRight
    BY DEF MutexQueueInv, MutexInv, LockTypeOK, QueueInv, CallTypes,
           OwnersAreRight, MutexTypeOK
  <1>2. QED
    BY <1>1, MutexQueueInit, MutexQueueStep, PTL DEF Spec

-----------------------------------------------------------------------------
(* The waiters of the mutex. *)

(* A sleeper, and what NoStrandedWaiter says of its mutex. *)
SleepsOnMutex(t) == pc[t] = "asleep" /\ cond[t] = "waiting"
LookedAfter ==
  \/ mem[mutex_state] = LOCKED_WITH_WAITERS
  \/ \E u \in Thread : WillLookAfter(u)

(* The futex_wake of an unlock finds a thread that will look after the     *)
(* mutex, unless nobody sleeps on it any more.                             *)
LEMMA WakeLooksAfter ==
  ASSUME MutexQueueInv, SleepsUntimed, NEW t \in Thread, UnlockWake(t),
         NEW s \in Thread, SleepsOnMutex(s)'
  PROVE  LookedAfter'
  <1> DEFINE W == Woken(mutex_state, 1)
  <1>1. /\ QueueInv /\ AsleepOnMutex /\ ListMatchesAddr /\ SleeperIsLinked
        /\ pc \in [Thread -> PC] /\ cond \in [Thread -> CondState]
        /\ linked \in SUBSET Thread
    BY DEF MutexQueueInv, MutexInv, LockTypeOK, QueueInv, QueueTypeOK
  <1>2. /\ W \subseteq OnAddr(mutex_state)
        /\ Cardinality(W) = 1 \/ W = OnAddr(mutex_state)
    BY <1>1, WokenCount
  <1>3. /\ cond' = [u \in Thread |-> IF u \in W /\ cond[u] = "waiting"
                                     THEN "woken" ELSE cond[u]]
        /\ pc[t] = "wake" /\ pc' = [pc EXCEPT ![t] = "idle"]
    BY DEF UnlockWake, FutexWake, Goto
  <1> HIDE DEF W
  <1>4. SleepsOnMutex(s) /\ s \notin W
    BY <1>1, <1>3 DEF SleepsOnMutex
  <1>5. s \in OnAddr(mutex_state)
    BY <1>1, <1>4 DEF SleepsOnMutex, SleeperIsLinked, AsleepOnMutex, OnAddr
  <1>6. Cardinality(W) = 1
    BY <1>2, <1>4, <1>5
  <1>7. PICK x \in OnAddr(mutex_state) : x \in W
    BY <1>2, <1>6, FS_EmptySet
  <1>8. x \in Thread /\ pc[x] = "asleep" /\ x # t
        /\ cond[x] \in {"waiting", "woken"}
    BY <1>1, <1>3, <1>7
    DEF OnAddr, AsleepOnMutex, ListMatchesAddr, SleepsUntimed, CondState
  <1>9. pc'[x] = "asleep" /\ cond'[x] = "woken"
    BY <1>1, <1>3, <1>7, <1>8
  <1>10. QED
    BY <1>8, <1>9 DEF LookedAfter, WillLookAfter

(***************************************************************************)
(* Every other step inside the mutex: whoever stops looking after the      *)
(* waiters has marked the state word, or has found the mark there.         *)
(***************************************************************************)
LEMMA StepLooksAfter ==
  ASSUME MutexQueueInv, NEW t \in Thread, LibraryStep(t), ~UnlockWake(t),
         "timedlock" \notin LockKind, LookedAfter
  PROVE  LookedAfter'
  <1>1. /\ pc \in [Thread -> PC] /\ cond \in [Thread -> CondState]
        /\ state \in {UNLOCKED, LOCKED_WITHOUT_WAITERS, LOCKED_WITH_WAITERS}
        /\ mem \in [Addr -> Word] /\ mutex_state \in Addr
        /\ kind[t] # "timedlock"
    BY DEF MutexQueueInv, CallTypes, MutexInv, LockTypeOK, QueueInv, QueueTypeOK
  <1>2. \A u \in Thread \ {t} :
          pc'[u] = pc[u] /\ (cond[u] = "woken" => cond'[u] = "woken")
    BY <1>1
    DEF LibraryStep, LockCas, LockMark, LockWait, LockAwake, LockRetake,
        LockOwn, UnlockSub, UnlockStore, Acquire, MustWait, ReturnTo, Goto,
        queueVars, FutexWaitSleep, FutexWaitMismatch, FutexWaitReturn
  <1>3. \A u \in Thread \ {t} : WillLookAfter(u) => WillLookAfter(u)'
    BY <1>2 DEF WillLookAfter
  <1>4. CASE LockCas(t)
    <2>1. ~WillLookAfter(t)
      BY <1>4 DEF LockCas, WillLookAfter
    <2>2. CASE UNCHANGED mem
      BY <1>3, <2>1, <2>2 DEF LookedAfter
    <2>3. CASE state = UNLOCKED
      BY <1>3, <2>1, <2>3 DEF LookedAfter, state
    <2>4. QED
      BY <1>4, <2>2, <2>3 DEF LockCas, Acquire, MustWait, state
  <1>5. CASE LockMark(t)
    <2>1. pc'[t] \in {"retake", "wait"}
      BY <1>1, <1>5 DEF LockMark, Goto
    <2>2. QED
      BY <2>1 DEF LookedAfter, WillLookAfter
  <1>6. CASE LockWait(t)
    <2>1. CASE Goto(t, "retake")
      BY <1>1, <2>1 DEF Goto, LookedAfter, WillLookAfter
    <2>2. CASE FutexWaitSleep(t, mutex_state, LOCKED_WITH_WAITERS,
                              kind[t] = "timedlock")
      BY <1>6, <2>2 DEF LockWait, FutexWaitSleep, LookedAfter
    <2>3. QED
      BY <1>6, <2>1, <2>2 DEF LockWait
  <1>7. CASE LockAwake(t)
    <2>1. pc'[t] = "retake"
      BY <1>1, <1>7 DEF LockAwake, Goto
    <2>2. QED
      BY <2>1 DEF LookedAfter, WillLookAfter
  <1>8. CASE LockRetake(t)
    <2>1. CASE Acquire(t, LOCKED_WITH_WAITERS)
      BY <1>1, <2>1 DEF Acquire, SetMem, LookedAfter
    <2>2. CASE MustWait(t)
      BY <1>1, <2>2 DEF MustWait, Goto, LookedAfter, WillLookAfter
    <2>3. QED
      BY <1>8, <2>1, <2>2 DEF LockRetake
  <1>9. CASE LockOwn(t)
    <2>1. ~WillLookAfter(t) /\ UNCHANGED mem
      BY <1>9 DEF LockOwn, WillLookAfter
    <2>2. QED
      BY <1>3, <2>1 DEF LookedAfter
  <1>10. CASE UnlockSub(t)
    <2>1. ~WillLookAfter(t)
      BY <1>10 DEF UnlockSub, WillLookAfter
    <2>2. CASE state = LOCKED_WITHOUT_WAITERS
      BY <1>3, <2>1, <2>2 DEF LookedAfter, state
    <2>3. CASE state # LOCKED_WITHOUT_WAITERS
      <3>1. pc'[t] = "store"
        BY <1>1, <1>10, <2>3 DEF UnlockSub, Goto, state
      <3>2. QED
        BY <3>1 DEF LookedAfter, WillLookAfter
    <2>4. QED
      BY <2>2, <2>3
  <1>11. CASE UnlockStore(t)
    <2>1. pc'[t] = "wake"
      BY <1>1, <1>11 DEF UnlockStore, Goto
    <2>2. QED
      BY <2>1 DEF LookedAfter, WillLookAfter
  <1>12. QED
    BY <1>4, <1>5, <1>6, <1>7, <1>8, <1>9, <1>10, <1>11 DEF LibraryStep

(* Nobody who sleeps on the mutex has a time limit. *)
LEMMA StepKeepsUntimed ==
  ASSUME MutexQueueInv, SleepsUntimed, "timedlock" \notin LockKind,
         NEW t \in Thread,
         \/ \E k \in LockKind : MutexLock(t, k)
         \/ MutexUnlock(t) \/ LibraryStep(t) \/ HostStep(t)
  PROVE  SleepsUntimed'
  <1>1. /\ pc \in [Thread -> PC] /\ cond \in [Thread -> CondState]
        /\ timed \in [Thread -> BOOLEAN] /\ kind[t] # "timedlock"
    BY DEF MutexQueueInv, CallTypes, MutexInv, LockTypeOK, QueueInv, QueueTypeOK
  <1>2. CASE Walks(t)
    BY <1>1, <1>2, WalkersAreAwake DEF SleepsUntimed, queueVars
  <1>3. CASE LockWait(t) /\ ~Walks(t)
    <2>1. /\ FutexWaitSleep(t, mutex_state, LOCKED_WITH_WAITERS,
                            kind[t] = "timedlock")
          /\ Goto(t, "asleep")
      BY <1>3 DEF LockWait, Walks, FutexWaitMismatch
    <2>2. /\ timed'[t] = FALSE /\ cond'[t] = "waiting"
          /\ \A u \in Thread \ {t} : /\ pc'[u] = pc[u] /\ timed'[u] = timed[u]
                                    /\ cond'[u] = cond[u]
      BY <1>1, <2>1 DEF FutexWaitSleep, Goto
    <2>3. QED
      BY <2>2 DEF SleepsUntimed
  <1>4. CASE LockAwake(t)
    BY <1>1, <1>4 DEF LockAwake, FutexWaitReturn, ReturnTo, Goto, SleepsUntimed
  <1>5. CASE UnlockWake(t)
    BY <1>1, <1>5 DEF UnlockWake, FutexWake, Goto, SleepsUntimed
  <1>6. CASE HostStep(t)
    BY <1>1, <1>6
    DEF HostStep, CondTimeout, CondSpurious, SleepsUntimed, mutexVars
  <1>7. QED
    BY <1>2, <1>3, <1>4, <1>5, <1>6 DEF LibraryStep, Walks

(* Who sleeps after a step slept before it, or has just found the mark. *)
LEMMA SleepersAreOld ==
  ASSUME MutexQueueInv, NEW t \in Thread, NEW s \in Thread, SleepsOnMutex(s)',
         \/ \E k \in LockKind : MutexLock(t, k)
         \/ MutexUnlock(t) \/ LibraryStep(t) \/ HostStep(t)
  PROVE  SleepsOnMutex(s) \/ mem[mutex_state] = LOCKED_WITH_WAITERS
  <1>1. pc \in [Thread -> PC] /\ cond \in [Thread -> CondState]
    BY DEF MutexQueueInv, MutexInv, LockTypeOK, QueueInv, QueueTypeOK
  <1>2. CASE Walks(t)
    BY <1>1, <1>2, WalkersAreAwake DEF SleepsOnMutex, queueVars
  <1>3. CASE LockWait(t) /\ ~Walks(t)
    BY <1>3 DEF LockWait, Walks, FutexWaitMismatch, FutexWaitSleep
  <1>4. CASE LockAwake(t)
    BY <1>1, <1>4 DEF LockAwake, FutexWaitReturn, ReturnTo, Goto, SleepsOnMutex
  <1>5. CASE UnlockWake(t)
    BY <1>1, <1>5 DEF UnlockWake, FutexWake, Goto, SleepsOnMutex
  <1>6. CASE HostStep(t)
    BY <1>1, <1>6
    DEF HostStep, CondTimeout, CondSpurious, SleepsOnMutex, mutexVars
  <1>7. QED
    BY <1>2, <1>3, <1>4, <1>5, <1>6 DEF LibraryStep, Walks

(* The waiters stay looked after. *)
LEMMA WaiterStep ==
  ASSUME WaiterInv, "timedlock" \notin LockKind, NEW t \in Thread,
         \/ \E k \in LockKind : MutexLock(t, k)
         \/ MutexUnlock(t) \/ LibraryStep(t) \/ HostStep(t)
  PROVE  NoStrandedWaiter'
  <1> SUFFICES ASSUME NEW s \in Thread, SleepsOnMutex(s)' PROVE LookedAfter'
    BY DEF NoStrandedWaiter, SleepsOnMutex, LookedAfter
  <1>1. LookedAfter
    BY SleepersAreOld
    DEF WaiterInv, NoStrandedWaiter, SleepsOnMutex, LookedAfter
  <1>2. pc \in [Thread -> PC] /\ cond \in [Thread -> CondState]
    BY DEF WaiterInv, MutexQueueInv, MutexInv, LockTypeOK, QueueInv, QueueTypeOK
  <1>3. CASE UnlockWake(t)
    BY <1>3, WakeLooksAfter DEF WaiterInv
  <1>4. CASE LibraryStep(t) /\ ~UnlockWake(t)
    BY <1>1, <1>4, StepLooksAfter DEF WaiterInv
  <1>5. CASE (\E k \in LockKind : MutexLock(t, k)) \/ MutexUnlock(t)
    <2>1. /\ UNCHANGED <<mem, cond>> /\ pc[t] = "idle"
          /\ \A u \in Thread \ {t} : pc'[u] = pc[u]
      BY <1>2, <1>5 DEF MutexLock, MutexUnlock, Goto, queueVars
    <2>2. QED
      BY <1>1, <2>1 DEF LookedAfter, WillLookAfter
  <1>6. CASE HostStep(t)
    <2>1. /\ UNCHANGED <<mem, pc>>
          /\ \A u \in Thread : cond[u] = "woken" => cond'[u] = "woken"
      BY <1>2, <1>6 DEF HostStep, CondTimeout, CondSpurious, mutexVars
    <2>2. QED
      BY <1>1, <2>1 DEF LookedAfter, WillLookAfter
  <1>7. QED
    BY <1>3, <1>4, <1>5, <1>6

(***************************************************************************)
(* In a program without timed locks, a thread asleep on the mutex is       *)
(* looked after: the holder will find the waiters mark, or another thread  *)
(* is about to wake one or to take the mutex with the mark                 *)
(* (nc_mutex.c:121-128, 220-236).  With them it fails: EveryLockReturns.   *)
(***************************************************************************)
THEOREM NobodyIsStranded ==
  ASSUME "timedlock" \notin LockKind PROVE Spec => []NoStrandedWaiter
  <1>1. MutexInit => WaiterInv
    BY MutexQueueInit
    DEF MutexInit, WaiterInv, SleepsUntimed, NoStrandedWaiter
  <1>2. WaiterInv /\ [Next]_vars => WaiterInv'
    <2> SUFFICES ASSUME WaiterInv, [Next]_vars PROVE WaiterInv'
      OBVIOUS
    <2>1. MutexQueueInv'
      BY MutexQueueStep DEF WaiterInv
    <2>2. CASE Next
      BY <2>1, <2>2, StepKeepsUntimed, WaiterStep DEF Next, WaiterInv
    <2>3. CASE UNCHANGED vars
      BY <2>1, <2>3
      DEF vars, queueVars, mutexVars, WaiterInv, SleepsUntimed,
          NoStrandedWaiter, WillLookAfter
    <2>4. QED
      BY <2>2, <2>3
  <1>3. WaiterInv => NoStrandedWaiter
    BY DEF WaiterInv
  <1>4. QED
    BY <1>1, <1>2, <1>3, PTL DEF Spec

-----------------------------------------------------------------------------
(* pthread_once *)

(* The positions of a thread in pthread_once. *)
OPC == {"out", "locking", "init", "add", "unlock", "unlocking", "returned"}

(* Whoever is past the second check holds the lock. *)
InsideHolds ==
  \A t \in Thread :
    opc[t] \in {"init", "add", "unlock"} => pc[t] = "idle" /\ holds[t] > 0

(* Before, between and after the return of init_routine and its record. *)
Phase ==
  \/ done = 0 /\ inits = 0 /\ \A t \in Thread : opc[t] # "add"
  \/ done = 0 /\ inits = 1 /\ \E t \in Thread : opc[t] = "add"
  \/ done = 1 /\ inits = 1
     /\ \A t \in Thread : opc[t] \notin {"init", "add"}

LeftWhenDone ==
  \A t \in Thread : opc[t] \in {"unlock", "unlocking", "returned"} => done = 1

OnceInv ==
  /\ MutexInv
  /\ opc \in [Thread -> OPC]
  /\ InsideHolds
  /\ Phase
  /\ LeftWhenDone

(* Every step of pthread_once is a step of its mutex, or none. *)
LEMMA OnceStepsMutex == OnceAssumption /\ [OnceNext]_onceAllVars => [Next]_vars
  <1> SUFFICES ASSUME OnceAssumption, [OnceNext]_onceAllVars PROVE [Next]_vars
    OBVIOUS
  <1>1. CASE UNCHANGED onceAllVars
    BY <1>1 DEF onceAllVars
  <1>2. ASSUME NEW t \in Thread, OnceFast(t) PROVE [Next]_vars
    BY <1>2 DEF OnceFast, OnceAssumption, Next
  <1>3. ASSUME NEW t \in Thread, OnceStep(t) PROVE [Next]_vars
    BY <1>3 DEF OnceStep, OnceCheck, InitRoutineReturns, OnceAdd, OnceUnlock,
                Next
  <1>4. ASSUME NEW t \in Thread, HostStep(t) PROVE [Next]_vars
    BY <1>4 DEF Next
  <1>5. QED
    BY <1>1, <1>2, <1>3, <1>4 DEF OnceNext

(* Of two threads past the second check, one is the other. *)
LEMMA OneInside ==
  ASSUME OnceInv, NEW t \in Thread, NEW u \in Thread,
         holds[t] > 0, opc[u] \in {"init", "add", "unlock"}
  PROVE  t = u
  BY DEF OnceInv, InsideHolds, MutexInv, MutualExclusion, InLock

(* A step of t inside the mutex leaves those past the second check alone. *)
LEMMA MutexStepKeepsInside ==
  ASSUME OnceInv, NEW t \in Thread, NEW u \in Thread,
         LibraryStep(t) \/ HostStep(t),
         opc[u] \in {"init", "add", "unlock"}
  PROVE  pc'[u] = pc[u] /\ holds'[u] = holds[u]
  <1>1. CASE HostStep(t)
    BY <1>1 DEF HostStep, mutexVars
  <1>2. CASE LibraryStep(t)
    <2>1. pc[u] = "idle" /\ pc \in [Thread -> PC] /\ holds \in [Thread -> Nat]
      BY DEF OnceInv, InsideHolds, MutexInv, LockTypeOK
    <2>2. pc[t] # "idle"
      BY <1>2 DEF LibraryStep, LockCas, LockMark, LockWait, LockAwake,
                  LockRetake, LockOwn, UnlockSub, UnlockStore, UnlockWake
    <2>3. QED
      BY <1>2, <2>1, <2>2
      DEF LibraryStep, LockCas, LockMark, LockWait, LockAwake, LockRetake,
          LockOwn, UnlockSub, UnlockStore, UnlockWake, Acquire, MustWait,
          ReturnTo, Goto
  <1>3. QED
    BY <1>1, <1>2

(* A call of t into the mutex changes nothing of the others. *)
LEMMA CallLeavesOthers ==
  ASSUME OnceInv, NEW t \in Thread, NEW k,
         MutexLock(t, k) \/ MutexUnlock(t)
  PROVE  \A u \in Thread \ {t} : pc'[u] = pc[u] /\ holds'[u] = holds[u]
  <1>1. pc \in [Thread -> PC] /\ holds \in [Thread -> Nat]
    BY DEF OnceInv, MutexInv, LockTypeOK
  <1>2. CASE MutexLock(t, k)
    BY <1>1, <1>2 DEF MutexLock, Goto
  <1>3. CASE MutexUnlock(t)
    BY <1>1, <1>3 DEF MutexUnlock, Goto
  <1>4. QED
    BY <1>2, <1>3

(* A step of t inside the mutex keeps the rest: opc does not change.       *)
LEMMA QuietKeepsOnceInv ==
  ASSUME OnceInv, MutexInv', NEW t \in Thread,
         \/ LibraryStep(t) \/ HostStep(t) \/ UNCHANGED vars,
         UNCHANGED onceVars
  PROVE  OnceInv'
  <1>1. ASSUME NEW u \in Thread, opc[u] \in {"init", "add", "unlock"}
        PROVE  pc'[u] = pc[u] /\ holds'[u] = holds[u]
    BY <1>1, MutexStepKeepsInside DEF vars, mutexVars
  <1>2. InsideHolds'
    BY <1>1 DEF OnceInv, InsideHolds, onceVars
  <1>3. QED
    BY <1>2 DEF OnceInv, Phase, LeftWhenDone, onceVars

(* A step of t between calls of the mutex: t moves to where.               *)
LEMMA MoveKeepsTypes ==
  ASSUME OnceInv, NEW t \in Thread, NEW where \in OPC, OnceGoto(t, where)
  PROVE  /\ opc' \in [Thread -> OPC]
         /\ opc'[t] = where
         /\ \A u \in Thread \ {t} : opc'[u] = opc[u]
  BY DEF OnceInv, OnceGoto

(* The lock of once_control and the unlocked check before it.              *)
LEMMA FastKeepsOnceInv ==
  ASSUME OnceInv, MutexInv', NEW t \in Thread, OnceFast(t)
  PROVE  OnceInv'
  <1>1. /\ opc[t] = "out"
        /\ \E where \in {"locking", "returned"} :
             OnceGoto(t, where) /\ (where = "returned" => done # 0)
        /\ UNCHANGED <<done, inits>>
    BY DEF OnceFast
  <1>2. PICK where \in {"locking", "returned"} :
          OnceGoto(t, where) /\ (where = "returned" => done # 0)
    BY <1>1
  <1>3. /\ opc' \in [Thread -> OPC]
        /\ opc'[t] = where
        /\ \A u \in Thread \ {t} : opc'[u] = opc[u]
    BY <1>2, MoveKeepsTypes DEF OPC
  <1>4. \A u \in Thread \ {t} : pc'[u] = pc[u] /\ holds'[u] = holds[u]
    BY CallLeavesOthers DEF OnceFast, vars, mutexVars
  <1>5. InsideHolds'
    BY <1>2, <1>3, <1>4 DEF OnceInv, InsideHolds
  <1>6. Phase' /\ LeftWhenDone'
    BY <1>1, <1>2, <1>3 DEF OnceInv, Phase, LeftWhenDone
  <1>7. QED
    BY <1>3, <1>5, <1>6 DEF OnceInv

(* The second check: nobody else is past it, for t holds the lock.         *)
LEMMA CheckKeepsOnceInv ==
  ASSUME OnceInv, MutexInv', NEW t \in Thread, OnceCheck(t)
  PROVE  OnceInv'
  <1>1. /\ pc[t] = "idle" /\ holds[t] > 0 /\ opc[t] = "locking"
        /\ UNCHANGED <<pc, holds, done, inits>>
    BY DEF OnceCheck, Locked, vars, mutexVars
  <1>2. PICK where \in {"init", "unlock"} :
          /\ OnceGoto(t, where)
          /\ where = IF done = 0 THEN "init" ELSE "unlock"
    BY DEF OnceCheck
  <1>3. /\ opc' \in [Thread -> OPC]
        /\ opc'[t] = where
        /\ \A u \in Thread \ {t} : opc'[u] = opc[u]
    BY <1>2, MoveKeepsTypes DEF OPC
  <1>4. \A u \in Thread : opc[u] \notin {"init", "add", "unlock"}
    BY <1>1, OneInside
  <1>5. InsideHolds'
    BY <1>1, <1>3 DEF OnceInv, InsideHolds
  <1>6. Phase' /\ LeftWhenDone'
    BY <1>1, <1>2, <1>3, <1>4 DEF OnceInv, Phase, LeftWhenDone
  <1>7. QED
    BY <1>3, <1>5, <1>6 DEF OnceInv

(* init_routine returns, and that is recorded in done.                     *)
LEMMA InitKeepsOnceInv ==
  ASSUME OnceInv, MutexInv', NEW t \in Thread,
         InitRoutineReturns(t) \/ OnceAdd(t)
  PROVE  OnceInv'
  <1>1. UNCHANGED <<pc, holds>>
    BY DEF InitRoutineReturns, OnceAdd, vars, mutexVars
  <1>2. opc[t] \in {"init", "add"} /\ holds[t] > 0 /\ pc[t] = "idle"
    BY DEF InitRoutineReturns, OnceAdd, OnceInv, InsideHolds
  <1>3. \A u \in Thread \ {t} : opc[u] \notin {"init", "add", "unlock"}
    BY <1>2, OneInside
  <1>4. CASE InitRoutineReturns(t)
    <2>1. /\ opc' \in [Thread -> OPC] /\ opc'[t] = "add"
          /\ \A u \in Thread \ {t} : opc'[u] = opc[u]
      BY <1>4, MoveKeepsTypes DEF OPC, InitRoutineReturns
    <2>2. done = 0 /\ inits = 0 /\ done' = 0 /\ inits' = 1
      BY <1>3, <1>4 DEF OnceInv, Phase, InitRoutineReturns
    <2>3. QED
      BY <1>1, <1>2, <1>3, <2>1, <2>2
      DEF OnceInv, InsideHolds, Phase, LeftWhenDone
  <1>5. CASE OnceAdd(t)
    <2>1. /\ opc' \in [Thread -> OPC] /\ opc'[t] = "unlock"
          /\ \A u \in Thread \ {t} : opc'[u] = opc[u]
      BY <1>5, MoveKeepsTypes DEF OPC, OnceAdd
    <2>2. done = 0 /\ inits = 1 /\ done' = 1 /\ inits' = 1
      BY <1>5 DEF OnceInv, Phase, OnceAdd
    <2>3. QED
      BY <1>1, <1>2, <1>3, <2>1, <2>2
      DEF OnceInv, InsideHolds, Phase, LeftWhenDone
  <1>6. QED
    BY <1>4, <1>5

(* The unlock and the return. *)
LEMMA UnlockKeepsOnceInv ==
  ASSUME OnceInv, MutexInv', NEW t \in Thread, OnceUnlock(t)
  PROVE  OnceInv'
  <1>1. PICK where \in {"unlocking", "returned"} : OnceGoto(t, where)
    BY DEF OnceUnlock
  <1>2. /\ opc' \in [Thread -> OPC] /\ opc'[t] = where
        /\ \A u \in Thread \ {t} : opc'[u] = opc[u]
    BY <1>1, MoveKeepsTypes DEF OPC
  <1>3. opc[t] \in {"unlock", "unlocking"} /\ UNCHANGED <<done, inits>>
    BY DEF OnceUnlock
  <1>4. \A u \in Thread \ {t} : pc'[u] = pc[u] /\ holds'[u] = holds[u]
    BY CallLeavesOthers DEF OnceUnlock, vars, mutexVars
  <1>5. InsideHolds'
    BY <1>2, <1>4 DEF OnceInv, InsideHolds
  <1>6. Phase' /\ LeftWhenDone'
    BY <1>2, <1>3 DEF OnceInv, Phase, LeftWhenDone
  <1>7. QED
    BY <1>2, <1>5, <1>6 DEF OnceInv

(* Every step of pthread_once preserves the invariant.                     *)
LEMMA OnceStepKeepsInv == OnceInv /\ [OnceNext]_onceAllVars => OnceInv'
  <1> SUFFICES ASSUME OnceInv, [OnceNext]_onceAllVars PROVE OnceInv'
    OBVIOUS
  <1>1. MutexInv'
    BY OnceAssumption, OnceStepsMutex, MutexStep DEF OnceInv
  <1>2. ASSUME UNCHANGED onceAllVars PROVE OnceInv'
    BY <1>1, <1>2
    DEF onceAllVars, vars, mutexVars, onceVars, OnceInv, InsideHolds,
                      Phase, LeftWhenDone
  <1>3. ASSUME NEW t \in Thread, OnceFast(t) PROVE OnceInv'
    BY <1>1, <1>3, FastKeepsOnceInv
  <1>4. ASSUME NEW t \in Thread, OnceStep(t) PROVE OnceInv'
    BY <1>1, <1>4, CheckKeepsOnceInv, InitKeepsOnceInv, UnlockKeepsOnceInv,
       QuietKeepsOnceInv DEF OnceStep
  <1>5. ASSUME NEW t \in Thread, HostStep(t), UNCHANGED onceVars PROVE OnceInv'
    BY <1>1, <1>5, QuietKeepsOnceInv
  <1>6. QED
    BY <1>2, <1>3, <1>4, <1>5 DEF OnceNext

(* The invariant says what pthread_once promises.                          *)
LEMMA OnceInvSuffices == OnceInv => AtMostOneInit /\ NobodyReturnsEarly
  <1> SUFFICES ASSUME OnceInv PROVE AtMostOneInit /\ NobodyReturnsEarly
    OBVIOUS
  <1> DEFINE S == {t \in Thread : opc[t] = "init"}
  <1>1. NobodyReturnsEarly
    BY DEF OnceInv, Phase, LeftWhenDone, NobodyReturnsEarly
  <1>2. \A t \in S : t \in Thread /\ holds[t] > 0 /\ opc[t] = "init"
    BY DEF OnceInv, InsideHolds
  <1>3. \A t, u \in S : t = u
    BY <1>2, OneInside
  <1>4. ASSUME S = {} PROVE AtMostOneInit
    <2>1. Cardinality(S) = 0
      BY <1>4, FS_EmptySet
    <2>2. inits \in {0, 1}
      BY DEF OnceInv, Phase
    <2>3. QED
      BY <2>1, <2>2 DEF AtMostOneInit
  <1>5. ASSUME NEW t \in S PROVE AtMostOneInit
    <2>1. S = {t}
      BY <1>3, <1>5
    <2>2. Cardinality(S) = 1
      BY <2>1, FS_Singleton
    <2>3. \A u \in Thread : opc[u] # "add"
      BY <1>2, <1>5, OneInside
    <2>4. inits = 0
      BY <1>2, <1>5, <2>3 DEF OnceInv, Phase
    <2>5. QED
      BY <2>2, <2>4 DEF AtMostOneInit
  <1>6. QED
    BY <1>1, <1>4, <1>5 DEF AtMostOneInit

(* What the steps preserve holds in every state of a behaviour.            *)
LEMMA OnceInvariant == OnceSpec => []OnceInv
  <1>1. OnceInit => OnceInv
    <2> SUFFICES ASSUME OnceInit PROVE OnceInv
      OBVIOUS
    <2>1. MutexInv
      BY MutexInitInv DEF OnceInit
    <2>2. QED
      BY <2>1 DEF OnceInit, OnceInv, InsideHolds, Phase, LeftWhenDone, OPC
  <1>2. QED
    BY <1>1, OnceStepKeepsInv, PTL DEF OnceSpec

(***************************************************************************)
(* "Ensures that a piece of initialization code is executed at most once"  *)
(* (pthread.h:671), whoever calls pthread_once and however often.          *)
(***************************************************************************)
THEOREM OnceRunsOnce == OnceSpec => []AtMostOneInit
  BY OnceInvariant, OnceInvSuffices, PTL

(***************************************************************************)
(* No call of pthread_once returns before init_routine has returned, not   *)
(* even one that takes no lock (nc_mutex.c:253-268).                       *)
(***************************************************************************)
THEOREM OnceWaitsForInit == OnceSpec => []NobodyReturnsEarly
  BY OnceInvariant, OnceInvSuffices, PTL
-----------------------------------------------------------------------------
(* The condition variable: its mutex. *)

CPC == {"out", "wait", "asleep", "dirty", "pulsed", "done"}

CondTypes ==
  /\ cpc \in [Thread -> CPC]
  /\ seen \in [Thread -> 0 .. SeqMod - 1]
  /\ tokens \in Nat
  /\ mem[sequence_number] \in 0 .. SeqMod - 1

(* Who waits on the condition variable is a consumer that has given the    *)
(* mutex back; nobody else is on the futex queue but the mutex's waiters.  *)
WaitersAreOutside ==
  \A t \in Thread :
    /\ cpc[t] = "asleep" => t \in Consumer /\ pc[t] = "idle" /\ cond[t] # "out"
    /\ cpc[t] = "wait" => t \in Consumer
    /\ t \in linked => \/ pc[t] = "asleep"
                       \/ /\ cpc[t] = "asleep"
                          /\ futex_wait_addr[t] = sequence_number

LockPath == {"cas", "mark", "wait", "asleep", "retake"}

KindIsPath == \A t \in Thread : kind[t] # "none" <=> pc[t] \in LockPath

CondInv ==
  MutexQueueInv /\ CondTypes /\ WaitersAreOutside /\ KindIsPath

(* The steps of the condition variable itself leave the mutex alone, but   *)
(* for the lock that pthread_cond_wait ends with.                          *)
Outside(t) ==
  /\ UNCHANGED <<mutexFields, holds, calls>>
  /\ pc[t] = "idle"
  /\ \/ UNCHANGED <<pc, kind>>
     \/ Goto(t, "cas") /\ kind' = [kind EXCEPT ![t] = "lock"]

(* The constants of the futexes, the mutex and the condition variable. *)
LEMMA CondConstants ==
  /\ sequence_number \in Addr /\ mutex_state \in Addr
  /\ sequence_number # mutex_state
  /\ SeqMod \in Nat /\ SeqMod > 1 /\ 0 .. SeqMod - 1 \subseteq Word
  /\ "lock" \in LockKind /\ Producer \subseteq Thread
  <1>1. SeqMod \in Nat \ {0, 1}
    BY CondAssumption
  <1>2. SeqMod \in Nat /\ SeqMod > 1
    BY <1>1
  <1>3. mutex_state \in Addr
    BY MutexAssumption, FutexAssumption
  <1>4. QED
    BY <1>2, <1>3, CondAssumption, FutexAssumption

(* Each of them is such a step. *)
LEMMA CondStepIsOutside ==
  ASSUME CondInv, NEW t \in Thread, CondStep(t)
  PROVE  Outside(t)
  BY DEF CondInv, WaitersAreOutside, CondStep, CondFutexWait, CondAwake,
         PulseAdd, PulseWake, Relock, Outside, mutexVars

(* They write no word but the sequence number. *)
LEMMA CondStepMem ==
  ASSUME CondInv, NEW t \in Thread, CondStep(t)
  PROVE  /\ mem' \in [Addr -> Word] /\ mem'[mutex_state] = mem[mutex_state]
         /\ mem'[sequence_number] \in 0 .. SeqMod - 1
         /\ \/ mem' = mem
            \/ /\ PulseAdd(t)
               /\ mem'[sequence_number] = (mem[sequence_number] + 1) % SeqMod
  <1>1. mem \in [Addr -> Word] /\ mem[sequence_number] \in 0 .. SeqMod - 1
    BY DEF CondInv, CondTypes, MutexQueueInv, MutexInv, LockTypeOK
  <1>2. CASE mem' = mem
    BY <1>1, <1>2
  <1>3. CASE PulseAdd(t)
    <2>1. (mem[sequence_number] + 1) % SeqMod \in 0 .. SeqMod - 1
      BY <1>1, CondConstants
    <2>2. mem' = [mem EXCEPT ![sequence_number]
                    = (mem[sequence_number] + 1) % SeqMod]
      BY <1>3 DEF PulseAdd
    <2>3. QED
      BY <1>1, <1>3, <2>1, <2>2, CondConstants
  <1>4. QED
    BY <1>2, <1>3 DEF CondStep, CondFutexWait, CondAwake, PulseWake

(* So the mutex keeps its invariant... *)
LEMMA CondStepKeepsMutex ==
  ASSUME CondInv, NEW t \in Thread, CondStep(t)
  PROVE  MutexInv' /\ CallTypes'
  <1>1. MutexInv /\ CallTypes /\ pc \in [Thread -> PC] /\ pc[t] = "idle"
    BY CondStepIsOutside DEF CondInv, MutexQueueInv, MutexInv, LockTypeOK,
                             Outside
  <1>2. Outside(t) /\ mem' \in [Addr -> Word] /\ state' = state
    BY CondStepIsOutside, CondStepMem DEF state
  <1>3. /\ pc' \in [Thread -> PC]
        /\ \A u \in Thread : pc'[u] \in {"own", "sub", "store"}
                               <=> pc[u] \in {"own", "sub", "store"}
    BY <1>1, <1>2 DEF Outside, Goto, PC
  <1>4. UNCHANGED <<mutexFields, holds>>
    BY <1>2 DEF Outside
  <1>5. state \in {UNLOCKED, LOCKED_WITHOUT_WAITERS, LOCKED_WITH_WAITERS}
    BY <1>1 DEF MutexInv, LockTypeOK
  <1>6. MutexInv'
    BY <1>1, <1>2, <1>3, <1>4, <1>5, WalkKeepsInv
  <1>7. CallTypes'
    BY <1>1, <1>2, CondConstants DEF CallTypes, Outside, mutexFields
  <1>8. QED
    BY <1>6, <1>7

(* ... and the wait queue its own; those who sleep on the mutex are the    *)
(* same as before.                                                         *)
LEMMA CondStepKeepsQueue ==
  ASSUME CondInv, NEW t \in Thread, CondStep(t)
  PROVE  /\ QueueInv' /\ AsleepOnMutex'
         /\ \A u \in Thread : /\ pc[u] = "asleep" <=> pc'[u] = "asleep"
                              /\ pc[u] = "asleep" => cond'[u] = cond[u]
  <1>1. /\ pc \in [Thread -> PC] /\ linked \in SUBSET Thread /\ QueueInv
        /\ cond \in [Thread -> CondState] /\ AsleepOnMutex
        /\ futex_wait_addr \in [Thread -> Addr \cup {NoAddr}]
        /\ ListMatchesAddr
    BY DEF CondInv, MutexQueueInv, MutexInv, LockTypeOK, QueueInv, QueueTypeOK
  <1>2. mem' \in [Addr -> Word] /\ pc[t] = "idle"
    BY CondStepMem, CondStepIsOutside DEF Outside
  <1>3. \A u \in Thread : pc[u] = "asleep" <=> pc'[u] = "asleep"
    BY <1>1, <1>2, CondStepIsOutside DEF Outside, Goto
  <1>4. CASE UNCHANGED queueVars
    <2>1. QueueInv'
      BY <1>1, <1>2, <1>4, StoreKeepsInv
    <2>2. QED
      BY <1>1, <1>3, <1>4, <2>1 DEF AsleepOnMutex, queueVars
  <1>5. ASSUME NEW b \in BOOLEAN,
               FutexWaitSleep(t, sequence_number, seen[t], b)
        PROVE  /\ QueueInv' /\ AsleepOnMutex'
               /\ \A u \in Thread : pc[u] = "asleep" => cond'[u] = cond[u]
    <2>1. QueueInv'
      BY <1>1, <1>2, <1>5, SleepKeepsInv, CondConstants
    <2>2. /\ linked' = linked \cup {t} /\ cond'[t] # "out"
          /\ futex_wait_addr'[t] = sequence_number
          /\ \A u \in Thread \ {t} : /\ cond'[u] = cond[u]
                                    /\ futex_wait_addr'[u] = futex_wait_addr[u]
      BY <1>1, <1>5 DEF FutexWaitSleep, ListAddNodeAtEnd
    <2>3. QED
      BY <1>1, <1>2, <1>3, <2>1, <2>2, CondConstants DEF AsleepOnMutex
  <1>6. CASE CondAwake(t)
    <2>1. FutexWaitReturn(t)
      BY <1>6 DEF CondAwake
    <2>2. QueueInv'
      BY <1>1, <1>2, <2>1, ReturnKeepsInv
    <2>3. /\ linked' = linked \ {t}
          /\ \A u \in Thread \ {t} : /\ cond'[u] = cond[u]
                                    /\ futex_wait_addr'[u] = futex_wait_addr[u]
      BY <1>1, <2>1 DEF FutexWaitReturn, ListRemoveNodes
    <2>4. QED
      BY <1>1, <1>2, <1>3, <2>2, <2>3 DEF AsleepOnMutex
  <1>7. CASE PulseWake(t)
    <2>1. PICK n \in {1, Cardinality(Thread)} : FutexWake(sequence_number, n)
      BY <1>7 DEF PulseWake
    <2> DEFINE W == Woken(sequence_number, n)
    <2>2. QueueInv'
      BY <1>1, <1>2, <2>1, WakeKeepsInv
    <2>3. /\ linked' = linked \ W
          /\ futex_wait_addr' = [u \in Thread |-> IF u \in W THEN NoAddr
                                                  ELSE futex_wait_addr[u]]
          /\ cond' = [u \in Thread |-> IF u \in W /\ cond[u] = "waiting"
                                       THEN "woken" ELSE cond[u]]
      BY <2>1 DEF FutexWake, ListRemoveNodes
    <2>4. \A u \in W : u \in linked /\ futex_wait_addr[u] = sequence_number
      BY DEF Woken
    <2> HIDE DEF W
    <2>5. \A u \in Thread : pc[u] = "asleep" => u \notin W
      BY <1>1, <2>4, CondConstants DEF AsleepOnMutex
    <2>6. QED
      BY <1>1, <1>3, <2>2, <2>3, <2>5 DEF AsleepOnMutex
  <1>8. QED
    BY <1>3, <1>4, <1>5, <1>6, <1>7
    DEF CondStep, CondFutexWait, FutexWaitMismatch, PulseAdd

(* Every step of the program keeps the mutex and the queue. *)
LEMMA CondStepKeepsMutexQueue == CondInv /\ [CondNext]_allVars => MutexQueueInv'
  <1> SUFFICES ASSUME CondInv, [CondNext]_allVars PROVE MutexQueueInv'
    OBVIOUS
  <1>1. ASSUME NEW t \in Thread, CondStep(t) PROVE MutexQueueInv'
    BY <1>1, CondStepKeepsMutex, CondStepKeepsQueue DEF MutexQueueInv
  <1>2. ASSUME [Next]_vars PROVE MutexQueueInv'
    BY <1>2, MutexQueueStep DEF CondInv
  <1>3. ASSUME NEW t \in Thread,
               \/ ClientLock(t) \/ LibraryStep(t) \/ CondWait(t)
               \/ Put(t) \/ Take(t) \/ ClientUnlock(t) \/ HostStep(t)
        PROVE  [Next]_vars
    BY <1>3 DEF ClientLock, CondWait, Put, Take, ClientUnlock, Next
  <1>4. UNCHANGED allVars => [Next]_vars
    BY DEF allVars
  <1>5. QED
    BY <1>1, <1>2, <1>3, <1>4 DEF CondNext, Work

(* A step of the mutex or of the host. *)
MutexStepOf(t) ==
  \/ \E k \in LockKind : MutexLock(t, k)
  \/ MutexUnlock(t) \/ LibraryStep(t) \/ HostStep(t)

(* What it leaves of the other threads, and of the sequence number. *)
LEMMA MutexStepOthers ==
  ASSUME MutexQueueInv, NEW t \in Thread, MutexStepOf(t)
  PROVE  /\ mem'[sequence_number] = mem[sequence_number]
         /\ \A u \in Thread \ {t} :
              /\ pc'[u] = pc[u] /\ kind'[u] = kind[u] /\ holds'[u] = holds[u]
              /\ calls'[u] = calls[u]
              /\ cond'[u] = "out" <=> cond[u] = "out"
              /\ cond'[u] = "waiting" => cond[u] = "waiting"
              /\ u \in linked' => /\ u \in linked
                                  /\ futex_wait_addr'[u] = futex_wait_addr[u]
              /\ u \in linked /\ pc[u] # "asleep" => u \in linked'
  <1>1. /\ pc \in [Thread -> PC] /\ holds \in [Thread -> Nat]
        /\ kind \in [Thread -> LockKind \cup {"none"}]
        /\ calls \in [Thread -> 0..MaxCalls] /\ mem \in [Addr -> Word]
        /\ cond \in [Thread -> CondState] /\ linked \in SUBSET Thread
        /\ futex_wait_addr \in [Thread -> Addr \cup {NoAddr}]
    BY DEF MutexQueueInv, CallTypes, MutexInv, LockTypeOK, QueueInv, QueueTypeOK
  <1>2. CASE Walks(t)
    <2>1. UNCHANGED queueVars /\ \A u \in Thread \ {t} : pc'[u] = pc[u]
      BY <1>1, <1>2, WalkersAreAwake
    <2>2. \A u \in Thread \ {t} : kind'[u] = kind[u] /\ holds'[u] = holds[u]
                                  /\ calls'[u] = calls[u]
      <3>1. CASE LibraryStep(t)
        BY <1>1, <3>1
        DEF LibraryStep, LockCas, LockMark, LockWait, LockAwake, LockRetake,
            LockOwn, UnlockSub, UnlockStore, UnlockWake, Acquire, MustWait,
            ReturnTo
      <3>2. CASE ~LibraryStep(t)
        BY <1>1, <3>2
        DEF MutexStepOf, MutexLock, MutexUnlock, HostStep, mutexVars
      <3>3. QED
        BY <3>1, <3>2
    <2>3. mem'[sequence_number] = mem[sequence_number]
      BY <1>1, <1>2, CondConstants
      DEF Walks, MutexLock, MutexUnlock, LockCas, LockMark, LockRetake,
          LockOwn, UnlockSub, UnlockStore, Acquire, MustWait, SetMem
    <2>4. QED
      BY <2>1, <2>2, <2>3 DEF queueVars
  <1>3. CASE LockWait(t) /\ ~Walks(t)
    <2>1. /\ FutexWaitSleep(t, mutex_state, LOCKED_WITH_WAITERS,
                            kind[t] = "timedlock")
          /\ Goto(t, "asleep") /\ UNCHANGED <<mem, kind, holds, calls>>
      BY <1>3 DEF LockWait, Walks, FutexWaitMismatch
    <2>2. QED
      BY <1>1, <2>1 DEF FutexWaitSleep, ListAddNodeAtEnd, Goto
  <1>4. CASE LockAwake(t)
    BY <1>1, <1>4
    DEF LockAwake, FutexWaitReturn, ListRemoveNodes, ReturnTo, Goto
  <1>5. CASE UnlockWake(t)
    <2> DEFINE W == Woken(mutex_state, 1)
    <2>1. /\ linked' = linked \ W
          /\ futex_wait_addr' = [u \in Thread |-> IF u \in W THEN NoAddr
                                                  ELSE futex_wait_addr[u]]
          /\ cond' = [u \in Thread |-> IF u \in W /\ cond[u] = "waiting"
                                       THEN "woken" ELSE cond[u]]
          /\ pc' = [pc EXCEPT ![t] = "idle"]
          /\ UNCHANGED <<mem, kind, holds, calls>>
      BY <1>5 DEF UnlockWake, FutexWake, ListRemoveNodes, Goto
    <2>2. \A u \in W : u \in linked /\ futex_wait_addr[u] = mutex_state
      BY DEF Woken
    <2> HIDE DEF W
    <2>3. \A u \in Thread : u \in linked /\ pc[u] # "asleep" => u \notin W
      BY <2>2 DEF MutexQueueInv, AsleepOnMutex
    <2>4. QED
      BY <1>1, <2>1, <2>3
  <1>6. CASE HostStep(t)
    BY <1>1, <1>6 DEF HostStep, CondTimeout, CondSpurious, mutexVars
  <1>7. QED
    BY <1>2, <1>3, <1>4, <1>5, <1>6 DEF MutexStepOf, LibraryStep, Walks

(* What a step of the mutex does to the thread that takes it. *)
LEMMA MutexStepSelf ==
  ASSUME CondInv, NEW t \in Thread, MutexStepOf(t),
         cpc[t] # "asleep" \/ HostStep(t) \/ LibraryStep(t)
  PROVE  /\ t \in linked' => pc'[t] = "asleep" \/ HostStep(t)
         /\ HostStep(t) => UNCHANGED <<linked, futex_wait_addr, pc, kind>>
                           /\ cond'[t] # "out"
         /\ kind'[t] # "none" <=> pc'[t] \in LockPath
         /\ LibraryStep(t) => pc[t] # "idle"
  <1>1. /\ pc \in [Thread -> PC] /\ linked \in SUBSET Thread
        /\ kind \in [Thread -> LockKind \cup {"none"}] /\ "none" \notin LockKind
        /\ cond \in [Thread -> CondState] /\ KindIsPath /\ WaitersAreOutside
    BY MutexAssumption
    DEF CondInv, MutexQueueInv, CallTypes, MutexInv, LockTypeOK, QueueInv,
        QueueTypeOK
  <1>2. LibraryStep(t) => pc[t] # "idle"
    BY DEF LibraryStep, LockCas, LockMark, LockWait, LockAwake, LockRetake,
           LockOwn, UnlockSub, UnlockStore, UnlockWake
  <1>3. HostStep(t) => UNCHANGED <<linked, futex_wait_addr, pc, kind>>
                       /\ cond'[t] # "out"
    BY <1>1 DEF HostStep, CondTimeout, CondSpurious, mutexVars
  <1>4. kind'[t] # "none" <=> pc'[t] \in LockPath
    <2>1. kind[t] # "none" <=> pc[t] \in LockPath
      BY <1>1 DEF KindIsPath
    <2>2. CASE LibraryStep(t)
      BY <1>1, <2>1, <2>2
      DEF LibraryStep, LockCas, LockMark, LockWait, LockAwake, LockRetake,
          LockOwn, UnlockSub, UnlockStore, UnlockWake, Acquire, MustWait,
          ReturnTo, Goto, LockPath
    <2>3. CASE ~LibraryStep(t)
      BY <1>1, <2>1, <2>3
      DEF MutexStepOf, MutexLock, MutexUnlock, HostStep, mutexVars, Goto,
          LockPath
    <2>4. QED
      BY <2>2, <2>3
  <1>5. t \in linked' => pc'[t] = "asleep" \/ HostStep(t)
    <2>1. CASE Walks(t)
      <3>1. pc[t] # "asleep" /\ UNCHANGED linked
        BY <1>1, <2>1, WalkersAreAwake DEF queueVars
      <3>2. t \in linked => cpc[t] = "asleep" /\ pc[t] = "idle"
        BY <1>1, <3>1 DEF WaitersAreOutside
      <3>3. QED
        BY <1>2, <3>1, <3>2
    <2>2. CASE LockWait(t) /\ ~Walks(t)
      BY <1>1, <2>2 DEF LockWait, Walks, Goto, FutexWaitMismatch
    <2>3. CASE LockAwake(t)
      BY <1>1, <2>3 DEF LockAwake, FutexWaitReturn, ListRemoveNodes
    <2>4. CASE UnlockWake(t)
      BY <1>1, <2>4
      DEF UnlockWake, FutexWake, ListRemoveNodes, WaitersAreOutside
    <2>5. QED
      BY <2>1, <2>2, <2>3, <2>4 DEF MutexStepOf, LibraryStep, Walks
  <1>6. QED
    BY <1>2, <1>3, <1>4, <1>5

(* A step of the mutex by t, which may change where t alone is in the      *)
(* program, keeps the threads that wait outside the mutex.                 *)
LEMMA MutexStepKeepsOutside ==
  ASSUME CondInv, NEW t \in Thread, MutexStepOf(t),
         cpc[t] # "asleep" \/ HostStep(t) \/ LibraryStep(t),
         cpc' \in [Thread -> CPC],
         \A u \in Thread \ {t} : cpc'[u] = cpc[u],
         \/ cpc'[t] = cpc[t]
         \/ /\ cpc[t] # "asleep" /\ cpc'[t] # "asleep" /\ ~HostStep(t)
            /\ cpc'[t] = "wait" => t \in Consumer
  PROVE  WaitersAreOutside' /\ KindIsPath'
  <1>1. /\ \A u \in Thread \ {t} :
             /\ pc'[u] = pc[u] /\ kind'[u] = kind[u]
             /\ cond'[u] = "out" <=> cond[u] = "out"
             /\ u \in linked' => /\ u \in linked
                                 /\ futex_wait_addr'[u] = futex_wait_addr[u]
        /\ t \in linked' => pc'[t] = "asleep" \/ HostStep(t)
        /\ HostStep(t) => UNCHANGED <<linked, futex_wait_addr, pc, kind>>
                          /\ cond'[t] # "out"
        /\ kind'[t] # "none" <=> pc'[t] \in LockPath
        /\ LibraryStep(t) => pc[t] # "idle"
    BY MutexStepOthers, MutexStepSelf DEF CondInv
  <1>2. WaitersAreOutside /\ KindIsPath
    BY DEF CondInv
  <1>3. KindIsPath'
    BY <1>1, <1>2 DEF KindIsPath
  <1>4. ASSUME NEW u \in Thread \ {t}
        PROVE  /\ cpc'[u] = "asleep"
                    => u \in Consumer /\ pc'[u] = "idle" /\ cond'[u] # "out"
               /\ cpc'[u] = "wait" => u \in Consumer
               /\ u \in linked' => \/ pc'[u] = "asleep"
                                   \/ /\ cpc'[u] = "asleep"
                                      /\ futex_wait_addr'[u] = sequence_number
    BY <1>1, <1>2 DEF WaitersAreOutside
  <1>5. cpc'[t] = "asleep" => cpc[t] = "asleep" /\ HostStep(t)
    BY <1>1, <1>2 DEF WaitersAreOutside
  <1>6. /\ cpc'[t] = "asleep"
             => t \in Consumer /\ pc'[t] = "idle" /\ cond'[t] # "out"
        /\ cpc'[t] = "wait" => t \in Consumer
        /\ t \in linked' => \/ pc'[t] = "asleep"
                            \/ /\ cpc'[t] = "asleep"
                               /\ futex_wait_addr'[t] = sequence_number
    <2>1. CASE HostStep(t)
      BY <1>1, <1>2, <2>1 DEF WaitersAreOutside
    <2>2. CASE ~HostStep(t)
      BY <1>1, <1>2, <1>5, <2>2 DEF WaitersAreOutside
    <2>3. QED
      BY <2>1, <2>2
  <1>7. WaitersAreOutside'
    BY <1>4, <1>6 DEF WaitersAreOutside, Consumer
  <1>8. QED
    BY <1>3, <1>7

(* pthread_cond_wait: join the queue, or leave it and lock again. *)
LEMMA CondWaitKeepsOutside ==
  ASSUME CondInv, NEW t \in Thread, CondFutexWait(t) \/ CondAwake(t)
  PROVE  CondTypes' /\ WaitersAreOutside' /\ KindIsPath'
  <1>1. /\ pc \in [Thread -> PC] /\ linked \in SUBSET Thread
        /\ cond \in [Thread -> CondState] /\ ListMatchesAddr
        /\ futex_wait_addr \in [Thread -> Addr \cup {NoAddr}]
        /\ kind \in [Thread -> LockKind \cup {"none"}] /\ "none" \notin LockKind
        /\ CondTypes /\ WaitersAreOutside /\ KindIsPath /\ AsleepOnMutex
    BY MutexAssumption
    DEF CondInv, MutexQueueInv, CallTypes, MutexInv, LockTypeOK, QueueInv,
        QueueTypeOK
  <1>2. pc[t] = "idle" /\ mem' = mem /\ tokens' = tokens /\ SeqMod \in Nat
        /\ 0 \in 0 .. SeqMod - 1
    BY <1>1, CondConstants
    DEF CondFutexWait, CondAwake, WaitersAreOutside
  <1>3. cpc[t] \in {"wait", "asleep"} /\ t \in Consumer
    BY <1>1 DEF CondFutexWait, CondAwake, WaitersAreOutside
  <1>4. CASE Relock(t) /\ (UNCHANGED queueVars \/ FutexWaitReturn(t))
    <2>1. /\ pc'[t] = "cas" /\ kind'[t] = "lock" /\ cpc'[t] = "out"
          /\ \A u \in Thread \ {t} : /\ pc'[u] = pc[u] /\ kind'[u] = kind[u]
                                    /\ cpc'[u] = cpc[u]
      BY <1>1, <1>4 DEF Relock, Goto, CGoto, CondTypes
    <2>2. CondTypes'
      BY <1>1, <1>2, <1>4 DEF CondTypes, Relock, CGoto, CPC
    <2>3. KindIsPath'
      BY <1>1, <2>1 DEF KindIsPath, LockPath
    <2>4. /\ \A u \in Thread \ {t} : /\ cond'[u] = cond[u]
                                    /\ futex_wait_addr'[u] = futex_wait_addr[u]
          /\ linked' \subseteq linked /\ t \notin linked'
      <3>1. CASE UNCHANGED queueVars
        <4>1. CondFutexWait(t) => cond[t] = "out"
          BY DEF CondFutexWait, FutexWaitMismatch, FutexWaitSleep
        <4>2. CondAwake(t) => cond'[t] = "out" /\ cond[t] # "out"
          BY <1>1 DEF CondAwake, FutexWaitReturn, WaitersAreOutside
        <4>3. t \notin linked
          BY <1>1, <3>1, <4>1, <4>2 DEF ListMatchesAddr, queueVars
        <4>4. QED
          BY <3>1, <4>3 DEF queueVars
      <3>2. CASE FutexWaitReturn(t)
        BY <1>1, <3>2 DEF FutexWaitReturn, ListRemoveNodes
      <3>3. QED
        BY <1>4, <3>1, <3>2
    <2>5. WaitersAreOutside'
      BY <1>1, <2>1, <2>4 DEF WaitersAreOutside, Consumer
    <2>6. QED
      BY <2>2, <2>3, <2>5
  <1>5. ASSUME NEW b \in BOOLEAN,
               FutexWaitSleep(t, sequence_number, seen[t], b),
               CGoto(t, "asleep"), UNCHANGED <<pc, kind, seen>>
        PROVE  CondTypes' /\ WaitersAreOutside' /\ KindIsPath'
    <2>1. CondTypes'
      BY <1>1, <1>2, <1>5 DEF CondTypes, CGoto, CPC
    <2>2. KindIsPath'
      BY <1>1, <1>5 DEF KindIsPath
    <2>3. /\ linked' = linked \cup {t} /\ cond'[t] = "waiting"
          /\ futex_wait_addr'[t] = sequence_number /\ cpc'[t] = "asleep"
          /\ \A u \in Thread \ {t} : /\ cond'[u] = cond[u] /\ cpc'[u] = cpc[u]
                                    /\ futex_wait_addr'[u] = futex_wait_addr[u]
      BY <1>1, <1>5
      DEF FutexWaitSleep, ListAddNodeAtEnd, CGoto, CondTypes
    <2>4. WaitersAreOutside'
      BY <1>1, <1>2, <1>3, <1>5, <2>3 DEF WaitersAreOutside, Consumer
    <2>5. QED
      BY <2>1, <2>2, <2>4
  <1>6. QED
    BY <1>4, <1>5 DEF CondFutexWait, CondAwake, FutexWaitMismatch

(* A signal: who it wakes stays where it is in the program. *)
LEMMA PulseKeepsOutside ==
  ASSUME CondInv, NEW t \in Thread, PulseAdd(t) \/ PulseWake(t)
  PROVE  CondTypes' /\ WaitersAreOutside' /\ KindIsPath'
  <1>1. /\ linked \in SUBSET Thread /\ cond \in [Thread -> CondState]
        /\ CondTypes /\ WaitersAreOutside /\ KindIsPath
    BY DEF CondInv, MutexQueueInv, QueueInv, QueueTypeOK
  <1>2. UNCHANGED <<pc, kind, seen, tokens>>
    BY DEF PulseAdd, PulseWake, mutexVars
  <1>3. mem'[sequence_number] \in 0 .. SeqMod - 1
    BY CondStepMem DEF CondStep
  <1>4. /\ cpc' \in [Thread -> CPC]
        /\ \A u \in Thread \ {t} : cpc'[u] = cpc[u]
        /\ cpc[t] \in {"dirty", "pulsed"}
        /\ cpc'[t] \in {"pulsed", "done", "out"}
    BY <1>1 DEF PulseAdd, PulseWake, CGoto, CondTypes, CPC
  <1>5. CondTypes' /\ KindIsPath'
    BY <1>1, <1>2, <1>3, <1>4 DEF CondTypes, KindIsPath
  <1>6. /\ \A u \in Thread : /\ cond'[u] = "out" <=> cond[u] = "out"
                             /\ u \in linked' =>
                                  futex_wait_addr'[u] = futex_wait_addr[u]
        /\ linked' \subseteq linked
    <2>1. CASE PulseAdd(t)
      BY <2>1 DEF PulseAdd, queueVars
    <2>2. CASE PulseWake(t)
      <3>1. PICK n \in {1, Cardinality(Thread)} : FutexWake(sequence_number, n)
        BY <2>2 DEF PulseWake
      <3>2. PICK W \in {Woken(sequence_number, n)} :
              /\ linked' = linked \ W
              /\ futex_wait_addr' = [u \in Thread |-> IF u \in W THEN NoAddr
                                                      ELSE futex_wait_addr[u]]
              /\ cond' = [u \in Thread |-> IF u \in W /\ cond[u] = "waiting"
                                           THEN "woken" ELSE cond[u]]
        BY <3>1 DEF FutexWake, ListRemoveNodes
      <3>3. QED
        BY <1>1, <3>2
    <2>3. QED
      BY <2>1, <2>2
  <1>7. WaitersAreOutside'
    BY <1>1, <1>2, <1>4, <1>6 DEF WaitersAreOutside, Consumer
  <1>8. QED
    BY <1>5, <1>7

(* The invariant is kept by every step of the program. *)
LEMMA CondNextKeepsInv == CondInv /\ [CondNext]_allVars => CondInv'
  <1> SUFFICES ASSUME CondInv, [CondNext]_allVars PROVE CondInv'
    OBVIOUS
  <1>1. MutexQueueInv'
    BY CondStepKeepsMutexQueue
  <1>2. /\ CondTypes /\ WaitersAreOutside /\ KindIsPath /\ MutexQueueInv
        /\ SeqMod \in Nat /\ SeqMod > 1
    BY CondConstants DEF CondInv
  <1>3. ASSUME NEW t \in Thread,
               \/ ClientLock(t)
               \/ LibraryStep(t) /\ UNCHANGED condVars
               \/ HostStep(t) /\ UNCHANGED condVars
        PROVE  CondInv'
    <2>1. MutexStepOf(t) /\ UNCHANGED condVars
          /\ (cpc[t] # "asleep" \/ HostStep(t) \/ LibraryStep(t))
      BY <1>3 DEF MutexStepOf, ClientLock
    <2>2. mem'[sequence_number] = mem[sequence_number]
      BY <1>2, <2>1, MutexStepOthers
    <2>3. CondTypes'
      BY <1>2, <2>1, <2>2 DEF CondTypes, condVars
    <2>4. WaitersAreOutside' /\ KindIsPath'
      BY <1>2, <2>1, MutexStepKeepsOutside DEF condVars, CondTypes
    <2>5. QED
      BY <1>1, <2>3, <2>4 DEF CondInv
  <1>4. ASSUME NEW t \in Thread, CondWait(t) \/ ClientUnlock(t)
        PROVE  CondInv'
    <2>1. MutexStepOf(t) /\ MutexUnlock(t)
      BY <1>4 DEF MutexStepOf, CondWait, ClientUnlock
    <2>2. mem'[sequence_number] = mem[sequence_number]
      BY <1>2, <2>1, MutexStepOthers
    <2>3. CondTypes'
      BY <1>2, <1>4, <2>2
      DEF CondTypes, CondWait, ClientUnlock, CGoto, CPC
    <2>4. ~HostStep(t)
      <3>1. pc[t] = "idle" /\ UNCHANGED queueVars
        BY <2>1 DEF MutexUnlock
      <3>2. cond \in [Thread -> CondState]
        BY <1>2 DEF MutexQueueInv, QueueInv, QueueTypeOK
      <3>3. HostStep(t) => cond'[t] # cond[t]
        BY <3>2 DEF HostStep, CondTimeout, CondSpurious
      <3>4. QED
        BY <3>1, <3>3 DEF queueVars
    <2>5. /\ cpc[t] # "asleep"
          /\ \A u \in Thread \ {t} : cpc'[u] = cpc[u]
          /\ \/ cpc'[t] = cpc[t]
             \/ cpc'[t] = "out"
             \/ cpc'[t] = "wait" /\ t \in Consumer
      BY <1>2, <1>4 DEF CondTypes, CondWait, ClientUnlock, CGoto
    <2>6. WaitersAreOutside' /\ KindIsPath'
      BY <2>1, <2>3, <2>4, <2>5, MutexStepKeepsOutside DEF CondTypes
    <2>7. QED
      BY <1>1, <2>3, <2>6 DEF CondInv
  <1>5. ASSUME NEW t \in Thread, Put(t) \/ Take(t)
        PROVE  CondInv'
    <2>1. UNCHANGED <<mem, pc, kind, linked, cond, futex_wait_addr, seen>>
      BY <1>5 DEF Put, Take, vars, mutexVars, queueVars
    <2>2. /\ cpc[t] = "out" /\ cpc' \in [Thread -> CPC]
          /\ \A u \in Thread \ {t} : cpc'[u] = cpc[u]
          /\ cpc'[t] \in {"dirty", "done"} /\ tokens' \in Nat
      BY <1>2, <1>5 DEF Put, Take, CGoto, CondTypes, CPC
    <2>3. CondTypes' /\ WaitersAreOutside' /\ KindIsPath'
      BY <1>2, <2>1, <2>2
      DEF CondTypes, WaitersAreOutside, KindIsPath, Consumer
    <2>4. QED
      BY <1>1, <2>3 DEF CondInv
  <1>6. ASSUME NEW t \in Thread, CondStep(t) PROVE CondInv'
    BY <1>1, <1>6, CondWaitKeepsOutside, PulseKeepsOutside DEF CondStep, CondInv
  <1>7. CASE UNCHANGED allVars
    BY <1>1, <1>2, <1>7
    DEF allVars, vars, mutexVars, queueVars, condVars, CondInv, CondTypes,
        WaitersAreOutside, KindIsPath
  <1>8. QED
    BY <1>3, <1>4, <1>5, <1>6, <1>7 DEF CondNext, Work

(* The invariant in every state. *)
LEMMA CondInvariant == CondSpec => []CondInv
  <1>1. CondInit => CondInv
    <2> SUFFICES ASSUME CondInit PROVE CondInv
      OBVIOUS
    <2>1. MutexQueueInv
      BY MutexQueueInit DEF CondInit
    <2>2. CondTypes /\ WaitersAreOutside /\ KindIsPath
      BY CondConstants, MutexAssumption
      DEF CondInit, MutexInit, QueueInit, CondTypes, WaitersAreOutside,
          KindIsPath, CPC, LockPath, UNLOCKED
    <2>3. QED
      BY <2>1, <2>2 DEF CondInv
  <1>2. QED
    BY <1>1, CondNextKeepsInv, PTL DEF CondSpec

(***************************************************************************)
(* In a program that waits and signals with the mutex, too, at most one    *)
(* thread has the mutex, and the unsynchronised read of its owner is right *)
(* (nc_mutex.c:147-151): pthread_cond_wait gives it back and takes it      *)
(* again in order.                                                         *)
(***************************************************************************)
THEOREM CondKeepsMutexCorrect ==
  CondSpec => [](MutualExclusion /\ OwnersAreRight)
  <1>1. CondInv => MutualExclusion /\ OwnersAreRight
    BY DEF CondInv, MutexQueueInv, MutexInv, LockTypeOK, QueueInv, CallTypes,
           OwnersAreRight, MutexTypeOK
  <1>2. QED
    BY <1>1, CondInvariant, PTL

(* A step of the condition variable leaves the mutex's waiters as they     *)
(* are, and whoever looks after them.                                      *)
LEMMA CondStepKeepsWaiters ==
  ASSUME CondInv, SleepsUntimed, NoStrandedWaiter, NEW t \in Thread, CondStep(t)
  PROVE  SleepsUntimed' /\ NoStrandedWaiter'
  <1>1. /\ \A u \in Thread : /\ pc[u] = "asleep" <=> pc'[u] = "asleep"
                             /\ pc[u] = "asleep" => cond'[u] = cond[u]
        /\ mem'[mutex_state] = mem[mutex_state]
        /\ pc[t] = "idle"
    BY CondStepKeepsQueue, CondStepMem, CondStepIsOutside DEF Outside
  <1>2. pc \in [Thread -> PC] /\ timed \in [Thread -> BOOLEAN]
    BY DEF CondInv, MutexQueueInv, MutexInv, LockTypeOK, QueueInv, QueueTypeOK
  <1>3. \A u \in Thread \ {t} : pc'[u] = pc[u] /\ timed'[u] = timed[u]
    <2>1. \A u \in Thread \ {t} : pc'[u] = pc[u]
      BY <1>2, CondStepIsOutside DEF Outside, Goto
    <2>2. \A u \in Thread \ {t} : timed'[u] = timed[u]
      BY <1>2
      DEF CondStep, CondFutexWait, CondAwake, PulseAdd, PulseWake, queueVars,
          FutexWaitMismatch, FutexWaitSleep, FutexWaitReturn, FutexWake
    <2>3. QED
      BY <2>1, <2>2
  <1>4. SleepsUntimed'
    BY <1>1, <1>3 DEF SleepsUntimed
  <1>5. \A u \in Thread : WillLookAfter(u) => WillLookAfter(u)'
    BY <1>1, <1>3 DEF WillLookAfter
  <1>6. NoStrandedWaiter'
    BY <1>1, <1>5 DEF NoStrandedWaiter
  <1>7. QED
    BY <1>4, <1>6

(***************************************************************************)
(* Nor does a thread sleep on that mutex with nobody to look after it, as  *)
(* long as the program takes it without a deadline: the threads that sleep *)
(* on the condition variable share the wait list with those on the mutex   *)
(* but do not get their wakes (nc_mutex.c:121-128, 220-236).               *)
(***************************************************************************)
THEOREM CondStrandsNobody ==
  ASSUME "timedlock" \notin LockKind PROVE CondSpec => []NoStrandedWaiter
  <1>1. CondInit => SleepsUntimed /\ NoStrandedWaiter
    BY DEF CondInit, MutexInit, SleepsUntimed, NoStrandedWaiter
  <1>2. ASSUME CondInv, SleepsUntimed /\ NoStrandedWaiter, [CondNext]_allVars
        PROVE  (SleepsUntimed /\ NoStrandedWaiter)'
    <2>1. WaiterInv
      BY <1>2 DEF WaiterInv, CondInv
    <2>2. ASSUME NEW t \in Thread, MutexStepOf(t)
          PROVE  SleepsUntimed' /\ NoStrandedWaiter'
      BY <2>1, <2>2, WaiterStep, StepKeepsUntimed DEF MutexStepOf, WaiterInv
    <2>3. ASSUME NEW t \in Thread, CondStep(t)
          PROVE  SleepsUntimed' /\ NoStrandedWaiter'
      BY <1>2, <2>3, CondStepKeepsWaiters
    <2>4. ASSUME UNCHANGED vars
          PROVE  SleepsUntimed' /\ NoStrandedWaiter'
      BY <1>2, <2>4
      DEF vars, queueVars, mutexVars, SleepsUntimed, NoStrandedWaiter,
          WillLookAfter
    <2>5. ASSUME NEW t \in Thread,
                 \/ ClientLock(t) \/ LibraryStep(t) \/ CondWait(t)
                 \/ ClientUnlock(t) \/ HostStep(t)
          PROVE  MutexStepOf(t)
      BY <2>5 DEF ClientLock, CondWait, ClientUnlock, MutexStepOf
    <2>6. (\E t \in Thread : Put(t) \/ Take(t)) \/ UNCHANGED allVars
          => UNCHANGED vars
      BY DEF Put, Take, allVars
    <2>7. QED
      BY <1>2, <2>2, <2>3, <2>4, <2>5, <2>6 DEF CondNext, Work
  <1>3. QED
    BY <1>1, <1>2, CondInvariant, PTL DEF CondSpec
-----------------------------------------------------------------------------
(* The signals. *)

(***************************************************************************)
(* The consumers that will look at tokens once more and are not to be      *)
(* counted twice: one that returned from futex_wait_abs by itself may have *)
(* to answer for a signal that is still to come, and counts only when it   *)
(* is off the list.  Who tries the lock, or has given it back, may leave.  *)
(***************************************************************************)
Served ==
  {t \in Consumer : \/ cpc[t] = "asleep" /\ t \notin linked
                    \/ cpc[t] = "wait" /\ seen[t] # mem[sequence_number]
                    \/ /\ cpc[t] = "out"
                       /\ holds[t] > 0 \/ pc[t] = "own" \/ kind[t] = "lock"}

Pending(where) == {t \in Producer : cpc[t] \in where}

(* A consumer that is going to sleep unless there is another signal. *)
Fresh(t) == cpc[t] = "wait" /\ seen[t] = mem[sequence_number]

(* For a consumer not yet asleep only signals count whose increment is     *)
(* still to come.                                                          *)
Signalled ==
  /\ (\E t \in Consumer : OnCond(t))
       => tokens <= Cardinality(Served)
                    + Cardinality(Pending({"dirty", "pulsed"}))
  /\ (\E t \in Consumer : Fresh(t))
       => tokens <= Cardinality(Served) + Cardinality(Pending({"dirty"}))

(***************************************************************************)
(* The hazard of nc_condvar.c:61, excluded: no increment brings the        *)
(* sequence number back to a value that a waiter has read before.          *)
(***************************************************************************)
SeqIsNew ==
  \A t \in Thread :
    cpc[t] = "wait" /\ seen[t] # mem[sequence_number]
      => seen[t] # mem'[sequence_number]

(* All these sets are finite. *)
LEMMA SetsAreFinite ==
  ASSUME NEW S \in SUBSET Thread
  PROVE  IsFiniteSet(S) /\ Cardinality(S) \in Nat
  BY FutexAssumption, FS_Subset, FS_CardinalityType

(* A larger set has no fewer elements. *)
LEMMA MoreAreMore ==
  ASSUME NEW S \in SUBSET Thread, NEW T \in SUBSET Thread, S \subseteq T
  PROVE  Cardinality(S) <= Cardinality(T)
  BY SetsAreFinite, FS_Subset

(* One that has another element besides has more. *)
LEMMA OneMore ==
  ASSUME NEW S \in SUBSET Thread, NEW T \in SUBSET Thread,
         NEW x \in T, x \notin S, S \subseteq T
  PROVE  Cardinality(S) + 1 <= Cardinality(T)
  <1>1. Cardinality(S \cup {x}) = Cardinality(S) + 1
    BY SetsAreFinite, FS_AddElement
  <1>2. Cardinality(S \cup {x}) <= Cardinality(T)
    BY MoreAreMore
  <1>3. QED
    BY <1>1, <1>2

(* The sets are sets of threads, before and after a step. *)
LEMMA SetsOfThreads ==
  /\ Served \in SUBSET Thread /\ Served' \in SUBSET Thread
  /\ \A where : Pending(where) \in SUBSET Thread
                /\ Pending(where)' \in SUBSET Thread
  BY CondConstants DEF Served, Pending, Consumer

(* A step after which as many are going to look or to signal. *)
LEMMA QuietSignals ==
  ASSUME CondInv, Signalled, tokens' = tokens, Served \subseteq Served',
         Pending({"dirty"}) \subseteq Pending({"dirty"})',
         Pending({"dirty", "pulsed"}) \subseteq Pending({"dirty", "pulsed"})',
         \A s \in Consumer : OnCond(s)' => OnCond(s) \/ Fresh(s),
         \A s \in Consumer : Fresh(s)' => Fresh(s)
  PROVE  Signalled'
  <1> DEFINE S == Served
             D == Pending({"dirty"})
             P == Pending({"dirty", "pulsed"})
  <1>1. /\ Cardinality(S) \in Nat /\ Cardinality(D) \in Nat
        /\ Cardinality(P) \in Nat /\ Cardinality(S') \in Nat
        /\ Cardinality(D') \in Nat /\ Cardinality(P') \in Nat
        /\ tokens \in Nat
    BY SetsOfThreads, SetsAreFinite DEF CondInv, CondTypes
  <1>2. /\ Cardinality(S) <= Cardinality(S')
        /\ Cardinality(D) <= Cardinality(D')
        /\ Cardinality(P) <= Cardinality(P')
    BY SetsOfThreads, MoreAreMore
  <1>3. Cardinality(D) <= Cardinality(P)
    <2>1. D \subseteq P
      BY DEF Pending
    <2>2. QED
      BY <2>1, SetsOfThreads, MoreAreMore
  <1>4. /\ (\E t \in Consumer : OnCond(t))
             => tokens <= Cardinality(S) + Cardinality(P)
        /\ (\E t \in Consumer : Fresh(t))
             => tokens <= Cardinality(S) + Cardinality(D)
    BY DEF Signalled
  <1> HIDE DEF S, D, P
  <1>5. (\E t \in Consumer : OnCond(t)')
          => tokens' <= Cardinality(S') + Cardinality(P')
    BY <1>1, <1>2, <1>3, <1>4
  <1>6. (\E t \in Consumer : Fresh(t)')
          => tokens' <= Cardinality(S') + Cardinality(D')
    BY <1>1, <1>2, <1>4
  <1>7. QED
    BY <1>5, <1>6 DEF Signalled, S, D, P, Consumer

(* Nobody has to be accounted for when there is no token. *)
LEMMA NoTokens == ASSUME tokens' = 0 PROVE Signalled'
  <1>1. /\ Cardinality(Served') \in Nat
        /\ Cardinality(Pending({"dirty"})') \in Nat
        /\ Cardinality(Pending({"dirty", "pulsed"})') \in Nat
    BY SetsOfThreads, SetsAreFinite
  <1>2. QED
    BY <1>1 DEF Signalled

(* Who has the mutex, or waits for it without trying, keeps on.            *)
LEMMA LockersGoOn ==
  ASSUME CondInv, NEW t \in Thread,
         \/ \E k \in LockKind : MutexLock(t, k)
         \/ LibraryStep(t) \/ HostStep(t),
         holds[t] > 0 \/ pc[t] = "own" \/ kind[t] = "lock"
  PROVE  holds'[t] > 0 \/ pc'[t] = "own" \/ kind'[t] = "lock"
  <1>1. /\ pc \in [Thread -> PC] /\ holds \in [Thread -> Nat]
        /\ kind \in [Thread -> LockKind \cup {"none"}] /\ "none" \notin LockKind
        /\ KindIsPath
    BY MutexAssumption
    DEF CondInv, MutexQueueInv, CallTypes, MutexInv, LockTypeOK
  <1>2. ASSUME NEW k \in LockKind, MutexLock(t, k)
        PROVE  holds'[t] > 0
    <2>1. pc[t] = "idle" /\ kind[t] = "none"
      BY <1>1, <1>2 DEF MutexLock, KindIsPath, LockPath
    <2>2. holds[t] > 0
      BY <2>1
    <2>3. QED
      BY <1>1, <1>2, <2>2 DEF MutexLock
  <1>3. CASE HostStep(t)
    BY <1>3 DEF HostStep, mutexVars
  <1>4. CASE LockCas(t) \/ LockRetake(t)
    <2>1. CASE Acquire(t, LOCKED_WITHOUT_WAITERS)
               \/ Acquire(t, LOCKED_WITH_WAITERS)
      BY <1>1, <2>1 DEF Acquire, ReturnTo, Goto
    <2>2. CASE UNCHANGED <<kind, holds>>
      BY <1>1, <1>4, <2>2 DEF LockCas, LockRetake
    <2>3. CASE kind[t] \in {"trylock", "timedlock"} /\ UNCHANGED holds
      BY <1>1, <1>4, <2>3 DEF LockCas, LockRetake
    <2>4. QED
      BY <1>4, <2>1, <2>2, <2>3 DEF LockCas, LockRetake, MustWait
  <1>5. CASE LockOwn(t)
    BY <1>1, <1>5 DEF LockOwn
  <1>6. CASE \/ LockMark(t) \/ LockWait(t) \/ LockAwake(t)
             \/ UnlockSub(t) \/ UnlockStore(t) \/ UnlockWake(t)
    <2>1. UNCHANGED holds /\ pc[t] # "own"
          /\ (UNCHANGED kind \/ kind[t] = "timedlock")
      BY <1>6
      DEF LockMark, LockWait, LockAwake, UnlockSub, UnlockStore, UnlockWake
    <2>2. QED
      BY <2>1
  <1>7. QED
    BY <1>2, <1>3, <1>4, <1>5, <1>6 DEF LibraryStep

(* A thread takes the mutex, or goes on in it, or times out. *)
LEMMA MutexKeepsSignalled ==
  ASSUME CondInv, Signalled, NEW t \in Thread, UNCHANGED condVars,
         \/ cpc[t] = "out" /\ \E k \in LockKind : MutexLock(t, k)
         \/ LibraryStep(t) \/ HostStep(t)
  PROVE  Signalled'
  <1>1. /\ mem'[sequence_number] = mem[sequence_number]
        /\ \A u \in Thread \ {t} :
             /\ pc'[u] = pc[u] /\ kind'[u] = kind[u] /\ holds'[u] = holds[u]
             /\ cond'[u] = "waiting" => cond[u] = "waiting"
             /\ u \in linked' => u \in linked
    BY MutexStepOthers DEF MutexStepOf, CondInv
  <1>2. /\ t \in linked' => pc'[t] = "asleep" \/ HostStep(t)
        /\ HostStep(t) => UNCHANGED <<linked, pc, kind>>
        /\ LibraryStep(t) => pc[t] # "idle"
    BY MutexStepSelf DEF MutexStepOf
  <1>3. /\ cpc[t] = "asleep" => pc[t] = "idle" /\ HostStep(t)
        /\ cond \in [Thread -> CondState]
    BY <1>2
    DEF CondInv, WaitersAreOutside, MutexQueueInv, QueueInv, QueueTypeOK
  <1>4. HostStep(t) => cond'[t] # "waiting"
    BY <1>3 DEF HostStep, CondTimeout, CondSpurious
  <1>5. UNCHANGED <<cpc, seen, tokens>>
    BY DEF condVars
  <1>6. Served \subseteq Served'
    <2>1. holds[t] > 0 \/ pc[t] = "own" \/ kind[t] = "lock"
          => holds'[t] > 0 \/ pc'[t] = "own" \/ kind'[t] = "lock"
      BY LockersGoOn
    <2>2. QED
      BY <1>1, <1>2, <1>3, <1>5, <2>1 DEF Served, Consumer
  <1>7. \A where : Pending(where)' = Pending(where)
    BY <1>5 DEF Pending
  <1>8. \A s \in Consumer : /\ OnCond(s)' => OnCond(s) \/ Fresh(s)
                            /\ Fresh(s)' => Fresh(s)
    BY <1>1, <1>3, <1>4, <1>5 DEF OnCond, Fresh, Consumer
  <1>9. QED
    BY <1>5, <1>6, <1>7, <1>8, QuietSignals

(* A thread gives the mutex back, on its own or in pthread_cond_wait. *)
LEMMA UnlockKeepsSignalled ==
  ASSUME CondInv, Signalled, NEW t \in Thread, CondWait(t) \/ ClientUnlock(t)
  PROVE  Signalled'
  <1>1. /\ mem'[sequence_number] = mem[sequence_number]
        /\ \A u \in Thread \ {t} : pc'[u] = pc[u] /\ kind'[u] = kind[u]
                                   /\ holds'[u] = holds[u]
    BY MutexStepOthers DEF MutexStepOf, CondInv, CondWait, ClientUnlock
  <1>2. UNCHANGED queueVars /\ tokens' = tokens
    BY DEF CondWait, ClientUnlock, MutexUnlock
  <1>3. CASE tokens = 0
    BY <1>2, <1>3, NoTokens
  <1>4. CASE tokens # 0
    <2>1. /\ cpc[t] \in {"dirty", "done"} /\ seen' = seen
          /\ \/ cpc' = cpc
             \/ cpc[t] = "done" /\ CGoto(t, "out")
      BY <1>4 DEF CondWait, ClientUnlock
    <2>2. cpc \in [Thread -> CPC]
      BY DEF CondInv, CondTypes
    <2>3. Served \subseteq Served'
      BY <1>1, <1>2, <2>1, <2>2 DEF Served, Consumer, CGoto, queueVars
    <2>4. /\ Pending({"dirty"}) \subseteq Pending({"dirty"})'
          /\ Pending({"dirty", "pulsed"})
               \subseteq Pending({"dirty", "pulsed"})'
      BY <2>1, <2>2, CondConstants DEF Pending, CGoto
    <2>5. \A s \in Consumer : /\ OnCond(s)' => OnCond(s) \/ Fresh(s)
                              /\ Fresh(s)' => Fresh(s)
      BY <1>1, <1>2, <2>1, <2>2 DEF OnCond, Fresh, Consumer, CGoto, queueVars
    <2>6. QED
      BY <1>2, <2>3, <2>4, <2>5, QuietSignals
  <1>5. QED
    BY <1>3, <1>4

(* A set that has all but one of another's elements, counted. *)
LEMMA OneFewer ==
  ASSUME NEW S \in SUBSET Thread, NEW T \in SUBSET Thread, NEW x \in Thread,
         S \subseteq T \cup {x}
  PROVE  Cardinality(S) <= Cardinality(T) + 1
  <1>1. IsFiniteSet(T) /\ Cardinality(T) \in Nat
    BY SetsAreFinite
  <1>2. Cardinality(T \cup {x})
          = IF x \in T THEN Cardinality(T) ELSE Cardinality(T) + 1
    BY <1>1, FS_AddElement, Zenon
  <1>3. Cardinality(S) <= Cardinality(T \cup {x})
    BY MoreAreMore
  <1>4. /\ Cardinality(S) \in Nat /\ Cardinality(T \cup {x}) \in Nat
    BY SetsAreFinite
  <1>5. QED
    BY <1>1, <1>2, <1>3, <1>4

(* A new token is its producer's to signal, a token that is taken was one  *)
(* consumer's to look for.                                                 *)
LEMMA TokensKeepSignalled ==
  ASSUME CondInv, Signalled, NEW t \in Thread, Put(t) \/ Take(t)
  PROVE  Signalled'
  <1> DEFINE S == Served
             D == Pending({"dirty"})
             P == Pending({"dirty", "pulsed"})
  <1>1. /\ UNCHANGED <<mem, pc, kind, holds, linked, cond, seen>>
        /\ cpc[t] = "out" /\ \A u \in Thread \ {t} : cpc'[u] = cpc[u]
        /\ cpc'[t] \in {"dirty", "done"}
        /\ tokens \in Nat
    BY DEF Put, Take, vars, mutexVars, queueVars, CGoto, CondInv, CondTypes
  <1>2. /\ Cardinality(S) \in Nat /\ Cardinality(D) \in Nat
        /\ Cardinality(P) \in Nat /\ Cardinality(S') \in Nat
        /\ Cardinality(D') \in Nat /\ Cardinality(P') \in Nat
    BY SetsOfThreads, SetsAreFinite
  <1>3. \A s \in Consumer : /\ OnCond(s)' => OnCond(s)
                            /\ Fresh(s)' => Fresh(s)
    BY <1>1 DEF OnCond, Fresh, Consumer
  <1>4. /\ (\E s \in Consumer : OnCond(s))
             => tokens <= Cardinality(S) + Cardinality(P)
        /\ (\E s \in Consumer : Fresh(s))
             => tokens <= Cardinality(S) + Cardinality(D)
    BY DEF Signalled
  <1>5. CASE Put(t)
    <2>1. t \in Producer /\ cpc'[t] = "dirty" /\ tokens' = tokens + 1
      BY <1>5 DEF Put, CGoto, CondInv, CondTypes
    <2>2. S \subseteq S'
      BY <1>1, <2>1 DEF Served, Consumer
    <2>3. /\ D \subseteq D' /\ t \in D' /\ t \notin D
          /\ P \subseteq P' /\ t \in P' /\ t \notin P
      BY <1>1, <2>1, CondConstants DEF Pending
    <2> HIDE DEF S, D, P
    <2>4. Cardinality(S) <= Cardinality(S')
      BY <2>2, SetsOfThreads, MoreAreMore DEF S
    <2>5. Cardinality(D) + 1 <= Cardinality(D')
      BY <2>3, SetsOfThreads, OneMore DEF D
    <2>6. Cardinality(P) + 1 <= Cardinality(P')
      BY <2>3, SetsOfThreads, OneMore DEF P
    <2>7. /\ (\E s \in Consumer : OnCond(s)')
               => tokens' <= Cardinality(S') + Cardinality(P')
          /\ (\E s \in Consumer : Fresh(s)')
               => tokens' <= Cardinality(S') + Cardinality(D')
      BY <1>1, <1>2, <1>3, <1>4, <2>1, <2>4, <2>5, <2>6
    <2>8. QED
      BY <2>7 DEF Signalled, S, D, P, Consumer
  <1>6. CASE Take(t)
    <2>1. cpc'[t] = "done" /\ tokens' = tokens - 1
      BY <1>6 DEF Take, CGoto, CondInv, CondTypes
    <2>2. S \subseteq S' \cup {t}
      BY <1>1, <2>1 DEF Served, Consumer
    <2>3. D' = D /\ P' = P
      BY <1>1, <2>1, CondConstants DEF Pending
    <2> HIDE DEF S, D, P
    <2>4. Cardinality(S) <= Cardinality(S') + 1
      BY <2>2, SetsOfThreads, OneFewer DEF S
    <2>5. /\ (\E s \in Consumer : OnCond(s)')
               => tokens' <= Cardinality(S') + Cardinality(P')
          /\ (\E s \in Consumer : Fresh(s)')
               => tokens' <= Cardinality(S') + Cardinality(D')
      BY <1>1, <1>2, <1>3, <1>4, <2>1, <2>3, <2>4
    <2>6. QED
      BY <2>5 DEF Signalled, S, D, P, Consumer
  <1>7. QED
    BY <1>5, <1>6

(* A consumer sleeps, or is back from futex_wait_abs. *)
LEMMA WaitKeepsSignalled ==
  ASSUME CondInv, Signalled, NEW t \in Thread, CondFutexWait(t) \/ CondAwake(t)
  PROVE  Signalled'
  <1>1. /\ cpc \in [Thread -> CPC] /\ seen \in [Thread -> 0 .. SeqMod - 1]
        /\ pc \in [Thread -> PC] /\ kind \in [Thread -> LockKind \cup {"none"}]
        /\ linked \in SUBSET Thread /\ cond \in [Thread -> CondState]
    BY DEF CondInv, CondTypes, MutexQueueInv, CallTypes, MutexInv, LockTypeOK,
           QueueInv, QueueTypeOK
  <1>2. /\ UNCHANGED <<mem, holds, tokens>> /\ t \in Consumer
        /\ cpc[t] \in {"wait", "asleep"}
    BY DEF CondFutexWait, CondAwake, CondInv, WaitersAreOutside
  <1>3. \A u \in Thread \ {t} :
          /\ pc'[u] = pc[u] /\ kind'[u] = kind[u] /\ cpc'[u] = cpc[u]
          /\ seen'[u] = seen[u] /\ cond'[u] = cond[u]
          /\ u \in linked' <=> u \in linked
    BY <1>1
    DEF CondFutexWait, CondAwake, Relock, Goto, CGoto, FutexWaitMismatch,
        FutexWaitSleep, FutexWaitReturn, ListAddNodeAtEnd, ListRemoveNodes,
        queueVars
  <1>4. \/ cpc'[t] = "out" /\ kind'[t] = "lock"
        \/ Fresh(t) /\ cpc'[t] = "asleep"
    BY <1>1
    DEF CondFutexWait, CondAwake, Relock, CGoto, FutexWaitSleep, Fresh
  <1>5. Served \subseteq Served'
    BY <1>2, <1>3, <1>4 DEF Served, Consumer, Fresh
  <1>6. /\ Pending({"dirty"}) \subseteq Pending({"dirty"})'
        /\ Pending({"dirty", "pulsed"}) \subseteq Pending({"dirty", "pulsed"})'
    BY <1>2, <1>3, CondConstants DEF Pending
  <1>7. \A s \in Consumer : /\ OnCond(s)' => OnCond(s) \/ Fresh(s)
                            /\ Fresh(s)' => Fresh(s)
    BY <1>2, <1>3, <1>4 DEF OnCond, Fresh, Consumer
  <1>8. QED
    BY <1>2, <1>5, <1>6, <1>7, QuietSignals

(* The increment: nobody who has read the old value sleeps any more. *)
LEMMA IncrementKeepsSignalled ==
  ASSUME CondInv, Signalled, SeqIsNew, NEW t \in Thread, PulseAdd(t)
  PROVE  Signalled'
  <1> DEFINE S == Served
             P == Pending({"dirty", "pulsed"})
             value == mem[sequence_number]
  <1>1. /\ cpc \in [Thread -> CPC] /\ mem \in [Addr -> Word]
        /\ value \in 0 .. SeqMod - 1 /\ tokens \in Nat
    BY DEF CondInv, CondTypes, MutexQueueInv, MutexInv, LockTypeOK
  <1>2. /\ UNCHANGED <<pc, kind, holds, linked, cond, seen, tokens>>
        /\ cpc[t] = "dirty" /\ cpc'[t] = "pulsed"
        /\ \A u \in Thread \ {t} : cpc'[u] = cpc[u]
        /\ mem'[sequence_number] = (value + 1) % SeqMod
    BY <1>1, CondConstants DEF PulseAdd, CGoto, queueVars, mutexVars
  <1>3. mem'[sequence_number] # value
    BY <1>1, <1>2, CondConstants
  <1>4. \A s \in Consumer : ~Fresh(s)'
    BY <1>2, <1>3 DEF Fresh, SeqIsNew, Consumer
  <1>5. S \subseteq S'
    BY <1>2 DEF Served, SeqIsNew, Consumer
  <1>6. P \subseteq P'
    BY <1>2, CondConstants DEF Pending
  <1>7. /\ \A s \in Consumer : OnCond(s)' => OnCond(s)
        /\ (\E s \in Consumer : OnCond(s))
             => tokens <= Cardinality(S) + Cardinality(P)
    BY <1>2 DEF OnCond, Consumer, Signalled
  <1>8. /\ Cardinality(S) \in Nat /\ Cardinality(P) \in Nat
        /\ Cardinality(S') \in Nat /\ Cardinality(P') \in Nat
    BY SetsOfThreads, SetsAreFinite
  <1> HIDE DEF S, P
  <1>9. /\ Cardinality(S) <= Cardinality(S')
        /\ Cardinality(P) <= Cardinality(P')
    BY <1>5, <1>6, SetsOfThreads, MoreAreMore DEF S, P
  <1>10. (\E s \in Consumer : OnCond(s)')
           => tokens' <= Cardinality(S') + Cardinality(P')
    BY <1>1, <1>2, <1>7, <1>8, <1>9
  <1>11. QED
    BY <1>4, <1>10 DEF Signalled, S, P, Consumer

(* The futex_wake: if somebody stays asleep, somebody else was woken. *)
LEMMA WakeKeepsSignalled ==
  ASSUME CondInv, Signalled, NEW t \in Thread, PulseWake(t)
  PROVE  Signalled'
  <1> DEFINE S == Served
             D == Pending({"dirty"})
             P == Pending({"dirty", "pulsed"})
  <1>1. /\ cpc \in [Thread -> CPC] /\ tokens \in Nat /\ QueueInv
        /\ linked \in SUBSET Thread /\ cond \in [Thread -> CondState]
        /\ SleeperIsLinked /\ AsleepOnMutex /\ WaitersAreOutside
    BY DEF CondInv, CondTypes, MutexQueueInv, QueueInv, QueueTypeOK
  <1>2. /\ UNCHANGED <<mem, pc, kind, holds, seen, tokens>>
        /\ cpc[t] = "pulsed" /\ cpc'[t] \in {"done", "out"}
        /\ \A u \in Thread \ {t} : cpc'[u] = cpc[u]
    BY <1>1 DEF PulseWake, CGoto, mutexVars
  <1>3. PICK n \in {1, Cardinality(Thread)} : FutexWake(sequence_number, n)
    BY DEF PulseWake
  <1>4. n \in Nat /\ n >= 1
    <2>1. Cardinality(Thread) \in Nat
      BY SetsAreFinite
    <2>2. Cardinality({}) + 1 <= Cardinality(Thread)
      BY OneMore
    <2>3. QED
      BY <1>3, <2>1, <2>2, FS_EmptySet
  <1>5. PICK W \in {Woken(sequence_number, n)} :
          /\ linked' = linked \ W
          /\ cond' = [u \in Thread |-> IF u \in W /\ cond[u] = "waiting"
                                       THEN "woken" ELSE cond[u]]
    BY <1>3 DEF FutexWake, ListRemoveNodes
  <1>6. /\ W \subseteq OnAddr(sequence_number)
        /\ \/ Cardinality(W) = n
           \/ W = OnAddr(sequence_number)
    BY <1>1, <1>4, <1>5, WokenCount
  <1>7. \A w \in W : w \in linked /\ cpc[w] = "asleep" /\ w \in Consumer
    <2>1. \A w \in W : w \in linked /\ futex_wait_addr[w] = sequence_number
      BY <1>6 DEF OnAddr
    <2>2. QED
      BY <1>1, <2>1, CondConstants DEF AsleepOnMutex, WaitersAreOutside
  <1>8. ASSUME NEW s \in Consumer, OnCond(s)'
        PROVE  OnCond(s) /\ \E w \in W : TRUE
    <2>1. /\ cpc[s] = "asleep" /\ cond[s] = "waiting" /\ s \in linked
          /\ s \notin W
      BY <1>1, <1>2, <1>5, <1>8 DEF OnCond, Consumer, SleeperIsLinked
    <2>2. s \in OnAddr(sequence_number)
      BY <1>1, <2>1 DEF WaitersAreOutside, OnAddr, Consumer
    <2>3. Cardinality(W) = n
      BY <1>6, <2>1, <2>2
    <2>4. W # {}
      BY <1>4, <2>3, FS_EmptySet
    <2>5. QED
      BY <2>1, <2>4 DEF OnCond
  <1>9. S \subseteq S' /\ \A w \in W : w \in S' /\ w \notin S
    BY <1>2, <1>5, <1>7 DEF Served, Consumer
  <1>10. D \subseteq D' /\ P \subseteq P' \cup {t}
    BY <1>2, CondConstants DEF Pending
  <1>11. \A s \in Consumer : Fresh(s)' => Fresh(s)
    BY <1>2 DEF Fresh, Consumer
  <1>12. /\ (\E s \in Consumer : OnCond(s))
              => tokens <= Cardinality(S) + Cardinality(P)
         /\ (\E s \in Consumer : Fresh(s))
              => tokens <= Cardinality(S) + Cardinality(D)
    BY DEF Signalled
  <1>13. /\ Cardinality(S) \in Nat /\ Cardinality(D) \in Nat
         /\ Cardinality(P) \in Nat /\ Cardinality(S') \in Nat
         /\ Cardinality(D') \in Nat /\ Cardinality(P') \in Nat
    BY SetsOfThreads, SetsAreFinite
  <1> HIDE DEF S, D, P
  <1>14. /\ Cardinality(S) <= Cardinality(S')
         /\ Cardinality(D) <= Cardinality(D')
    BY <1>9, <1>10, SetsOfThreads, MoreAreMore DEF S, D
  <1>15. Cardinality(P) <= Cardinality(P') + 1
    BY <1>10, SetsOfThreads, OneFewer DEF P
  <1>16. ASSUME NEW w \in W
         PROVE  Cardinality(S) + 1 <= Cardinality(S')
    BY <1>9, SetsOfThreads, OneMore DEF S
  <1>17. (\E s \in Consumer : OnCond(s)')
           => tokens' <= Cardinality(S') + Cardinality(P')
    <2>1. ASSUME NEW s \in Consumer, OnCond(s)'
          PROVE  Cardinality(S) + 1 <= Cardinality(S') /\ OnCond(s)
      BY <1>8, <1>16, <2>1
    <2>2. QED
      BY <1>2, <1>1, <1>12, <1>13, <1>15, <2>1
  <1>18. (\E s \in Consumer : Fresh(s)')
           => tokens' <= Cardinality(S') + Cardinality(D')
    BY <1>1, <1>2, <1>11, <1>12, <1>13, <1>14
  <1>19. QED
    BY <1>17, <1>18 DEF Signalled, S, D, P, Consumer

(* So no step that brings a new sequence number loses a signal. *)
LEMMA StepKeepsSignalled ==
  CondInv /\ Signalled /\ SeqIsNew /\ [CondNext]_allVars => Signalled'
  <1> SUFFICES ASSUME CondInv, Signalled, SeqIsNew, [CondNext]_allVars
               PROVE  Signalled'
    OBVIOUS
  <1>1. ASSUME NEW t \in Thread,
               \/ ClientLock(t)
               \/ LibraryStep(t) /\ UNCHANGED condVars
               \/ HostStep(t) /\ UNCHANGED condVars
        PROVE  Signalled'
    BY <1>1, MutexKeepsSignalled DEF ClientLock
  <1>2. ASSUME NEW t \in Thread,
               \/ CondWait(t) \/ ClientUnlock(t) \/ Put(t) \/ Take(t)
               \/ CondStep(t)
        PROVE  Signalled'
    BY <1>2, UnlockKeepsSignalled, TokensKeepSignalled, WaitKeepsSignalled,
       IncrementKeepsSignalled, WakeKeepsSignalled DEF CondStep
  <1>3. CASE UNCHANGED allVars
    BY <1>3
    DEF allVars, vars, mutexVars, queueVars, condVars, Signalled, Served,
        Pending, OnCond, Fresh, Consumer
  <1>4. QED
    BY <1>1, <1>2, <1>3 DEF CondNext, Work

(* Whoever is counted there looks at tokens again before it sleeps. *)
LEMMA SignalledSuffices == CondInv /\ Signalled => NoLostSignal
  <1> SUFFICES ASSUME CondInv, Signalled, NEW t \in Consumer, OnCond(t)
               PROVE  tokens <= Cardinality(WillLook)
                                + Cardinality(Pending({"dirty", "pulsed"}))
    BY DEF NoLostSignal, Pending
  <1>1. /\ SleeperIsLinked /\ KindIsPath /\ tokens \in Nat
        /\ "none" \notin LockKind
    BY MutexAssumption DEF CondInv, CondTypes, MutexQueueInv, QueueInv
  <1>2. Served \subseteq WillLook
    BY <1>1, CondConstants
    DEF Served, WillLook, SleeperIsLinked, KindIsPath, LockPath, Consumer
  <1>3. WillLook \in SUBSET Thread
    BY DEF WillLook, Consumer
  <1>4. Cardinality(Served) <= Cardinality(WillLook)
    BY <1>2, <1>3, SetsOfThreads, MoreAreMore
  <1>5. /\ Cardinality(Served) \in Nat /\ Cardinality(WillLook) \in Nat
        /\ Cardinality(Pending({"dirty", "pulsed"})) \in Nat
    BY <1>3, SetsOfThreads, SetsAreFinite
  <1>6. QED
    BY <1>1, <1>4, <1>5 DEF Signalled

(***************************************************************************)
(* No signal is lost, as long as no increment brings the sequence number   *)
(* back to a value that a consumer about to sleep has read before          *)
(* (nc_condvar.c:56-66, 84-96).                                            *)
(***************************************************************************)
THEOREM NoSignalIsLost ==
  CondSpec /\ [][SeqIsNew]_allVars => []NoLostSignal
  <1>1. CondInit => Signalled
    BY CondConstants
    DEF CondInit, Signalled, OnCond, Fresh, Consumer
  <1>2. CondInv /\ Signalled /\ [CondNext]_allVars /\ [SeqIsNew]_allVars
        => Signalled'
    <2>1. UNCHANGED allVars => SeqIsNew
      BY DEF allVars, vars, SeqIsNew
    <2>2. QED
      BY <2>1, StepKeepsSignalled
  <1>3. QED
    BY <1>1, <1>2, CondInvariant, SignalledSuffices, PTL DEF CondSpec
-----------------------------------------------------------------------------
(* Producers that make fewer calls than there are sequence numbers. *)

(***************************************************************************)
(* The signals that a thread can still send: one for each time it has the  *)
(* mutex or will have it, less the one in hand that has had its token.     *)
(***************************************************************************)
Potential(t) ==
  (MaxCalls - calls[t])
  + (IF pc[t] \in LockPath \cup {"own"} THEN 1 ELSE 0)
  + holds[t]
  + (IF cpc[t] = "dirty" THEN 1 ELSE 0)
  - (IF cpc[t] \in {"dirty", "pulsed", "done"} /\ holds[t] > 0 THEN 1 ELSE 0)

Budget == {x \in Producer \X (1..MaxCalls) : x[2] <= Potential(x[1])}

(* The sequence number and the signals to come do not add up to a wrap.    *)
SeqIsBounded ==
  mem[sequence_number] + Cardinality(Budget) <= Cardinality(Producer) * MaxCalls

SeenIsOld ==
  \A t \in Thread : cpc[t] = "wait" => seen[t] <= mem[sequence_number]

PotentialIsBounded == \A t \in Producer : Potential(t) <= MaxCalls

SignallersProduce ==
  \A t \in Thread : cpc[t] \in {"dirty", "pulsed"} => t \in Producer

SignalsCounted ==
  SeqIsBounded /\ SeenIsOld /\ PotentialIsBounded /\ SignallersProduce

(* The types that the potential is computed from. *)
LEMMA PotentialTypes ==
  ASSUME CondInv
  PROVE  /\ pc \in [Thread -> PC] /\ holds \in [Thread -> Nat]
         /\ calls \in [Thread -> 0..MaxCalls] /\ MaxCalls \in Nat
         /\ cpc \in [Thread -> CPC]
         /\ kind \in [Thread -> LockKind \cup {"none"}]
         /\ \A t \in Thread : calls[t] \in Nat /\ holds[t] \in Nat
                              /\ Potential(t) \in Int
  <1>1. /\ pc \in [Thread -> PC] /\ holds \in [Thread -> Nat]
        /\ calls \in [Thread -> 0..MaxCalls] /\ MaxCalls \in Nat
        /\ cpc \in [Thread -> CPC]
        /\ kind \in [Thread -> LockKind \cup {"none"}]
    BY MutexAssumption
    DEF CondInv, CondTypes, MutexQueueInv, CallTypes, MutexInv, LockTypeOK
  <1>2. ASSUME NEW t \in Thread
        PROVE  calls[t] \in Nat /\ holds[t] \in Nat /\ Potential(t) \in Int
    <2>1. calls[t] \in Nat /\ holds[t] \in Nat
      BY <1>1
    <2>2. QED
      BY <1>1, <2>1 DEF Potential
  <1>3. QED
    BY <1>1, <1>2

(* Nothing that a thread does in the mutex gives it more.                  *)
LEMMA MutexKeepsPotential ==
  ASSUME CondInv, NEW t \in Thread,
         \/ \E k \in LockKind : MutexLock(t, k)
         \/ LibraryStep(t) \/ HostStep(t),
         cpc' = cpc
  PROVE  Potential(t)' <= Potential(t)
  <1>1. /\ pc \in [Thread -> PC] /\ holds \in [Thread -> Nat]
        /\ calls \in [Thread -> 0..MaxCalls] /\ MaxCalls \in Nat
        /\ calls[t] \in Nat /\ holds[t] \in Nat /\ Potential(t) \in Int
    BY PotentialTypes
  <1>2. MutexInv
    BY DEF CondInv, MutexQueueInv
  <1>3. ASSUME NEW k \in LockKind, MutexLock(t, k)
        PROVE  Potential(t)' <= Potential(t)
    <2>1. /\ pc[t] = "idle" /\ calls'[t] = calls[t] + 1
          /\ \/ pc'[t] = "cas" /\ holds'[t] = holds[t]
             \/ pc'[t] = "idle" /\ holds'[t] = holds[t]
             \/ /\ pc'[t] = "idle" /\ holds'[t] = holds[t] + 1
                /\ holds[t] > 0
      BY <1>1, <1>2, <1>3
      DEF MutexLock, Goto, MutexInv, OwnerReadIsSafe
    <2>2. QED
      BY <1>1, <2>1 DEF Potential, LockPath
  <1>4. CASE HostStep(t)
    BY <1>1, <1>4 DEF HostStep, mutexVars, Potential
  <1>5. CASE LibraryStep(t)
    <2>1. calls'[t] = calls[t]
      BY <1>5
      DEF LibraryStep, LockCas, LockMark, LockWait, LockAwake, LockRetake,
          LockOwn, UnlockSub, UnlockStore, UnlockWake
    <2>2. mem[mutex_state] = UNLOCKED => holds[t] = 0
      BY <1>1, <1>2 DEF MutexInv, WordSaysLocked, InLock, state
    <2>3. pc[t] = "own" => holds[t] = 0
      BY <1>2 DEF MutexInv, HolderHasLeft
    <2>4. \/ /\ holds'[t] = holds[t]
             /\ pc'[t] \in LockPath \cup {"own"}
                  => pc[t] \in LockPath \cup {"own"}
          \/ /\ holds[t] = 0 /\ holds'[t] = 1
             /\ pc[t] \in LockPath \cup {"own"}
             /\ pc'[t] = "idle"
      <3>1. CASE LockCas(t) \/ LockRetake(t)
        <4>1. pc[t] \in LockPath
          BY <3>1 DEF LockCas, LockRetake, LockPath
        <4>2. CASE holds' = holds
          BY <4>1, <4>2
        <4>3. CASE holds' # holds
          <5>1. /\ mem[mutex_state] = UNLOCKED /\ ReturnTo(t, "idle")
                /\ holds' = [holds EXCEPT ![t] = 1]
            BY <3>1, <4>3 DEF LockCas, LockRetake, Acquire, MustWait
          <5>2. QED
            BY <1>1, <2>2, <4>1, <5>1 DEF ReturnTo, Goto
        <4>4. QED
          BY <4>2, <4>3
      <3>2. CASE LockOwn(t)
        BY <1>1, <2>3, <3>2 DEF LockOwn, Goto
      <3>3. CASE \/ LockMark(t) \/ LockWait(t) \/ LockAwake(t)
                 \/ UnlockSub(t) \/ UnlockStore(t) \/ UnlockWake(t)
        BY <1>1, <3>3
        DEF LockMark, LockWait, LockAwake, UnlockSub, UnlockStore, UnlockWake,
            ReturnTo, Goto, LockPath
      <3>4. QED
        BY <1>5, <3>1, <3>2, <3>3 DEF LibraryStep
    <2>5. CASE /\ holds'[t] = holds[t]
               /\ pc'[t] \in LockPath \cup {"own"}
                    => pc[t] \in LockPath \cup {"own"}
      BY <1>1, <2>1, <2>5 DEF Potential
    <2>6. CASE /\ holds[t] = 0 /\ holds'[t] = 1
               /\ pc[t] \in LockPath \cup {"own"}
               /\ pc'[t] = "idle"
      BY <1>1, <2>1, <2>6 DEF Potential, LockPath
    <2>7. QED
      BY <2>4, <2>5, <2>6
  <1>6. QED
    BY <1>3, <1>4, <1>5

(* Nor does giving it back: the signal in hand goes with it.               *)
LEMMA UnlockKeepsPotential ==
  ASSUME CondInv, NEW t \in Thread, ClientUnlock(t)
  PROVE  Potential(t)' <= Potential(t)
  <1>1. /\ pc \in [Thread -> PC] /\ holds \in [Thread -> Nat]
        /\ calls \in [Thread -> 0..MaxCalls] /\ MaxCalls \in Nat
        /\ cpc \in [Thread -> CPC]
        /\ calls[t] \in Nat /\ holds[t] \in Nat
    BY PotentialTypes
  <1>2. mutex_type = "ERRORCHECK" => (owner_thread_id = t <=> holds[t] > 0)
    BY DEF CondInv, MutexQueueInv, MutexInv, OwnerReadIsSafe
  <1>3. /\ pc[t] = "idle" /\ calls' = calls
        /\ \/ pc'[t] = "idle" /\ holds'[t] = holds[t] /\ holds[t] = 0
           \/ /\ pc'[t] \in {"idle", "sub"} /\ holds'[t] = holds[t] - 1
              /\ holds[t] > 0
    BY <1>1, <1>2 DEF ClientUnlock, MutexUnlock, Goto
  <1>4. \/ cpc[t] = "dirty" /\ cpc'[t] = "dirty"
        \/ cpc[t] \in {"done", "out"} /\ cpc'[t] = "out"
    BY <1>1 DEF ClientUnlock, CGoto
  <1>5. QED
    BY <1>1, <1>3, <1>4 DEF Potential, LockPath

(* Nor a token; and an increment uses up one. *)
LEMMA ProducerPotential ==
  ASSUME CondInv, NEW t \in Thread, Put(t) \/ PulseAdd(t) \/ PulseWake(t)
  PROVE  /\ Potential(t)' <= Potential(t)
         /\ PulseAdd(t) => Potential(t) >= 1 /\ Potential(t)' < Potential(t)
  <1>1. /\ pc \in [Thread -> PC] /\ holds \in [Thread -> Nat]
        /\ calls \in [Thread -> 0..MaxCalls] /\ MaxCalls \in Nat
        /\ cpc \in [Thread -> CPC]
        /\ calls[t] \in Nat /\ holds[t] \in Nat
    BY PotentialTypes
  <1>2. UNCHANGED <<pc, calls, holds>> /\ calls[t] <= MaxCalls
    BY <1>1 DEF Put, PulseAdd, PulseWake, vars, mutexVars
  <1>3. CASE Put(t)
    <2>1. cpc[t] = "out" /\ holds[t] > 0 /\ cpc'[t] = "dirty"
      BY <1>1, <1>3 DEF Put, CGoto
    <2>2. ~PulseAdd(t)
      BY <2>1 DEF PulseAdd
    <2>3. QED
      BY <1>1, <1>2, <2>1, <2>2 DEF Potential
  <1>4. CASE PulseAdd(t)
    <2>1. cpc[t] = "dirty" /\ cpc'[t] = "pulsed" /\ pc[t] = "idle"
      BY <1>1, <1>4 DEF PulseAdd, CGoto
    <2>2. QED
      BY <1>1, <1>2, <2>1 DEF Potential, LockPath
  <1>5. CASE PulseWake(t)
    <2>1. /\ cpc[t] = "pulsed"
          /\ cpc'[t] = IF holds[t] > 0 THEN "done" ELSE "out"
      BY <1>1, <1>5 DEF PulseWake, CGoto
    <2>2. ~PulseAdd(t)
      BY <2>1 DEF PulseAdd
    <2>3. QED
      BY <1>1, <1>2, <2>1, <2>2 DEF Potential
  <1>6. QED
    BY <1>3, <1>4, <1>5

(* So no step gives a producer more signals to send. *)
LEMMA PotentialNeverGrows ==
  ASSUME CondInv, [CondNext]_allVars, NEW u \in Producer
  PROVE  Potential(u)' <= Potential(u)
  <1>1. u \in Thread /\ Potential(u) \in Int /\ cpc \in [Thread -> CPC]
        /\ pc \in [Thread -> PC]
    BY CondConstants, PotentialTypes
  <1>2. ASSUME UNCHANGED <<pc[u], calls[u], holds[u], cpc[u]>>
        PROVE  Potential(u)' <= Potential(u)
    <2>1. Potential(u)' = Potential(u)
      BY <1>2 DEF Potential
    <2>2. QED
      BY <1>1, <2>1
  <1>3. ASSUME NEW t \in Thread, MutexStepOf(t), t # u
        PROVE  UNCHANGED <<pc[u], calls[u], holds[u]>>
    BY <1>1, <1>3, MutexStepOthers DEF CondInv
  <1>4. ASSUME NEW t \in Thread,
               \/ ClientLock(t)
               \/ LibraryStep(t) /\ UNCHANGED condVars
               \/ HostStep(t) /\ UNCHANGED condVars
        PROVE  Potential(u)' <= Potential(u)
    <2>1. cpc' = cpc /\ MutexStepOf(t)
      BY <1>4 DEF ClientLock, condVars, MutexStepOf
    <2>2. CASE t = u
      BY <1>4, <2>1, <2>2, MutexKeepsPotential DEF ClientLock
    <2>3. CASE t # u
      BY <1>2, <1>3, <2>1, <2>3
    <2>4. QED
      BY <2>2, <2>3
  <1>5. ASSUME NEW t \in Thread, CondWait(t) \/ ClientUnlock(t)
        PROVE  Potential(u)' <= Potential(u)
    <2>1. MutexStepOf(t)
      BY <1>5 DEF CondWait, ClientUnlock, MutexStepOf
    <2>2. CASE t = u
      BY <1>5, <2>2, UnlockKeepsPotential DEF CondWait, Consumer
    <2>3. CASE t # u
      <3>1. cpc'[u] = cpc[u]
        BY <1>1, <1>5, <2>3 DEF CondWait, ClientUnlock, CGoto
      <3>2. QED
        BY <1>2, <1>3, <2>1, <2>3, <3>1
    <2>4. QED
      BY <2>2, <2>3
  <1>6. ASSUME NEW t \in Thread, Put(t) \/ Take(t)
        PROVE  Potential(u)' <= Potential(u)
    <2>1. UNCHANGED <<pc, calls, holds>>
      BY <1>6 DEF Put, Take, vars, mutexVars
    <2>2. CASE t = u
      BY <1>6, <2>2, ProducerPotential DEF Take, Consumer
    <2>3. CASE t # u
      <3>1. cpc'[u] = cpc[u]
        BY <1>1, <1>6, <2>3 DEF Put, Take, CGoto
      <3>2. QED
        BY <1>2, <2>1, <3>1
    <2>4. QED
      BY <2>2, <2>3
  <1>7. ASSUME NEW t \in Thread, CondStep(t)
        PROVE  Potential(u)' <= Potential(u)
    <2>1. CASE t = u
      <3>1. PulseAdd(t) \/ PulseWake(t)
        BY <1>7, <2>1
        DEF CondStep, CondFutexWait, CondAwake, CondInv, WaitersAreOutside,
            Consumer
      <3>2. QED
        BY <2>1, <3>1, ProducerPotential
    <2>2. CASE t # u
      <3>1. UNCHANGED <<calls, holds>> /\ pc'[u] = pc[u]
        BY <1>1, <1>7, <2>2, CondStepIsOutside DEF Outside, Goto
      <3>2. cpc'[u] = cpc[u]
        BY <1>1, <1>7, <2>2
        DEF CondStep, CondFutexWait, CondAwake, PulseAdd, PulseWake, Relock,
            CGoto
      <3>3. QED
        BY <1>2, <3>1, <3>2
    <2>3. QED
      BY <2>1, <2>2
  <1>8. CASE UNCHANGED allVars
    BY <1>2, <1>8 DEF allVars, vars, mutexVars, condVars
  <1>9. QED
    BY <1>4, <1>5, <1>6, <1>7, <1>8 DEF CondNext, Work

(* The budget is a finite set. *)
LEMMA BudgetIsFinite ==
  /\ IsFiniteSet(Producer \X (1..MaxCalls))
  /\ Cardinality(Producer \X (1..MaxCalls)) = Cardinality(Producer) * MaxCalls
  /\ IsFiniteSet(Budget) /\ Cardinality(Budget) \in Nat
  /\ IsFiniteSet(Budget') /\ Cardinality(Budget') \in Nat
  <1>1. IsFiniteSet(Producer) /\ MaxCalls \in Nat
    BY CondConstants, SetsAreFinite, MutexAssumption
  <1>2. IsFiniteSet(1..MaxCalls) /\ Cardinality(1..MaxCalls) = MaxCalls
    BY <1>1, FS_Interval
  <1>3. /\ IsFiniteSet(Producer \X (1..MaxCalls))
        /\ Cardinality(Producer \X (1..MaxCalls))
             = Cardinality(Producer) * MaxCalls
    BY <1>1, <1>2, FS_Product
  <1>4. Budget \in SUBSET (Producer \X (1..MaxCalls))
        /\ Budget' \in SUBSET (Producer \X (1..MaxCalls))
    BY DEF Budget
  <1>5. QED
    BY <1>3, <1>4, FS_Subset, FS_CardinalityType

(* Stated so that it can be used of the next state. *)
LEMMA PotentialIsInt == CondInv => \A t \in Thread : Potential(t) \in Int
  BY PotentialTypes

(* The steps that leave the sequence number, and the one that does not.    *)
LEMMA SignalsStayCounted ==
  ASSUME CondInv, SignalsCounted, [CondNext]_allVars,
         Cardinality(Producer) * MaxCalls < SeqMod
  PROVE  SignalsCounted' /\ SeqIsNew
  <1> DEFINE value == mem[sequence_number]
             all == Cardinality(Producer) * MaxCalls
  <1>1. /\ value \in Nat /\ value < SeqMod /\ SeqMod \in Nat /\ MaxCalls \in Nat
        /\ seen \in [Thread -> 0 .. SeqMod - 1] /\ cpc \in [Thread -> CPC]
        /\ WaitersAreOutside
    BY CondConstants, PotentialTypes DEF CondInv, CondTypes
  <1>2. /\ Cardinality(Budget) \in Nat /\ Cardinality(Budget') \in Nat
        /\ IsFiniteSet(Budget) /\ all \in Nat
    BY BudgetIsFinite, FS_CardinalityType
  <1>3. /\ value + Cardinality(Budget) <= all /\ all < SeqMod
        /\ \A t \in Thread : cpc[t] = "wait" => seen[t] <= value
        /\ \A t \in Producer : Potential(t) <= MaxCalls
        /\ \A t \in Thread : cpc[t] \in {"dirty", "pulsed"} => t \in Producer
    BY DEF SignalsCounted, SeqIsBounded, SeenIsOld, PotentialIsBounded,
           SignallersProduce
  <1>4. \A t \in Producer : Potential(t)' <= Potential(t)
                            /\ Potential(t) \in Int /\ Potential(t)' \in Int
    <2>1. CondInv'
      BY CondNextKeepsInv
    <2>2. \A t \in Producer : Potential(t) \in Int
      BY CondConstants, PotentialTypes
    <2>3. \A t \in Producer : Potential(t)' \in Int
      <3>1. (\A t \in Thread : Potential(t) \in Int)'
        BY <2>1, PotentialIsInt, PTL
      <3>2. QED
        BY <3>1, CondConstants
    <2>4. QED
      BY <2>2, <2>3, PotentialNeverGrows
  <1>5. PotentialIsBounded'
    BY <1>1, <1>3, <1>4 DEF PotentialIsBounded
  <1> HIDE DEF value, all
  <1>6. Budget' \subseteq Budget
    BY <1>1, <1>4 DEF Budget
  <1>7. Cardinality(Budget') <= Cardinality(Budget)
    BY <1>2, <1>6, FS_Subset
  <1>8. ASSUME NEW t \in Thread, PulseAdd(t)
        PROVE  /\ value' = value + 1
               /\ value' + Cardinality(Budget') <= all
               /\ UNCHANGED seen
               /\ \A u \in Thread : cpc'[u] = "wait" => cpc[u] = "wait"
    <2>1. /\ cpc[t] = "dirty" /\ CGoto(t, "pulsed") /\ UNCHANGED seen
          /\ value' = (value + 1) % SeqMod
      BY <1>8, CondStepMem, CondConstants
      DEF PulseAdd, CondStep, value, CondInv, CondTypes, MutexQueueInv,
          MutexInv, LockTypeOK
    <2>2. t \in Producer /\ t \in Thread
      BY <1>3, <2>1
    <2>3. Potential(t) \in 1 .. MaxCalls /\ Potential(t)' < Potential(t)
      BY <1>1, <1>3, <1>4, <1>8, <2>2, ProducerPotential
    <2>4. <<t, Potential(t)>> \in Budget /\ <<t, Potential(t)>> \notin Budget'
      BY <1>4, <2>2, <2>3 DEF Budget
    <2>5. PICK x \in Budget : x \notin Budget'
      BY <2>4
    <2>6. Cardinality(Budget') + 1 <= Cardinality(Budget)
      <3>1. Cardinality(Budget') # Cardinality(Budget)
        BY <1>2, <1>6, <2>5, FS_Subset
      <3>2. QED
        BY <1>2, <1>7, <3>1
    <2>7. value + 1 < SeqMod
      BY <1>1, <1>2, <1>3, <2>6
    <2>8. value' = value + 1
      BY <1>1, <2>1, <2>7
    <2>9. \A u \in Thread : cpc'[u] = "wait" => cpc[u] = "wait"
      BY <1>1, <2>1 DEF CGoto
    <2>10. QED
      BY <1>1, <1>2, <1>3, <2>1, <2>6, <2>8, <2>9
  <1>9. ASSUME value' = value,
               \A u \in Thread : cpc'[u] = "wait"
                 => \/ cpc[u] = "wait" /\ seen'[u] = seen[u]
                    \/ seen'[u] = value
        PROVE  /\ SeqIsBounded' /\ SeenIsOld' /\ SeqIsNew
    <2>1. value' + Cardinality(Budget') <= all
      BY <1>1, <1>2, <1>3, <1>7, <1>9
    <2>2. \A u \in Thread : cpc'[u] = "wait" => seen'[u] <= value'
      BY <1>1, <1>3, <1>9
    <2>3. QED
      BY <1>9, <2>1, <2>2 DEF SeqIsBounded, SeenIsOld, SeqIsNew, value, all
  <1>10. ASSUME NEW t \in Thread, PulseAdd(t)
         PROVE  SeqIsBounded' /\ SeenIsOld' /\ SeqIsNew
    <2>1. /\ value' = value + 1 /\ UNCHANGED seen
          /\ value' + Cardinality(Budget') <= all
          /\ \A u \in Thread : cpc'[u] = "wait" => cpc[u] = "wait"
      BY <1>8, <1>10
    <2>2. \A u \in Thread : cpc[u] = "wait" => seen[u] < value'
      BY <1>1, <1>3, <2>1
    <2>3. \A u \in Thread : /\ cpc'[u] = "wait" => seen'[u] <= value'
                            /\ cpc[u] = "wait" => seen[u] # value'
      BY <1>1, <2>1, <2>2
    <2>4. QED
      BY <2>1, <2>3 DEF SeqIsBounded, SeenIsOld, SeqIsNew, value, all
  <1>11. ASSUME NEW t \in Thread,
                \/ CondWait(t) \/ ClientUnlock(t) \/ Put(t) \/ Take(t)
                \/ CondFutexWait(t) \/ CondAwake(t) \/ PulseWake(t)
                \/ /\ ClientLock(t) \/ LibraryStep(t) \/ HostStep(t)
                   /\ UNCHANGED condVars
         PROVE  /\ SeqIsBounded' /\ SeenIsOld' /\ SeqIsNew
    <2>1. value' = value
      <3>1. CASE MutexStepOf(t)
        BY <3>1, MutexStepOthers DEF value, CondInv
      <3>2. CASE UNCHANGED mem
        BY <3>2 DEF value
      <3>3. QED
        BY <1>11, <3>1, <3>2
        DEF CondWait, ClientUnlock, Put, Take, CondFutexWait, CondAwake,
            PulseWake, ClientLock, MutexStepOf, vars
    <2>2. \A u \in Thread : cpc'[u] = "wait"
            => \/ cpc[u] = "wait" /\ seen'[u] = seen[u]
               \/ seen'[u] = value
      BY <1>1, <1>11
      DEF CondWait, ClientUnlock, Put, Take, CondFutexWait, CondAwake,
          PulseWake, Relock, CGoto, condVars, value
    <2>3. QED
      BY <1>9, <2>1, <2>2
  <1>12. SignallersProduce'
    <2>1. \A u \in Thread : cpc'[u] \in {"dirty", "pulsed"}
            => cpc[u] \in {"dirty", "pulsed"} \/ u \in Producer
      BY <1>1
      DEF CondNext, Work, ClientLock, CondStep, CondWait, ClientUnlock, Put,
          Take, CondFutexWait, CondAwake, PulseAdd, PulseWake, Relock, CGoto,
          condVars, allVars
    <2>2. QED
      BY <2>1 DEF SignalsCounted, SignallersProduce
  <1>13. CASE UNCHANGED allVars
    <2>1. UNCHANGED <<value, cpc, seen>>
      BY <1>13 DEF allVars, vars, condVars, value
    <2>2. QED
      BY <1>5, <1>9, <1>12, <2>1 DEF SignalsCounted
  <1>14. QED
    BY <1>5, <1>10, <1>11, <1>12, <1>13
    DEF SignalsCounted, CondNext, Work, CondStep, ClientLock

(***************************************************************************)
(* The hazard of nc_condvar.c:61 needs as many signals as there are        *)
(* sequence numbers: when the producers together make fewer calls than     *)
(* that, no signal is lost, and no counter has to be watched.              *)
(***************************************************************************)
THEOREM FewSignalsAreNotLost ==
  ASSUME Cardinality(Producer) * MaxCalls < SeqMod
  PROVE  CondSpec => []NoLostSignal
  <1>1. CondInit => Signalled /\ SignalsCounted
    <2> SUFFICES ASSUME CondInit PROVE Signalled /\ SignalsCounted
      OBVIOUS
    <2>1. Signalled
      BY CondConstants
      DEF CondInit, Signalled, OnCond, Fresh, Consumer
    <2>2. /\ mem[sequence_number] = 0 /\ MaxCalls \in Nat
          /\ \A t \in Thread : /\ cpc[t] = "out" /\ pc[t] = "idle"
                               /\ calls[t] = 0 /\ holds[t] = 0
      BY CondConstants, MutexAssumption DEF CondInit, MutexInit, UNLOCKED
    <2>3. \A t \in Thread : Potential(t) = MaxCalls
      BY <2>2 DEF Potential, LockPath
    <2>4. SeenIsOld /\ PotentialIsBounded /\ SignallersProduce
      BY <2>2, <2>3, CondConstants
      DEF SeenIsOld, PotentialIsBounded, SignallersProduce
    <2>5. Cardinality(Budget) <= Cardinality(Producer) * MaxCalls
      <3>1. Budget \in SUBSET (Producer \X (1..MaxCalls))
        BY DEF Budget
      <3>2. QED
        BY <3>1, BudgetIsFinite, FS_Subset
    <2>6. SeqIsBounded
      BY <2>2, <2>5, BudgetIsFinite DEF SeqIsBounded
    <2>7. QED
      BY <2>1, <2>4, <2>6 DEF SignalsCounted
  <1>2. CondInv /\ Signalled /\ SignalsCounted /\ [CondNext]_allVars
        => (Signalled /\ SignalsCounted)'
    BY SignalsStayCounted, StepKeepsSignalled
  <1>3. QED
    BY <1>1, <1>2, CondInvariant, SignalledSuffices, PTL DEF CondSpec
=============================================================================
