---------------------------- MODULE NcTsdProofs ----------------------------
(***************************************************************************)
(* A key of thread-specific data shows the values that were stored under   *)
(* it and destroys no others, for any number of threads, keys, generations *)
(* and passes of an exiting thread, though no lock is taken.               *)
(***************************************************************************)
EXTENDS NcTsd, Integers, TLAPS

(* Positions at which a thread is at work on a key of the array.           *)
AtKey == {"createCas", "createDtor", "deleteCas", "deleteDtor", "exitGen",
          "dtor"}

(* What a thread read of a generation is not ahead of it now; a creator    *)
(* found a free key whose generation can still grow, and a generation that *)
(* a deleter read and that is still there is of a key that can be named.   *)
ReadInv(t) ==
  /\ at[t] \in AtKey => key[t] \in Key
  /\ at[t] = "createCas" => /\ ~KEY_ALLOCATED(seen[t])
                            /\ seen[t] # UINT_MAX - 1
                            /\ seen[t] <= generation[key[t]]
  /\ at[t] = "deleteCas" => /\ KEY_ALLOCATED(seen[t])
                            /\ seen[t] <= generation[key[t]]
                            /\ seen[t] = generation[key[t]]
                                 => wanted[key[t]] # NoKey

(* A key that a program may name is allocated, and its destructor is the   *)
(* one it was created with, unless a late delete has cleared it.           *)
NamedInv(k) ==
  wanted[k] # NoKey =>
    /\ KEY_ALLOCATED(generation[k]) /\ incarnation[k] > 0
    /\ dtor[k] \in {wanted[k], NULL}

(* The compare-and-swap has taken the key.                                 *)
CreatedInv(t) ==
  at[t] = "createDtor" =>
    KEY_ALLOCATED(generation[key[t]]) /\ incarnation[key[t]] > 0

(* A stored value is of an earlier generation or of the key of today.      *)
ValueInv(t, k) ==
  tsd[t][k].value # NULL =>
    /\ tsd[t][k].generation <= generation[k]
    /\ tsd[t][k].generation = generation[k]
         => wanted[k] # NoKey /\ tsd[t][k].value = incarnation[k]

(* The destructor that an exiting thread has read is the one of the value  *)
(* that it is about to take.                                               *)
DestructorInv(t) ==
  at[t] = "exitGen" /\ Visible(t, key[t]) => fn[t] = wanted[key[t]]

TsdIInv ==
  /\ TsdTypeOK /\ KeyHasOneOwner
  /\ \A t \in Thread : ReadInv(t) /\ CreatedInv(t) /\ DestructorInv(t)
  /\ \A k \in Key : NamedInv(k)
  /\ \A t \in Thread, k \in Key : ValueInv(t, k)

-----------------------------------------------------------------------------
(* The odd and the even generations, and the next one. *)

LEMMA NextGeneration ==
  ASSUME TsdAssumption, NEW g \in 0..(UINT_MAX - 2)
  PROVE  /\ (g + 1) % (UINT_MAX + 1) = g + 1
         /\ g + 1 \in 0..(UINT_MAX - 1)
         /\ KEY_ALLOCATED(g + 1) <=> ~KEY_ALLOCATED(g)
  <1>1. UINT_MAX \in Nat /\ g \in Nat /\ g + 1 < UINT_MAX + 1
    BY DEF TsdAssumption
  <1>2. (g + 1) % (UINT_MAX + 1) = g + 1
    BY <1>1
  <1>3. (g + 1) % 2 = 1 <=> ~(g % 2 = 1)
    BY <1>1
  <1>4. QED
    BY <1>1, <1>2, <1>3 DEF KEY_ALLOCATED

(* An allocated key can be deleted, so its generation is not the last.     *)
LEMMA AllocatedIsNotLast ==
  ASSUME TsdAssumption, NEW g \in 0..(UINT_MAX - 1),
         KEY_ALLOCATED(g) \/ g # UINT_MAX - 1
  PROVE  g \in 0..(UINT_MAX - 2)
  <1>1. UINT_MAX \in Nat /\ UINT_MAX % 2 = 1
    BY DEF TsdAssumption
  <1>2. (UINT_MAX - 1) % 2 = 0
    BY <1>1
  <1>3. QED
    BY <1>1, <1>2 DEF KEY_ALLOCATED

(* Only the thread that moves gets other locals.                           *)
LEMMA MoveEffect ==
  ASSUME TsdTypeOK, NEW t \in Thread, NEW where, NEW k, NEW g, NEW f,
         Move(t, where, k, g, f)
  PROVE  /\ at'[t] = where /\ key'[t] = k /\ seen'[t] = g /\ fn'[t] = f
         /\ \A u \in Thread \ {t} :
              /\ at'[u] = at[u] /\ key'[u] = key[u]
              /\ seen'[u] = seen[u] /\ fn'[u] = fn[u]
         /\ /\ where \in {"idle", "create", "createCas", "createDtor",
                          "deleteCas", "deleteDtor", "exit", "exitGen", "dtor",
                          "gone"}
            /\ k \in 0 .. PTHREAD_KEYS_MAX /\ g \in 0 .. UINT_MAX - 1
            /\ f \in Destructor \cup {NULL}
            => /\ at' \in [Thread -> {"idle", "create", "createCas",
                                      "createDtor", "deleteCas", "deleteDtor",
                                      "exit", "exitGen", "dtor", "gone"}]
               /\ key' \in [Thread -> 0 .. PTHREAD_KEYS_MAX]
               /\ seen' \in [Thread -> 0 .. UINT_MAX - 1]
               /\ fn' \in [Thread -> Destructor \cup {NULL}]
  <1>1. /\ at' = [at EXCEPT ![t] = where] /\ key' = [key EXCEPT ![t] = k]
        /\ seen' = [seen EXCEPT ![t] = g] /\ fn' = [fn EXCEPT ![t] = f]
    BY DEF Move
  <1>2. QED
    BY <1>1 DEF TsdTypeOK

-----------------------------------------------------------------------------
(* Steps that leave the keys alone. *)

(* The other threads.                                                      *)
Others(t) ==
  \A u \in Thread \ {t} :
    /\ at'[u] = at[u] /\ key'[u] = key[u]
    /\ seen'[u] = seen[u] /\ fn'[u] = fn[u] /\ tsd'[u] = tsd[u]

(* A step that leaves the keys alone needs to look after its own thread and *)
(* the values only.                                                         *)
LEMMA QuietStep ==
  ASSUME TsdIInv, NEW t \in Thread, UNCHANGED <<keyVars, history>>, Others(t),
         TsdTypeOK', at'[t] # "createDtor", ReadInv(t)', DestructorInv(t)',
         \A k \in Key : ValueInv(t, k)'
  PROVE  TsdIInv'
  <1>1. /\ generation' = generation /\ dtor' = dtor
        /\ incarnation' = incarnation /\ wanted' = wanted
    BY DEF keyVars, history
  <1>2. KeyHasOneOwner'
    BY <1>1 DEF TsdIInv, KeyHasOneOwner, Others
  <1>3. ASSUME NEW u \in Thread
        PROVE  ReadInv(u)' /\ CreatedInv(u)' /\ DestructorInv(u)'
    <2>1. CASE u = t
      BY <2>1 DEF CreatedInv
    <2>2. CASE u # t
      BY <1>1, <2>2 DEF TsdIInv, Others, ReadInv, CreatedInv, DestructorInv,
                        Visible
    <2>3. QED
      BY <2>1, <2>2
  <1>4. \A k \in Key : NamedInv(k)'
    BY <1>1 DEF TsdIInv, NamedInv
  <1>5. ASSUME NEW u \in Thread, NEW k \in Key PROVE ValueInv(u, k)'
    BY <1>1 DEF TsdIInv, Others, ValueInv
  <1>6. QED
    BY <1>2, <1>3, <1>4, <1>5 DEF TsdIInv

(* A thread moves and nothing else happens.                                *)
LEMMA MoveKeeps ==
  ASSUME TsdIInv, NEW t \in Thread, NEW where, NEW k, NEW g, NEW f,
         Move(t, where, k, g, f),
         where \in {"idle", "create", "createCas", "deleteCas", "deleteDtor",
                    "exit", "exitGen", "dtor", "gone"},
         k \in 0 .. PTHREAD_KEYS_MAX, g \in 0 .. UINT_MAX - 1,
         f \in Destructor \cup {NULL},
         UNCHANGED <<keyVars, tsd, exitVars, history>>,
         where \in AtKey => k \in Key,
         where = "createCas" => /\ ~KEY_ALLOCATED(g) /\ g # UINT_MAX - 1
                                /\ g <= generation[k],
         where = "deleteCas" => /\ KEY_ALLOCATED(g) /\ g <= generation[k]
                                /\ wanted[k] # NoKey,
         where = "exitGen" /\ Visible(t, k) => f = wanted[k]
  PROVE  TsdIInv'
  <1>1. /\ at'[t] = where /\ key'[t] = k /\ seen'[t] = g /\ fn'[t] = f
        /\ \A u \in Thread \ {t} :
             /\ at'[u] = at[u] /\ key'[u] = key[u]
             /\ seen'[u] = seen[u] /\ fn'[u] = fn[u]
        /\ at' \in [Thread -> {"idle", "create", "createCas",
                               "createDtor", "deleteCas", "deleteDtor",
                               "exit", "exitGen", "dtor", "gone"}]
        /\ key' \in [Thread -> 0 .. PTHREAD_KEYS_MAX]
        /\ seen' \in [Thread -> 0 .. UINT_MAX - 1]
        /\ fn' \in [Thread -> Destructor \cup {NULL}]
    BY MoveEffect DEF TsdIInv
  <1>2. /\ generation' = generation /\ dtor' = dtor /\ tsd' = tsd
        /\ incarnation' = incarnation /\ wanted' = wanted
        /\ repeat' = repeat /\ did_any' = did_any
        /\ UNCHANGED <<keyVars, history>>
    BY DEF keyVars, history, exitVars
  <1>3. TsdTypeOK'
    BY <1>1, <1>2 DEF TsdIInv, TsdTypeOK
  <1>4. Others(t)
    BY <1>1, <1>2 DEF Others
  <1>5. ReadInv(t)'
    BY <1>1, <1>2 DEF ReadInv
  <1>6. DestructorInv(t)'
    BY <1>1, <1>2 DEF DestructorInv, Visible
  <1>7. \A d \in Key : ValueInv(t, d)'
    BY <1>2 DEF TsdIInv, ValueInv
  <1>8. QED
    BY <1>1, <1>2, <1>3, <1>4, <1>5, <1>6, <1>7, QuietStep
(* What every move may use.                                                *)
LEMMA Ranges ==
  ASSUME TsdAssumption, TsdTypeOK
  PROVE  /\ 0 \in 0 .. PTHREAD_KEYS_MAX /\ 0 \in 0 .. UINT_MAX - 1
         /\ UINT_MAX \in Nat /\ PTHREAD_KEYS_MAX \in Nat /\ MaxCreates \in Nat
         /\ \A k \in Key : /\ k \in 0 .. PTHREAD_KEYS_MAX
                           /\ k + 1 \in 0 .. PTHREAD_KEYS_MAX
                           /\ generation[k] \in 0 .. UINT_MAX - 1
                           /\ generation[k] \in Int
                           /\ dtor[k] \in Destructor \cup {NULL}
                           /\ incarnation[k] \in 0..MaxCreates
         /\ \A t \in Thread : /\ key[t] \in 0 .. PTHREAD_KEYS_MAX
                              /\ seen[t] \in 0 .. UINT_MAX - 1
                              /\ seen[t] \in Int
                              /\ fn[t] \in Destructor \cup {NULL}
                              /\ key[t] # PTHREAD_KEYS_MAX => key[t] \in Key
  <1>1. UINT_MAX \in Nat /\ PTHREAD_KEYS_MAX \in Nat /\ MaxCreates \in Nat
    BY DEF TsdAssumption
  <1>2. UINT_MAX # 0
    BY DEF TsdAssumption
  <1>3. QED
    BY <1>1, <1>2 DEF TsdTypeOK, Key

(* A call of pthread_key_create keeps the invariant.                        *)
LEMMA KeyCreateKeeps ==
  ASSUME TsdAssumption, TsdIInv, NEW t \in Thread, KeyCreate(t)
  PROVE  TsdIInv'
  <1>1. PICK f \in Destructor \cup {NULL} : Move(t, "create", 0, 0, f)
    BY DEF KeyCreate
  <1>2. UNCHANGED <<keyVars, tsd, exitVars, history>>
    BY DEF KeyCreate
  <1>3. 0 \in 0 .. PTHREAD_KEYS_MAX /\ 0 \in 0 .. UINT_MAX - 1
    BY Ranges DEF TsdIInv
  <1>4. QED
    BY <1>1, <1>2, <1>3, MoveKeeps DEF AtKey

(* The read at the head of its loop keeps the invariant.                    *)
LEMMA CreateReadKeeps ==
  ASSUME TsdAssumption, TsdIInv, NEW t \in Thread, CreateRead(t)
  PROVE  TsdIInv'
  <1>1. at[t] = "create" /\ UNCHANGED <<keyVars, tsd, exitVars, history>>
    BY DEF CreateRead
  <1>2. /\ 0 \in 0 .. PTHREAD_KEYS_MAX /\ 0 \in 0 .. UINT_MAX - 1
        /\ fn[t] \in Destructor \cup {NULL}
    BY Ranges DEF TsdIInv
  <1>3. CASE Move(t, "idle", 0, 0, NULL)
    BY <1>1, <1>2, <1>3, MoveKeeps DEF AtKey
  <1>4. CASE /\ key[t] # PTHREAD_KEYS_MAX
             /\ Move(t, "create", key[t] + 1, 0, fn[t])
    <2>1. key[t] + 1 \in 0 .. PTHREAD_KEYS_MAX
      BY <1>4, Ranges DEF TsdIInv
    <2>2. QED
      BY <1>1, <1>2, <1>4, <2>1, MoveKeeps DEF AtKey
  <1>5. CASE /\ key[t] # PTHREAD_KEYS_MAX
             /\ ~KEY_ALLOCATED(generation[key[t]])
             /\ generation[key[t]] # UINT_MAX - 1
             /\ Move(t, "createCas", key[t], generation[key[t]], fn[t])
    <2>1. /\ key[t] \in Key /\ key[t] \in 0 .. PTHREAD_KEYS_MAX
          /\ generation[key[t]] \in 0 .. UINT_MAX - 1
          /\ generation[key[t]] <= generation[key[t]]
      BY <1>5, Ranges DEF TsdIInv
    <2>2. QED
      BY <1>1, <1>2, <1>5, <2>1, MoveKeeps DEF AtKey
  <1>6. QED
    BY <1>3, <1>4, <1>5 DEF CreateRead, Return

(* A call of pthread_key_delete, with its read, keeps the invariant.        *)
LEMMA KeyDeleteKeeps ==
  ASSUME TsdAssumption, TsdIInv, NEW t \in Thread, NEW k \in Key,
         KeyDelete(t, k)
  PROVE  TsdIInv'
  <1>1. /\ wanted[k] # NoKey /\ Move(t, "deleteCas", k, generation[k], NULL)
        /\ UNCHANGED <<keyVars, tsd, exitVars, history>>
    BY DEF KeyDelete
  <1>2. KEY_ALLOCATED(generation[k])
    BY <1>1 DEF TsdIInv, NamedInv
  <1>3. /\ k \in 0 .. PTHREAD_KEYS_MAX /\ generation[k] \in 0 .. UINT_MAX - 1
        /\ generation[k] <= generation[k]
    BY Ranges DEF TsdIInv
  <1>4. QED
    BY <1>1, <1>2, <1>3, MoveKeeps DEF AtKey

(* The start of a thread's end keeps the invariant.                         *)
LEMMA ExitBeginKeeps ==
  ASSUME TsdAssumption, TsdIInv, NEW t \in Thread, ExitBegin(t)
  PROVE  TsdIInv'
  <1>1. 0 \in 0 .. PTHREAD_KEYS_MAX /\ 0 \in 0 .. UINT_MAX - 1
    BY Ranges DEF TsdIInv
  <1>2. QED
    BY <1>1, MoveKeeps DEF ExitBegin, AtKey

(* The destructor that is read belongs to the value that is stored: while  *)
(* the value is of today's generation, the key is the same.                *)
LEMMA ExitReadDtorKeeps ==
  ASSUME TsdAssumption, TsdIInv, NEW t \in Thread, ExitReadDtor(t)
  PROVE  TsdIInv'
  <1>1. key[t] \in Key /\ UNCHANGED <<keyVars, tsd, exitVars, history>>
    BY DEF ExitReadDtor
  <1>2. /\ key[t] \in 0 .. PTHREAD_KEYS_MAX
        /\ key[t] + 1 \in 0 .. PTHREAD_KEYS_MAX
        /\ 0 \in 0 .. UINT_MAX - 1 /\ dtor[key[t]] \in Destructor \cup {NULL}
    BY <1>1, Ranges DEF TsdIInv
  <1>3. CASE Move(t, "exit", key[t] + 1, 0, NULL)
    BY <1>1, <1>2, <1>3, MoveKeeps DEF AtKey
  <1>4. CASE /\ dtor[key[t]] # NULL
             /\ Move(t, "exitGen", key[t], 0, dtor[key[t]])
    <2>1. ASSUME Visible(t, key[t]) PROVE dtor[key[t]] = wanted[key[t]]
      <3>1. wanted[key[t]] # NoKey
        BY <1>1, <2>1 DEF Visible, TsdIInv, ValueInv
      <3>2. QED
        BY <1>1, <1>4, <3>1 DEF TsdIInv, NamedInv
    <2>2. QED
      BY <1>1, <1>2, <1>4, <2>1, MoveKeeps DEF AtKey
  <1>5. QED
    BY <1>3, <1>4 DEF ExitReadDtor

(* The return of a destructor keeps the invariant.                          *)
LEMMA DestructorReturnsKeeps ==
  ASSUME TsdAssumption, TsdIInv, NEW t \in Thread, DestructorReturns(t)
  PROVE  TsdIInv'
  <1>1. /\ at[t] = "dtor" /\ Move(t, "exit", key[t] + 1, 0, NULL)
        /\ UNCHANGED <<keyVars, tsd, exitVars, history>>
    BY DEF DestructorReturns
  <1>2. key[t] \in Key
    BY <1>1 DEF TsdIInv, ReadInv, AtKey
  <1>3. key[t] + 1 \in 0 .. PTHREAD_KEYS_MAX /\ 0 \in 0 .. UINT_MAX - 1
    BY <1>2, Ranges DEF TsdIInv
  <1>4. QED
    BY <1>1, <1>3, MoveKeeps DEF AtKey

-----------------------------------------------------------------------------
(* Steps that write to the array of the thread. *)

LEMMA SetSpecificKeeps ==
  ASSUME TsdAssumption, TsdIInv, NEW t \in Thread, NEW k \in Key,
         SetSpecific(t, k)
  PROVE  TsdIInv'
  <1>1. /\ at[t] \in {"idle", "dtor"} /\ wanted[k] # NoKey
        /\ UNCHANGED <<keyVars, at, key, seen, fn, exitVars, history>>
        /\ UNCHANGED <<keyVars, history>>
    BY DEF SetSpecific
  <1>2. PICK v \in {incarnation[k], NULL} :
          tsd' = [tsd EXCEPT ![t][k] = [value |-> v,
                                        generation |-> generation[k]]]
    BY DEF SetSpecific
  <1>3. /\ generation' = generation /\ wanted' = wanted /\ dtor' = dtor
        /\ incarnation' = incarnation
        /\ repeat' = repeat /\ did_any' = did_any
    BY <1>1 DEF keyVars, history, exitVars
  <1>4. /\ v \in (1..MaxCreates) \cup {NULL}
        /\ generation[k] \in 0 .. UINT_MAX - 1 /\ generation[k] \in Int
    BY <1>1, Ranges DEF TsdIInv, NamedInv
  <1>5. /\ tsd' \in [Thread -> [Key -> [value : (1..MaxCreates) \cup {NULL},
                                        generation : 0 .. UINT_MAX - 1]]]
        /\ \A u \in Thread \ {t} : tsd'[u] = tsd[u]
        /\ tsd'[t][k].value = v /\ tsd'[t][k].generation = generation[k]
        /\ \A d \in Key \ {k} : tsd'[t][d] = tsd[t][d]
    BY <1>2, <1>4 DEF TsdIInv, TsdTypeOK
  <1>6. TsdTypeOK'
    BY <1>1, <1>3, <1>5 DEF TsdIInv, TsdTypeOK
  <1>7. Others(t) /\ at'[t] # "createDtor"
    BY <1>1, <1>5 DEF Others
  <1>8. ReadInv(t)' /\ DestructorInv(t)'
    BY <1>1, <1>3 DEF TsdIInv, ReadInv, DestructorInv
  <1>9. ASSUME NEW d \in Key PROVE ValueInv(t, d)'
    <2>1. CASE d = k
      BY <1>1, <1>3, <1>4, <1>5, <2>1 DEF ValueInv
    <2>2. CASE d # k
      BY <1>3, <1>5, <2>2 DEF TsdIInv, ValueInv
    <2>3. QED
      BY <2>1, <2>2
  <1>10. QED
    BY <1>1, <1>6, <1>7, <1>8, <1>9, QuietStep

(* The read and the reset of a value by __nc_tsd_exit keeps the invariant.  *)
LEMMA ExitTakeKeeps ==
  ASSUME TsdAssumption, TsdIInv, NEW t \in Thread, ExitTake(t)
  PROVE  TsdIInv'
  <1>1. /\ at[t] = "exitGen" /\ UNCHANGED <<keyVars, repeat, history>>
        /\ UNCHANGED <<keyVars, history>>
    BY DEF ExitTake
  <1>2. PICK k : k = key[t]
    OBVIOUS
  <1>3. k \in Key
    BY <1>1, <1>2 DEF TsdIInv, ReadInv, AtKey
  <1>4. /\ k \in 0 .. PTHREAD_KEYS_MAX /\ k + 1 \in 0 .. PTHREAD_KEYS_MAX
        /\ 0 \in 0 .. UINT_MAX - 1 /\ fn[t] \in Destructor \cup {NULL}
    BY <1>3, Ranges DEF TsdIInv
  <1>5. CASE ~Visible(t, k)
    <2>1. Move(t, "exit", k + 1, 0, NULL) /\ UNCHANGED <<tsd, did_any>>
      BY <1>2, <1>5 DEF ExitTake
    <2>2. UNCHANGED <<keyVars, tsd, exitVars, history>>
      BY <1>1, <2>1 DEF exitVars
    <2>3. QED
      BY <1>4, <2>1, <2>2, MoveKeeps DEF AtKey
  <1>6. CASE Visible(t, k)
    <2>1. /\ Move(t, "dtor", k, 0, fn[t])
          /\ tsd' = [tsd EXCEPT ![t][k].value = NULL]
          /\ did_any' = [did_any EXCEPT ![t] = TRUE]
      BY <1>2, <1>6 DEF ExitTake, TakeValue
    <2>2. /\ generation' = generation /\ wanted' = wanted /\ dtor' = dtor
          /\ incarnation' = incarnation /\ repeat' = repeat
      BY <1>1 DEF keyVars, history
    <2>3. /\ tsd' \in [Thread -> [Key -> [value : (1..MaxCreates) \cup {NULL},
                                          generation : 0 .. UINT_MAX - 1]]]
          /\ \A u \in Thread \ {t} : tsd'[u] = tsd[u]
          /\ tsd'[t][k].value = NULL
          /\ \A d \in Key \ {k} : tsd'[t][d] = tsd[t][d]
      <3>1. tsd[t][k] \in [value : (1..MaxCreates) \cup {NULL},
                           generation : 0 .. UINT_MAX - 1]
        BY <1>3 DEF TsdIInv, TsdTypeOK
      <3>2. PICK e : e = [tsd[t][k] EXCEPT !.value = NULL]
        OBVIOUS
      <3>3. /\ e \in [value : (1..MaxCreates) \cup {NULL},
                       generation : 0 .. UINT_MAX - 1]
            /\ e.value = NULL
        BY <3>1, <3>2
      <3>4. tsd' = [tsd EXCEPT ![t][k] = e]
        BY <2>1, <3>2
      <3>5. QED
        BY <1>3, <3>3, <3>4 DEF TsdIInv, TsdTypeOK
    <2>4. did_any' \in [Thread -> BOOLEAN]
      BY <2>1 DEF TsdIInv, TsdTypeOK
    <2>5. /\ at'[t] = "dtor" /\ key'[t] = k
          /\ \A u \in Thread \ {t} :
               /\ at'[u] = at[u] /\ key'[u] = key[u]
               /\ seen'[u] = seen[u] /\ fn'[u] = fn[u]
          /\ at' \in [Thread -> {"idle", "create", "createCas",
                                 "createDtor", "deleteCas", "deleteDtor",
                                 "exit", "exitGen", "dtor", "gone"}]
          /\ key' \in [Thread -> 0 .. PTHREAD_KEYS_MAX]
          /\ seen' \in [Thread -> 0 .. UINT_MAX - 1]
          /\ fn' \in [Thread -> Destructor \cup {NULL}]
      BY <1>4, <2>1, MoveEffect DEF TsdIInv
    <2>6. TsdTypeOK'
      BY <2>2, <2>3, <2>4, <2>5 DEF TsdIInv, TsdTypeOK
    <2>7. Others(t)
      BY <2>3, <2>5 DEF Others
    <2>8. ReadInv(t)' /\ DestructorInv(t)'
      BY <1>3, <2>5 DEF ReadInv, DestructorInv
    <2>9. ASSUME NEW d \in Key PROVE ValueInv(t, d)'
      <3>1. CASE d = k
        BY <2>3, <3>1 DEF ValueInv
      <3>2. CASE d # k
        BY <2>2, <2>3, <3>2 DEF TsdIInv, ValueInv
      <3>3. QED
        BY <3>1, <3>2
    <2>10. QED
      BY <1>1, <2>5, <2>6, <2>7, <2>8, <2>9, QuietStep
  <1>7. QED
    BY <1>5, <1>6

(* The end of a pass over the keys keeps the invariant.                     *)
LEMMA ExitPassKeeps ==
  ASSUME TsdAssumption, TsdIInv, NEW t \in Thread, ExitPass(t)
  PROVE  TsdIInv'
  <1>1. /\ did_any' = [did_any EXCEPT ![t] = FALSE]
        /\ UNCHANGED <<keyVars, history>>
    BY DEF ExitPass
  <1>2. /\ 0 \in 0 .. PTHREAD_KEYS_MAX /\ 0 \in 0 .. UINT_MAX - 1
        /\ NULL \in Destructor \cup {NULL}
    BY Ranges DEF TsdIInv
  <1>3. PICK where \in {"exit", "gone"} :
          /\ Move(t, where, 0, 0, NULL)
          /\ tsd' = tsd \/ tsd' = [tsd EXCEPT ![t] = Empty]
    BY DEF ExitPass
  <1>4. repeat' \in [Thread -> 0 .. PTHREAD_DESTRUCTOR_ITERATIONS - 1]
    <2>1. /\ PTHREAD_DESTRUCTOR_ITERATIONS \in Nat \ {0}
          /\ repeat \in [Thread -> 0 .. PTHREAD_DESTRUCTOR_ITERATIONS - 1]
      BY DEF TsdAssumption, TsdIInv, TsdTypeOK
    <2>2. CASE /\ repeat[t] + 1 < PTHREAD_DESTRUCTOR_ITERATIONS
               /\ repeat' = [repeat EXCEPT ![t] = @ + 1]
      BY <2>1, <2>2
    <2>3. CASE repeat' = [repeat EXCEPT ![t] = 0]
      BY <2>1, <2>3
    <2>4. QED
      BY <2>2, <2>3 DEF ExitPass
  <1>5. did_any' \in [Thread -> BOOLEAN]
    BY <1>1 DEF TsdIInv, TsdTypeOK
  <1>6. /\ tsd' \in [Thread -> [Key -> [value : (1..MaxCreates) \cup {NULL},
                                        generation : 0 .. UINT_MAX - 1]]]
        /\ \A u \in Thread \ {t} : tsd'[u] = tsd[u]
        /\ tsd'[t] = tsd[t] \/ \A k \in Key : tsd'[t][k].value = NULL
    <2>1. Empty \in [Key -> [value : (1..MaxCreates) \cup {NULL},
                             generation : 0 .. UINT_MAX - 1]]
      BY <1>2 DEF Empty
    <2>2. \A k \in Key : Empty[k].value = NULL
      BY DEF Empty
    <2> HIDE DEF Empty
    <2>3. CASE tsd' = tsd
      BY <2>3 DEF TsdIInv, TsdTypeOK
    <2>4. CASE tsd' = [tsd EXCEPT ![t] = Empty]
      BY <2>1, <2>2, <2>4 DEF TsdIInv, TsdTypeOK
    <2>5. QED
      BY <1>3, <2>3, <2>4
  <1>7. /\ at'[t] = where
        /\ \A u \in Thread \ {t} :
             /\ at'[u] = at[u] /\ key'[u] = key[u]
             /\ seen'[u] = seen[u] /\ fn'[u] = fn[u]
        /\ at' \in [Thread -> {"idle", "create", "createCas",
                               "createDtor", "deleteCas", "deleteDtor",
                               "exit", "exitGen", "dtor", "gone"}]
        /\ key' \in [Thread -> 0 .. PTHREAD_KEYS_MAX]
        /\ seen' \in [Thread -> 0 .. UINT_MAX - 1]
        /\ fn' \in [Thread -> Destructor \cup {NULL}]
    BY <1>2, <1>3, MoveEffect DEF TsdIInv
  <1>8. /\ generation' = generation /\ wanted' = wanted /\ dtor' = dtor
        /\ incarnation' = incarnation
    BY <1>1 DEF keyVars, history
  <1>9. TsdTypeOK'
    BY <1>4, <1>5, <1>6, <1>7, <1>8 DEF TsdIInv, TsdTypeOK
  <1>10. Others(t)
    BY <1>6, <1>7 DEF Others
  <1>11. ReadInv(t)' /\ DestructorInv(t)'
    BY <1>7 DEF ReadInv, DestructorInv, AtKey
  <1>12. \A k \in Key : ValueInv(t, k)'
    BY <1>6, <1>8 DEF TsdIInv, ValueInv
  <1>13. QED
    BY <1>1, <1>7, <1>9, <1>10, <1>11, <1>12, QuietStep
-----------------------------------------------------------------------------
(* Steps on the key itself. *)

(* A key is taken or freed: its generation moves on, and whatever was read *)
(* or stored under the key before is of an earlier generation.             *)
LEMMA BumpKeeps ==
  ASSUME TsdAssumption, TsdIInv, NEW t \in Thread, NEW k \in Key, NEW where,
         where \in {"createDtor", "deleteDtor"},
         NEW f \in Destructor \cup {NULL}, Move(t, where, k, 0, f), Bump(k),
         generation[k] \in 0..(UINT_MAX - 2),
         UNCHANGED <<dtor, tsd, exitVars>>,
         wanted' \in [Key -> Destructor \cup {NULL, NoKey}],
         wanted'[k] = NoKey,
         \A d \in Key \ {k} : wanted'[d] = wanted[d],
         incarnation' \in [Key -> 0..MaxCreates],
         \A d \in Key \ {k} : incarnation'[d] = incarnation[d],
         \A u \in Thread \ {t} : at[u] = "createDtor" => key[u] # k,
         where = "createDtor" => /\ ~KEY_ALLOCATED(generation[k])
                                 /\ incarnation'[k] > 0
  PROVE  TsdIInv'
  <1>1. PICK g : g = generation[k]
    OBVIOUS
  <1>2. /\ g \in 0..(UINT_MAX - 2) /\ (g + 1) % (UINT_MAX + 1) = g + 1
        /\ g + 1 \in 0..(UINT_MAX - 1)
        /\ KEY_ALLOCATED(g + 1) <=> ~KEY_ALLOCATED(g)
    BY <1>1, NextGeneration
  <1>3. /\ generation' \in [Key -> 0 .. UINT_MAX - 1]
        /\ generation'[k] = g + 1
        /\ \A d \in Key \ {k} : generation'[d] = generation[d]
    BY <1>1, <1>2 DEF Bump, TsdIInv, TsdTypeOK
  <1>4. /\ dtor' = dtor /\ tsd' = tsd /\ repeat' = repeat
        /\ did_any' = did_any
    BY DEF exitVars
  <1>5. /\ k \in 0 .. PTHREAD_KEYS_MAX /\ 0 \in 0 .. UINT_MAX - 1
        /\ \A d \in Key : generation[d] \in Int
        /\ \A u \in Thread : seen[u] \in Int
    BY Ranges DEF TsdIInv
  <1>6. /\ at'[t] = where /\ key'[t] = k
        /\ \A u \in Thread \ {t} :
             /\ at'[u] = at[u] /\ key'[u] = key[u]
             /\ seen'[u] = seen[u] /\ fn'[u] = fn[u]
        /\ at' \in [Thread -> {"idle", "create", "createCas",
                               "createDtor", "deleteCas", "deleteDtor",
                               "exit", "exitGen", "dtor", "gone"}]
        /\ key' \in [Thread -> 0 .. PTHREAD_KEYS_MAX]
        /\ seen' \in [Thread -> 0 .. UINT_MAX - 1]
        /\ fn' \in [Thread -> Destructor \cup {NULL}]
    BY <1>5, MoveEffect DEF TsdIInv
  <1>7. TsdTypeOK'
    BY <1>3, <1>4, <1>6 DEF TsdIInv, TsdTypeOK
  <1>8. KeyHasOneOwner'
    <2>1. ASSUME NEW u \in Thread, at'[u] = "createDtor", u # t
          PROVE  key'[u] # k /\ wanted'[key'[u]] = NoKey
      <3>1. at[u] = "createDtor" /\ key'[u] = key[u] /\ key[u] # k
        BY <1>6, <2>1
      <3>2. key[u] \in Key
        BY <3>1 DEF TsdIInv, ReadInv, AtKey
      <3>3. QED
        BY <3>1, <3>2 DEF TsdIInv, KeyHasOneOwner
    <2>2. ASSUME NEW u \in Thread, NEW v \in Thread \ {u},
                 at'[u] = "createDtor", at'[v] = "createDtor"
          PROVE  key'[u] # key'[v]
      <3>1. CASE u = t \/ v = t
        BY <1>6, <2>1, <2>2, <3>1
      <3>2. CASE u # t /\ v # t
        BY <1>6, <2>2, <3>2 DEF TsdIInv, KeyHasOneOwner
      <3>3. QED
        BY <3>1, <3>2
    <2>3. QED
      BY <1>6, <2>1, <2>2 DEF KeyHasOneOwner
  <1>9. ASSUME NEW u \in Thread
        PROVE  ReadInv(u)'
    <2>1. CASE u = t
      BY <1>6, <2>1 DEF ReadInv, AtKey
    <2>2. CASE u # t
      <3>1. ReadInv(u) /\ at'[u] = at[u] /\ key'[u] = key[u]
            /\ seen'[u] = seen[u]
        BY <1>6, <2>2 DEF TsdIInv
      <3>2. CASE key[u] = k
        BY <1>1, <1>2, <1>3, <1>5, <3>1, <3>2 DEF ReadInv, AtKey
      <3>3. CASE key[u] # k
        BY <1>3, <3>1, <3>3 DEF ReadInv, AtKey
      <3>4. QED
        BY <3>2, <3>3
    <2>3. QED
      BY <2>1, <2>2
  <1>10. ASSUME NEW u \in Thread
         PROVE  CreatedInv(u)'
    <2>1. CASE u = t
      BY <1>1, <1>2, <1>3, <1>6, <2>1 DEF CreatedInv
    <2>2. CASE u # t
      <3>1. /\ CreatedInv(u) /\ ReadInv(u)
            /\ at'[u] = at[u] /\ key'[u] = key[u]
        BY <1>6, <2>2 DEF TsdIInv
      <3>2. QED
        BY <1>3, <2>2, <3>1 DEF CreatedInv, ReadInv, AtKey
    <2>3. QED
      BY <2>1, <2>2
  <1>11. ASSUME NEW u \in Thread
         PROVE  ValueInv(u, k)' /\ ~Visible(u, k)'
    <2>1. tsd[u][k].generation \in 0 .. UINT_MAX - 1
      BY DEF TsdIInv, TsdTypeOK
    <2>2. tsd[u][k].value # NULL => tsd[u][k].generation <= g
      BY <1>1 DEF TsdIInv, ValueInv
    <2>3. tsd[u][k].value # NULL => /\ tsd[u][k].generation <= g + 1
                                    /\ tsd[u][k].generation # g + 1
      BY <1>2, <2>1, <2>2
    <2>4. QED
      BY <1>3, <1>4, <2>3 DEF ValueInv, Visible
  <1>12. ASSUME NEW u \in Thread, NEW d \in Key
         PROVE  ValueInv(u, d)'
    <2>1. CASE d = k
      BY <1>11, <2>1
    <2>2. CASE d # k
      BY <1>3, <1>4, <2>2 DEF TsdIInv, ValueInv
    <2>3. QED
      BY <2>1, <2>2
  <1>13. ASSUME NEW u \in Thread
         PROVE  DestructorInv(u)'
    <2>1. CASE u = t
      BY <1>6, <2>1 DEF DestructorInv
    <2>2. CASE u # t /\ key[u] = k
      <3>1. key'[u] = k /\ ~Visible(u, k)'
        BY <1>6, <1>11, <2>2
      <3>2. QED
        BY <3>1 DEF DestructorInv, Visible
    <2>3. CASE u # t /\ key[u] # k
      <3>1. /\ DestructorInv(u) /\ ReadInv(u)
            /\ at'[u] = at[u] /\ key'[u] = key[u] /\ fn'[u] = fn[u]
        BY <1>6, <2>3 DEF TsdIInv
      <3>2. QED
        BY <1>3, <1>4, <2>3, <3>1 DEF DestructorInv, Visible, ReadInv, AtKey
    <2>4. QED
      BY <2>1, <2>2, <2>3
  <1>14. ASSUME NEW d \in Key
         PROVE  NamedInv(d)'
    <2>1. CASE d = k
      BY <2>1 DEF NamedInv
    <2>2. CASE d # k
      BY <1>3, <1>4, <2>2 DEF TsdIInv, NamedInv
    <2>3. QED
      BY <2>1, <2>2
  <1>15. QED
    BY <1>7, <1>8, <1>9, <1>10, <1>12, <1>13, <1>14 DEF TsdIInv
(* A free key that is still of the generation that was read is nobody      *)
(* else's: its creation is over and it has been deleted.                   *)
LEMMA CreateCasKeeps ==
  ASSUME TsdAssumption, TsdIInv, NEW t \in Thread, CreateCas(t)
  PROVE  TsdIInv'
  <1>1. /\ at[t] = "createCas" /\ incarnation[key[t]] < MaxCreates
        /\ UNCHANGED <<dtor, tsd, exitVars, wanted>>
    BY DEF CreateCas
  <1>2. PICK k : k = key[t]
    OBVIOUS
  <1>3. /\ k \in Key /\ ~KEY_ALLOCATED(seen[t]) /\ seen[t] # UINT_MAX - 1
    BY <1>1, <1>2 DEF TsdIInv, ReadInv, AtKey
  <1>4. /\ k + 1 \in 0 .. PTHREAD_KEYS_MAX /\ 0 \in 0 .. UINT_MAX - 1
        /\ fn[t] \in Destructor \cup {NULL}
        /\ generation[k] \in 0 .. UINT_MAX - 1
        /\ incarnation[k] \in 0..MaxCreates /\ MaxCreates \in Nat
    BY <1>3, Ranges DEF TsdIInv
  <1>5. CASE generation[k] = seen[t]
    <2>1. /\ Bump(k) /\ incarnation' = [incarnation EXCEPT ![k] = @ + 1]
          /\ Move(t, "createDtor", k, 0, fn[t])
      BY <1>2, <1>5 DEF CreateCas
    <2>2. generation[k] \in 0..(UINT_MAX - 2)
      BY <1>3, <1>4, <1>5, AllocatedIsNotLast
    <2>3. /\ wanted' = wanted /\ wanted[k] = NoKey
          /\ wanted \in [Key -> Destructor \cup {NULL, NoKey}]
      BY <1>1, <1>3, <1>5 DEF TsdIInv, TsdTypeOK, NamedInv
    <2>4. /\ incarnation' \in [Key -> 0..MaxCreates]
          /\ incarnation'[k] > 0
          /\ \A d \in Key \ {k} : incarnation'[d] = incarnation[d]
      BY <1>1, <1>2, <1>3, <1>4, <2>1 DEF TsdIInv, TsdTypeOK
    <2>5. \A u \in Thread \ {t} : at[u] = "createDtor" => key[u] # k
      BY <1>3, <1>5 DEF TsdIInv, CreatedInv
    <2>6. UNCHANGED <<dtor, tsd, exitVars>>
      BY <1>1
    <2>7. PICK where : where = "createDtor"
      OBVIOUS
    <2>8. QED
      BY <1>3, <1>4, <1>5, <2>1, <2>2, <2>3, <2>4, <2>5, <2>6, <2>7, BumpKeeps
  <1>6. CASE generation[k] # seen[t]
    <2>1. /\ Move(t, "create", k + 1, 0, fn[t])
          /\ UNCHANGED <<generation, incarnation>>
      BY <1>2, <1>6 DEF CreateCas
    <2>2. UNCHANGED <<keyVars, tsd, exitVars, history>>
      BY <1>1, <2>1 DEF keyVars, history
    <2>3. QED
      BY <1>4, <2>1, <2>2, MoveKeeps DEF AtKey
  <1>7. QED
    BY <1>5, <1>6

(* A key that is still of the generation that was read can be named, so    *)
(* that no pthread_key_create is at work on it.                            *)
LEMMA DeleteCasKeeps ==
  ASSUME TsdAssumption, TsdIInv, NEW t \in Thread, DeleteCas(t)
  PROVE  TsdIInv'
  <1>1. at[t] = "deleteCas" /\ UNCHANGED <<dtor, tsd, exitVars, incarnation>>
    BY DEF DeleteCas
  <1>2. PICK k : k = key[t]
    OBVIOUS
  <1>3. /\ k \in Key /\ KEY_ALLOCATED(seen[t])
        /\ seen[t] = generation[k] => wanted[k] # NoKey
    BY <1>1, <1>2 DEF TsdIInv, ReadInv, AtKey
  <1>4. /\ 0 \in 0 .. PTHREAD_KEYS_MAX /\ 0 \in 0 .. UINT_MAX - 1
        /\ NULL \in Destructor \cup {NULL}
        /\ generation[k] \in 0 .. UINT_MAX - 1
    BY <1>3, Ranges DEF TsdIInv
  <1>5. CASE generation[k] = seen[t]
    <2>1. /\ Bump(k) /\ wanted' = [wanted EXCEPT ![k] = NoKey]
          /\ Move(t, "deleteDtor", k, 0, NULL)
      BY <1>2, <1>5 DEF DeleteCas
    <2>2. generation[k] \in 0..(UINT_MAX - 2)
      BY <1>3, <1>4, <1>5, AllocatedIsNotLast
    <2>3. /\ wanted' \in [Key -> Destructor \cup {NULL, NoKey}]
          /\ wanted'[k] = NoKey
          /\ \A d \in Key \ {k} : wanted'[d] = wanted[d]
      BY <1>3, <2>1 DEF TsdIInv, TsdTypeOK
    <2>4. /\ incarnation' \in [Key -> 0..MaxCreates]
          /\ \A d \in Key \ {k} : incarnation'[d] = incarnation[d]
      BY <1>1 DEF TsdIInv, TsdTypeOK
    <2>5. \A u \in Thread \ {t} : at[u] = "createDtor" => key[u] # k
      BY <1>3, <1>5 DEF TsdIInv, KeyHasOneOwner
    <2>6. UNCHANGED <<dtor, tsd, exitVars>>
      BY <1>1
    <2>7. PICK where : where = "deleteDtor"
      OBVIOUS
    <2>8. QED
      BY <1>3, <1>4, <1>5, <2>1, <2>2, <2>3, <2>4, <2>5, <2>6, <2>7, BumpKeeps
  <1>6. CASE generation[k] # seen[t]
    <2>1. Move(t, "idle", 0, 0, NULL) /\ UNCHANGED <<generation, wanted>>
      BY <1>2, <1>6 DEF DeleteCas, Return
    <2>2. UNCHANGED <<keyVars, tsd, exitVars, history>>
      BY <1>1, <2>1 DEF keyVars, history
    <2>3. QED
      BY <1>4, <2>1, <2>2, MoveKeeps DEF AtKey
  <1>7. QED
    BY <1>5, <1>6

(* The destructor of a new key is written while no program can name it.    *)
LEMMA CreateDtorKeeps ==
  ASSUME TsdAssumption, TsdIInv, NEW t \in Thread, CreateDtor(t)
  PROVE  TsdIInv'
  <1>1. /\ at[t] = "createDtor" /\ Move(t, "idle", 0, 0, NULL)
        /\ generation' = generation /\ tsd' = tsd /\ incarnation' = incarnation
        /\ repeat' = repeat /\ did_any' = did_any
    BY DEF CreateDtor, Return, exitVars
  <1>2. PICK k : k = key[t]
    OBVIOUS
  <1>3. /\ k \in Key /\ wanted[k] = NoKey
        /\ KEY_ALLOCATED(generation[k]) /\ incarnation[k] > 0
        /\ \A u \in Thread \ {t} : at[u] = "createDtor" => key[u] # k
    BY <1>1, <1>2 DEF TsdIInv, ReadInv, AtKey, KeyHasOneOwner, CreatedInv
  <1>4. /\ 0 \in 0 .. PTHREAD_KEYS_MAX /\ 0 \in 0 .. UINT_MAX - 1
        /\ fn[t] \in Destructor \cup {NULL} /\ fn[t] # NoKey
    BY Ranges DEF TsdIInv, TsdAssumption
  <1>5. /\ dtor' \in [Key -> Destructor \cup {NULL}] /\ dtor'[k] = fn[t]
        /\ wanted' \in [Key -> Destructor \cup {NULL, NoKey}]
        /\ wanted'[k] = fn[t]
        /\ \A d \in Key \ {k} : dtor'[d] = dtor[d] /\ wanted'[d] = wanted[d]
    BY <1>2, <1>3, <1>4 DEF CreateDtor, TsdIInv, TsdTypeOK
  <1>6. /\ at'[t] = "idle"
        /\ \A u \in Thread \ {t} :
             /\ at'[u] = at[u] /\ key'[u] = key[u]
             /\ seen'[u] = seen[u] /\ fn'[u] = fn[u]
        /\ at' \in [Thread -> {"idle", "create", "createCas",
                               "createDtor", "deleteCas", "deleteDtor",
                               "exit", "exitGen", "dtor", "gone"}]
        /\ key' \in [Thread -> 0 .. PTHREAD_KEYS_MAX]
        /\ seen' \in [Thread -> 0 .. UINT_MAX - 1]
        /\ fn' \in [Thread -> Destructor \cup {NULL}]
    BY <1>1, <1>4, MoveEffect DEF TsdIInv
  <1>7. TsdTypeOK'
    BY <1>1, <1>5, <1>6 DEF TsdIInv, TsdTypeOK
  <1>8. ASSUME NEW u \in Thread
        PROVE  /\ ReadInv(u)' /\ CreatedInv(u)' /\ DestructorInv(u)'
               /\ at'[u] = "createDtor" => wanted'[key'[u]] = NoKey
    <2>1. CASE u = t
      BY <1>6, <2>1 DEF ReadInv, AtKey, CreatedInv, DestructorInv
    <2>2. CASE u # t
      <3>1. /\ ReadInv(u) /\ CreatedInv(u) /\ DestructorInv(u)
            /\ at'[u] = at[u] /\ key'[u] = key[u]
            /\ seen'[u] = seen[u] /\ fn'[u] = fn[u]
        BY <1>6, <2>2 DEF TsdIInv
      <3>2. ReadInv(u)' /\ CreatedInv(u)'
        BY <1>1, <1>4, <1>5, <3>1 DEF ReadInv, AtKey, CreatedInv
      <3>3. DestructorInv(u)'
        <4>1. CASE key[u] = k
          <5>1. ~Visible(u, k)
            BY <1>3 DEF TsdIInv, ValueInv, Visible
          <5>2. QED
            BY <1>1, <3>1, <4>1, <5>1 DEF DestructorInv, Visible
        <4>2. CASE key[u] # k
          BY <1>1, <1>5, <3>1, <4>2 DEF DestructorInv, Visible, ReadInv, AtKey
        <4>3. QED
          BY <4>1, <4>2
      <3>4. at'[u] = "createDtor" => wanted'[key'[u]] = NoKey
        <4>1. HAVE at'[u] = "createDtor"
        <4>2. at[u] = "createDtor" /\ key[u] # k /\ key[u] \in Key
          BY <1>3, <2>2, <3>1, <4>1 DEF ReadInv, AtKey
        <4>3. wanted[key[u]] = NoKey
          BY <4>2 DEF TsdIInv, KeyHasOneOwner
        <4>4. QED
          BY <1>5, <3>1, <4>2, <4>3
      <3>5. QED
        BY <3>2, <3>3, <3>4
    <2>3. QED
      BY <2>1, <2>2
  <1>9. KeyHasOneOwner'
    BY <1>6, <1>8 DEF TsdIInv, KeyHasOneOwner
  <1>10. ASSUME NEW d \in Key
         PROVE  NamedInv(d)' /\ \A u \in Thread : ValueInv(u, d)'
    <2>1. CASE d = k
      BY <1>1, <1>3, <1>5, <2>1 DEF TsdIInv, NamedInv, ValueInv
    <2>2. CASE d # k
      BY <1>1, <1>5, <2>2 DEF TsdIInv, NamedInv, ValueInv
    <2>3. QED
      BY <2>1, <2>2
  <1>11. QED
    BY <1>7, <1>8, <1>9, <1>10 DEF TsdIInv

(* A late delete may clear the destructor of the next key in the place; it *)
(* never gives a key another one's.                                        *)
LEMMA DeleteDtorKeeps ==
  ASSUME TsdAssumption, TsdIInv, NEW t \in Thread, DeleteDtor(t)
  PROVE  TsdIInv'
  <1>1. /\ at[t] = "deleteDtor" /\ Move(t, "idle", 0, 0, NULL)
        /\ generation' = generation /\ tsd' = tsd /\ incarnation' = incarnation
        /\ wanted' = wanted /\ repeat' = repeat /\ did_any' = did_any
    BY DEF DeleteDtor, Return, exitVars, history
  <1>2. /\ 0 \in 0 .. PTHREAD_KEYS_MAX /\ 0 \in 0 .. UINT_MAX - 1
        /\ NULL \in Destructor \cup {NULL}
    BY Ranges DEF TsdIInv
  <1>3. /\ dtor' \in [Key -> Destructor \cup {NULL}]
        /\ \A d \in Key : dtor'[d] \in {dtor[d], NULL}
    BY <1>1 DEF DeleteDtor, TsdIInv, TsdTypeOK
  <1>4. /\ at'[t] = "idle"
        /\ \A u \in Thread \ {t} :
             /\ at'[u] = at[u] /\ key'[u] = key[u]
             /\ seen'[u] = seen[u] /\ fn'[u] = fn[u]
        /\ at' \in [Thread -> {"idle", "create", "createCas",
                               "createDtor", "deleteCas", "deleteDtor",
                               "exit", "exitGen", "dtor", "gone"}]
        /\ key' \in [Thread -> 0 .. PTHREAD_KEYS_MAX]
        /\ seen' \in [Thread -> 0 .. UINT_MAX - 1]
        /\ fn' \in [Thread -> Destructor \cup {NULL}]
    BY <1>1, <1>2, MoveEffect DEF TsdIInv
  <1>5. TsdTypeOK'
    BY <1>1, <1>3, <1>4 DEF TsdIInv, TsdTypeOK
  <1>6. KeyHasOneOwner'
    BY <1>1, <1>4 DEF TsdIInv, KeyHasOneOwner
  <1>7. ASSUME NEW u \in Thread
        PROVE  ReadInv(u)' /\ CreatedInv(u)' /\ DestructorInv(u)'
    <2>1. CASE u = t
      BY <1>4, <2>1 DEF ReadInv, AtKey, CreatedInv, DestructorInv
    <2>2. CASE u # t
      BY <1>1, <1>4, <2>2 DEF TsdIInv, ReadInv, CreatedInv, DestructorInv,
                              Visible
    <2>3. QED
      BY <2>1, <2>2
  <1>8. \A d \in Key : NamedInv(d)' /\ \A u \in Thread : ValueInv(u, d)'
    BY <1>1, <1>3 DEF TsdIInv, NamedInv, ValueInv
  <1>9. QED
    BY <1>5, <1>6, <1>7, <1>8 DEF TsdIInv

-----------------------------------------------------------------------------
(* The specification. *)

LEMMA InitTsd ==
  ASSUME TsdAssumption, Init
  PROVE  TsdIInv
  <1>1. /\ UINT_MAX \in Nat /\ UINT_MAX # 0
        /\ PTHREAD_KEYS_MAX \in Nat /\ MaxCreates \in Nat
        /\ PTHREAD_DESTRUCTOR_ITERATIONS \in Nat \ {0}
    BY DEF TsdAssumption
  <1>2. /\ 0 \in 0 .. UINT_MAX - 1 /\ 0 \in 0 .. PTHREAD_KEYS_MAX
        /\ 0 \in 0 .. PTHREAD_DESTRUCTOR_ITERATIONS - 1
        /\ 0 \in 0..MaxCreates
    BY <1>1
  <1>3. /\ Empty \in [Key -> [value : (1..MaxCreates) \cup {NULL},
                              generation : 0 .. UINT_MAX - 1]]
        /\ \A k \in Key : Empty[k].value = NULL
    BY <1>2 DEF Empty
  <1>4. TsdTypeOK
    <2> HIDE DEF Empty
    <2>1. QED
      BY <1>2, <1>3 DEF Init, TsdTypeOK
  <1>5. ASSUME NEW t \in Thread
        PROVE  /\ at[t] = "idle" /\ \A k \in Key : tsd[t][k].value = NULL
    <2> HIDE DEF Empty
    <2>1. QED
      BY <1>3 DEF Init
  <1>6. ASSUME NEW k \in Key PROVE wanted[k] = NoKey
    BY DEF Init
  <1>7. QED
    BY <1>4, <1>5, <1>6
       DEF TsdIInv, KeyHasOneOwner, ReadInv, AtKey, CreatedInv, DestructorInv,
           NamedInv, ValueInv

(* The inductive step, action by action.                                    *)
LEMMA NextTsd ==
  ASSUME TsdAssumption, TsdIInv, [Next]_vars
  PROVE  TsdIInv'
  <1>1. ASSUME NEW t \in Thread, ThreadStep(t)
        PROVE  TsdIInv'
    <2>1. CASE KeyCreate(t)
      BY <2>1, KeyCreateKeeps
    <2>2. CASE CreateRead(t)
      BY <2>2, CreateReadKeeps
    <2>3. CASE CreateCas(t)
      BY <2>3, CreateCasKeeps
    <2>4. CASE CreateDtor(t)
      BY <2>4, CreateDtorKeeps
    <2>5. CASE DeleteCas(t)
      BY <2>5, DeleteCasKeeps
    <2>6. CASE DeleteDtor(t)
      BY <2>6, DeleteDtorKeeps
    <2>7. CASE ExitBegin(t)
      BY <2>7, ExitBeginKeeps
    <2>8. CASE ExitReadDtor(t)
      BY <2>8, ExitReadDtorKeeps
    <2>9. CASE ExitTake(t)
      BY <2>9, ExitTakeKeeps
    <2>10. CASE DestructorReturns(t)
      BY <2>10, DestructorReturnsKeeps
    <2>11. CASE ExitPass(t)
      BY <2>11, ExitPassKeeps
    <2>12. ASSUME NEW k \in Key, KeyDelete(t, k)
           PROVE  TsdIInv'
      BY <2>12, KeyDeleteKeeps
    <2>13. ASSUME NEW k \in Key, SetSpecific(t, k)
           PROVE  TsdIInv'
      BY <2>13, SetSpecificKeeps
    <2>14. QED
      BY <1>1, <2>1, <2>2, <2>3, <2>4, <2>5, <2>6, <2>7, <2>8, <2>9, <2>10,
         <2>11, <2>12, <2>13 DEF ThreadStep
  <1>2. CASE UNCHANGED vars
    BY <1>2
       DEF vars, keyVars, exitVars, history, TsdIInv, TsdTypeOK,
           KeyHasOneOwner, ReadInv, AtKey, CreatedInv, DestructorInv,
           NamedInv, ValueInv, Visible
  <1>3. QED
    BY <1>1, <1>2 DEF Next

(* The invariant from which the theorems below follow.                      *)
LEMMA TsdInduction ==
  Spec => []TsdIInv
  <1>1. Init => TsdIInv
    BY TsdAssumption, InitTsd
  <1>2. TsdIInv /\ [Next]_vars => TsdIInv'
    BY TsdAssumption, NextTsd
  <1>3. QED
    BY <1>1, <1>2, PTL DEF Spec

(* No generation reaches its last value, and no two pthread_key_create     *)
(* hold the same key (nc_tsd.c:39-45).                                     *)
THEOREM TsdCorrect ==
  Spec => []TsdInv
  <1>1. TsdIInv => TsdInv
    BY DEF TsdIInv, TsdInv
  <1>2. QED
    BY <1>1, TsdInduction, PTL

(* No thread ever finds, under a key, a value of an earlier key in the     *)
(* same place (nc_tsd.c:39-45, 105).                                       *)
THEOREM TsdHidesStale ==
  Spec => []StaleIsHidden
  <1>1. TsdIInv => StaleIsHidden
    BY DEF TsdIInv, StaleIsHidden, ValueInv, Visible
  <1>2. QED
    BY <1>1, TsdInduction, PTL

(* A destructor is only called with a value of the key that it was given   *)
(* for, though it is read before the generation is (nc_tsd.c:121-130).     *)
THEOREM TsdDestroysOwn ==
  Spec => RightDestructor
  <1> DEFINE Own == \A t \in Thread :
                      at[t] = "exitGen" /\ at'[t] = "dtor"
                        => /\ fn[t] = wanted[key[t]]
                           /\ tsd[t][key[t]].value = incarnation[key[t]]
  <1>1. ASSUME TsdIInv, Next PROVE Own
    <2>1. SUFFICES ASSUME NEW t \in Thread, at[t] = "exitGen",
                          at'[t] = "dtor"
                   PROVE  /\ fn[t] = wanted[key[t]]
                          /\ tsd[t][key[t]].value = incarnation[key[t]]
      OBVIOUS
    <2>2. key[t] \in Key
      BY <1>1, <2>1 DEF TsdIInv, ReadInv, AtKey
    <2>3. Visible(t, key[t])
      <3>1. PICK u \in Thread : ThreadStep(u)
        BY <1>1 DEF Next
      <3>2. at \in [Thread -> {"idle", "create", "createCas", "createDtor",
                               "deleteCas", "deleteDtor", "exit", "exitGen",
                               "dtor", "gone"}]
        BY <1>1 DEF TsdIInv, TsdTypeOK
      <3>3. \/ at' = at
            \/ \E where : at' = [at EXCEPT ![u] = where]
        BY <3>1 DEF ThreadStep, KeyCreate, CreateRead, CreateCas, CreateDtor,
             DeleteCas, DeleteDtor, ExitBegin, ExitReadDtor, ExitTake,
             DestructorReturns, ExitPass, KeyDelete, SetSpecific, TakeValue,
             Move, Return
      <3>4. u = t
        BY <2>1, <3>2, <3>3
      <3>5. ExitTake(t)
        BY <2>1, <3>1, <3>2, <3>4
           DEF ThreadStep, KeyCreate, CreateRead, CreateCas, CreateDtor,
               DeleteCas, DeleteDtor, ExitBegin, ExitReadDtor,
               DestructorReturns, ExitPass, KeyDelete, SetSpecific
      <3>6. CASE ~Visible(t, key[t])
        <4>1. at' = [at EXCEPT ![t] = "exit"]
          BY <3>5, <3>6 DEF ExitTake, Move
        <4>2. QED
          BY <2>1, <3>2, <4>1
      <3>7. QED
        BY <3>6
    <2>4. QED
      BY <1>1, <2>1, <2>2, <2>3
         DEF TsdIInv, DestructorInv, ValueInv, Visible
  <1>2. ASSUME TsdIInv, UNCHANGED vars PROVE Own
    BY <1>2 DEF vars
  <1>3. TsdIInv /\ [Next]_vars => [Own]_vars
    BY <1>1, <1>2
  <1>4. QED
    <2>1. RightDestructor <=> [][Own]_vars
      BY DEF RightDestructor
    <2> HIDE DEF Own
    <2>2. QED
      BY <1>3, <2>1, TsdInduction, PTL DEF Spec
=============================================================================
