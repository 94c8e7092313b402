------------------------------- MODULE NcTsd -------------------------------
(***************************************************************************)
(* Thread-specific data: untrusted/pthread/nc_tsd.c takes no lock.  A      *)
(* key's generation is odd while the key is allocated; every access to the *)
(* shared tsd_keys is a step of its own.                                   *)
(*                                                                         *)
(* The program names a key only from the return of the pthread_key_create  *)
(* that made it until a pthread_key_delete of it takes effect.  A value    *)
(* stands for the incarnation of the key it was stored under.              *)
(***************************************************************************)
EXTENDS Naturals

CONSTANTS
  Thread,
  PTHREAD_KEYS_MAX,
  UINT_MAX,                       \* scaled down in the instances
  PTHREAD_DESTRUCTOR_ITERATIONS,
  Destructor,                     \* destructors that programs give
  NULL,                           \* no destructor, no value
  NoKey,                          \* of wanted: the key is not allocated
  MaxCreates                      \* bound: keys created

ASSUME TsdAssumption ==
  /\ UINT_MAX \in Nat /\ UINT_MAX % 2 = 1
  /\ {PTHREAD_KEYS_MAX, MaxCreates} \subseteq Nat
  /\ PTHREAD_DESTRUCTOR_ITERATIONS \in Nat \ {0}
  /\ NULL \notin Destructor /\ NoKey \notin Destructor \cup {NULL}

Key == 0 .. PTHREAD_KEYS_MAX - 1

VARIABLES
  generation, dtor,  \* tsd_keys
  tsd,               \* each thread's array: value and generation per key
  at, key, seen, fn, \* each thread: position, and its locals
  repeat, did_any,   \* locals of __nc_tsd_exit
  incarnation,       \* history: how often each key has been created
  wanted             \* history: the destructor the key's owner asked for

keyVars == <<generation, dtor>>
exitVars == <<repeat, did_any>>
history == <<incarnation, wanted>>
vars == <<keyVars, tsd, at, key, seen, fn, exitVars, history>>

KEY_ALLOCATED(g) == g % 2 = 1

(* The variables keep their types: above all, no generation reaches        *)
(* UINT_MAX, after which it would start again (nc_tsd.c:39-45).            *)
TsdTypeOK ==
  /\ generation \in [Key -> 0 .. UINT_MAX - 1]
  /\ dtor \in [Key -> Destructor \cup {NULL}]
  /\ tsd \in [Thread -> [Key -> [value : (1..MaxCreates) \cup {NULL},
                                 generation : 0 .. UINT_MAX - 1]]]
  /\ at \in [Thread -> {"idle", "create", "createCas", "createDtor",
                        "deleteCas", "deleteDtor", "exit", "exitGen", "dtor",
                        "gone"}]
  /\ key \in [Thread -> 0 .. PTHREAD_KEYS_MAX]
  /\ seen \in [Thread -> 0 .. UINT_MAX - 1]
  /\ fn \in [Thread -> Destructor \cup {NULL}]
  /\ repeat \in [Thread -> 0 .. PTHREAD_DESTRUCTOR_ITERATIONS - 1]
  /\ did_any \in [Thread -> BOOLEAN]
  /\ incarnation \in [Key -> 0..MaxCreates]
  /\ wanted \in [Key -> Destructor \cup {NULL, NoKey}]

Empty == [k \in Key |-> [value |-> NULL, generation |-> 0]]

Init ==
  /\ generation = [k \in Key |-> 0]
  /\ dtor = [k \in Key |-> NULL]
  /\ tsd = [t \in Thread |-> Empty]
  /\ at = [t \in Thread |-> "idle"]
  /\ key = [t \in Thread |-> 0]
  /\ seen = [t \in Thread |-> 0]
  /\ fn = [t \in Thread |-> NULL]
  /\ repeat = [t \in Thread |-> 0]
  /\ did_any = [t \in Thread |-> FALSE]
  /\ incarnation = [k \in Key |-> 0]
  /\ wanted = [k \in Key |-> NoKey]

(* The position of t, its key, and the generation and destructor it read. *)
Move(t, where, k, g, f) ==
  /\ at' = [at EXCEPT ![t] = where]
  /\ key' = [key EXCEPT ![t] = k]
  /\ seen' = [seen EXCEPT ![t] = g]
  /\ fn' = [fn EXCEPT ![t] = f]

Return(t) == Move(t, "idle", 0, 0, NULL)

-----------------------------------------------------------------------------
(* pthread_key_create *)
KeyCreate(t) ==
  /\ at[t] = "idle"
  /\ \E f \in Destructor \cup {NULL} : Move(t, "create", 0, 0, f)
  /\ UNCHANGED <<keyVars, tsd, exitVars, history>>

CreateRead(t) ==
  LET k == key[t] IN
  /\ at[t] = "create"
  /\ IF k = PTHREAD_KEYS_MAX THEN Return(t)
     ELSE IF KEY_ALLOCATED(generation[k]) \/ generation[k] = UINT_MAX - 1
          THEN Move(t, "create", k + 1, 0, fn[t])
          ELSE Move(t, "createCas", k, generation[k], fn[t])
  /\ UNCHANGED <<keyVars, tsd, exitVars, history>>

(* Bug: a flag in place of a count of generations. *)
Bump_Flag(k) == generation' = [generation EXCEPT ![k] = 1 - @]

Bump(k) == generation' = [generation EXCEPT ![k] = (@ + 1) % (UINT_MAX + 1)]

(* Bug: the key is taken without looking at its generation again. *)
CreateCas_Blind(t) ==
  LET k == key[t] IN
  /\ at[t] = "createCas" /\ incarnation[k] < MaxCreates
  /\ generation' = [generation EXCEPT ![k] = seen[t] + 1]
  /\ incarnation' = [incarnation EXCEPT ![k] = @ + 1]
  /\ Move(t, "createDtor", k, 0, fn[t])
  /\ UNCHANGED <<dtor, tsd, exitVars, wanted>>

CreateCas(t) ==
  LET k == key[t] IN
  /\ at[t] = "createCas" /\ incarnation[k] < MaxCreates
  /\ IF generation[k] = seen[t]
     THEN /\ Bump(k)
          /\ incarnation' = [incarnation EXCEPT ![k] = @ + 1]
          /\ Move(t, "createDtor", k, 0, fn[t])
     ELSE /\ Move(t, "create", k + 1, 0, fn[t])
          /\ UNCHANGED <<generation, incarnation>>
  /\ UNCHANGED <<dtor, tsd, exitVars, wanted>>

CreateDtor(t) ==
  /\ at[t] = "createDtor"
  /\ dtor' = [dtor EXCEPT ![key[t]] = fn[t]]
  /\ wanted' = [wanted EXCEPT ![key[t]] = fn[t]]
  /\ Return(t)
  /\ UNCHANGED <<generation, tsd, exitVars, incarnation>>

(* pthread_key_delete *)
KeyDelete(t, k) ==
  /\ at[t] = "idle"
  /\ wanted[k] # NoKey
  /\ Move(t, "deleteCas", k, generation[k], NULL)
  /\ UNCHANGED <<keyVars, tsd, exitVars, history>>

(* Of two deletes of the same key, one returns EINVAL. *)
DeleteCas(t) ==
  /\ at[t] = "deleteCas"
  /\ IF generation[key[t]] = seen[t]
     THEN /\ Bump(key[t])
          /\ wanted' = [wanted EXCEPT ![key[t]] = NoKey]
          /\ Move(t, "deleteDtor", key[t], 0, NULL)
     ELSE Return(t) /\ UNCHANGED <<generation, wanted>>
  /\ UNCHANGED <<dtor, tsd, exitVars, incarnation>>

DeleteDtor(t) ==
  /\ at[t] = "deleteDtor"
  /\ dtor' = [dtor EXCEPT ![key[t]] = NULL]
  /\ Return(t)
  /\ UNCHANGED <<generation, tsd, exitVars, history>>

(* pthread_setspecific, from the program or from one of its destructors.   *)
(* A thread with no array yet reads as one with an empty array.            *)
SetSpecific(t, k) ==
  /\ at[t] \in {"idle", "dtor"}
  /\ wanted[k] # NoKey
  /\ \E v \in {incarnation[k], NULL} :
       tsd' = [tsd EXCEPT ![t][k] = [value |-> v, generation |-> generation[k]]]
  /\ UNCHANGED <<keyVars, at, key, seen, fn, exitVars, history>>

(* What pthread_getspecific finds: is the stored value the key's? *)
Visible(t, k) ==
  /\ KEY_ALLOCATED(generation[k])
  /\ tsd[t][k].generation = generation[k]
  /\ tsd[t][k].value # NULL

-----------------------------------------------------------------------------
(* __nc_tsd_exit *)
ExitBegin(t) ==
  /\ at[t] = "idle"
  /\ Move(t, "exit", 0, 0, NULL)
  /\ UNCHANGED <<keyVars, tsd, exitVars, history>>

ExitReadDtor(t) ==
  LET k == key[t] IN
  /\ at[t] = "exit" /\ k \in Key
  /\ IF dtor[k] = NULL THEN Move(t, "exit", k + 1, 0, NULL)
                       ELSE Move(t, "exitGen", k, 0, dtor[k])
  /\ UNCHANGED <<keyVars, tsd, exitVars, history>>

TakeValue(t, k) ==
  /\ Move(t, "dtor", k, 0, fn[t])
  /\ tsd' = [tsd EXCEPT ![t][k].value = NULL]
  /\ did_any' = [did_any EXCEPT ![t] = TRUE]

(* Bug: whatever is in the array is destroyed. *)
ExitTake_AnyGeneration(t) ==
  LET k == key[t] IN
  /\ at[t] = "exitGen"
  /\ IF tsd[t][k].value # NULL THEN TakeValue(t, k)
     ELSE Move(t, "exit", k + 1, 0, NULL) /\ UNCHANGED <<tsd, did_any>>
  /\ UNCHANGED <<keyVars, repeat, history>>

ExitTake(t) ==
  LET k == key[t] IN
  /\ at[t] = "exitGen"
  /\ IF Visible(t, k) THEN TakeValue(t, k)
     ELSE Move(t, "exit", k + 1, 0, NULL) /\ UNCHANGED <<tsd, did_any>>
  /\ UNCHANGED <<keyVars, repeat, history>>

DestructorReturns(t) ==
  /\ at[t] = "dtor"
  /\ Move(t, "exit", key[t] + 1, 0, NULL)
  /\ UNCHANGED <<keyVars, tsd, exitVars, history>>

(* The end of a pass over the keys: another one if it destroyed anything. *)
ExitPass(t) ==
  /\ at[t] = "exit" /\ key[t] = PTHREAD_KEYS_MAX
  /\ \/ /\ did_any[t] /\ repeat[t] + 1 < PTHREAD_DESTRUCTOR_ITERATIONS
        /\ repeat' = [repeat EXCEPT ![t] = @ + 1]
        /\ Move(t, "exit", 0, 0, NULL)
        /\ UNCHANGED tsd
     \/ /\ ~did_any[t] \/ repeat[t] + 1 = PTHREAD_DESTRUCTOR_ITERATIONS
        /\ repeat' = [repeat EXCEPT ![t] = 0]
        /\ Move(t, "gone", 0, 0, NULL)
        /\ tsd' = [tsd EXCEPT ![t] = Empty]
  /\ did_any' = [did_any EXCEPT ![t] = FALSE]
  /\ UNCHANGED <<keyVars, history>>

ThreadStep(t) ==
  \/ KeyCreate(t) \/ CreateRead(t) \/ CreateCas(t) \/ CreateDtor(t)
  \/ DeleteCas(t) \/ DeleteDtor(t)
  \/ ExitBegin(t) \/ ExitReadDtor(t) \/ ExitTake(t) \/ DestructorReturns(t)
  \/ ExitPass(t)
  \/ \E k \in Key : KeyDelete(t, k) \/ SetSpecific(t, k)

Next == \E t \in Thread : ThreadStep(t)

Spec == Init /\ [][Next]_vars

-----------------------------------------------------------------------------
(***************************************************************************)
(* No thread ever sees, under a key, a value that was stored under an      *)
(* earlier key in the same place, however long ago (nc_tsd.c:39-45, 105).  *)
(***************************************************************************)
StaleIsHidden ==
  \A t \in Thread, k \in Key :
    Visible(t, k) => tsd[t][k].value = incarnation[k]

(* No two pthread_key_create return the same key while it is allocated     *)
(* (the compare-and-swap of nc_tsd.c:43-45).                               *)
KeyHasOneOwner ==
  \A t \in Thread : at[t] = "createDtor" =>
    /\ wanted[key[t]] = NoKey
    /\ \A u \in Thread \ {t} : at[u] = "createDtor" => key[u] # key[t]

TsdInv == TsdTypeOK /\ KeyHasOneOwner

(***************************************************************************)
(* A destructor is only ever called with a value of the key it was given   *)
(* for, although it is read before the generation is (nc_tsd.c:121-130).   *)
(***************************************************************************)
RightDestructor ==
  [][\A t \in Thread :
       at[t] = "exitGen" /\ at'[t] = "dtor"
         => /\ fn[t] = wanted[key[t]]
            /\ tsd[t][key[t]].value = incarnation[key[t]]]_vars
=============================================================================
