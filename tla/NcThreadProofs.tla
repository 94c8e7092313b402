--------------------------- MODULE NcThreadProofs ---------------------------
(***************************************************************************)
(* The memory of threads, the count of them and the data that a join reads *)
(* are right, for any number of threads, blocks and cached blocks, and for *)
(* any malloc.                                                             *)
(***************************************************************************)
EXTENDS NcThread, FiniteSetTheorems, SequenceTheorems, WellFoundedInduction,
        TLAPS

-----------------------------------------------------------------------------
(* The inductive invariant. *)

(* Its memory and its data are the thread's. *)
Born(t) == tstate[t] \in {"starting", "notstarted", "withdrawn", "running",
                          "exiting", "uncounted"}

(* Nothing but its data is left of it. *)
Left(t) == tstate[t] \in {"none", "released", "gone"} /\ basic_data[t] = "live"

(* Where a thread is while it is being created, or joined. *)
Creation == {"starting", "notstarted", "withdrawn", "failed"}
Joined == {"none", "starting", "notstarted", "withdrawn", "running", "exiting",
           "uncounted", "released", "gone"}

(* b is on the list q, and each block is there once. *)
On(q, b) == \E i \in 1..Len(q) : q[i] = b
Distinct(q) == \A i, j \in 1..Len(q) : q[i] = q[j] => i = j
InQueue(k, b) == On(queue[k], b)

(* The block is t's, and in no queue yet. *)
Owns(t, b) == tstate[t] # "released" /\ \E k \in MemoryType : node[t][k] = b

(* What each actor is in the middle of; nobody else is about the same      *)
(* thread.                                                                 *)
CreatingInv ==
  \A a \in Actor : creating[a] # NoThread =>
    /\ tstate[a] = "running" /\ joining[a] = NoThread
    /\ tstate[creating[a]] \in Creation
    /\ \A b \in Actor : creating[b] = creating[a] => b = a

JoiningInv ==
  \A a \in Actor : joining[a] # NoThread =>
    LET t == joining[a]
    IN  /\ tstate[a] = "running"
        /\ tstate[t] \in Joined
        /\ basic_data[t] = "live" \/ tstate[t] = "none"
        /\ claimed[t] = "join"
        /\ tdb[t] => join_waiting[t] /\ joinable[t]
        /\ \A b \in Actor : joining[b] = t => b = a

(* What is true of one thread's data. *)
DataInv(t) ==
  /\ Born(t) => /\ tdb[t] /\ basic_data[t] = "live" /\ ~status[t]
                /\ claimed[t] \notin {"detach", "late"} => joinable[t]
                /\ claimed[t] = "detach" => ~joinable[t]
  /\ tstate[t] \in {"none", "released", "gone"} => ~tdb[t]
  /\ tstate[t] \in {"exiting", "uncounted"} =>
       /\ joinable[t] => exitJoinable[t]
       /\ claimed[t] = "detach" => ~exitJoinable[t]
  /\ tstate[t] \in {"released", "gone"} /\ claimed[t] = "no"
       => basic_data[t] = "live"
  /\ Left(t) => claimed[t] # "detach"

(* A join that has begun ends when it frees the data, or when the cleanup  *)
(* of a failed pthread_create has.                                         *)
JoinedInv ==
  \A t \in Thread :
    claimed[t] = "join" /\ (Born(t) \/ Left(t)) => IsJoined(t)

NodesInv(t) ==
  /\ Born(t) => /\ Holds(t, "tls") /\ Holds(t, "stack")
                /\ size[node[t]["stack"]] >= stackSize[t]
  /\ tstate[t] = "released" => ~Holds(t, "tls") /\ Holds(t, "stack")
  /\ tstate[t] \in {"none", "gone"} => ~Holds(t, "tls") /\ ~Holds(t, "stack")

(* Each block has one place: in a queue, with a thread, or with malloc. *)
BlocksInv ==
  /\ \A k \in MemoryType : Distinct(queue[k])
  /\ \A b \in Block :
       /\ ~(InQueue("tls", b) /\ InQueue("stack", b))
       /\ \A t \in Thread, k \in MemoryType : Owns(t, b) => ~InQueue(k, b)
       /\ b \in allocated <=> \/ \E k \in MemoryType : InQueue(k, b)
                              \/ \E t \in Thread : Owns(t, b)

(* What MemoryIsOwn says of the places that blocks are held in. *)
HeldInv ==
  \A t \in Thread, k \in MemoryType : Holds(t, k) =>
    /\ node[t][k] \in allocated /\ is_used[node[t][k]]
    /\ size[node[t][k]] >= IF k = "tls" THEN TlsSize ELSE 1
    /\ \A u \in Thread, l \in MemoryType :
         Holds(u, l) /\ node[u][l] = node[t][k] => u = t /\ l = k

ThreadIInv ==
  /\ ThreadTypeOK
  /\ CreatingInv /\ JoiningInv /\ JoinedInv
  /\ \A t \in Thread : DataInv(t) /\ NodesInv(t)
  /\ BlocksInv /\ HeldInv
  /\ CounterIsRight /\ NoWakeLost

-----------------------------------------------------------------------------
(* Lists of blocks. *)

(* Adding a block at the end of a list that it is not on. *)
LEMMA AppendBlock ==
  ASSUME NEW q \in Seq(Block), NEW b \in Block
  PROVE  /\ Append(q, b) \in Seq(Block)
         /\ \A c : On(Append(q, b), c) <=> On(q, c) \/ c = b
         /\ Distinct(q) /\ ~On(q, b) => Distinct(Append(q, b))
  <1>1. Len(q) \in Nat
    BY LenProperties
  <1>2. /\ Append(q, b) \in Seq(Block) /\ Len(Append(q, b)) = Len(q) + 1
        /\ \A i \in 1..Len(q) : Append(q, b)[i] = q[i]
        /\ Append(q, b)[Len(q) + 1] = b
    BY AppendProperties
  <1>3. 1..(Len(q) + 1) = 1..Len(q) \cup {Len(q) + 1}
    BY <1>1
  <1>4. \A c : On(Append(q, b), c) <=> On(q, c) \/ c = b
    BY <1>2, <1>3 DEF On
  <1>5. ASSUME Distinct(q), ~On(q, b) PROVE Distinct(Append(q, b))
    BY <1>2, <1>3, <1>5 DEF On, Distinct
  <1>6. QED
    BY <1>2, <1>4, <1>5

(* Taking the first n blocks off a list. *)
LEMMA DropBlocks ==
  ASSUME NEW q \in Seq(Block), Distinct(q), NEW n \in 0..Len(q)
  PROVE  /\ SubSeq(q, n + 1, Len(q)) \in Seq(Block)
         /\ Distinct(SubSeq(q, n + 1, Len(q)))
         /\ {q[i] : i \in 1..n} \in SUBSET Block
         /\ \A b : On(SubSeq(q, n + 1, Len(q)), b)
                     <=> On(q, b) /\ b \notin {q[i] : i \in 1..n}
  <1> DEFINE r == SubSeq(q, n + 1, Len(q))
  <1>1. /\ Len(q) \in Nat /\ n \in Nat /\ n <= Len(q)
        /\ \A i \in 1..Len(q) : q[i] \in Block
    BY LenProperties, ElementOfSeq
  <1>2. /\ r \in Seq(Block)
        /\ Len(r) = Len(q) - n
        /\ \A i \in 1..(Len(q) - n) : r[i] = q[n + i]
    <2>1. n + 1 \in Int /\ Len(q) \in Int
      BY <1>1
    <2>2. \A i \in (n + 1)..Len(q) : q[i] \in Block
      BY <1>1
    <2>3. /\ r \in Seq(Block)
          /\ Len(r) = IF n + 1 <= Len(q) THEN Len(q) - (n + 1) + 1 ELSE 0
          /\ \A i \in 1..(Len(q) - (n + 1) + 1) : r[i] = q[(n + 1) + i - 1]
      BY <2>1, <2>2, SubSeqProperties
    <2> HIDE DEF r
    <2>4. Len(q) - (n + 1) + 1 = Len(q) - n
      BY <1>1
    <2>5. Len(r) = Len(q) - n
      BY <1>1, <2>3
    <2>6. \A i \in 1..(Len(q) - n) : (n + 1) + i - 1 = n + i
      BY <1>1
    <2>7. QED
      BY <2>3, <2>4, <2>5, <2>6
  <1> HIDE DEF r
  <1>3. Distinct(r)
    <2> SUFFICES ASSUME NEW i \in 1..Len(r), NEW j \in 1..Len(r), r[i] = r[j]
                 PROVE  i = j
      BY DEF Distinct
    <2>1. n + i \in 1..Len(q) /\ n + j \in 1..Len(q)
      BY <1>1, <1>2
    <2>2. q[n + i] = q[n + j]
      BY <1>2
    <2>3. n + i = n + j
      BY <2>1, <2>2 DEF Distinct
    <2>4. QED
      BY <1>1, <1>2, <2>3
  <1>4. ASSUME NEW b, On(r, b)
        PROVE  On(q, b) /\ b \notin {q[i] : i \in 1..n}
    <2>1. PICK i \in 1..Len(r) : r[i] = b
      BY <1>4 DEF On
    <2>2. n + i \in 1..Len(q) /\ q[n + i] = b
      BY <1>1, <1>2, <2>1
    <2>3. ASSUME NEW j \in 1..n PROVE q[j] # b
      <3>1. j \in 1..Len(q) /\ j # n + i
        BY <1>1, <1>2
      <3>2. QED
        BY <2>2, <3>1 DEF Distinct
    <2>4. QED
      BY <2>2, <2>3 DEF On
  <1>5. ASSUME NEW b, On(q, b), b \notin {q[i] : i \in 1..n}
        PROVE  On(r, b)
    <2>1. PICK i \in 1..Len(q) : q[i] = b
      BY <1>5 DEF On
    <2>2. i \notin 1..n
      BY <1>5, <2>1
    <2>3. i - n \in 1..Len(r) /\ n + (i - n) = i
      BY <1>1, <1>2, <2>2
    <2>4. r[i - n] = b
      BY <1>2, <2>1, <2>3
    <2>5. QED
      BY <2>3, <2>4 DEF On
  <1>6. {q[i] : i \in 1..n} \in SUBSET Block
    BY <1>1
  <1>7. QED
    BY <1>2, <1>3, <1>4, <1>5, <1>6 DEF r

(* A set of natural numbers has a least element. *)
LEMMA LeastNumber ==
  ASSUME NEW S \in SUBSET Nat, S # {}
  PROVE  \E n \in S : \A m \in S : n <= m
  <1> DEFINE R == OpToRel(<, Nat)
  <1>1. IsWellFoundedOn(R, Nat)
    BY NatLessThanWellFounded
  <1>2. PICK n \in S : \A m \in S : <<m, n>> \notin R
    <2> HIDE DEF R
    <2>1. QED
      BY <1>1, WFMin
  <1>3. \A m \in S : ~(m < n)
    BY <1>2 DEF OpToRel
  <1>4. QED
    BY <1>3

(* The loop over cached blocks stops, and frees none that is in use        *)
(* (nc_thread.c:162-166).                                                  *)
LEMMA SurplusFrees ==
  ASSUME ThreadAssumption, NEW q \in Seq(Block)
  PROVE  /\ Surplus(q) \in 0..Len(q)
         /\ \A i \in 1..Surplus(q) : ~is_used[q[i]]
  <1> DEFINE K == kMaxCachedMemoryBlocks
             Stops(n) == \/ n = Len(q) \/ is_used[q[n + 1]]
                         \/ Len(q) - n <= K
             Freed(n) == \A i \in 1..n : ~is_used[q[i]] /\ Len(q) - i >= K
  <1>1. Len(q) \in Nat /\ K \in Nat
    BY LenProperties DEF ThreadAssumption
  <1>2. PICK n \in 0..Len(q) :
          Stops(n) /\ \A m \in 0..Len(q) : Stops(m) => n <= m
    <2> DEFINE S == {n \in 0..Len(q) : Stops(n)}
    <2>1. S \in SUBSET Nat
      BY <1>1
    <2>2. Len(q) \in S
      BY <1>1
    <2> HIDE DEF S
    <2>3. PICK n \in S : \A m \in S : n <= m
      BY <2>1, <2>2, LeastNumber
    <2>4. QED
      BY <2>3 DEF S
  <1>3. Freed(n)
    <2> SUFFICES ASSUME NEW i \in 1..n
                 PROVE  ~is_used[q[i]] /\ Len(q) - i >= K
      OBVIOUS
    <2>1. i - 1 \in 0..Len(q) /\ ~(n <= i - 1) /\ (i - 1) + 1 = i
      BY <1>1
    <2>2. ~Stops(i - 1)
      BY <1>2, <2>1
    <2>3. ~is_used[q[(i - 1) + 1]] /\ ~(Len(q) - (i - 1) <= K)
      BY <2>2
    <2>4. QED
      BY <1>1, <2>1, <2>3
  <1>4. Surplus(q) = CHOOSE m \in 0..Len(q) : Freed(m) /\ Stops(m)
    BY DEF Surplus
  <1> HIDE DEF Freed, Stops
  <1>5. Surplus(q) \in 0..Len(q) /\ Freed(Surplus(q))
    BY <1>2, <1>3, <1>4
  <1>6. QED
    BY <1>5 DEF Freed

(***************************************************************************)
(* What nc_allocate_memory_block_mu does to a list and the heap            *)
(* (nc_thread.c:148-187): the blocks F leave the list, and the one it      *)
(* returns, if any, is one of these or was free.                           *)
(***************************************************************************)
Allocates(q, given, required, x, F) ==
  /\ \A b \in F : ~is_used[b] /\ On(q, b)
  /\ x.queue \in Seq(Block) /\ Distinct(x.queue)
  /\ \A b : On(x.queue, b) <=> On(q, b) /\ b \notin F
  /\ x.block \in Block \cup {NoBlock}
  /\ x.block # NoBlock =>
       x.block \notin given \ F /\ x.size \in Nat /\ x.size >= required
  /\ x.allocated = (given \ F) \cup ({x.block} \ {NoBlock})

(* Every allocation does that, for some F. *)
LEMMA AllocationEffect ==
  ASSUME ThreadAssumption, NEW q \in Seq(Block), Distinct(q),
         NEW given \in SUBSET Block, \A b : On(q, b) => b \in given,
         NEW required \in Nat, size \in [Block -> Nat],
         NEW x \in Allocations(q, given, required)
  PROVE  \E F \in SUBSET Block : Allocates(q, given, required, x, F)
  <1>1. Len(q) \in Nat /\ \A i \in 1..Len(q) : q[i] \in Block
    BY LenProperties, ElementOfSeq
  <1>2. CASE Reusable(q, required)
    <2>1. q # <<>> /\ ~is_used[Head(q)] /\ size[Head(q)] >= required
      BY <1>2 DEF Reusable
    <2>2. /\ x.block = Head(q) /\ x.size = size[Head(q)]
          /\ x.queue = Tail(q) /\ x.allocated = given
      BY <1>2 DEF Allocations
    <2>3. Len(q) >= 1 /\ 1 \in 0..Len(q) /\ 1 \in 1..Len(q)
      BY <1>1, <2>1, EmptySeq
    <2>4. Head(q) = q[1] /\ Tail(q) = SubSeq(q, 1 + 1, Len(q))
      BY <2>1, TailIsSubSeq
    <2>5. \A b : b \in {q[i] : i \in 1..1} <=> b \in {q[1]}
      OBVIOUS
    <2>6. /\ Tail(q) \in Seq(Block) /\ Distinct(Tail(q))
          /\ \A b : On(Tail(q), b) <=> On(q, b) /\ b \notin {q[1]}
      <3> DEFINE r == SubSeq(q, 1 + 1, Len(q))
                 F == {q[i] : i \in 1..1}
      <3>1. /\ r \in Seq(Block) /\ Distinct(r)
            /\ \A b : On(r, b) <=> On(q, b) /\ b \notin F
        BY <2>3, DropBlocks
      <3>2. Tail(q) = r /\ \A b : b \in F <=> b \in {q[1]}
        BY <2>4, <2>5
      <3> HIDE DEF r, F
      <3>3. QED
        BY <3>1, <3>2
    <2>7. On(q, q[1]) /\ q[1] \in Block /\ q[1] \in given
      BY <1>1, <2>3 DEF On
    <2>8. q[1] # NoBlock
      BY <2>7 DEF ThreadAssumption
    <2>9. given = (given \ {q[1]}) \cup ({q[1]} \ {NoBlock})
      BY <2>7, <2>8
    <2>10. {q[1]} \in SUBSET Block
      BY <2>7
    <2>11. WITNESS {q[1]} \in SUBSET Block
    <2>12. QED
      BY <2>1, <2>2, <2>4, <2>6, <2>7, <2>9 DEF Allocates
  <1>3. CASE ~Reusable(q, required)
    <2> DEFINE n == Surplus(q)
               F == {q[i] : i \in 1..n}
               left == given \ F
               free == Block \ left
    <2>1. n \in 0..Len(q) /\ \A i \in 1..n : ~is_used[q[i]]
      BY SurplusFrees
    <2>2. PICK b \in {NoBlock} \cup {malloc(f) : f \in {free} \ {{}}} :
            x = [block |-> b, size |-> required,
                 queue |-> SubSeq(q, n + 1, Len(q)),
                 allocated |-> left \cup ({b} \ {NoBlock})]
      BY <1>3 DEF Allocations
    <2>3. b = NoBlock \/ b \in free
      BY DEF ThreadAssumption
    <2> HIDE DEF n
    <2>4. /\ SubSeq(q, n + 1, Len(q)) \in Seq(Block)
          /\ Distinct(SubSeq(q, n + 1, Len(q)))
          /\ F \in SUBSET Block
          /\ \A c : On(SubSeq(q, n + 1, Len(q)), c)
                      <=> On(q, c) /\ c \notin F
      BY <2>1, DropBlocks
    <2>5. \A c \in F : ~is_used[c] /\ On(q, c)
      <3> SUFFICES ASSUME NEW i \in 1..n PROVE ~is_used[q[i]] /\ On(q, q[i])
        OBVIOUS
      <3>1. i \in 1..Len(q)
        BY <1>1, <2>1
      <3>2. QED
        BY <2>1, <3>1 DEF On
    <2>6. /\ x.block = b /\ x.size = required
          /\ x.queue = SubSeq(q, n + 1, Len(q))
          /\ x.allocated = left \cup ({b} \ {NoBlock})
      BY <2>2
    <2> HIDE DEF F
    <2>7. b # NoBlock => b \notin given \ F
      BY <2>3
    <2>8. b \in Block \cup {NoBlock}
      BY <2>3
    <2>9. x.size \in Nat /\ x.size >= required
      BY <2>6
    <2> HIDE DEF left
    <2>10. x.allocated = (given \ F) \cup ({x.block} \ {NoBlock})
      BY <2>6 DEF left
    <2>11. /\ x.queue \in Seq(Block) /\ Distinct(x.queue)
           /\ \A c : On(x.queue, c) <=> On(q, c) /\ c \notin F
      BY <2>4, <2>6
    <2>12. F \in SUBSET Block
      BY <2>4
    <2>13. WITNESS F \in SUBSET Block
    <2>14. QED
      BY <2>5, <2>6, <2>7, <2>8, <2>9, <2>10, <2>11 DEF Allocates
  <1>4. QED
    BY <1>2, <1>3

-----------------------------------------------------------------------------
(* What pthread_create does to the heap. *)

(* The lists hold blocks that malloc gave out, and share none. *)
LEMMA QueueFacts ==
  ASSUME ThreadAssumption, ThreadIInv
  PROVE  /\ \A k \in MemoryType : queue[k] \in Seq(Block) /\ Distinct(queue[k])
         /\ \A k \in MemoryType : \A b : On(queue[k], b) =>
              b \in Block /\ b \in allocated
         /\ \A b : ~(On(queue["tls"], b) /\ On(queue["stack"], b))
         /\ allocated \in SUBSET Block /\ size \in [Block -> Nat]
         /\ TlsSize \in Nat /\ TlsSize > 0 /\ Size \subseteq Nat \ {0}
         /\ NoBlock \notin Block
  <1>1. /\ queue \in [MemoryType -> Seq(Block)]
        /\ allocated \in SUBSET Block /\ size \in [Block -> Nat]
    BY DEF ThreadIInv, ThreadTypeOK
  <1>2. \A k \in MemoryType : queue[k] \in Seq(Block) /\ Distinct(queue[k])
    BY <1>1 DEF ThreadIInv, BlocksInv
  <1>3. ASSUME NEW k \in MemoryType, NEW b, On(queue[k], b)
        PROVE  b \in Block
    BY <1>2, <1>3, ElementOfSeq DEF On
  <1>4. ASSUME NEW k \in MemoryType, NEW b, On(queue[k], b)
        PROVE  b \in allocated
    <2>1. b \in Block /\ InQueue(k, b)
      BY <1>3, <1>4 DEF InQueue
    <2>2. QED
      BY <2>1 DEF ThreadIInv, BlocksInv
  <1>5. ASSUME NEW b, On(queue["tls"], b), On(queue["stack"], b) PROVE FALSE
    <2>1. b \in Block
      BY <1>3, <1>5 DEF MemoryType
    <2>2. QED
      BY <1>5, <2>1 DEF ThreadIInv, BlocksInv, InQueue
  <1>6. QED
    BY <1>1, <1>2, <1>3, <1>4, <1>5 DEF ThreadAssumption

(* An allocation of a TLS block. *)
LEMMA AllocateTls ==
  ASSUME ThreadAssumption, ThreadIInv,
         NEW x \in Allocations(queue["tls"], allocated, TlsSize)
  PROVE  \E F \in SUBSET Block :
           Allocates(queue["tls"], allocated, TlsSize, x, F)
  <1>1. /\ queue["tls"] \in Seq(Block) /\ Distinct(queue["tls"])
        /\ \A b : On(queue["tls"], b) => b \in allocated
    BY QueueFacts DEF MemoryType
  <1>2. allocated \in SUBSET Block /\ size \in [Block -> Nat] /\ TlsSize \in Nat
    BY QueueFacts
  <1>3. QED
    BY <1>1, <1>2, AllocationEffect

(* What the allocations of a TLS block and then of a stack do together. *)
BothAllocate(s, x, y, F) ==
  /\ \A b \in F : ~is_used[b] /\ \E k \in MemoryType : On(queue[k], b)
  /\ x.queue \in Seq(Block) /\ Distinct(x.queue)
  /\ y.queue \in Seq(Block) /\ Distinct(y.queue)
  /\ \A b : On(x.queue, b) <=> On(queue["tls"], b) /\ b \notin F
  /\ \A b : On(y.queue, b) <=> On(queue["stack"], b) /\ b \notin F
  /\ x.block \in Block \cup {NoBlock} /\ y.block \in Block \cup {NoBlock}
  /\ x.block # NoBlock => /\ x.block \notin allocated \ F
                          /\ x.block # y.block
                          /\ x.size \in Nat /\ x.size >= TlsSize
  /\ y.block # NoBlock => /\ y.block \notin allocated \ F
                          /\ y.size \in Nat /\ y.size >= s
  /\ y.allocated = (allocated \ F) \cup ({x.block, y.block} \ {NoBlock})

(* Every such pair of allocations does that, for some F. *)
LEMMA AllocateBoth ==
  ASSUME ThreadAssumption, ThreadIInv, NEW s \in Size,
         NEW x \in Allocations(queue["tls"], allocated, TlsSize),
         NEW y \in Allocations(queue["stack"], x.allocated, s)
  PROVE  \E F \in SUBSET Block : BothAllocate(s, x, y, F)
  <1>0. "tls" \in MemoryType /\ "stack" \in MemoryType /\ s \in Nat
    BY DEF MemoryType, ThreadAssumption
  <1>1. PICK F \in SUBSET Block :
          Allocates(queue["tls"], allocated, TlsSize, x, F)
    BY AllocateTls
  <1>2. /\ x.allocated \in SUBSET Block
        /\ \A b : On(queue["stack"], b) => b \in x.allocated
    BY <1>0, <1>1, QueueFacts DEF Allocates
  <1>3. PICK G \in SUBSET Block :
          Allocates(queue["stack"], x.allocated, s, y, G)
    <2>1. queue["stack"] \in Seq(Block) /\ Distinct(queue["stack"])
      BY <1>0, QueueFacts
    <2>2. size \in [Block -> Nat]
      BY QueueFacts
    <2>3. QED
      BY <1>0, <1>2, <2>1, <2>2, AllocationEffect
  <1>4. x.block # NoBlock => ~On(queue["stack"], x.block)
    BY <1>0, <1>1, QueueFacts DEF Allocates
  <1>5. \A b : ~(b \in F /\ On(queue["stack"], b))
               /\ ~(b \in G /\ On(queue["tls"], b))
    BY <1>1, <1>3, QueueFacts DEF Allocates
  <1>6. x.block # NoBlock => x.block # y.block
    BY <1>1, <1>3, <1>4 DEF Allocates
  <1>7. y.allocated = (allocated \ (F \cup G))
                        \cup ({x.block, y.block} \ {NoBlock})
    BY <1>1, <1>3, <1>4 DEF Allocates
  <1>8. /\ \A b : On(x.queue, b) <=> On(queue["tls"], b) /\ b \notin F \cup G
        /\ \A b : On(y.queue, b) <=> On(queue["stack"], b) /\ b \notin F \cup G
    BY <1>1, <1>3, <1>5 DEF Allocates
  <1>9. y.block # NoBlock => y.block \notin allocated \ (F \cup G)
    BY <1>1, <1>3 DEF Allocates
  <1>10. \A b \in F \cup G :
           ~is_used[b] /\ \E k \in MemoryType : On(queue[k], b)
    BY <1>0, <1>1, <1>3 DEF Allocates
  <1>11. F \cup G \in SUBSET Block
    BY <1>1, <1>3
  <1>12. x.block # NoBlock => x.block \notin allocated \ (F \cup G)
    BY <1>1 DEF Allocates
  <1>13. WITNESS F \cup G \in SUBSET Block
  <1>14. QED
    BY <1>1, <1>3, <1>6, <1>7, <1>8, <1>9, <1>10, <1>12
    DEF BothAllocate, Allocates

(***************************************************************************)
(* What a pthread_create that has got the blocks x and y, or not, does to  *)
(* the heap: F has left the lists.                                         *)
(***************************************************************************)
CreateHeap(t, F, x, y) ==
  /\ \A b \in F : ~is_used[b] /\ \E k \in MemoryType : On(queue[k], b)
  /\ queue' \in [MemoryType -> Seq(Block)]
  /\ \A k \in MemoryType : Distinct(queue'[k])
  /\ \A k \in MemoryType : \A b :
       On(queue'[k], b) <=> On(queue[k], b) /\ b \notin F
  /\ allocated' = (allocated \ F) \cup ({x, y} \ {NoBlock})
  /\ is_used' \in [Block -> BOOLEAN]
  /\ \A b \in Block : is_used'[b] <=> b \in {x, y} \/ is_used[b]
  /\ size' \in [Block -> Nat]
  /\ \A b \in Block \ {x, y} : size'[b] = size[b]
  /\ x # NoBlock => x \notin allocated \ F /\ x # y /\ size'[x] >= TlsSize
  /\ y # NoBlock => y \notin allocated \ F /\ size'[y] >= 1
  /\ node' = [node EXCEPT ![t] = [k \in MemoryType |->
                                    IF k = "tls" THEN x ELSE y]]

(* ... and to t. *)
CreateOutcome(t, x, y) ==
  \/ /\ tstate' = [tstate EXCEPT ![t] = "failed"]
     /\ y = NoBlock
     /\ stackSize' = stackSize
  \/ /\ tstate' = [tstate EXCEPT ![t] = "starting"]
     /\ x # NoBlock /\ y # NoBlock
     /\ \E s \in Size : /\ stackSize' = [stackSize EXCEPT ![t] = s]
                        /\ size'[y] >= s

(* Each way that the first critical section can end is one of these. *)
LEMMA CreateEffect ==
  ASSUME ThreadAssumption, ThreadIInv, NEW c \in Actor, NEW t \in Thread,
         Create(c, t)
  PROVE  \E F \in SUBSET Block, x \in Block \cup {NoBlock},
            y \in Block \cup {NoBlock} :
           CreateHeap(t, F, x, y) /\ CreateOutcome(t, x, y)
  <1>1. /\ queue \in [MemoryType -> Seq(Block)] /\ allocated \in SUBSET Block
        /\ is_used \in [Block -> BOOLEAN] /\ size \in [Block -> Nat]
        /\ node \in [Thread -> [MemoryType -> Block \cup {NoBlock}]]
        /\ stackSize \in [Thread -> Nat]
    BY DEF ThreadIInv, ThreadTypeOK
  <1>2. /\ node[t]["tls"] = NoBlock /\ node[t]["stack"] = NoBlock
        /\ MemoryType = {"tls", "stack"}
    BY DEF Create, Unborn, ThreadIInv, NodesInv, Holds, MemoryType
  <1>3. CASE CreateNoTls(c, t)
    <2>1. PICK x \in Allocations(queue["tls"], allocated, TlsSize) :
            /\ x.block = NoBlock
            /\ allocated' = x.allocated
            /\ queue' = [queue EXCEPT !["tls"] = x.queue]
            /\ CreateFails(c, t)
            /\ UNCHANGED <<is_used, size, node, basic_data, tdb>>
      BY <1>3 DEF CreateNoTls
    <2>2. PICK F \in SUBSET Block :
            Allocates(queue["tls"], allocated, TlsSize, x, F)
      BY AllocateTls
    <2>3. /\ queue'["tls"] = x.queue /\ queue'["stack"] = queue["stack"]
          /\ queue' \in [MemoryType -> Seq(Block)]
      BY <1>1, <1>2, <2>1, <2>2 DEF Allocates
    <2>4. node' = [node EXCEPT ![t] = [k \in MemoryType |->
                                    IF k = "tls" THEN NoBlock ELSE NoBlock]]
      <3>1. node[t] = [k \in MemoryType |->
                         IF k = "tls" THEN NoBlock ELSE NoBlock]
        BY <1>1, <1>2
      <3>2. QED
        BY <1>1, <2>1, <3>1
    <2>5. \A k \in MemoryType : Distinct(queue'[k])
      BY <1>2, <2>2, <2>3, QueueFacts DEF Allocates
    <2>6. \A k \in MemoryType : \A b :
            On(queue'[k], b) <=> On(queue[k], b) /\ b \notin F
      BY <1>2, <2>2, <2>3, QueueFacts DEF Allocates
    <2>7. \A b \in F : ~is_used[b] /\ \E k \in MemoryType : On(queue[k], b)
      BY <1>2, <2>2 DEF Allocates
    <2>8. allocated' = (allocated \ F) \cup ({NoBlock, NoBlock} \ {NoBlock})
      BY <2>1, <2>2 DEF Allocates
    <2>9. NoBlock \notin Block
      BY DEF ThreadAssumption
    <2>10. CreateHeap(t, F, NoBlock, NoBlock)
      BY <1>1, <2>1, <2>3, <2>4, <2>5, <2>6, <2>7, <2>8, <2>9 DEF CreateHeap
    <2>11. CreateOutcome(t, NoBlock, NoBlock)
      BY <2>1 DEF CreateFails, CreateOutcome
    <2>12. QED
      BY <2>10, <2>11
  <1>4. ASSUME NEW s \in Size, CreateNoMemory(c, t, s)
        PROVE  \E F \in SUBSET Block, x \in Block \cup {NoBlock},
                  y \in Block \cup {NoBlock} :
                 CreateHeap(t, F, x, y) /\ CreateOutcome(t, x, y)
    <2>1. PICK x \in Allocations(queue["tls"], allocated, TlsSize) :
            /\ x.block # NoBlock
            /\ is_used' = [is_used EXCEPT ![x.block] = TRUE]
            /\ size' = [size EXCEPT ![x.block] = x.size]
            /\ SetNodes(t, x.block, NoBlock)
            /\ \/ /\ allocated' = x.allocated
                  /\ queue' = [queue EXCEPT !["tls"] = x.queue]
               \/ \E y \in Allocations(queue["stack"], x.allocated, s) :
                    /\ y.block = NoBlock
                    /\ allocated' = y.allocated
                    /\ queue' = [queue EXCEPT !["tls"] = x.queue,
                                              !["stack"] = y.queue]
            /\ CreateFails(c, t)
      BY <1>4 DEF CreateNoMemory
    <2>2. PICK F \in SUBSET Block :
           /\ \A b \in F : ~is_used[b] /\ \E k \in MemoryType : On(queue[k], b)
           /\ queue' \in [MemoryType -> Seq(Block)]
           /\ \A k \in MemoryType : Distinct(queue'[k])
           /\ \A k \in MemoryType : \A b :
                On(queue'[k], b) <=> On(queue[k], b) /\ b \notin F
           /\ x.block \in Block \cup {NoBlock}
           /\ /\ x.block \notin allocated \ F
              /\ x.size \in Nat /\ x.size >= TlsSize
           /\ allocated' = (allocated \ F)
                             \cup ({x.block, NoBlock} \ {NoBlock})
      <3>1. CASE /\ allocated' = x.allocated
                 /\ queue' = [queue EXCEPT !["tls"] = x.queue]
        <4>1. PICK F \in SUBSET Block :
                Allocates(queue["tls"], allocated, TlsSize, x, F)
          BY AllocateTls
        <4>2. /\ queue'["tls"] = x.queue /\ queue'["stack"] = queue["stack"]
              /\ queue' \in [MemoryType -> Seq(Block)]
          BY <1>1, <1>2, <3>1, <4>1 DEF Allocates
        <4>3. \A k \in MemoryType : Distinct(queue'[k])
          BY <1>2, <4>1, <4>2, QueueFacts DEF Allocates
        <4>4. \A k \in MemoryType : \A b :
                On(queue'[k], b) <=> On(queue[k], b) /\ b \notin F
          BY <1>2, <4>1, <4>2, QueueFacts DEF Allocates
        <4>5. \A b \in F : ~is_used[b] /\ \E k \in MemoryType : On(queue[k], b)
          BY <1>2, <4>1 DEF Allocates
        <4>6. allocated' = (allocated \ F)
                             \cup ({x.block, NoBlock} \ {NoBlock})
          BY <3>1, <4>1 DEF Allocates
        <4>7. QED
          BY <2>1, <4>1, <4>2, <4>3, <4>4, <4>5, <4>6 DEF Allocates
      <3>2. CASE \E y \in Allocations(queue["stack"], x.allocated, s) :
                    /\ y.block = NoBlock
                    /\ allocated' = y.allocated
                    /\ queue' = [queue EXCEPT !["tls"] = x.queue,
                                              !["stack"] = y.queue]
        <4>1. PICK y \in Allocations(queue["stack"], x.allocated, s) :
                    /\ y.block = NoBlock
                    /\ allocated' = y.allocated
                    /\ queue' = [queue EXCEPT !["tls"] = x.queue,
                                              !["stack"] = y.queue]
          BY <3>2
        <4>2. PICK F \in SUBSET Block : BothAllocate(s, x, y, F)
          BY AllocateBoth
        <4>3. /\ queue'["tls"] = x.queue /\ queue'["stack"] = y.queue
              /\ queue' \in [MemoryType -> Seq(Block)]
          BY <1>1, <1>2, <4>1, <4>2 DEF BothAllocate
        <4>4. \A k \in MemoryType : Distinct(queue'[k])
          BY <1>2, <4>2, <4>3 DEF BothAllocate
        <4>5. \A k \in MemoryType : \A b :
                On(queue'[k], b) <=> On(queue[k], b) /\ b \notin F
          BY <1>2, <4>2, <4>3 DEF BothAllocate
        <4>6. QED
          BY <2>1, <4>1, <4>2, <4>3, <4>4, <4>5 DEF BothAllocate
      <3>3. QED
        BY <2>1, <3>1, <3>2
    <2>3. x.block \in Block /\ NoBlock \notin Block
      BY <2>1, <2>2 DEF ThreadAssumption
    <2>4. /\ is_used' \in [Block -> BOOLEAN]
          /\ \A b \in Block :
               is_used'[b] <=> b \in {x.block, NoBlock} \/ is_used[b]
      BY <1>1, <2>1, <2>3
    <2>5. /\ size' \in [Block -> Nat] /\ size'[x.block] >= TlsSize
          /\ \A b \in Block \ {x.block, NoBlock} : size'[b] = size[b]
      BY <1>1, <2>1, <2>2, <2>3
    <2>6. CreateHeap(t, F, x.block, NoBlock)
      BY <2>1, <2>2, <2>3, <2>4, <2>5 DEF CreateHeap, SetNodes
    <2>7. CreateOutcome(t, x.block, NoBlock)
      BY <2>1 DEF CreateFails, CreateOutcome
    <2>8. QED
      BY <2>2, <2>6, <2>7
  <1>5. ASSUME NEW s \in Size, NEW d \in BOOLEAN, CreateSucceeds(c, t, s, d)
        PROVE  \E F \in SUBSET Block, x \in Block \cup {NoBlock},
                  y \in Block \cup {NoBlock} :
                 CreateHeap(t, F, x, y) /\ CreateOutcome(t, x, y)
    <2>1. PICK x \in Allocations(queue["tls"], allocated, TlsSize) :
            \E y \in Allocations(queue["stack"], x.allocated, s) :
              /\ x.block # NoBlock /\ y.block # NoBlock
              /\ allocated' = y.allocated
              /\ queue' = [k \in MemoryType |-> IF k = "tls" THEN x.queue
                                                             ELSE y.queue]
              /\ is_used' = [is_used EXCEPT ![x.block] = TRUE,
                                            ![y.block] = TRUE]
              /\ size' = [size EXCEPT ![x.block] = x.size, ![y.block] = y.size]
              /\ SetNodes(t, x.block, y.block)
      BY <1>5 DEF CreateSucceeds
    <2>2. PICK y \in Allocations(queue["stack"], x.allocated, s) :
            /\ x.block # NoBlock /\ y.block # NoBlock
            /\ allocated' = y.allocated
            /\ queue' = [k \in MemoryType |-> IF k = "tls" THEN x.queue
                                                           ELSE y.queue]
            /\ is_used' = [is_used EXCEPT ![x.block] = TRUE,
                                          ![y.block] = TRUE]
            /\ size' = [size EXCEPT ![x.block] = x.size, ![y.block] = y.size]
            /\ SetNodes(t, x.block, y.block)
      BY <2>1
    <2>3. PICK F \in SUBSET Block : BothAllocate(s, x, y, F)
      BY AllocateBoth
    <2>4. /\ queue'["tls"] = x.queue /\ queue'["stack"] = y.queue
          /\ queue' \in [MemoryType -> Seq(Block)]
      BY <1>1, <1>2, <2>2, <2>3 DEF BothAllocate
    <2>5. \A k \in MemoryType : Distinct(queue'[k])
      BY <1>2, <2>3, <2>4 DEF BothAllocate
    <2>6. \A k \in MemoryType : \A b :
            On(queue'[k], b) <=> On(queue[k], b) /\ b \notin F
      BY <1>2, <2>3, <2>4 DEF BothAllocate
    <2>7. x.block \in Block /\ y.block \in Block /\ x.block # y.block
      BY <2>2, <2>3 DEF BothAllocate
    <2>8. /\ is_used' \in [Block -> BOOLEAN]
          /\ \A b \in Block :
               is_used'[b] <=> b \in {x.block, y.block} \/ is_used[b]
      BY <1>1, <2>2, <2>7
    <2>9. /\ size' \in [Block -> Nat] /\ size'[x.block] >= TlsSize
          /\ size'[y.block] >= s
          /\ \A b \in Block \ {x.block, y.block} : size'[b] = size[b]
      <3>1. /\ x.size \in Nat /\ x.size >= TlsSize
            /\ y.size \in Nat /\ y.size >= s
        BY <2>2, <2>3 DEF BothAllocate
      <3>2. /\ size' \in [Block -> Nat]
            /\ \A b \in Block : size'[b] = IF b = y.block THEN y.size
                                           ELSE IF b = x.block THEN x.size
                                           ELSE size[b]
        BY <1>1, <2>2, <2>7, <3>1
      <3>3. QED
        BY <2>7, <3>1, <3>2
    <2>10. s \in Nat /\ s >= 1
      BY DEF ThreadAssumption
    <2>11. size'[y.block] >= 1
      BY <2>7, <2>9, <2>10
    <2>12. CreateHeap(t, F, x.block, y.block)
      BY <2>2, <2>3, <2>4, <2>5, <2>6, <2>7, <2>8, <2>9, <2>11
      DEF CreateHeap, SetNodes, BothAllocate
    <2>13. CreateOutcome(t, x.block, y.block)
      BY <1>5, <2>7, <2>9, <2>2 DEF CreateSucceeds, CreateOutcome
    <2>14. QED
      BY <2>3, <2>12, <2>13 DEF BothAllocate
  <1>6. QED
    BY <1>3, <1>4, <1>5 DEF Create

-----------------------------------------------------------------------------
(* Whose the memory is. *)

HeapInv == (\A t \in Thread : NodesInv(t)) /\ BlocksInv /\ HeldInv

HeapTypes ==
  /\ allocated \in SUBSET Block
  /\ queue \in [MemoryType -> Seq(Block)]
  /\ is_used \in [Block -> BOOLEAN]
  /\ size \in [Block -> Nat]
  /\ node \in [Thread -> [MemoryType -> Block \cup {NoBlock}]]
  /\ stackSize \in [Thread -> Nat]
  /\ tstate \in [Actor -> ThreadState]

(* What is said of a thread that holds a block. *)
LEMMA HeldFacts ==
  ASSUME ThreadAssumption, ThreadIInv, NEW t \in Thread, NEW k \in MemoryType,
         Holds(t, k)
  PROVE  /\ node[t][k] \in Block /\ node[t][k] \in allocated
         /\ is_used[node[t][k]]
         /\ size[node[t][k]] >= IF k = "tls" THEN TlsSize ELSE 1
         /\ \A u \in Thread, l \in MemoryType :
              node[u][l] = node[t][k] => u = t /\ l = k
         /\ tstate[t] # "released" => \A l \in MemoryType :
                                        ~On(queue[l], node[t][k])
  <1>1. node[t][k] \in Block /\ NoBlock \notin Block
    BY DEF ThreadIInv, ThreadTypeOK, Holds, ThreadAssumption
  <1>2. tstate[t] # "released" => Owns(t, node[t][k])
    BY DEF Owns
  <1>3. \A l \in MemoryType : tstate[t] # "released"
                                => ~On(queue[l], node[t][k])
    BY <1>1, <1>2 DEF ThreadIInv, BlocksInv, InQueue
  <1>4. QED
    BY <1>1, <1>3 DEF ThreadIInv, HeldInv, Holds

(* pthread_create takes blocks that nobody has (nc_thread.c:148-187). *)
LEMMA CreateKeepsHeap ==
  ASSUME ThreadAssumption, ThreadIInv, NEW c \in Actor, NEW t \in Thread,
         Create(c, t)
  PROVE  HeapTypes' /\ HeapInv'
  <1>1. HeapTypes
    BY DEF HeapTypes, ThreadIInv, ThreadTypeOK
  <1>2. PICK F \in SUBSET Block, x \in Block \cup {NoBlock},
             y \in Block \cup {NoBlock} :
          CreateHeap(t, F, x, y) /\ CreateOutcome(t, x, y)
    BY CreateEffect
  <1>3. /\ NoBlock \notin Block /\ t \in Actor /\ MemoryType = {"tls", "stack"}
        /\ Size \subseteq Nat
    BY DEF ThreadAssumption, Actor, MemoryType
  <1>4. node[t]["tls"] = NoBlock /\ node[t]["stack"] = NoBlock
    BY <1>3 DEF Create, Unborn, ThreadIInv, NodesInv, Holds
  <1>5. /\ \A u \in Thread : u # t =>
             /\ node'[u] = node[u] /\ tstate'[u] = tstate[u]
             /\ stackSize'[u] = stackSize[u]
        /\ node'[t]["tls"] = x /\ node'[t]["stack"] = y
        /\ tstate'[t] \in {"failed", "starting"}
        /\ \A a \in Actor : a # t => tstate'[a] = tstate[a]
    <2>1. node' = [node EXCEPT ![t] = [k \in MemoryType |->
                                         IF k = "tls" THEN x ELSE y]]
      BY <1>2 DEF CreateHeap
    <2>2. /\ node'[t]["tls"] = x /\ node'[t]["stack"] = y
          /\ \A u \in Thread : u # t => node'[u] = node[u]
      BY <1>1, <1>3, <2>1 DEF HeapTypes
    <2>3. \A u \in Thread : u \in Actor
      BY DEF Actor
    <2>4. QED
      BY <1>1, <1>2, <1>3, <2>2, <2>3 DEF HeapTypes, CreateOutcome
  <1>6. HeapTypes'
    <2>1. /\ allocated' \in SUBSET Block
          /\ queue' \in [MemoryType -> Seq(Block)]
          /\ is_used' \in [Block -> BOOLEAN] /\ size' \in [Block -> Nat]
      BY <1>1, <1>2 DEF HeapTypes, CreateHeap
    <2>2. node' \in [Thread -> [MemoryType -> Block \cup {NoBlock}]]
      BY <1>1, <1>2 DEF HeapTypes, CreateHeap
    <2>3. stackSize' \in [Thread -> Nat] /\ tstate' \in [Actor -> ThreadState]
      <3>1. /\ tstate \in [Actor -> ThreadState]
            /\ stackSize \in [Thread -> Nat]
            /\ "failed" \in ThreadState /\ "starting" \in ThreadState
        BY <1>1 DEF HeapTypes, ThreadState
      <3>2. /\ \/ tstate' = [tstate EXCEPT ![t] = "failed"]
               \/ tstate' = [tstate EXCEPT ![t] = "starting"]
            /\ \/ stackSize' = stackSize
               \/ \E s \in Nat : stackSize' = [stackSize EXCEPT ![t] = s]
        BY <1>2, <1>3 DEF CreateOutcome
      <3>3. QED
        BY <1>3, <3>1, <3>2
    <2>4. QED
      BY <2>1, <2>2, <2>3 DEF HeapTypes
  <1>7. ASSUME NEW u \in Thread, NEW k \in MemoryType, Holds(u, k)
        PROVE  /\ u # t /\ node[u][k] \in allocated \ F
               /\ node[u][k] # x /\ node[u][k] # y
    <2>1. u # t
      BY <1>3, <1>4, <1>7 DEF Holds
    <2>2. /\ node[u][k] \in Block /\ node[u][k] \in allocated
          /\ is_used[node[u][k]]
      BY <1>7, HeldFacts
    <2>3. node[u][k] \notin F
      BY <1>2, <2>2 DEF CreateHeap
    <2>4. QED
      BY <1>2, <1>3, <2>1, <2>2, <2>3 DEF CreateHeap
  <1>8. \A u \in Thread, k \in MemoryType : u # t =>
          /\ Holds(u, k)' <=> Holds(u, k)
          /\ node'[u][k] = node[u][k]
    BY <1>5 DEF Holds
  <1>9. /\ Holds(t, "tls")' <=> x # NoBlock
        /\ Holds(t, "stack")' <=> y # NoBlock
    BY <1>5 DEF Holds
  <1>10. ASSUME NEW u \in Thread PROVE NodesInv(u)'
    <2>1. CASE u = t
      <3>1. CASE tstate'[t] = "failed"
        BY <2>1, <3>1 DEF NodesInv, Born
      <3>2. CASE tstate'[t] = "starting"
        <4>1. /\ x # NoBlock /\ y # NoBlock
              /\ \E s \in Size : /\ stackSize' = [stackSize EXCEPT ![t] = s]
                                 /\ size'[y] >= s
          BY <1>1, <1>2, <1>3, <3>2 DEF CreateOutcome, HeapTypes
        <4>2. size'[y] >= stackSize'[t]
          BY <1>1, <4>1 DEF HeapTypes
        <4>3. QED
          BY <1>5, <1>9, <2>1, <3>2, <4>1, <4>2 DEF NodesInv, Born
      <3>3. QED
        BY <1>5, <3>1, <3>2
    <2>2. CASE u # t
      <3>1. NodesInv(u)
        BY DEF ThreadIInv
      <3>2. /\ tstate'[u] = tstate[u] /\ stackSize'[u] = stackSize[u]
            /\ Holds(u, "tls")' <=> Holds(u, "tls")
            /\ Holds(u, "stack")' <=> Holds(u, "stack")
            /\ node'[u]["stack"] = node[u]["stack"]
        BY <1>3, <1>5, <1>8, <2>2
      <3>3. Holds(u, "stack") =>
              size'[node[u]["stack"]] = size[node[u]["stack"]]
        <4>1. SUFFICES ASSUME Holds(u, "stack")
                       PROVE  size'[node[u]["stack"]] = size[node[u]["stack"]]
          OBVIOUS
        <4>2. node[u]["stack"] \in Block \ {x, y}
          BY <1>1, <1>3, <1>7, <4>1 DEF HeapTypes
        <4>3. QED
          BY <1>2, <4>2 DEF CreateHeap
      <3>4. QED
        BY <3>1, <3>2, <3>3 DEF NodesInv, Born
    <2>3. QED
      BY <2>1, <2>2
  <1>11. HeldInv'
    <2> SUFFICES ASSUME NEW u \in Thread, NEW k \in MemoryType, Holds(u, k)'
                 PROVE  /\ node'[u][k] \in allocated' /\ is_used'[node'[u][k]]
                        /\ size'[node'[u][k]]
                             >= IF k = "tls" THEN TlsSize ELSE 1
                        /\ \A v \in Thread, l \in MemoryType :
                             Holds(v, l)' /\ node'[v][l] = node'[u][k]
                               => v = u /\ l = k
      BY DEF HeldInv
    <2>1. CASE u = t
      <3>1. \/ k = "tls" /\ node'[u][k] = x /\ x # NoBlock
            \/ k = "stack" /\ node'[u][k] = y /\ y # NoBlock
        BY <1>3, <1>5, <1>9, <2>1
      <3>2. node'[u][k] \in allocated' /\ is_used'[node'[u][k]]
        BY <1>2, <3>1 DEF CreateHeap
      <3>3. size'[node'[u][k]] >= IF k = "tls" THEN TlsSize ELSE 1
        BY <1>2, <3>1 DEF CreateHeap
      <3>4. ASSUME NEW v \in Thread, NEW l \in MemoryType, Holds(v, l)',
                   node'[v][l] = node'[u][k]
            PROVE  v = u /\ l = k
        <4>1. v = t
          BY <1>7, <1>8, <3>1, <3>4
        <4>2. x # NoBlock => x # y
          BY <1>2 DEF CreateHeap
        <4>3. QED
          BY <1>3, <1>5, <2>1, <3>1, <3>4, <4>1, <4>2
      <3>5. QED
        BY <3>2, <3>3, <3>4
    <2>2. CASE u # t
      <3>1. Holds(u, k) /\ node'[u][k] = node[u][k]
        BY <1>8, <2>2
      <3>2. /\ node[u][k] \in allocated \ F
            /\ node[u][k] # x /\ node[u][k] # y
        BY <1>7, <3>1
      <3>3. /\ node[u][k] \in Block /\ is_used[node[u][k]]
            /\ size[node[u][k]] >= IF k = "tls" THEN TlsSize ELSE 1
            /\ \A v \in Thread, l \in MemoryType :
                 node[v][l] = node[u][k] => v = u /\ l = k
        BY <3>1, HeldFacts
      <3>4. /\ node[u][k] \in allocated' /\ is_used'[node[u][k]]
            /\ size'[node[u][k]] = size[node[u][k]]
        BY <1>2, <3>2, <3>3 DEF CreateHeap
      <3>5. \A v \in Thread, l \in MemoryType :
              node'[v][l] = node[u][k] => v = u /\ l = k
        BY <1>3, <1>5, <1>8, <3>2, <3>3
      <3>6. QED
        BY <3>1, <3>3, <3>4, <3>5
    <2>3. QED
      BY <2>1, <2>2
  <1>12. ASSUME NEW b \in Block, NEW u \in Thread
         PROVE  Owns(u, b)' <=> IF u = t THEN b \in {x, y} ELSE Owns(u, b)
    <2>1. CASE u = t
      BY <1>3, <1>5, <2>1 DEF Owns
    <2>2. CASE u # t
      BY <1>5, <2>2 DEF Owns
    <2>3. QED
      BY <2>1, <2>2
  <1>13. \A b \in Block, k \in MemoryType :
           InQueue(k, b)' <=> InQueue(k, b) /\ b \notin F
    BY <1>2 DEF CreateHeap, InQueue, On
  <1>14. \A b \in Block : ~Owns(t, b)
    BY <1>3, <1>4 DEF Owns
  <1>15. BlocksInv'
    <2>1. \A k \in MemoryType : Distinct(queue'[k])
      BY <1>2 DEF CreateHeap
    <2>2. ASSUME NEW b \in Block
          PROVE  /\ ~(InQueue("tls", b)' /\ InQueue("stack", b)')
                 /\ \A u \in Thread, k \in MemoryType :
                      Owns(u, b)' => ~InQueue(k, b)'
                 /\ b \in allocated' <=>
                      \/ \E k \in MemoryType : InQueue(k, b)'
                      \/ \E u \in Thread : Owns(u, b)'
      <3>1. /\ ~(InQueue("tls", b) /\ InQueue("stack", b))
            /\ \A u \in Thread, k \in MemoryType : Owns(u, b) => ~InQueue(k, b)
            /\ b \in allocated <=> \/ \E k \in MemoryType : InQueue(k, b)
                                   \/ \E u \in Thread : Owns(u, b)
        BY DEF ThreadIInv, BlocksInv
      <3>2. b \in F => \E k \in MemoryType : InQueue(k, b)
        BY <1>2 DEF CreateHeap, InQueue
      <3>3. b \in {x, y} => b \notin allocated \ F
        BY <1>2, <1>3 DEF CreateHeap
      <3>4. b \in allocated' <=> b \in allocated \ F \/ b \in {x, y}
        BY <1>2, <1>3 DEF CreateHeap
      <3>5. ~(InQueue("tls", b)' /\ InQueue("stack", b)')
        BY <1>3, <1>13, <3>1
      <3>6. \A u \in Thread, k \in MemoryType : Owns(u, b)' => ~InQueue(k, b)'
        BY <1>12, <1>13, <3>1, <3>3
      <3>7. b \in allocated' <=> \/ \E k \in MemoryType : InQueue(k, b)'
                                 \/ \E u \in Thread : Owns(u, b)'
        BY <1>12, <1>13, <1>14, <3>1, <3>2, <3>3, <3>4
      <3>8. QED
        BY <3>5, <3>6, <3>7
    <2>3. QED
      BY <2>1, <2>2 DEF BlocksInv
  <1>16. QED
    BY <1>6, <1>10, <1>11, <1>15 DEF HeapInv

(***************************************************************************)
(* t gives back some of its blocks: those of kind K go to the lists, and   *)
(* those of kind L are no longer its own.  What it still owned has a place *)
(* afterwards (nc_release_tls_node and nc_free_memory_block_mu,            *)
(* nc_thread.c:189-206).                                                   *)
(***************************************************************************)
GivesBack(t, K, L, s) ==
  /\ tstate' = [tstate EXCEPT ![t] = s]
  /\ queue' = [k \in MemoryType |->
                 IF k \in K THEN Append(queue[k], node[t][k]) ELSE queue[k]]
  /\ node' = [node EXCEPT ![t] = [k \in MemoryType |->
                 IF k \in L THEN NoBlock ELSE node[t][k]]]
  /\ is_used' \in [Block -> BOOLEAN]
  /\ \A b \in Block :
       (\A l \in L : node[t][l] # b) => (is_used'[b] <=> is_used[b])
  /\ UNCHANGED <<allocated, size>>
  /\ stackSize' \in [Thread -> Nat]
  /\ \A u \in Thread : u # t => stackSize'[u] = stackSize[u]
  /\ K = IF tstate[t] = "released" THEN {} ELSE Kept(t)
  /\ \/ s \in {"none", "gone"} /\ L = MemoryType
     \/ s = "released" /\ L = {"tls"} /\ tstate[t] = "uncounted"

(* Each block keeps one place, and each thread what it still holds. *)
LEMMA GivingBackKeepsHeap ==
  ASSUME ThreadAssumption, ThreadIInv, NEW t \in Thread,
         NEW K, NEW L, NEW s \in {"none", "gone", "released"},
         GivesBack(t, K, L, s)
  PROVE  HeapTypes' /\ HeapInv'
  <1>1. HeapTypes
    BY DEF HeapTypes, ThreadIInv, ThreadTypeOK
  <1>2. /\ NoBlock \notin Block /\ t \in Actor /\ MemoryType = {"tls", "stack"}
        /\ \A u \in Thread : u \in Actor
        /\ s \in ThreadState
    BY DEF ThreadAssumption, Actor, MemoryType, ThreadState
  <1>3. /\ K \subseteq MemoryType /\ L \subseteq MemoryType
        /\ \A k \in K : Holds(t, k)
    BY <1>2 DEF GivesBack, Kept, Holds
  <1>4. /\ \A u \in Thread : u # t =>
             node'[u] = node[u] /\ tstate'[u] = tstate[u]
        /\ \A k \in MemoryType :
             node'[t][k] = IF k \in L THEN NoBlock ELSE node[t][k]
        /\ tstate'[t] = s
    BY <1>1, <1>2 DEF GivesBack, HeapTypes
  <1>5. \A k \in K :
          /\ node[t][k] \in Block /\ tstate[t] # "released"
          /\ \A l \in MemoryType : ~On(queue[l], node[t][k])
          /\ \A u \in Thread, l \in MemoryType :
               node[u][l] = node[t][k] => u = t /\ l = k
    <2>1. \A k \in K : tstate[t] # "released"
      BY DEF GivesBack
    <2>2. QED
      BY <1>3, <2>1, HeldFacts
  <1>6. \A k \in MemoryType :
          /\ queue'[k] \in Seq(Block) /\ Distinct(queue'[k])
          /\ \A b : On(queue'[k], b) <=>
                      On(queue[k], b) \/ (k \in K /\ b = node[t][k])
    <2> SUFFICES ASSUME NEW k \in MemoryType
                 PROVE  /\ queue'[k] \in Seq(Block) /\ Distinct(queue'[k])
                        /\ \A b : On(queue'[k], b) <=>
                             On(queue[k], b) \/ (k \in K /\ b = node[t][k])
      OBVIOUS
    <2>1. queue[k] \in Seq(Block) /\ Distinct(queue[k])
      BY QueueFacts
    <2>2. CASE k \in K
      <3>1. queue'[k] = Append(queue[k], node[t][k])
        BY <2>2 DEF GivesBack
      <3>2. node[t][k] \in Block /\ ~On(queue[k], node[t][k])
        BY <1>5, <2>2
      <3>3. QED
        BY <2>1, <2>2, <3>1, <3>2, AppendBlock
    <2>3. CASE k \notin K
      <3>1. queue'[k] = queue[k]
        BY <2>3 DEF GivesBack
      <3>2. QED
        BY <2>1, <2>3, <3>1
    <2>4. QED
      BY <2>2, <2>3
  <1>7. HeapTypes'
    <2>1. queue' \in [MemoryType -> Seq(Block)]
      BY <1>6 DEF GivesBack
    <2>2. node' \in [Thread -> [MemoryType -> Block \cup {NoBlock}]]
      BY <1>1 DEF GivesBack, HeapTypes
    <2>3. tstate' \in [Actor -> ThreadState]
      BY <1>1, <1>2 DEF GivesBack, HeapTypes
    <2>4. QED
      BY <1>1, <2>1, <2>2, <2>3 DEF GivesBack, HeapTypes
  <1>8. \A u \in Thread, k \in MemoryType : Holds(u, k)' =>
          /\ Holds(u, k) /\ node'[u][k] = node[u][k]
          /\ u = t => k \notin L
    BY <1>4 DEF Holds
  <1>9. ASSUME NEW u \in Thread PROVE NodesInv(u)'
    <2>1. CASE u = t
      <3>1. CASE s \in {"none", "gone"}
        <4>1. L = MemoryType
          BY <3>1 DEF GivesBack
        <4>2. QED
          BY <1>2, <1>4, <2>1, <3>1, <4>1 DEF NodesInv, Born, Holds
      <3>2. CASE s = "released"
        <4>1. L = {"tls"} /\ tstate[t] = "uncounted"
          BY <3>2 DEF GivesBack
        <4>2. Holds(t, "stack")
          BY <4>1 DEF ThreadIInv, NodesInv, Born
        <4>3. QED
          BY <1>2, <1>4, <2>1, <3>2, <4>1, <4>2 DEF NodesInv, Born, Holds
      <3>3. QED
        BY <3>1, <3>2
    <2>2. CASE u # t
      <3>1. NodesInv(u)
        BY DEF ThreadIInv
      <3>2. /\ node'[u] = node[u] /\ tstate'[u] = tstate[u]
            /\ stackSize'[u] = stackSize[u] /\ size' = size
        BY <1>4, <2>2 DEF GivesBack
      <3>3. QED
        BY <3>1, <3>2 DEF NodesInv, Born, Holds
    <2>3. QED
      BY <2>1, <2>2
  <1>10. HeldInv'
    <2> SUFFICES ASSUME NEW u \in Thread, NEW k \in MemoryType, Holds(u, k)'
                 PROVE  /\ node'[u][k] \in allocated' /\ is_used'[node'[u][k]]
                        /\ size'[node'[u][k]]
                             >= IF k = "tls" THEN TlsSize ELSE 1
                        /\ \A v \in Thread, l \in MemoryType :
                             Holds(v, l)' /\ node'[v][l] = node'[u][k]
                               => v = u /\ l = k
      BY DEF HeldInv
    <2>1. Holds(u, k) /\ node'[u][k] = node[u][k] /\ (u = t => k \notin L)
      BY <1>8
    <2>2. /\ node[u][k] \in Block /\ node[u][k] \in allocated
          /\ is_used[node[u][k]]
          /\ size[node[u][k]] >= IF k = "tls" THEN TlsSize ELSE 1
          /\ \A v \in Thread, l \in MemoryType :
               node[v][l] = node[u][k] => v = u /\ l = k
      BY <2>1, HeldFacts
    <2>3. \A l \in L : node[t][l] # node[u][k]
      BY <1>3, <2>1, <2>2
    <2>4. is_used'[node[u][k]]
      BY <2>2, <2>3 DEF GivesBack
    <2>5. allocated' = allocated /\ size' = size
      BY DEF GivesBack
    <2>6. QED
      BY <1>8, <2>1, <2>2, <2>4, <2>5
  <1>11. ASSUME NEW b \in Block, NEW u \in Thread
         PROVE  Owns(u, b)' <=> u # t /\ Owns(u, b)
    <2>1. CASE u = t
      <3>1. s # "released" => L = MemoryType
        BY DEF GivesBack
      <3>2. QED
        BY <1>2, <1>4, <2>1, <3>1 DEF Owns
    <2>2. CASE u # t
      BY <1>4, <2>2 DEF Owns
    <2>3. QED
      BY <2>1, <2>2
  <1>12. \A b \in Block : Owns(t, b) <=> \E k \in K : b = node[t][k]
    <2>1. K = IF tstate[t] = "released" THEN {} ELSE Kept(t)
      BY DEF GivesBack
    <2>2. QED
      BY <1>2, <2>1 DEF Owns, Kept
  <1>13. BlocksInv'
    <2>1. \A k \in MemoryType : Distinct(queue'[k])
      BY <1>6
    <2>2. ASSUME NEW b \in Block
          PROVE  /\ ~(InQueue("tls", b)' /\ InQueue("stack", b)')
                 /\ \A u \in Thread, k \in MemoryType :
                      Owns(u, b)' => ~InQueue(k, b)'
                 /\ b \in allocated' <=>
                      \/ \E k \in MemoryType : InQueue(k, b)'
                      \/ \E u \in Thread : Owns(u, b)'
      <3>1. /\ ~(InQueue("tls", b) /\ InQueue("stack", b))
            /\ \A u \in Thread, k \in MemoryType : Owns(u, b) => ~InQueue(k, b)
            /\ b \in allocated <=> \/ \E k \in MemoryType : InQueue(k, b)
                                   \/ \E u \in Thread : Owns(u, b)
        BY DEF ThreadIInv, BlocksInv
      <3>2. \A k \in MemoryType :
              InQueue(k, b)' <=> InQueue(k, b) \/ (k \in K /\ b = node[t][k])
        BY <1>6 DEF InQueue, On
      <3>3. \A k \in K : b = node[t][k] =>
              /\ \A l \in MemoryType : ~InQueue(l, b)
              /\ \A u \in Thread, l \in MemoryType :
                   node[u][l] = b => u = t /\ l = k
        BY <1>5 DEF InQueue
      <3>4. ~(InQueue("tls", b)' /\ InQueue("stack", b)')
        BY <1>2, <3>1, <3>2, <3>3
      <3>5. \A u \in Thread, k \in MemoryType : Owns(u, b)' => ~InQueue(k, b)'
        BY <1>11, <3>1, <3>2, <3>3 DEF Owns
      <3>6. allocated' = allocated
        BY DEF GivesBack
      <3>7. b \in allocated' <=> \/ \E k \in MemoryType : InQueue(k, b)'
                                 \/ \E u \in Thread : Owns(u, b)'
        BY <1>3, <1>11, <1>12, <3>1, <3>2, <3>6
      <3>8. QED
        BY <3>4, <3>5, <3>7
    <2>3. QED
      BY <2>1, <2>2 DEF BlocksInv
  <1>14. QED
    BY <1>7, <1>9, <1>10, <1>13 DEF HeapInv

(* What the other steps may do to a thread. *)
Quiet ==
  /\ UNCHANGED <<heapVars, node, stackSize>>
  /\ tstate' \in [Actor -> ThreadState]
  /\ \A t \in Thread :
       \/ tstate'[t] = tstate[t]
       \/ /\ Born(t)
          /\ tstate'[t] \in {"running", "notstarted", "withdrawn", "exiting",
                             "uncounted"}

(* They leave its memory alone. *)
LEMMA QuietKeepsHeap ==
  ASSUME ThreadIInv, Quiet
  PROVE  HeapTypes' /\ HeapInv'
  <1>1. /\ UNCHANGED <<allocated, queue, is_used, size, node, stackSize>>
        /\ tstate' \in [Actor -> ThreadState]
    BY DEF Quiet, heapVars
  <1>2. HeapTypes'
    BY <1>1 DEF HeapTypes, ThreadIInv, ThreadTypeOK
  <1>3. ASSUME NEW t \in Thread PROVE NodesInv(t)'
    <2>1. NodesInv(t)
      BY DEF ThreadIInv
    <2>2. QED
      BY <1>1, <2>1 DEF Quiet, NodesInv, Born, Holds
  <1>4. HeldInv'
    BY <1>1 DEF ThreadIInv, HeldInv, Holds
  <1>5. \A t \in Thread : tstate'[t] = "released" <=> tstate[t] = "released"
    BY DEF Quiet, Born
  <1>6. BlocksInv'
    <2>1. \A t \in Thread, b \in Block : Owns(t, b)' <=> Owns(t, b)
      BY <1>1, <1>5 DEF Owns
    <2>2. \A k \in MemoryType, b \in Block : InQueue(k, b)' <=> InQueue(k, b)
      BY <1>1 DEF InQueue, On
    <2>3. \A k \in MemoryType : Distinct(queue'[k])
      BY <1>1 DEF ThreadIInv, BlocksInv
    <2>4. ASSUME NEW b \in Block
          PROVE  /\ ~(InQueue("tls", b)' /\ InQueue("stack", b)')
                 /\ \A t \in Thread, k \in MemoryType :
                      Owns(t, b)' => ~InQueue(k, b)'
                 /\ b \in allocated' <=>
                      \/ \E k \in MemoryType : InQueue(k, b)'
                      \/ \E t \in Thread : Owns(t, b)'
      <3>1. /\ ~(InQueue("tls", b) /\ InQueue("stack", b))
            /\ \A t \in Thread, k \in MemoryType : Owns(t, b) => ~InQueue(k, b)
            /\ b \in allocated <=> \/ \E k \in MemoryType : InQueue(k, b)
                                   \/ \E t \in Thread : Owns(t, b)
        BY DEF ThreadIInv, BlocksInv
      <3>2. QED
        BY <1>1, <2>1, <2>2, <3>1 DEF MemoryType
    <2>5. QED
      BY <2>3, <2>4 DEF BlocksInv
  <1>7. QED
    BY <1>2, <1>3, <1>4, <1>6 DEF HeapInv

-----------------------------------------------------------------------------
(* The steps. *)

(* Every step is an operation of some actor, while the program runs. *)
LEMMA StepOfOne ==
  ASSUME Next
  PROVE  /\ tstate[Main] # "gone"
         /\ \/ \E a \in Actor, t \in Thread :
                 Create(a, t) \/ Join(a, t) \/ Detach(a, t)
            \/ \E a \in Actor :
                 \/ CreateStart(a) \/ CreateUncount(a) \/ CreateCleanup(a)
                 \/ ExitBegin(a) \/ JoinAwake(a) \/ CondSpurious(a)
            \/ \E t \in Thread :
                 ExitUncount(t) \/ ExitRelease(t) \/ ThreadExit(t)
            \/ MainWaits
  BY DEF Next, LibraryStep, ProgramStep, Actor

(* The thread that a pthread_create is about. *)
LEMMA CreatingFacts ==
  ASSUME ThreadAssumption, ThreadIInv, NEW a \in Actor, creating[a] # NoThread
  PROVE  /\ creating[a] \in Thread /\ creating[a] \in Actor
         /\ tstate[a] = "running" /\ joining[a] = NoThread
         /\ creating[a] # a
         /\ tstate[creating[a]] \in Creation
         /\ \A b \in Actor : creating[b] = creating[a] => b = a
  <1>1. creating[a] \in Thread
    BY DEF ThreadIInv, ThreadTypeOK
  <1>2. QED
    BY <1>1 DEF ThreadIInv, CreatingInv, Creation, Actor

(* The steps of pthread_create that allocate nothing. *)
LEMMA CreatePartIsQuiet ==
  ASSUME ThreadAssumption, ThreadIInv, NEW a \in Actor,
         CreateStart(a) \/ CreateUncount(a)
  PROVE  Quiet
  <1>1. /\ creating[a] \in Actor /\ tstate \in [Actor -> ThreadState]
        /\ tstate[creating[a]] \in {"starting", "notstarted"}
    BY CreatingFacts
    DEF CreateStart, CreateUncount, ThreadIInv, ThreadTypeOK
  <1>2. /\ UNCHANGED <<heapVars, node, stackSize>>
        /\ \E s \in {"running", "notstarted", "withdrawn"} :
             tstate' = [tstate EXCEPT ![creating[a]] = s]
    BY DEF CreateStart, CreateUncount, dataVars
  <1>3. {"running", "notstarted", "withdrawn"} \subseteq ThreadState
    BY DEF ThreadState
  <1>4. QED
    BY <1>1, <1>2, <1>3 DEF Quiet, Born, Actor

(* The steps that only move a thread on, or touch only its data. *)
LEMMA OthersAreQuiet ==
  ASSUME ThreadAssumption, ThreadIInv,
         \/ \E a \in Actor, t \in Thread : Join(a, t) \/ Detach(a, t)
         \/ \E a \in Actor : ExitBegin(a) \/ JoinAwake(a) \/ CondSpurious(a)
         \/ \E t \in Thread : ExitUncount(t)
         \/ MainWaits
         \/ UNCHANGED vars
  PROVE  Quiet
  <1>1. /\ tstate \in [Actor -> ThreadState]
        /\ Main \in Actor /\ Main \notin Thread
        /\ \A u \in Thread : u \in Actor
        /\ {"exiting", "uncounted", "gone", "waiting"} \subseteq ThreadState
    BY DEF ThreadIInv, ThreadTypeOK, ThreadAssumption, Actor, ThreadState
  <1>2. CASE \E a \in Actor, t \in Thread : Join(a, t) \/ Detach(a, t)
    BY <1>1, <1>2 DEF Join, Detach, Quiet
  <1>3. CASE \E a \in Actor : JoinAwake(a) \/ CondSpurious(a)
    BY <1>1, <1>3 DEF JoinAwake, CondSpurious, dataVars, Quiet
  <1>4. CASE \E a \in Actor : ExitBegin(a)
    <2>1. PICK a \in Actor : ExitBegin(a)
      BY <1>4
    <2>2. QED
      BY <1>1, <2>1 DEF ExitBegin, Idle, Quiet, Born
  <1>5. CASE \E t \in Thread : ExitUncount(t)
    <2>1. PICK t \in Thread : ExitUncount(t)
      BY <1>5
    <2>2. QED
      BY <1>1, <2>1 DEF ExitUncount, Quiet, Born, dataVars
  <1>6. CASE MainWaits
    <2>1. /\ UNCHANGED <<heapVars, node, stackSize>>
          /\ \E s \in {"gone", "waiting"} :
               tstate' = [tstate EXCEPT ![Main] = s]
      BY <1>6 DEF MainWaits, dataVars
    <2>2. QED
      BY <1>1, <2>1 DEF Quiet
  <1>7. CASE UNCHANGED vars
    BY <1>1, <1>7 DEF vars, dataVars, Quiet
  <1>8. QED
    BY <1>2, <1>3, <1>4, <1>5, <1>6, <1>7

(* A failed pthread_create gives back all that it got. *)
LEMMA CleanupGivesBack ==
  ASSUME ThreadAssumption, ThreadIInv, NEW a \in Actor, CreateCleanup(a)
  PROVE  \E t \in Thread : GivesBack(t, Kept(t), MemoryType, "none")
  <1> DEFINE t == creating[a]
  <1>1. /\ t \in Thread /\ tstate[t] \in {"withdrawn", "failed"}
    BY CreatingFacts DEF CreateCleanup
  <1>2. /\ is_used \in [Block -> BOOLEAN] /\ stackSize \in [Thread -> Nat]
        /\ node \in [Thread -> [MemoryType -> Block \cup {NoBlock}]]
    BY DEF ThreadIInv, ThreadTypeOK
  <1>3. /\ queue' = [k \in MemoryType |->
                       IF k \in Kept(t) THEN Append(queue[k], node[t][k])
                                        ELSE queue[k]]
        /\ is_used' = [b \in Block |->
                         is_used[b] /\ \A k \in Kept(t) : b # node[t][k]]
        /\ node' = [node EXCEPT ![t] = [k \in MemoryType |->
                                  IF k = "tls" THEN NoBlock ELSE NoBlock]]
        /\ tstate' = [tstate EXCEPT ![t] = "none"]
        /\ stackSize' = [stackSize EXCEPT ![t] = 0]
        /\ UNCHANGED <<allocated, size>>
    BY DEF CreateCleanup, SetNodes, Reset
  <1> HIDE DEF t
  <1>4. node' = [node EXCEPT ![t] = [k \in MemoryType |->
                   IF k \in MemoryType THEN NoBlock ELSE node[t][k]]]
    BY <1>3
  <1>5. /\ is_used' \in [Block -> BOOLEAN]
        /\ \A b \in Block : (\A l \in MemoryType : node[t][l] # b)
                              => (is_used'[b] <=> is_used[b])
    BY <1>2, <1>3 DEF Kept
  <1>6. stackSize' \in [Thread -> Nat]
    BY <1>2, <1>3
  <1>7. \A u \in Thread : u # t => stackSize'[u] = stackSize[u]
    BY <1>2, <1>3
  <1>8. GivesBack(t, Kept(t), MemoryType, "none")
    BY <1>1, <1>3, <1>4, <1>5, <1>6, <1>7 DEF GivesBack
  <1>9. QED
    BY <1>1, <1>8

(* The last critical section of pthread_exit puts both blocks in the       *)
(* lists, and keeps the stack (nc_thread.c:540-554).                       *)
LEMMA ReleaseGivesBack ==
  ASSUME ThreadAssumption, ThreadIInv, NEW t \in Thread, ExitRelease(t)
  PROVE  GivesBack(t, Kept(t), {"tls"}, "released")
  <1>1. /\ is_used \in [Block -> BOOLEAN] /\ stackSize \in [Thread -> Nat]
        /\ node \in [Thread -> [MemoryType -> Block \cup {NoBlock}]]
        /\ MemoryType = {"tls", "stack"}
    BY DEF ThreadIInv, ThreadTypeOK, MemoryType
  <1>2. tstate[t] = "uncounted" /\ Holds(t, "tls") /\ Holds(t, "stack")
    BY DEF ExitRelease, ThreadIInv, NodesInv, Born
  <1>3. Kept(t) = MemoryType
    BY <1>1, <1>2 DEF Kept, Holds
  <1>4. /\ queue' = [k \in MemoryType |-> Append(queue[k], node[t][k])]
        /\ is_used' = [is_used EXCEPT ![node[t]["tls"]] = FALSE]
        /\ node' = [node EXCEPT ![t] = [k \in MemoryType |->
                          IF k = "tls" THEN NoBlock ELSE node[t]["stack"]]]
        /\ tstate' = [tstate EXCEPT ![t] = "released"]
        /\ stackSize' = [stackSize EXCEPT ![t] = 0]
        /\ UNCHANGED <<allocated, size>>
    BY DEF ExitRelease, SetNodes, Reset
  <1>5. queue' = [k \in MemoryType |->
                    IF k \in Kept(t) THEN Append(queue[k], node[t][k])
                                     ELSE queue[k]]
    BY <1>3, <1>4
  <1>6. node' = [node EXCEPT ![t] = [k \in MemoryType |->
                   IF k \in {"tls"} THEN NoBlock ELSE node[t][k]]]
    BY <1>1, <1>4
  <1>7. /\ is_used' \in [Block -> BOOLEAN]
        /\ \A b \in Block : (\A l \in {"tls"} : node[t][l] # b)
                              => (is_used'[b] <=> is_used[b])
    BY <1>1, <1>4
  <1>8. stackSize' \in [Thread -> Nat]
    BY <1>1, <1>4
  <1>9. \A u \in Thread : u # t => stackSize'[u] = stackSize[u]
    BY <1>1, <1>4
  <1>10. QED
    BY <1>2, <1>4, <1>5, <1>6, <1>7, <1>8, <1>9 DEF GivesBack

(* The stack is in its list already when the system has done with it. *)
LEMMA ThreadExitGivesBack ==
  ASSUME ThreadAssumption, ThreadIInv, NEW t \in Thread, ThreadExit(t)
  PROVE  GivesBack(t, {}, MemoryType, "gone")
  <1>1. /\ is_used \in [Block -> BOOLEAN] /\ stackSize \in [Thread -> Nat]
        /\ node \in [Thread -> [MemoryType -> Block \cup {NoBlock}]]
        /\ queue \in [MemoryType -> Seq(Block)]
        /\ MemoryType = {"tls", "stack"}
    BY DEF ThreadIInv, ThreadTypeOK, MemoryType
  <1>2. /\ tstate[t] = "released"
        /\ is_used' = [is_used EXCEPT ![node[t]["stack"]] = FALSE]
        /\ node' = [node EXCEPT ![t] = [k \in MemoryType |->
                          IF k = "tls" THEN NoBlock ELSE NoBlock]]
        /\ tstate' = [tstate EXCEPT ![t] = "gone"]
        /\ UNCHANGED <<allocated, queue, size, stackSize>>
    BY DEF ThreadExit, SetNodes
  <1>3. queue' = [k \in MemoryType |->
                    IF k \in {} THEN Append(queue[k], node[t][k]) ELSE queue[k]]
    BY <1>1, <1>2
  <1>4. node' = [node EXCEPT ![t] = [k \in MemoryType |->
                   IF k \in MemoryType THEN NoBlock ELSE node[t][k]]]
    BY <1>2
  <1>5. /\ is_used' \in [Block -> BOOLEAN]
        /\ \A b \in Block : (\A l \in MemoryType : node[t][l] # b)
                              => (is_used'[b] <=> is_used[b])
    BY <1>1, <1>2
  <1>6. stackSize' \in [Thread -> Nat]
        /\ \A u \in Thread : u # t => stackSize'[u] = stackSize[u]
    BY <1>1, <1>2
  <1>7. QED
    BY <1>2, <1>3, <1>4, <1>5, <1>6 DEF GivesBack

(* Every step keeps the memory right. *)
LEMMA HeapStep ==
  ASSUME ThreadAssumption, ThreadIInv, [Next]_vars
  PROVE  HeapTypes' /\ HeapInv'
  <1>1. CASE \E a \in Actor, t \in Thread : Create(a, t)
    BY <1>1, CreateKeepsHeap
  <1>2. CASE \E a \in Actor : CreateCleanup(a)
    <2>1. PICK t \in Thread : GivesBack(t, Kept(t), MemoryType, "none")
      BY <1>2, CleanupGivesBack
    <2>2. QED
      BY <2>1, GivingBackKeepsHeap
  <1>3. CASE \E t \in Thread : ExitRelease(t)
    <2>1. PICK t \in Thread : GivesBack(t, Kept(t), {"tls"}, "released")
      BY <1>3, ReleaseGivesBack
    <2>2. QED
      BY <2>1, GivingBackKeepsHeap
  <1>4. CASE \E t \in Thread : ThreadExit(t)
    <2>1. PICK t \in Thread : GivesBack(t, {}, MemoryType, "gone")
      BY <1>4, ThreadExitGivesBack
    <2>2. QED
      BY <2>1, GivingBackKeepsHeap
  <1>5. CASE \/ \E a \in Actor : CreateStart(a) \/ CreateUncount(a)
             \/ \E a \in Actor, t \in Thread : Join(a, t) \/ Detach(a, t)
             \/ \E a \in Actor : ExitBegin(a) \/ JoinAwake(a) \/ CondSpurious(a)
             \/ \E t \in Thread : ExitUncount(t)
             \/ MainWaits
             \/ UNCHANGED vars
    BY <1>5, CreatePartIsQuiet, OthersAreQuiet, QuietKeepsHeap
  <1>6. QED
    BY <1>1, <1>2, <1>3, <1>4, <1>5, StepOfOne

-----------------------------------------------------------------------------
(* Who is about which thread, and what is left of it. *)

ControlInv == CreatingInv /\ JoiningInv /\ \A t \in Thread : DataInv(t)

(* The parts of the state that these invariants read. *)
ControlTypes ==
  /\ tstate \in [Actor -> ThreadState]
  /\ joinable \in [Thread -> BOOLEAN]
  /\ join_waiting \in [Thread -> BOOLEAN]
  /\ exitJoinable \in [Thread -> BOOLEAN]
  /\ basic_data \in [Thread -> {"none", "live", "freed"}]
  /\ status \in [Thread -> BOOLEAN]
  /\ tdb \in [Thread -> BOOLEAN]
  /\ creating \in [Actor -> Thread \cup {NoThread}]
  /\ joining \in [Actor -> Thread \cup {NoThread}]
  /\ claimed \in [Thread -> {"no", "join", "detach", "late"}]

(* What the invariant says, ready to be used. *)
LEMMA ControlFacts ==
  ASSUME ThreadAssumption, ThreadIInv
  PROVE  /\ ControlTypes /\ CreatingInv /\ JoiningInv
         /\ \A t \in Thread : DataInv(t)
         /\ Main \in Actor /\ Main \notin Thread /\ NoThread \notin Actor
         /\ \A t \in Thread : t \in Actor
         /\ \A a \in Actor : a # Main => a \in Thread
  BY DEF ThreadIInv, ThreadTypeOK, ControlTypes, ThreadAssumption, Actor

(* What the steps do not change of a thread. *)
SameThread(u) ==
  /\ tstate'[u] = tstate[u] /\ joinable'[u] = joinable[u]
  /\ join_waiting'[u] = join_waiting[u] /\ exitJoinable'[u] = exitJoinable[u]
  /\ basic_data'[u] = basic_data[u] /\ status'[u] = status[u]
  /\ tdb'[u] = tdb[u] /\ claimed'[u] = claimed[u]

(* What the first critical section of pthread_create does to the data. *)
LEMMA CreateData ==
  ASSUME ThreadAssumption, ThreadIInv, NEW c \in Actor, NEW t \in Thread,
         Create(c, t)
  PROVE  /\ \A u \in Thread : u # t => SameThread(u)
         /\ tstate' = [tstate EXCEPT ![t] = tstate'[t]]
         /\ creating' = [creating EXCEPT ![c] = t]
         /\ joining' = joining
         /\ \/ tstate'[t] = "failed"
            \/ /\ tstate'[t] = "starting" /\ DataInv(t)'
  <1>1. ControlTypes /\ t \in Actor
    BY ControlFacts
  <1>2. CASE CreateNoTls(c, t)
    BY <1>1, <1>2 DEF CreateNoTls, CreateFails, SameThread, ControlTypes, Actor
  <1>3. ASSUME NEW s \in Size, CreateNoMemory(c, t, s)
        PROVE  /\ \A u \in Thread : u # t => SameThread(u)
               /\ tstate' = [tstate EXCEPT ![t] = tstate'[t]]
               /\ creating' = [creating EXCEPT ![c] = t]
               /\ joining' = joining
               /\ tstate'[t] = "failed"
    <2>1. CreateFails(c, t)
      BY <1>3 DEF CreateNoMemory
    <2>2. \/ UNCHANGED <<basic_data, tdb>>
          \/ /\ basic_data' = [basic_data EXCEPT ![t] = "live"]
             /\ tdb' = [tdb EXCEPT ![t] = TRUE]
      BY <1>3 DEF CreateNoMemory
    <2>3. QED
      BY <1>1, <2>1, <2>2 DEF CreateFails, SameThread, ControlTypes, Actor
  <1>4. ASSUME NEW s \in Size, NEW d \in BOOLEAN, CreateSucceeds(c, t, s, d)
        PROVE  /\ \A u \in Thread : u # t => SameThread(u)
               /\ tstate' = [tstate EXCEPT ![t] = tstate'[t]]
               /\ creating' = [creating EXCEPT ![c] = t]
               /\ joining' = joining
               /\ tstate'[t] = "starting" /\ DataInv(t)'
    <2>1. /\ joinable' = [joinable EXCEPT ![t] = ~d]
          /\ join_waiting' = [join_waiting EXCEPT ![t] = FALSE]
          /\ status' = [status EXCEPT ![t] = FALSE]
          /\ claimed' = [claimed EXCEPT ![t] = IF d THEN "detach" ELSE "no"]
          /\ basic_data' = [basic_data EXCEPT ![t] = "live"]
          /\ tdb' = [tdb EXCEPT ![t] = TRUE]
          /\ tstate' = [tstate EXCEPT ![t] = "starting"]
          /\ creating' = [creating EXCEPT ![c] = t]
          /\ exitJoinable' = exitJoinable /\ joining' = joining
      BY <1>4 DEF CreateSucceeds
    <2>2. \A u \in Thread : u # t => SameThread(u)
      BY <1>1, <2>1 DEF SameThread, ControlTypes, Actor
    <2>3. /\ tstate'[t] = "starting" /\ tdb'[t] /\ basic_data'[t] = "live"
          /\ ~status'[t] /\ (joinable'[t] <=> ~d)
          /\ claimed'[t] = IF d THEN "detach" ELSE "no"
      BY <1>1, <2>1 DEF ControlTypes
    <2>4. DataInv(t)'
      BY <2>3 DEF DataInv, Born, Left
    <2>5. QED
      BY <2>1, <2>2, <2>3, <2>4
  <1>5. QED
    BY <1>2, <1>3, <1>4 DEF Create

(* pthread_create is about a thread that nobody else is about. *)
LEMMA CreateKeepsControl ==
  ASSUME ThreadAssumption, ThreadIInv, NEW c \in Actor, NEW t \in Thread,
         Create(c, t)
  PROVE  ControlInv'
  <1>1. /\ \A u \in Thread : u # t => SameThread(u)
        /\ tstate' = [tstate EXCEPT ![t] = tstate'[t]]
        /\ creating' = [creating EXCEPT ![c] = t]
        /\ joining' = joining
        /\ tstate'[t] = "failed" \/ (tstate'[t] = "starting" /\ DataInv(t)')
    BY CreateData
  <1>2. /\ tstate[c] = "running" /\ joining[c] = NoThread
        /\ tstate[t] \in {"none", "gone"} /\ ~IsJoined(t) /\ c # t
    BY DEF Create, Idle, Unborn
  <1>3. /\ ControlTypes /\ CreatingInv /\ JoiningInv /\ t \in Actor
        /\ t # NoThread
    BY ControlFacts
  <1>4. \A a \in Actor : tstate[a] = "running" => tstate'[a] = "running"
    BY <1>1, <1>2, <1>3 DEF ControlTypes
  <1>5. CreatingInv'
    <2> SUFFICES ASSUME NEW a \in Actor, creating'[a] # NoThread
                 PROVE  /\ tstate'[a] = "running" /\ joining'[a] = NoThread
                        /\ tstate'[creating'[a]]
                             \in Creation
                        /\ \A b \in Actor : creating'[b] = creating'[a] => b = a
      BY DEF CreatingInv
    <2>1. \A b \in Actor : creating'[b] = IF b = c THEN t ELSE creating[b]
      BY <1>1, <1>3 DEF ControlTypes
    <2>2. \A b \in Actor : creating[b] # t
      BY <1>2, <1>3 DEF CreatingInv, Creation
    <2>3. CASE a = c
      BY <1>1, <1>2, <1>4, <2>1, <2>2, <2>3 DEF Creation
    <2>4. CASE a # c
      <3>1. /\ creating'[a] = creating[a] /\ tstate[a] = "running"
            /\ joining[a] = NoThread /\ creating[a] \in Thread
            /\ tstate[creating[a]] \in Creation
            /\ \A b \in Actor : creating[b] = creating[a] => b = a
        BY <1>3, <2>1, <2>4 DEF CreatingInv, ControlTypes
      <3>2. tstate'[creating[a]] = tstate[creating[a]]
        BY <1>1, <2>2, <3>1 DEF SameThread
      <3>3. QED
        BY <1>1, <1>4, <2>1, <2>2, <3>1, <3>2
    <2>5. QED
      BY <2>3, <2>4
  <1>6. JoiningInv'
    <2>1. \A a \in Actor : joining[a] # NoThread =>
            joining[a] \in Thread /\ joining[a] # t
      BY <1>2, <1>3 DEF IsJoined, ControlTypes
    <2>2. QED
      BY <1>1, <1>3, <1>4, <2>1 DEF JoiningInv, SameThread
  <1>7. ASSUME NEW u \in Thread PROVE DataInv(u)'
    <2>1. CASE u = t
      BY <1>1, <2>1 DEF DataInv, Born, Left
    <2>2. CASE u # t
      BY <1>1, <2>2, ControlFacts DEF SameThread, DataInv, Born, Left
    <2>3. QED
      BY <2>1, <2>2
  <1>8. QED
    BY <1>5, <1>6, <1>7 DEF ControlInv

(* The operations in progress go on as they are, or end. *)
LEMMA GoingOn ==
  ASSUME ThreadAssumption, ThreadIInv,
         \A a \in Actor : creating'[a] # NoThread =>
           /\ creating'[a] = creating[a] /\ tstate'[a] = tstate[a]
           /\ joining'[a] = NoThread
           /\ tstate'[creating[a]] \in Creation,
         \A a \in Actor : joining'[a] # NoThread =>
           /\ joining'[a] = joining[a] /\ tstate'[a] = tstate[a]
           /\ tstate'[joining[a]] \in Joined
           /\ basic_data'[joining[a]] = "live" \/ tstate'[joining[a]] = "none"
           /\ claimed'[joining[a]] = claimed[joining[a]]
           /\ tdb'[joining[a]] =>
                /\ tdb[joining[a]]
                /\ join_waiting'[joining[a]] = join_waiting[joining[a]]
                /\ joinable'[joining[a]] = joinable[joining[a]]
  PROVE  CreatingInv' /\ JoiningInv'
  <1>1. CreatingInv /\ JoiningInv
    BY DEF ThreadIInv
  <1>2. CreatingInv'
    <2> SUFFICES ASSUME NEW a \in Actor, creating'[a] # NoThread
                 PROVE  /\ tstate'[a] = "running" /\ joining'[a] = NoThread
                        /\ tstate'[creating'[a]]
                             \in Creation
                        /\ \A b \in Actor : creating'[b] = creating'[a] => b = a
      BY DEF CreatingInv
    <2>1. /\ creating'[a] = creating[a] /\ tstate'[a] = tstate[a]
          /\ joining'[a] = NoThread
          /\ tstate'[creating[a]] \in Creation
      OBVIOUS
    <2>2. /\ tstate[a] = "running"
          /\ \A b \in Actor : creating[b] = creating[a] => b = a
      BY <1>1, <2>1 DEF CreatingInv
    <2>3. \A b \in Actor : creating'[b] = creating'[a] => b = a
      BY <2>1, <2>2
    <2>4. QED
      BY <2>1, <2>2, <2>3
  <1>3. JoiningInv'
    <2> SUFFICES ASSUME NEW a \in Actor, joining'[a] # NoThread
                 PROVE  LET t == joining'[a]
                        IN  /\ tstate'[a] = "running"
                            /\ tstate'[t] \in Joined
                            /\ basic_data'[t] = "live" \/ tstate'[t] = "none"
                            /\ claimed'[t] = "join"
                            /\ tdb'[t] => join_waiting'[t] /\ joinable'[t]
                            /\ \A b \in Actor : joining'[b] = t => b = a
      BY DEF JoiningInv
    <2>1. /\ joining'[a] = joining[a] /\ tstate'[a] = tstate[a]
          /\ tstate'[joining[a]] \in Joined
          /\ basic_data'[joining[a]] = "live" \/ tstate'[joining[a]] = "none"
          /\ claimed'[joining[a]] = claimed[joining[a]]
          /\ tdb'[joining[a]] =>
               /\ tdb[joining[a]]
               /\ join_waiting'[joining[a]] = join_waiting[joining[a]]
               /\ joinable'[joining[a]] = joinable[joining[a]]
      OBVIOUS
    <2>2. /\ tstate[a] = "running" /\ claimed[joining[a]] = "join"
          /\ tdb[joining[a]] => join_waiting[joining[a]] /\ joinable[joining[a]]
          /\ \A b \in Actor : joining[b] = joining[a] => b = a
      BY <1>1, <2>1 DEF JoiningInv
    <2>3. \A b \in Actor : joining'[b] = joining'[a] => b = a
      BY <2>1, <2>2
    <2>4. QED
      BY <2>1, <2>2, <2>3
  <1>4. QED
    BY <1>2, <1>3

(* What is true of a thread that is being joined. *)
LEMMA JoiningFacts ==
  ASSUME ThreadAssumption, ThreadIInv, NEW a \in Actor, joining[a] # NoThread
  PROVE  /\ joining[a] \in Thread /\ joining[a] \in Actor
         /\ tstate[a] = "running" /\ creating[a] = NoThread
         /\ tstate[joining[a]] \in Joined
         /\ basic_data[joining[a]] = "live" \/ tstate[joining[a]] = "none"
         /\ claimed[joining[a]] = "join"
         /\ tdb[joining[a]] => join_waiting[joining[a]] /\ joinable[joining[a]]
         /\ \A b \in Actor : joining[b] = joining[a] => b = a
  <1>1. joining[a] \in Thread /\ joining[a] \in Actor
    BY ControlFacts DEF ControlTypes
  <1>2. creating[a] = NoThread
    BY ControlFacts DEF CreatingInv
  <1>3. QED
    BY <1>1, <1>2, ControlFacts DEF JoiningInv

(* The data of a thread that a step does not touch. *)
LEMMA DataStays ==
  ASSUME ThreadIInv, NEW u \in Thread, SameThread(u)
  PROVE  DataInv(u)'
  <1>1. DataInv(u)
    BY DEF ThreadIInv
  <1>2. QED
    BY <1>1 DEF SameThread, DataInv, Born, Left

(* The other steps of pthread_create. *)
LEMMA CreatePartKeepsControl ==
  ASSUME ThreadAssumption, ThreadIInv, NEW a \in Actor,
         CreateStart(a) \/ CreateUncount(a) \/ CreateCleanup(a)
  PROVE  ControlInv'
  <1> DEFINE t == creating[a]
  <1>1. /\ t \in Thread /\ t \in Actor /\ t # NoThread
        /\ tstate[t] \in Creation
        /\ \A b \in Actor : creating[b] = t => b = a
    BY CreatingFacts DEF CreateStart, CreateUncount, CreateCleanup
  <1>2. ControlTypes
    BY ControlFacts
  <1>3. /\ joining' = joining
        /\ \/ creating' = creating /\ tstate'[t] # "running"
                /\ tstate'[t] # "none"
           \/ creating' = [creating EXCEPT ![a] = NoThread]
        /\ tstate' = [tstate EXCEPT ![t] = tstate'[t]]
        /\ \A u \in Thread : u # t => SameThread(u)
        /\ \/ /\ tstate'[t] \in {"running", "notstarted", "withdrawn"}
              /\ tstate[t] \in {"starting", "notstarted"}
              /\ UNCHANGED <<joinable, join_waiting, exitJoinable, basic_data,
                             status, tdb, claimed>>
           \/ /\ tstate'[t] = "none" /\ ~tdb'[t] /\ basic_data'[t] = "freed"
              /\ claimed' = claimed
    <2>1. CASE CreateStart(a)
      BY <1>1, <1>2, <2>1
      DEF CreateStart, ControlTypes, SameThread, Actor, dataVars
    <2>2. CASE CreateUncount(a)
      BY <1>1, <1>2, <2>2
      DEF CreateUncount, ControlTypes, SameThread, Actor, dataVars, callVars
    <2>3. CASE CreateCleanup(a)
      <3>1. /\ basic_data' = [basic_data EXCEPT ![t] = "freed"]
            /\ tdb' = [tdb EXCEPT ![t] = FALSE]
            /\ tstate' = [tstate EXCEPT ![t] = "none"]
            /\ creating' = [creating EXCEPT ![a] = NoThread]
            /\ joinable' = [joinable EXCEPT ![t] = FALSE]
            /\ join_waiting' = [join_waiting EXCEPT ![t] = FALSE]
            /\ UNCHANGED <<exitJoinable, status, claimed, joining>>
        BY <2>3 DEF CreateCleanup, Reset
      <3> HIDE DEF t
      <3>2. QED
        BY <1>1, <1>2, <3>1 DEF ControlTypes, SameThread, Actor
    <2>4. QED
      BY <2>1, <2>2, <2>3
  <1> HIDE DEF t
  <1>4. \A b \in Actor : b # t => tstate'[b] = tstate[b]
    BY <1>1, <1>2, <1>3 DEF ControlTypes
  <1>5. \A b \in Actor : creating'[b] # NoThread =>
          /\ creating'[b] = creating[b] /\ tstate'[b] = tstate[b]
          /\ joining'[b] = NoThread
          /\ tstate'[creating[b]] \in Creation
    <2> SUFFICES ASSUME NEW b \in Actor, creating'[b] # NoThread
                 PROVE  /\ creating'[b] = creating[b] /\ tstate'[b] = tstate[b]
                        /\ joining'[b] = NoThread
                        /\ tstate'[creating[b]]
                             \in Creation
      OBVIOUS
    <2>1. /\ creating'[b] = creating[b]
          /\ b = a => creating' = creating
      BY <1>2, <1>3 DEF ControlTypes
    <2>2. /\ creating[b] \in Actor /\ tstate[b] = "running"
          /\ joining[b] = NoThread
          /\ tstate[creating[b]] \in Creation
      BY <2>1, CreatingFacts
    <2>3. b # t
      BY <1>1, <2>2 DEF Creation
    <2>4. CASE creating[b] = t
      <3>1. b = a /\ creating' = creating
        BY <1>1, <2>1, <2>4
      <3>2. tstate'[t] \in Creation
        <4>1. CASE creating' = [creating EXCEPT ![a] = NoThread]
          BY <1>1, <1>2, <2>4, <3>1, <4>1 DEF ControlTypes
        <4>2. QED
          BY <1>3, <4>1 DEF Creation
      <3>3. QED
        BY <1>3, <1>4, <2>1, <2>2, <2>3, <2>4, <3>2
    <2>5. CASE creating[b] # t
      BY <1>3, <1>4, <2>1, <2>2, <2>3, <2>5
    <2>6. QED
      BY <2>4, <2>5
  <1>6. \A b \in Actor : joining'[b] # NoThread =>
          /\ joining[b] \in Thread
          /\ joining'[b] = joining[b] /\ tstate'[b] = tstate[b]
          /\ joining[b] # t => SameThread(joining[b])
    <2> SUFFICES ASSUME NEW b \in Actor, joining'[b] # NoThread
                 PROVE  /\ joining[b] \in Thread
                        /\ joining'[b] = joining[b] /\ tstate'[b] = tstate[b]
                        /\ joining[b] # t => SameThread(joining[b])
      OBVIOUS
    <2>1. joining'[b] = joining[b]
      BY <1>3
    <2>2. joining[b] \in Thread /\ tstate[b] = "running"
      BY <2>1, JoiningFacts
    <2>3. b # t
      BY <1>1, <2>2 DEF Creation
    <2>4. QED
      BY <1>3, <1>4, <2>1, <2>2, <2>3
  <1>7. CreatingInv' /\ JoiningInv'
    <2>1. ASSUME NEW b \in Actor, joining'[b] # NoThread
          PROVE  /\ joining'[b] = joining[b] /\ tstate'[b] = tstate[b]
                 /\ tstate'[joining[b]] \in Joined
                 /\ \/ basic_data'[joining[b]] = "live"
                    \/ tstate'[joining[b]] = "none"
                 /\ claimed'[joining[b]] = claimed[joining[b]]
                 /\ tdb'[joining[b]] =>
                      /\ tdb[joining[b]]
                      /\ join_waiting'[joining[b]] = join_waiting[joining[b]]
                      /\ joinable'[joining[b]] = joinable[joining[b]]
      <3>1. /\ joining'[b] = joining[b] /\ tstate'[b] = tstate[b]
            /\ joining[b] # t => SameThread(joining[b])
            /\ tstate[joining[b]] \in Joined
            /\ \/ basic_data[joining[b]] = "live"
               \/ tstate[joining[b]] = "none"
        BY <1>6, <2>1, JoiningFacts
      <3>2. CASE joining[b] # t
        BY <3>1, <3>2 DEF SameThread
      <3>3. CASE joining[b] = t
        <4>1. basic_data[t] = "live"
          BY <1>1, <3>1, <3>3 DEF Creation
        <4>2. tstate'[t] \in Joined
          BY <1>3 DEF Joined
        <4>3. QED
          BY <1>3, <3>1, <3>3, <4>1, <4>2
      <3>4. QED
        BY <3>2, <3>3
    <2>2. QED
      BY <1>5, <2>1, GoingOn
  <1>8. ASSUME NEW u \in Thread PROVE DataInv(u)'
    <2>1. CASE u # t
      BY <1>3, <2>1, DataStays
    <2>2. CASE u = t
      <3>1. DataInv(t)
        BY <1>1 DEF ThreadIInv
      <3>2. CASE tstate'[t] = "none" /\ ~tdb'[t] /\ basic_data'[t] = "freed"
        BY <2>2, <3>2 DEF DataInv, Born, Left
      <3>3. CASE /\ tstate'[t] \in {"running", "notstarted", "withdrawn"}
                 /\ tstate[t] \in {"starting", "notstarted"}
                 /\ UNCHANGED <<joinable, join_waiting, exitJoinable,
                                basic_data, status, tdb, claimed>>
        BY <2>2, <3>1, <3>3 DEF DataInv, Born, Left
      <3>4. QED
        BY <1>3, <3>2, <3>3
    <2>3. QED
      BY <2>1, <2>2
  <1>9. QED
    BY <1>7, <1>8 DEF ControlInv

(* What a step of pthread_exit does to the data of a, and to no other's.   *)
MovesOn(a) ==
  /\ creating' = creating /\ joining' = joining /\ claimed' = claimed
  /\ \A b \in Actor : b # a => tstate'[b] = tstate[b]
  /\ \A u \in Thread : u # a => SameThread(u)
  /\ creating[a] = NoThread /\ joining[a] = NoThread
  /\ \A b \in Actor : creating[b] # a
  /\ a \in Thread =>
       /\ tstate'[a] \in {"exiting", "uncounted", "released", "gone"}
       /\ tstate[a] # "none"
       /\ DataInv(a)'
       /\ tdb'[a] => /\ tdb[a] /\ join_waiting'[a] = join_waiting[a]
                     /\ joinable'[a] = joinable[a]
       /\ claimed[a] = "join" /\ basic_data[a] = "live"
            => basic_data'[a] = "live"

(* A running thread is about no other when it calls pthread_exit, and its  *)
(* data is its own until its last critical section (nc_thread.c:479-556).  *)
LEMMA ExitKeepsControl ==
  ASSUME ThreadAssumption, ThreadIInv,
         \/ \E a \in Actor : ExitBegin(a)
         \/ \E t \in Thread : ExitUncount(t) \/ ExitRelease(t) \/ ThreadExit(t)
         \/ MainWaits
  PROVE  ControlInv'
  <1>1. /\ ControlTypes /\ Main \in Actor /\ Main \notin Thread
        /\ \A t \in Thread : t \in Actor /\ DataInv(t)
        /\ NoThread \notin Actor
    BY ControlFacts
  <1>2. PICK a \in Actor : MovesOn(a)
    <2>1. CASE \E a \in Actor : ExitBegin(a)
      <3>1. PICK a \in Actor : ExitBegin(a)
        BY <2>1
      <3>2. /\ tstate[a] = "running" /\ creating[a] = NoThread
            /\ joining[a] = NoThread
            /\ tstate' = [tstate EXCEPT ![a] = "exiting"]
            /\ exitJoinable' = [t \in Thread |-> IF t = a THEN joinable[t]
                                                          ELSE exitJoinable[t]]
            /\ UNCHANGED <<joinable, join_waiting, basic_data, status, tdb,
                           claimed, creating, joining>>
        BY <3>1 DEF ExitBegin, Idle, callVars
      <3>3. \A b \in Actor : creating[b] # a
        <4>1. \A b \in Actor : creating[b] # NoThread
                                 => tstate[creating[b]] # "running"
          BY CreatingFacts DEF Creation
        <4>2. QED
          BY <1>1, <3>2, <4>1
      <3>4. \A u \in Thread : u # a => SameThread(u)
        BY <1>1, <3>2 DEF SameThread, ControlTypes
      <3>5. a \in Thread => DataInv(a)'
        BY <1>1, <3>2 DEF DataInv, Born, Left, ControlTypes
      <3>6. QED
        BY <1>1, <3>2, <3>3, <3>4, <3>5 DEF ControlTypes, MovesOn
    <2>2. CASE MainWaits
      <3>1. /\ tstate[Main] # "running"
            /\ tstate' = [tstate EXCEPT ![Main] = tstate'[Main]]
            /\ UNCHANGED <<joinable, join_waiting, exitJoinable, basic_data,
                           status, tdb, claimed, creating, joining>>
        BY <1>1, <2>2 DEF MainWaits, dataVars, ControlTypes
      <3>2. creating[Main] = NoThread /\ joining[Main] = NoThread
        BY <1>1, <3>1, CreatingFacts, JoiningFacts
      <3>3. \A b \in Actor : creating[b] # Main
        BY <1>1 DEF ControlTypes, ThreadAssumption
      <3>4. \A u \in Thread : u # Main => SameThread(u)
        BY <1>1, <3>1 DEF SameThread, ControlTypes
      <3>5. QED
        BY <1>1, <3>1, <3>2, <3>3, <3>4 DEF ControlTypes, MovesOn
    <2>3. ASSUME NEW t \in Thread, ExitUncount(t)
          PROVE  \E a \in Actor : MovesOn(a)
      <3>1. /\ tstate[t] = "exiting"
            /\ tstate' = [tstate EXCEPT ![t] = "uncounted"]
            /\ UNCHANGED <<joinable, join_waiting, exitJoinable, basic_data,
                           status, tdb, claimed, creating, joining>>
        BY <2>3 DEF ExitUncount, dataVars, callVars
      <3>2. /\ creating[t] = NoThread /\ joining[t] = NoThread
            /\ \A b \in Actor : creating[b] # t
        BY <1>1, <3>1, CreatingFacts, JoiningFacts DEF Creation
      <3>3. \A u \in Thread : u # t => SameThread(u)
        BY <1>1, <3>1 DEF SameThread, ControlTypes
      <3>4. DataInv(t)'
        BY <1>1, <3>1 DEF DataInv, Born, Left, ControlTypes
      <3>5. QED
        BY <1>1, <3>1, <3>2, <3>3, <3>4 DEF ControlTypes, MovesOn
    <2>4. ASSUME NEW t \in Thread, ExitRelease(t)
          PROVE  \E a \in Actor : MovesOn(a)
      <3>1. /\ tstate[t] = "uncounted"
            /\ tstate' = [tstate EXCEPT ![t] = "released"]
            /\ status' = [status EXCEPT ![t] = exitJoinable[t]]
            /\ tdb' = [tdb EXCEPT ![t] = FALSE]
            /\ basic_data' = [basic_data EXCEPT
                                ![t] = IF exitJoinable[t] THEN @ ELSE "freed"]
            /\ joinable' = [joinable EXCEPT ![t] = FALSE]
            /\ join_waiting' = [join_waiting EXCEPT ![t] = FALSE]
            /\ exitJoinable' = [exitJoinable EXCEPT ![t] = FALSE]
            /\ UNCHANGED <<claimed, creating, joining>>
        BY <2>4 DEF ExitRelease, Reset
      <3>2. /\ creating[t] = NoThread /\ joining[t] = NoThread
            /\ \A b \in Actor : creating[b] # t
        BY <1>1, <3>1, CreatingFacts, JoiningFacts DEF Creation
      <3>3. \A u \in Thread : u # t => SameThread(u)
        BY <1>1, <3>1 DEF SameThread, ControlTypes
      <3>4. /\ tstate'[t] = "released" /\ ~tdb'[t] /\ claimed'[t] = claimed[t]
            /\ basic_data'[t] = IF exitJoinable[t] THEN basic_data[t]
                                                   ELSE "freed"
        BY <1>1, <3>1 DEF ControlTypes
      <3>5. /\ claimed[t] \notin {"detach", "late"}
                 => exitJoinable[t] /\ basic_data[t] = "live"
            /\ claimed[t] = "detach" => ~exitJoinable[t]
        BY <1>1, <3>1 DEF DataInv, Born, Left
      <3>6. DataInv(t)'
        BY <3>4, <3>5 DEF DataInv, Born, Left
      <3>7. \A b \in Actor : b # t => tstate'[b] = tstate[b]
        BY <1>1, <3>1 DEF ControlTypes
      <3>8. QED
        BY <1>1, <3>1, <3>2, <3>3, <3>4, <3>5, <3>6, <3>7 DEF MovesOn
    <2>5. ASSUME NEW t \in Thread, ThreadExit(t)
          PROVE  \E a \in Actor : MovesOn(a)
      <3>1. /\ tstate[t] = "released"
            /\ tstate' = [tstate EXCEPT ![t] = "gone"]
            /\ UNCHANGED <<joinable, join_waiting, exitJoinable, basic_data,
                           status, tdb, claimed, creating, joining>>
        BY <2>5 DEF ThreadExit, callVars
      <3>2. /\ creating[t] = NoThread /\ joining[t] = NoThread
            /\ \A b \in Actor : creating[b] # t
        BY <1>1, <3>1, CreatingFacts, JoiningFacts DEF Creation
      <3>3. \A u \in Thread : u # t => SameThread(u)
        BY <1>1, <3>1 DEF SameThread, ControlTypes
      <3>4. DataInv(t)'
        BY <1>1, <3>1 DEF DataInv, Born, Left, ControlTypes
      <3>5. QED
        BY <1>1, <3>1, <3>2, <3>3, <3>4 DEF ControlTypes, MovesOn
    <2>6. QED
      BY <2>1, <2>2, <2>3, <2>4, <2>5
  <1>3. \A b \in Actor : creating'[b] # NoThread =>
          /\ creating'[b] = creating[b] /\ tstate'[b] = tstate[b]
          /\ joining'[b] = NoThread
          /\ tstate'[creating[b]] \in Creation
    BY <1>2, CreatingFacts DEF MovesOn
  <1>4. \A b \in Actor : joining'[b] # NoThread =>
          /\ joining'[b] = joining[b] /\ tstate'[b] = tstate[b]
          /\ joining[b] # a => SameThread(joining[b])
    BY <1>2, JoiningFacts DEF MovesOn
  <1>5. CreatingInv' /\ JoiningInv'
    BY <1>2, <1>3, <1>4, GoingOn, JoiningFacts
    DEF MovesOn, SameThread, Joined
  <1>6. \A u \in Thread : DataInv(u)'
    BY <1>2, DataStays DEF MovesOn
  <1>7. QED
    BY <1>5, <1>6 DEF ControlInv

(* A thread that a program may name has its data, is not being joined when *)
(* its data can be freed or it can be joined or detached                   *)
(* (nc_thread.c:558-623).                                                  *)
LEMMA NamedFacts ==
  ASSUME ThreadAssumption, ThreadIInv, NEW t \in Thread, MayName(t)
  PROVE  /\ basic_data[t] = "live"
         /\ ~tdb[t] => /\ tstate[t] \in {"released", "gone"}
                       /\ \A a \in Actor : joining[a] # t
         /\ tdb[t] => Born(t)
         /\ tdb[t] /\ ~join_waiting[t] => \A a \in Actor : joining[a] # t
  <1>1. DataInv(t) /\ t # NoThread
    BY ControlFacts
  <1>2. basic_data[t] = "live" /\ (~tdb[t] => claimed[t] = "no")
    BY <1>1 DEF MayName, Published, DataInv, Born, Left
  <1>3. /\ ~tdb[t] => tstate[t] \in {"released", "gone"}
        /\ tdb[t] => Born(t)
    BY <1>1 DEF MayName, Published, DataInv, Born, Left
  <1>4. \A a \in Actor : joining[a] = t =>
          claimed[t] = "join" /\ (tdb[t] => join_waiting[t])
    BY <1>1, JoiningFacts
  <1>5. QED
    BY <1>2, <1>3, <1>4

(* pthread_join and pthread_detach. *)
LEMMA JoinKeepsControl ==
  ASSUME ThreadAssumption, ThreadIInv, NEW a \in Actor, NEW t \in Thread,
         Join(a, t)
  PROVE  ControlInv'
  <1>1. /\ ControlTypes /\ CreatingInv /\ JoiningInv /\ DataInv(t)
        /\ t \in Actor /\ t # NoThread
    BY ControlFacts
  <1>2. /\ tstate[a] = "running" /\ creating[a] = NoThread
        /\ joining[a] = NoThread /\ MayName(t)
        /\ UNCHANGED <<tstate, joinable, exitJoinable, status, tdb, creating>>
    BY DEF Join, Idle
  <1>3. CASE UNCHANGED <<join_waiting, joining, basic_data, claimed>>
    BY <1>1, <1>2, <1>3, ControlFacts
    DEF ControlInv, CreatingInv, JoiningInv, DataInv, Born, Left
  <1>4. CASE /\ tdb[t] /\ joinable[t] /\ ~join_waiting[t]
             /\ join_waiting' = [join_waiting EXCEPT ![t] = TRUE]
             /\ joining' = [joining EXCEPT ![a] = t]
             /\ Claim(t, "join")
             /\ UNCHANGED basic_data
    <2>1. /\ Born(t) /\ basic_data[t] = "live"
          /\ \A b \in Actor : joining[b] # t
      BY <1>2, <1>4, NamedFacts
    <2>2. /\ \A u \in Thread : u # t => SameThread(u)
          /\ claimed'[t] = "join" /\ join_waiting'[t]
          /\ \A b \in Actor : joining'[b] = IF b = a THEN t ELSE joining[b]
      BY <1>1, <1>2, <1>4 DEF SameThread, ControlTypes, Claim
    <2>3. CreatingInv'
      BY <1>1, <1>2, <2>2 DEF CreatingInv
    <2>4. tstate[t] \in Joined
      BY <1>2 DEF MayName, Published, Joined
    <2>5. JoiningInv'
      <3> SUFFICES ASSUME NEW b \in Actor, joining'[b] # NoThread
                   PROVE  LET u == joining'[b]
                          IN  /\ tstate'[b] = "running"
                              /\ tstate'[u] \in Joined
                              /\ basic_data'[u] = "live" \/ tstate'[u] = "none"
                              /\ claimed'[u] = "join"
                              /\ tdb'[u] => join_waiting'[u] /\ joinable'[u]
                              /\ \A c \in Actor : joining'[c] = u => c = b
        BY DEF JoiningInv
      <3>1. CASE b = a
        BY <1>2, <1>4, <2>1, <2>2, <2>4, <3>1
      <3>2. CASE b # a
        <4>1. /\ joining'[b] = joining[b] /\ joining[b] # NoThread
              /\ joining[b] # t
          BY <2>1, <2>2, <3>2
        <4>2. joining[b] \in Thread /\ SameThread(joining[b])
          BY <2>2, <4>1, JoiningFacts
        <4>3. \A c \in Actor : joining'[c] = joining[b] => c = b
          BY <2>2, <4>1, JoiningFacts
        <4>4. QED
          BY <1>2, <4>1, <4>2, <4>3, JoiningFacts DEF SameThread
      <3>3. QED
        BY <3>1, <3>2
    <2>6. ASSUME NEW u \in Thread PROVE DataInv(u)'
      <3>1. CASE u = t
        BY <1>1, <1>2, <1>4, <2>1, <2>2, <3>1 DEF DataInv, Born, Left
      <3>2. CASE u # t
        BY <2>2, <3>2, DataStays
      <3>3. QED
        BY <3>1, <3>2
    <2>7. QED
      BY <2>3, <2>5, <2>6 DEF ControlInv
  <1>5. CASE /\ ~tdb[t]
             /\ Free(t)
             /\ Claim(t, "join")
             /\ UNCHANGED <<join_waiting, joining>>
    <2>1. /\ tstate[t] \in {"released", "gone"}
          /\ \A b \in Actor : joining[b] # t
      BY <1>2, <1>5, NamedFacts
    <2>2. /\ \A u \in Thread : u # t => SameThread(u)
          /\ claimed'[t] = "join"
      BY <1>1, <1>2, <1>5 DEF SameThread, ControlTypes, Claim, Free
    <2>3. CreatingInv'
      BY <1>1, <1>2, <1>5 DEF CreatingInv
    <2>4. \A b \in Actor : joining'[b] # NoThread =>
            joining'[b] = joining[b] /\ SameThread(joining[b])
      BY <1>5, <2>1, <2>2, JoiningFacts
    <2>5. JoiningInv'
      BY <1>1, <1>2, <1>5, <2>4 DEF JoiningInv, SameThread
    <2>6. ASSUME NEW u \in Thread PROVE DataInv(u)'
      <3>1. CASE u = t
        BY <1>1, <1>2, <1>5, <2>1, <2>2, <3>1 DEF DataInv, Born, Left
      <3>2. CASE u # t
        BY <2>2, <3>2, DataStays
      <3>3. QED
        BY <3>1, <3>2
    <2>7. QED
      BY <2>3, <2>5, <2>6 DEF ControlInv
  <1>6. QED
    BY <1>3, <1>4, <1>5 DEF Join

(* A thread that has been joined is gone from the joiner's call too. *)
LEMMA JoinAwakeKeepsControl ==
  ASSUME ThreadAssumption, ThreadIInv, NEW a \in Actor, JoinAwake(a)
  PROVE  ControlInv'
  <1> DEFINE t == joining[a]
  <1>1. ControlTypes /\ CreatingInv /\ JoiningInv
    BY ControlFacts
  <1>2. /\ t # NoThread
        /\ UNCHANGED <<tstate, joinable, join_waiting, exitJoinable, status,
                       tdb, claimed, creating>>
    BY DEF JoinAwake
  <1>3. /\ t \in Thread /\ claimed[t] = "join"
        /\ \A b \in Actor : joining[b] = t => b = a
    BY <1>2, JoiningFacts
  <1>4. CASE UNCHANGED <<basic_data, joining>>
    BY <1>1, <1>2, <1>4, ControlFacts
    DEF ControlInv, CreatingInv, JoiningInv, DataInv, Born, Left
  <1>5. CASE /\ status[t] /\ Free(t)
             /\ joining' = [joining EXCEPT ![a] = NoThread]
    <2> HIDE DEF t
    <2>1. /\ \A u \in Thread : u # t => SameThread(u)
          /\ \A b \in Actor : joining'[b] = IF b = a THEN NoThread
                                                     ELSE joining[b]
      BY <1>1, <1>2, <1>5 DEF SameThread, ControlTypes, Free
    <2>2. CreatingInv'
      BY <1>1, <1>2, <2>1 DEF CreatingInv
    <2>3. \A b \in Actor : joining'[b] # NoThread =>
            joining'[b] = joining[b] /\ SameThread(joining[b])
      BY <1>3, <2>1, JoiningFacts
    <2>4. JoiningInv'
      BY <1>1, <1>2, <2>3, GoingOn, JoiningFacts, CreatingFacts, <2>2
      DEF SameThread, CreatingInv
    <2>5. ASSUME NEW u \in Thread PROVE DataInv(u)'
      <3>1. CASE u = t
        <4>1. DataInv(t)
          BY <1>3, ControlFacts
        <4>2. QED
          BY <1>2, <1>3, <1>5, <3>1, <4>1 DEF DataInv, Born, Left
      <3>2. CASE u # t
        BY <2>1, <3>2, DataStays
      <3>3. QED
        BY <3>1, <3>2
    <2>6. QED
      BY <2>2, <2>4, <2>5 DEF ControlInv
  <1>6. QED
    BY <1>4, <1>5 DEF JoinAwake

LEMMA DetachKeepsControl ==
  ASSUME ThreadAssumption, ThreadIInv, NEW a \in Actor, NEW t \in Thread,
         Detach(a, t)
  PROVE  ControlInv'
  <1>1. /\ ControlTypes /\ CreatingInv /\ JoiningInv /\ DataInv(t)
        /\ t \in Actor /\ t # NoThread
    BY ControlFacts
  <1>2. /\ MayName(t)
        /\ UNCHANGED <<tstate, join_waiting, exitJoinable, status, tdb,
                       creating, joining>>
    BY DEF Detach, callVars
  <1>3. CreatingInv'
    BY <1>1, <1>2 DEF CreatingInv
  <1>4. CASE UNCHANGED <<joinable, basic_data, claimed>>
    BY <1>1, <1>2, <1>3, <1>4, ControlFacts
    DEF ControlInv, JoiningInv, DataInv, Born, Left
  <1>5. CASE \/ ~tdb[t] /\ Free(t) /\ Claim(t, "detach") /\ UNCHANGED joinable
             \/ /\ tdb[t] /\ joinable[t] /\ ~join_waiting[t]
                /\ joinable' = [joinable EXCEPT ![t] = FALSE]
                /\ Claim(t, IF exitJoinable[t] THEN "late" ELSE "detach")
                /\ UNCHANGED basic_data
    <2>1. /\ \A b \in Actor : joining[b] # t
          /\ basic_data[t] = "live"
          /\ ~tdb[t] => tstate[t] \in {"released", "gone"}
          /\ tdb[t] => Born(t)
      BY <1>2, <1>5, NamedFacts
    <2>2. /\ \A u \in Thread : u # t => SameThread(u)
          /\ \/ claimed'[t] = "detach" /\ (tdb[t] => ~exitJoinable[t])
             \/ claimed'[t] = "late"
      BY <1>1, <1>2, <1>5 DEF SameThread, ControlTypes, Claim, Free
    <2>3. \A b \in Actor : joining'[b] # NoThread =>
            joining'[b] = joining[b] /\ SameThread(joining[b])
      BY <1>2, <2>1, <2>2, JoiningFacts
    <2>4. JoiningInv'
      BY <1>1, <1>2, <2>3 DEF JoiningInv, SameThread
    <2>5. ASSUME NEW u \in Thread PROVE DataInv(u)'
      <3>1. CASE u = t
        <4>1. /\ tdb[t] => ~joinable'[t] /\ basic_data' = basic_data
              /\ ~tdb[t] => basic_data'[t] = "freed"
          BY <1>1, <1>5 DEF ControlTypes, Free
        <4>2. QED
          BY <1>1, <1>2, <2>1, <2>2, <3>1, <4>1 DEF DataInv, Born, Left
      <3>2. CASE u # t
        BY <2>2, <3>2, DataStays
      <3>3. QED
        BY <3>1, <3>2
    <2>6. QED
      BY <1>3, <2>4, <2>5 DEF ControlInv
  <1>6. QED
    BY <1>4, <1>5 DEF Detach

(* Every step keeps track of who is about which thread. *)
LEMMA ControlStep ==
  ASSUME ThreadAssumption, ThreadIInv, [Next]_vars
  PROVE  ControlInv'
  <1>1. CASE \E a \in Actor, t \in Thread :
               Create(a, t) \/ Join(a, t) \/ Detach(a, t)
    BY <1>1, CreateKeepsControl, JoinKeepsControl, DetachKeepsControl
  <1>2. CASE \E a \in Actor :
               CreateStart(a) \/ CreateUncount(a) \/ CreateCleanup(a)
    BY <1>2, CreatePartKeepsControl
  <1>3. CASE \/ \E a \in Actor : ExitBegin(a)
             \/ \E t \in Thread :
                  ExitUncount(t) \/ ExitRelease(t) \/ ThreadExit(t)
             \/ MainWaits
    BY <1>3, ExitKeepsControl
  <1>4. CASE \E a \in Actor : JoinAwake(a)
    BY <1>4, JoinAwakeKeepsControl
  <1>5. CASE (\E a \in Actor : CondSpurious(a)) \/ UNCHANGED vars
    <2>1. UNCHANGED <<tstate, joinable, join_waiting, exitJoinable, basic_data,
                      status, tdb, claimed, creating, joining>>
      BY <1>5 DEF CondSpurious, vars, dataVars, callVars
    <2>2. QED
      BY <2>1, ControlFacts
      DEF ControlInv, CreatingInv, JoiningInv, DataInv, Born, Left
  <1>6. QED
    BY <1>1, <1>2, <1>3, <1>4, <1>5, StepOfOne

(* A join that has begun goes on as long as there is data to come back to. *)
LEMMA JoinedStep ==
  ASSUME ThreadAssumption, ThreadIInv, [Next]_vars
  PROVE  JoinedInv'
  <1>1. /\ ControlTypes /\ JoinedInv
        /\ \A t \in Thread : t \in Actor /\ DataInv(t)
        /\ NoThread \notin Actor /\ NoThread \notin Thread
        /\ Main \in Actor /\ Main \notin Thread
    BY ControlFacts DEF ThreadIInv, ThreadAssumption
  <1>2. SUFFICES ASSUME NEW t \in Thread, claimed'[t] = "join",
                        Born(t)' \/ Left(t)'
                 PROVE  \E a \in Actor : joining'[a] = t
    BY DEF JoinedInv, IsJoined
  <1>3. claimed[t] = "join" /\ (Born(t) \/ Left(t))
          => \E a \in Actor : joining[a] = t
    BY <1>1 DEF JoinedInv, IsJoined
  <1>4. ASSUME SameThread(t), \A a \in Actor : joining[a] = t => joining'[a] = t
        PROVE  \E a \in Actor : joining'[a] = t
    BY <1>2, <1>3, <1>4 DEF SameThread, Born, Left
  <1>5. ASSUME joining' = joining, claimed'[t] = claimed[t],
               Born(t) \/ Left(t)
        PROVE  \E a \in Actor : joining'[a] = t
    BY <1>2, <1>3, <1>5
  <1>6. ASSUME NEW c \in Actor, NEW u \in Thread, Create(c, u)
        PROVE  \E a \in Actor : joining'[a] = t
    <2>1. /\ \A v \in Thread : v # u => SameThread(v)
          /\ joining' = joining
          /\ tstate'[u] = "failed" \/ tstate'[u] = "starting"
      BY <1>6, CreateData
    <2>2. CASE t = u
      <3>1. tstate'[t] = "starting"
        BY <1>2, <2>1, <2>2 DEF Born, Left
      <3>2. \E d \in BOOLEAN :
              claimed' = [claimed EXCEPT ![t] = IF d THEN "detach" ELSE "no"]
        <4>1. ~CreateFails(c, t)
          BY <1>1, <3>1 DEF CreateFails, ControlTypes
        <4>2. QED
          BY <1>6, <2>2, <4>1
          DEF Create, CreateNoTls, CreateNoMemory, CreateSucceeds
      <3>3. QED
        BY <1>1, <1>2, <3>2 DEF ControlTypes
    <2>3. QED
      BY <1>4, <2>1, <2>2
  <1>7. ASSUME NEW c \in Actor,
               CreateStart(c) \/ CreateUncount(c) \/ CreateCleanup(c)
        PROVE  \E a \in Actor : joining'[a] = t
    <2>1. PICK u \in Thread : u = creating[c]
      BY <1>7, CreatingFacts DEF CreateStart, CreateUncount, CreateCleanup
    <2>2. joining' = joining /\ claimed' = claimed
      BY <1>7 DEF CreateStart, CreateUncount, CreateCleanup, dataVars, callVars
    <2>3. CASE CreateStart(c) \/ CreateUncount(c)
      <3>1. /\ tstate[u] \in {"starting", "notstarted"}
            /\ tstate' = [tstate EXCEPT ![u] = tstate'[u]]
            /\ basic_data' = basic_data
        BY <1>1, <2>1, <2>3
        DEF CreateStart, CreateUncount, dataVars, ControlTypes
      <3>2. Born(t) \/ Left(t)
        BY <1>1, <1>2, <3>1 DEF Born, Left, ControlTypes
      <3>3. QED
        BY <1>5, <2>2, <3>2
    <2>4. CASE CreateCleanup(c)
      <3>1. /\ tstate' = [tstate EXCEPT ![u] = "none"]
            /\ basic_data' = [basic_data EXCEPT ![u] = "freed"]
        BY <2>1, <2>4 DEF CreateCleanup
      <3>2. t # u
        BY <1>1, <1>2, <3>1 DEF Born, Left, ControlTypes
      <3>3. Born(t) \/ Left(t)
        BY <1>1, <1>2, <3>1, <3>2 DEF Born, Left, ControlTypes
      <3>4. QED
        BY <1>5, <2>2, <3>3
    <2>5. QED
      BY <1>7, <2>3, <2>4
  <1>8. ASSUME NEW a \in Actor, ExitBegin(a)
        PROVE  \E b \in Actor : joining'[b] = t
    <2>1. /\ tstate[a] = "running" /\ tstate' = [tstate EXCEPT ![a] = "exiting"]
          /\ UNCHANGED <<basic_data, claimed, joining>>
      BY <1>8 DEF ExitBegin, Idle, callVars
    <2>2. Born(t) \/ Left(t)
      BY <1>1, <1>2, <2>1 DEF Born, Left, ControlTypes
    <2>3. QED
      BY <1>5, <2>1, <2>2
  <1>9. ASSUME NEW u \in Thread,
               ExitUncount(u) \/ ExitRelease(u) \/ ThreadExit(u)
        PROVE  \E b \in Actor : joining'[b] = t
    <2>1. /\ tstate[u] \in {"exiting", "uncounted", "released"}
          /\ tstate' = [tstate EXCEPT ![u] = tstate'[u]]
          /\ tstate[u] = "released" => tstate'[u] = "gone"
          /\ UNCHANGED <<claimed, joining>>
          /\ \/ basic_data' = basic_data
             \/ /\ tstate[u] = "uncounted"
                /\ basic_data' = [basic_data EXCEPT ![u] = basic_data'[u]]
      BY <1>1, <1>9
      DEF ExitUncount, ExitRelease, ThreadExit, dataVars, callVars, ControlTypes
    <2>2. Born(t) \/ Left(t)
      <3>1. CASE t = u /\ tstate[u] # "released"
        BY <2>1, <3>1 DEF Born
      <3>2. CASE t = u /\ tstate[u] = "released"
        BY <1>1, <1>2, <2>1, <3>2 DEF Born, Left, ControlTypes
      <3>3. CASE t # u
        <4>1. tstate'[t] = tstate[t] /\ basic_data'[t] = basic_data[t]
          BY <1>1, <2>1, <3>3 DEF ControlTypes
        <4>2. QED
          BY <1>2, <4>1 DEF Born, Left
      <3>4. QED
        BY <3>1, <3>2, <3>3
    <2>3. QED
      BY <1>5, <2>1, <2>2
  <1>10. ASSUME NEW a \in Actor, NEW u \in Thread, Join(a, u)
         PROVE  \E b \in Actor : joining'[b] = t
    <2>1. joining[a] = NoThread /\ UNCHANGED <<tstate, tdb>>
      BY <1>10 DEF Join, Idle
    <2>2. CASE UNCHANGED <<joining, basic_data, claimed>>
      BY <1>2, <1>5, <2>1, <2>2 DEF Born, Left
    <2>3. CASE /\ joining' = [joining EXCEPT ![a] = u]
               /\ Claim(u, "join") /\ UNCHANGED basic_data
      <3>1. CASE t = u
        BY <1>1, <2>3, <3>1 DEF ControlTypes
      <3>2. CASE t # u
        <4>1. claimed'[t] = claimed[t] /\ (Born(t) \/ Left(t))
          BY <1>1, <1>2, <2>1, <2>3, <3>2 DEF Claim, Born, Left, ControlTypes
        <4>2. PICK b \in Actor : joining[b] = t
          BY <1>2, <1>3, <4>1
        <4>3. b # a
          BY <1>1, <2>1, <4>2
        <4>4. joining'[b] = t
          BY <1>1, <2>3, <4>2, <4>3 DEF ControlTypes
        <4>5. QED
          BY <4>4
      <3>3. QED
        BY <3>1, <3>2
    <2>4. CASE ~tdb[u] /\ Free(u) /\ Claim(u, "join") /\ UNCHANGED joining
      <3>1. t # u
        BY <1>1, <1>2, <2>1, <2>4 DEF Free, DataInv, Born, Left, ControlTypes
      <3>2. claimed'[t] = claimed[t] /\ (Born(t) \/ Left(t))
        BY <1>1, <1>2, <2>1, <2>4, <3>1
        DEF Claim, Free, Born, Left, ControlTypes
      <3>3. QED
        BY <1>5, <2>4, <3>2
    <2>5. QED
      BY <1>10, <2>2, <2>3, <2>4 DEF Join
  <1>11. ASSUME NEW a \in Actor, JoinAwake(a)
         PROVE  \E b \in Actor : joining'[b] = t
    <2>1. PICK u \in Thread : u = joining[a]
      BY <1>11, JoiningFacts DEF JoinAwake
    <2>2. UNCHANGED <<tstate, claimed, status>>
      BY <1>11 DEF JoinAwake
    <2>3. CASE UNCHANGED <<basic_data, joining>>
      BY <1>2, <1>5, <2>2, <2>3 DEF Born, Left
    <2>4. CASE /\ status[u] /\ Free(u)
               /\ joining' = [joining EXCEPT ![a] = NoThread]
      <3>1. t # u
        BY <1>1, <1>2, <2>2, <2>4 DEF Free, DataInv, Born, Left, ControlTypes
      <3>2. Born(t) \/ Left(t)
        BY <1>1, <1>2, <2>2, <2>4, <3>1 DEF Free, Born, Left, ControlTypes
      <3>3. PICK b \in Actor : joining[b] = t
        BY <1>2, <1>3, <2>2, <3>2
      <3>4. joining'[b] = t
        BY <1>1, <2>1, <2>4, <3>1, <3>3 DEF ControlTypes
      <3>5. QED
        BY <3>4
    <2>5. QED
      BY <1>11, <2>1, <2>3, <2>4 DEF JoinAwake
  <1>12. ASSUME NEW a \in Actor, NEW u \in Thread, Detach(a, u)
         PROVE  \E b \in Actor : joining'[b] = t
    <2>1. UNCHANGED <<tstate, joining>>
      BY <1>12 DEF Detach, callVars
    <2>2. CASE UNCHANGED <<basic_data, claimed>>
      BY <1>2, <1>5, <2>1, <2>2 DEF Born, Left
    <2>3. ASSUME NEW how \in {"detach", "late"}, Claim(u, how),
                 Free(u) \/ UNCHANGED basic_data
          PROVE  \E b \in Actor : joining'[b] = t
      <3>1. t # u
        BY <1>1, <1>2, <2>3 DEF Claim, ControlTypes
      <3>2. claimed'[t] = claimed[t] /\ (Born(t) \/ Left(t))
        BY <1>1, <1>2, <2>1, <2>3, <3>1
        DEF Claim, Free, Born, Left, ControlTypes
      <3>3. QED
        BY <1>5, <2>1, <3>2
    <2>4. QED
      BY <1>12, <2>2, <2>3 DEF Detach
  <1>13. ASSUME MainWaits
         PROVE  \E b \in Actor : joining'[b] = t
    <2>1. /\ tstate' = [tstate EXCEPT ![Main] = tstate'[Main]]
          /\ UNCHANGED <<basic_data, claimed, joining>>
      BY <1>1, <1>13 DEF MainWaits, dataVars, ControlTypes
    <2>2. Born(t) \/ Left(t)
      BY <1>1, <1>2, <2>1 DEF Born, Left, ControlTypes
    <2>3. QED
      BY <1>5, <2>1, <2>2
  <1>14. CASE (\E a \in Actor : CondSpurious(a)) \/ UNCHANGED vars
    <2>1. UNCHANGED <<tstate, basic_data, claimed, joining>>
      BY <1>14 DEF CondSpurious, vars, dataVars, callVars
    <2>2. QED
      BY <1>2, <1>5, <2>1 DEF Born, Left
  <1>15. QED
    BY <1>6, <1>7, <1>8, <1>9, <1>10, <1>11, <1>12, <1>13, <1>14, StepOfOne

(* The data keeps its types. *)
LEMMA TypesStep ==
  ASSUME ThreadAssumption, ThreadIInv, [Next]_vars
  PROVE  ControlTypes' /\ woken' \in [Actor -> BOOLEAN]
  <1>1. /\ ControlTypes /\ woken \in [Actor -> BOOLEAN]
        /\ \A t \in Thread : t \in Actor
        /\ Main \in Actor
        /\ ThreadState = {"none", "starting", "notstarted", "withdrawn",
                          "failed", "running", "exiting", "uncounted",
                          "released", "waiting", "gone"}
    BY ControlFacts DEF ThreadIInv, ThreadTypeOK, ThreadState
  <1>2. tstate' \in [Actor -> ThreadState]
    BY HeapStep DEF HeapTypes
  <1>3. CASE \E a \in Actor, t \in Thread : Create(a, t)
    <2>1. PICK a \in Actor, t \in Thread : Create(a, t)
      BY <1>3
    <2>2. CASE CreateNoTls(a, t)
      BY <1>1, <1>2, <2>2 DEF CreateNoTls, CreateFails, ControlTypes
    <2>3. ASSUME NEW s \in Size, CreateNoMemory(a, t, s)
          PROVE  ControlTypes' /\ woken' \in [Actor -> BOOLEAN]
      <3>1. /\ CreateFails(a, t)
            /\ \/ UNCHANGED <<basic_data, tdb>>
               \/ /\ basic_data' = [basic_data EXCEPT ![t] = "live"]
                  /\ tdb' = [tdb EXCEPT ![t] = TRUE]
        BY <2>3 DEF CreateNoMemory
      <3>2. /\ creating' = [creating EXCEPT ![a] = t]
            /\ UNCHANGED <<joinable, join_waiting, exitJoinable, status,
                           claimed, joining, woken>>
        BY <3>1 DEF CreateFails
      <3>3. /\ basic_data' \in [Thread -> {"none", "live", "freed"}]
            /\ tdb' \in [Thread -> BOOLEAN]
        BY <1>1, <3>1 DEF ControlTypes
      <3>4. creating' \in [Actor -> Thread \cup {NoThread}]
        BY <1>1, <3>2 DEF ControlTypes
      <3>5. QED
        BY <1>1, <1>2, <3>2, <3>3, <3>4 DEF ControlTypes
    <2>4. ASSUME NEW s \in Size, NEW d \in BOOLEAN, CreateSucceeds(a, t, s, d)
          PROVE  ControlTypes' /\ woken' \in [Actor -> BOOLEAN]
      <3>1. /\ joinable' = [joinable EXCEPT ![t] = ~d]
            /\ join_waiting' = [join_waiting EXCEPT ![t] = FALSE]
            /\ status' = [status EXCEPT ![t] = FALSE]
            /\ claimed' = [claimed EXCEPT ![t] = IF d THEN "detach" ELSE "no"]
            /\ basic_data' = [basic_data EXCEPT ![t] = "live"]
            /\ tdb' = [tdb EXCEPT ![t] = TRUE]
            /\ creating' = [creating EXCEPT ![a] = t]
            /\ UNCHANGED <<exitJoinable, joining, woken>>
        BY <2>4 DEF CreateSucceeds
      <3>2. QED
        BY <1>1, <1>2, <3>1 DEF ControlTypes
    <2>5. QED
      BY <2>1, <2>2, <2>3, <2>4 DEF Create
  <1>4. CASE \E a \in Actor, t \in Thread : Join(a, t)
    <2>1. PICK a \in Actor, t \in Thread : Join(a, t)
      BY <1>4
    <2>2. /\ UNCHANGED <<joinable, exitJoinable, status, tdb, creating, woken>>
          /\ \/ join_waiting' = join_waiting
             \/ join_waiting' = [join_waiting EXCEPT ![t] = TRUE]
          /\ joining' = joining \/ joining' = [joining EXCEPT ![a] = t]
          /\ \/ basic_data' = basic_data
             \/ basic_data' = [basic_data EXCEPT ![t] = "freed"]
          /\ \/ claimed' = claimed
             \/ claimed' = [claimed EXCEPT ![t] = "join"]
      BY <2>1 DEF Join, Claim, Free
    <2>3. join_waiting' \in [Thread -> BOOLEAN]
      BY <1>1, <2>2 DEF ControlTypes
    <2>4. joining' \in [Actor -> Thread \cup {NoThread}]
      BY <1>1, <2>2 DEF ControlTypes
    <2>5. /\ basic_data' \in [Thread -> {"none", "live", "freed"}]
          /\ claimed' \in [Thread -> {"no", "join", "detach", "late"}]
      BY <1>1, <2>2 DEF ControlTypes
    <2>6. QED
      BY <1>1, <1>2, <2>2, <2>3, <2>4, <2>5 DEF ControlTypes
  <1>5. CASE \E a \in Actor, t \in Thread : Detach(a, t)
    <2>1. PICK a \in Actor, t \in Thread : Detach(a, t)
      BY <1>5
    <2>2. /\ UNCHANGED <<join_waiting, exitJoinable, status, tdb, creating,
                         joining, woken>>
          /\ \/ joinable' = joinable
             \/ joinable' = [joinable EXCEPT ![t] = FALSE]
          /\ \/ basic_data' = basic_data
             \/ basic_data' = [basic_data EXCEPT ![t] = "freed"]
          /\ \/ claimed' = claimed
             \/ claimed' = [claimed EXCEPT ![t] = "detach"]
             \/ claimed' = [claimed EXCEPT ![t] = "late"]
      BY <2>1 DEF Detach, Claim, Free, callVars
    <2>3. joinable' \in [Thread -> BOOLEAN]
      BY <1>1, <2>2 DEF ControlTypes
    <2>4. /\ basic_data' \in [Thread -> {"none", "live", "freed"}]
          /\ claimed' \in [Thread -> {"no", "join", "detach", "late"}]
      BY <1>1, <2>2 DEF ControlTypes
    <2>5. QED
      BY <1>1, <1>2, <2>2, <2>3, <2>4 DEF ControlTypes
  <1>6. CASE \E a \in Actor : CreateStart(a) \/ CreateUncount(a)
    <2>1. PICK a \in Actor : CreateStart(a) \/ CreateUncount(a)
      BY <1>6
    <2>2. /\ UNCHANGED <<joinable, join_waiting, exitJoinable, basic_data,
                         status, tdb, claimed, joining, woken>>
          /\ \/ creating' = creating
             \/ creating' = [creating EXCEPT ![a] = NoThread]
      BY <2>1 DEF CreateStart, CreateUncount, dataVars, callVars
    <2>3. QED
      BY <1>1, <1>2, <2>2 DEF ControlTypes
  <1>7. CASE \E a \in Actor : CreateCleanup(a)
    <2>1. PICK a \in Actor : CreateCleanup(a)
      BY <1>7
    <2>2. PICK t \in Thread : t = creating[a]
      BY <2>1, CreatingFacts DEF CreateCleanup
    <2>3. /\ basic_data' = [basic_data EXCEPT ![t] = "freed"]
          /\ tdb' = [tdb EXCEPT ![t] = FALSE]
          /\ creating' = [creating EXCEPT ![a] = NoThread]
          /\ joinable' = [joinable EXCEPT ![t] = FALSE]
          /\ join_waiting' = [join_waiting EXCEPT ![t] = FALSE]
          /\ UNCHANGED <<exitJoinable, status, claimed, joining, woken>>
      BY <2>1, <2>2 DEF CreateCleanup, Reset
    <2>4. QED
      BY <1>1, <1>2, <2>3 DEF ControlTypes
  <1>8. CASE \E a \in Actor : ExitBegin(a)
    BY <1>1, <1>2, <1>8 DEF ExitBegin, callVars, ControlTypes
  <1>9. CASE \E a \in Actor : JoinAwake(a)
    <2>1. PICK a \in Actor : JoinAwake(a)
      BY <1>9
    <2>2. PICK t \in Thread : t = joining[a]
      BY <2>1, JoiningFacts DEF JoinAwake
    <2>3. QED
      BY <1>1, <1>2, <2>1, <2>2 DEF JoinAwake, Free, ControlTypes
  <1>10. CASE \E a \in Actor : CondSpurious(a)
    BY <1>1, <1>2, <1>10 DEF CondSpurious, dataVars, ControlTypes
  <1>11. CASE \E t \in Thread : ExitUncount(t) \/ ThreadExit(t)
    <2>1. UNCHANGED <<joinable, join_waiting, exitJoinable, basic_data,
                      status, tdb, claimed, creating, joining, woken>>
      BY <1>11 DEF ExitUncount, ThreadExit, dataVars, callVars
    <2>2. QED
      BY <1>1, <1>2, <2>1 DEF ControlTypes
  <1>12. CASE \E t \in Thread : ExitRelease(t)
    <2>1. PICK t \in Thread : ExitRelease(t)
      BY <1>12
    <2>2. /\ status' = [status EXCEPT ![t] = exitJoinable[t]]
          /\ tdb' = [tdb EXCEPT ![t] = FALSE]
          /\ basic_data' = [basic_data EXCEPT
                              ![t] = IF exitJoinable[t] THEN @ ELSE "freed"]
          /\ joinable' = [joinable EXCEPT ![t] = FALSE]
          /\ join_waiting' = [join_waiting EXCEPT ![t] = FALSE]
          /\ exitJoinable' = [exitJoinable EXCEPT ![t] = FALSE]
          /\ UNCHANGED <<claimed, creating, joining>>
      BY <2>1 DEF ExitRelease, Reset
    <2>3. \E S : woken' = [a \in Actor |->
                             woken[a] \/ a \in S \cup LastThreadWaiter]
      BY <2>1 DEF ExitRelease
    <2>4. woken' \in [Actor -> BOOLEAN]
      BY <1>1, <2>3
    <2>5. QED
      BY <1>1, <1>2, <2>2, <2>4 DEF ControlTypes
  <1>13. CASE MainWaits
    BY <1>1, <1>2, <1>13 DEF MainWaits, dataVars, ControlTypes
  <1>14. CASE UNCHANGED vars
    BY <1>1, <1>2, <1>14 DEF vars, dataVars, callVars, ControlTypes
  <1>15. QED
    BY <1>3, <1>4, <1>5, <1>6, <1>7, <1>8, <1>9, <1>10, <1>11, <1>12, <1>13,
       <1>14, StepOfOne

-----------------------------------------------------------------------------
(* The count of running threads. *)

Counted == {t \in Thread : tstate[t] \in {"starting", "notstarted", "running",
                                          "exiting"}}

(* CounterIsRight, with a name for the set. *)
Balanced ==
  /\ __nc_running_threads_counter = 1 + Cardinality(Counted)
  /\ tstate[Main] = "gone" => __nc_running_threads_counter = 1

(* One thread more, one fewer, or the same ones. *)
LEMMA CountChanges ==
  ASSUME ThreadAssumption, ThreadIInv, NEW t \in Thread, NEW s,
         \A u \in Thread : tstate'[u] = IF u = t THEN s ELSE tstate[u]
  PROVE  /\ IsFiniteSet(Counted) /\ Cardinality(Counted) \in Nat
         /\ t \in Counted /\ s \in {"withdrawn", "uncounted"} =>
              Cardinality(Counted') = Cardinality(Counted) - 1
         /\ t \notin Counted /\ s = "starting" =>
              Cardinality(Counted') = Cardinality(Counted) + 1
         /\ (t \in Counted <=> s \in {"starting", "notstarted", "running",
                                      "exiting"}) => Counted' = Counted
  <1>1. IsFiniteSet(Counted)
    <2>1. Counted \subseteq Thread /\ IsFiniteSet(Thread)
      BY DEF Counted, ThreadAssumption
    <2>2. QED
      BY <2>1, FS_Subset
  <1>2. Cardinality(Counted) \in Nat
    BY <1>1, FS_CardinalityType
  <1>3. t \in Counted /\ s \in {"withdrawn", "uncounted"} =>
          Cardinality(Counted') = Cardinality(Counted) - 1
    <2>1. SUFFICES ASSUME t \in Counted, s \in {"withdrawn", "uncounted"}
                   PROVE  Cardinality(Counted') = Cardinality(Counted) - 1
      OBVIOUS
    <2>2. Counted' = Counted \ {t}
      BY <2>1 DEF Counted
    <2>3. QED
      BY <1>1, <2>1, <2>2, FS_RemoveElement
  <1>4. t \notin Counted /\ s = "starting" =>
          Cardinality(Counted') = Cardinality(Counted) + 1
    <2>1. SUFFICES ASSUME t \notin Counted, s = "starting"
                   PROVE  Cardinality(Counted') = Cardinality(Counted) + 1
      OBVIOUS
    <2>2. Counted' = Counted \cup {t}
      BY <2>1 DEF Counted
    <2>3. QED
      BY <1>1, <2>1, <2>2, FS_AddElement
  <1>5. (t \in Counted <=> s \in {"starting", "notstarted", "running",
                                  "exiting"}) => Counted' = Counted
    BY DEF Counted
  <1>6. QED
    BY <1>1, <1>2, <1>3, <1>4, <1>5

(* Every step keeps count: a thread is counted before it is started, and   *)
(* until pthread_exit, or a failed start, uncounts it (nc_thread.c:406-425,*)
(* 448, 470, 549).                                                         *)
LEMMA CounterStep ==
  ASSUME ThreadAssumption, ThreadIInv, [Next]_vars
  PROVE  CounterIsRight'
  <1>1. /\ tstate \in [Actor -> ThreadState]
        /\ Main \in Actor /\ Main \notin Thread
        /\ \A t \in Thread : t \in Actor
    BY ControlFacts DEF ControlTypes
  <1>2. Balanced
    BY DEF ThreadIInv, CounterIsRight, Balanced, Counted
  <1>3. SUFFICES Balanced'
    BY DEF CounterIsRight, Balanced, Counted
  <1>4. ASSUME NEW t \in Thread, NEW s, tstate[Main] # "gone",
               tstate' = [tstate EXCEPT ![t] = s],
               \/ /\ t \in Counted /\ s \in {"withdrawn", "uncounted"}
                  /\ __nc_running_threads_counter'
                       = __nc_running_threads_counter - 1
               \/ /\ t \notin Counted /\ s = "starting"
                  /\ __nc_running_threads_counter'
                       = __nc_running_threads_counter + 1
               \/ /\ t \in Counted <=> s \in {"starting", "notstarted",
                                              "running", "exiting"}
                  /\ __nc_running_threads_counter'
                       = __nc_running_threads_counter
        PROVE  Balanced'
    <2>1. /\ \A u \in Thread : tstate'[u] = IF u = t THEN s ELSE tstate[u]
          /\ tstate'[Main] = tstate[Main]
      BY <1>1, <1>4
    <2>2. /\ Cardinality(Counted) \in Nat
          /\ t \in Counted /\ s \in {"withdrawn", "uncounted"} =>
               Cardinality(Counted') = Cardinality(Counted) - 1
          /\ t \notin Counted /\ s = "starting" =>
               Cardinality(Counted') = Cardinality(Counted) + 1
          /\ (t \in Counted <=> s \in {"starting", "notstarted", "running",
                                       "exiting"}) => Counted' = Counted
      BY <2>1, CountChanges
    <2>3. QED
      BY <1>2, <1>4, <2>1, <2>2 DEF Balanced
  <1>5. CASE UNCHANGED <<tstate, __nc_running_threads_counter>>
    BY <1>2, <1>5 DEF Counted, Balanced
  <1>6. CASE UNCHANGED vars
    BY <1>5, <1>6 DEF vars
  <1>7. CASE Next
    <2>1. tstate[Main] # "gone"
      BY <1>7, StepOfOne
    <2>2. ASSUME NEW a \in Actor, NEW t \in Thread, Create(a, t)
          PROVE  Balanced'
      <3>1. t \notin Counted
        BY <2>2 DEF Create, Unborn, Counted
      <3>2. \/ CreateFails(a, t)
            \/ /\ tstate' = [tstate EXCEPT ![t] = "starting"]
               /\ __nc_running_threads_counter'
                    = __nc_running_threads_counter + 1
        BY <2>2 DEF Create, CreateNoTls, CreateNoMemory, CreateSucceeds
      <3>3. QED
        BY <1>4, <2>1, <3>1, <3>2 DEF CreateFails
    <2>3. ASSUME NEW a \in Actor, CreateStart(a)
          PROVE  Balanced'
      <3>1. PICK t \in Thread : t = creating[a]
        BY <2>3, CreatingFacts DEF CreateStart
      <3>2. t \in Counted
        BY <2>3, <3>1 DEF CreateStart, Counted
      <3>3. /\ __nc_running_threads_counter' = __nc_running_threads_counter
            /\ \/ tstate' = [tstate EXCEPT ![t] = "running"]
               \/ tstate' = [tstate EXCEPT ![t] = "notstarted"]
        BY <2>3, <3>1 DEF CreateStart
      <3>4. QED
        BY <1>4, <2>1, <3>2, <3>3
    <2>4. ASSUME NEW a \in Actor, CreateUncount(a)
          PROVE  Balanced'
      <3>1. PICK t \in Thread : t = creating[a]
        BY <2>4, CreatingFacts DEF CreateUncount
      <3>2. /\ t \in Counted
            /\ tstate' = [tstate EXCEPT ![t] = "withdrawn"]
            /\ __nc_running_threads_counter' = __nc_running_threads_counter - 1
        BY <2>4, <3>1 DEF CreateUncount, Counted
      <3>3. QED
        BY <1>4, <2>1, <3>2
    <2>5. ASSUME NEW a \in Actor, CreateCleanup(a)
          PROVE  Balanced'
      <3>1. PICK t \in Thread : t = creating[a]
        BY <2>5, CreatingFacts DEF CreateCleanup
      <3>2. /\ t \notin Counted
            /\ tstate' = [tstate EXCEPT ![t] = "none"]
            /\ __nc_running_threads_counter' = __nc_running_threads_counter
        BY <2>5, <3>1 DEF CreateCleanup, Counted
      <3>3. QED
        BY <1>4, <2>1, <3>2
    <2>6. ASSUME NEW a \in Actor, ExitBegin(a)
          PROVE  Balanced'
      <3>1. /\ tstate[a] = "running"
            /\ tstate' = [tstate EXCEPT ![a] = "exiting"]
            /\ __nc_running_threads_counter' = __nc_running_threads_counter
        BY <2>6 DEF ExitBegin, Idle
      <3>2. CASE a \in Thread
        <4>1. a \in Counted
          BY <3>1, <3>2 DEF Counted
        <4>2. QED
          BY <1>4, <2>1, <3>1, <3>2, <4>1
      <3>3. CASE a = Main
        <4>1. Counted' = Counted /\ tstate'[Main] # "gone"
          BY <1>1, <3>1, <3>3 DEF Counted
        <4>2. QED
          BY <1>2, <3>1, <4>1 DEF Balanced
      <3>4. QED
        BY <3>2, <3>3, ControlFacts
    <2>7. ASSUME NEW t \in Thread, ExitUncount(t)
          PROVE  Balanced'
      BY <1>4, <2>1, <2>7 DEF ExitUncount, Counted
    <2>8. ASSUME NEW t \in Thread, ExitRelease(t) \/ ThreadExit(t)
          PROVE  Balanced'
      <3>1. /\ t \notin Counted
            /\ __nc_running_threads_counter' = __nc_running_threads_counter
            /\ \/ tstate' = [tstate EXCEPT ![t] = "released"]
               \/ tstate' = [tstate EXCEPT ![t] = "gone"]
        BY <2>8 DEF ExitRelease, ThreadExit, Counted
      <3>2. QED
        BY <1>4, <2>1, <3>1
    <2>9. ASSUME MainWaits
          PROVE  Balanced'
      <3>1. /\ tstate' = [tstate EXCEPT ![Main] =
                    IF __nc_running_threads_counter = 1 THEN "gone"
                                                        ELSE "waiting"]
            /\ __nc_running_threads_counter' = __nc_running_threads_counter
        BY <2>9 DEF MainWaits
      <3>2. /\ Counted' = Counted
            /\ tstate'[Main] = "gone" => __nc_running_threads_counter = 1
        BY <1>1, <3>1 DEF Counted
      <3>3. QED
        BY <1>2, <3>1, <3>2 DEF Balanced
    <2>10. CASE \/ \E a \in Actor, t \in Thread : Join(a, t) \/ Detach(a, t)
                \/ \E a \in Actor : JoinAwake(a) \/ CondSpurious(a)
      BY <1>5, <2>10 DEF Join, Detach, JoinAwake, CondSpurious
    <2>11. QED
      BY <1>7, <2>2, <2>3, <2>4, <2>5, <2>6, <2>7, <2>8, <2>9, <2>10, StepOfOne
  <1>8. QED
    BY <1>6, <1>7

-----------------------------------------------------------------------------
(* The two signals of pthread_exit. *)

(* What a step may do to the one that is waited for and to who waits.      *)
WaitsOn(a) ==
  /\ joining'[a] = joining[a]
  /\ tstate'[joining[a]] \in {"released", "gone"} =>
       /\ tstate[joining[a]] \in {"released", "gone"}
       /\ status'[joining[a]] = status[joining[a]]
  /\ woken[a] => woken'[a]

(* Whoever joins goes on waiting, has been signalled in this step, or has  *)
(* just begun to wait for a thread that has not ended.                     *)
JoinersFollow ==
  \A a \in Actor : joining'[a] # NoThread =>
    \/ WaitsOn(a)
    \/ status'[joining'[a]] /\ woken'[a]
    \/ tstate'[joining'[a]] \notin {"released", "gone"}

LEMMA FollowedJoiners ==
  ASSUME ThreadIInv, JoinersFollow
  PROVE  \A a \in Actor :
             /\ joining'[a] # NoThread
             /\ tstate'[joining'[a]] \in {"released", "gone"}
           => status'[joining'[a]] /\ woken'[a]
  <1>1. \A a \in Actor :
          joining[a] # NoThread /\ tstate[joining[a]] \in {"released", "gone"}
            => status[joining[a]] /\ woken[a]
    BY DEF ThreadIInv, NoWakeLost
  <1>2. QED
    BY <1>1 DEF JoinersFollow, WaitsOn

(* pthread_exit signals the thread that joins, if there is one.            *)
LEMMA ReleaseWakesJoiner ==
  ASSUME ThreadAssumption, ThreadIInv, NEW t \in Thread, ExitRelease(t)
  PROVE  JoinersFollow
  <1>1. /\ ControlTypes /\ DataInv(t) /\ woken \in [Actor -> BOOLEAN]
        /\ t \in Actor
    BY ControlFacts DEF ThreadIInv, ThreadTypeOK
  <1>2. /\ tstate[t] = "uncounted" /\ joining' = joining
        /\ tstate' = [tstate EXCEPT ![t] = "released"]
        /\ status' = [status EXCEPT ![t] = exitJoinable[t]]
    BY DEF ExitRelease
  <1>3. PICK S \in SUBSET (IF exitJoinable[t] THEN Joiners(t) ELSE {}) :
          /\ S = {} => (IF exitJoinable[t] THEN Joiners(t) ELSE {}) = {}
          /\ woken' = [a \in Actor |->
                         woken[a] \/ a \in S \cup LastThreadWaiter]
    BY DEF ExitRelease
  <1>4. \A a \in Actor : woken[a] => woken'[a]
    BY <1>3
  <1>5. \A a \in Actor : joining[a] = t =>
          exitJoinable[t] /\ \A b \in Actor : joining[b] = t => b = a
    <2>1. Born(t) /\ t # NoThread
      BY <1>1, <1>2, ControlFacts DEF Born
    <2>2. \A a \in Actor : joining[a] = t =>
            claimed[t] = "join" /\ \A b \in Actor : joining[b] = t => b = a
      BY <2>1, JoiningFacts
    <2>3. claimed[t] = "join" => exitJoinable[t]   \* it is joinable still
      BY <1>1, <1>2, <2>1 DEF DataInv
    <2>4. QED
      BY <2>2, <2>3
  <1>6. ASSUME NEW a \in Actor, joining[a] = t
        PROVE  status'[t] /\ woken'[a]
    <2>1. status'[t]
      BY <1>1, <1>2, <1>5, <1>6 DEF ControlTypes
    <2>2. CASE woken[a]
      BY <1>4, <2>1, <2>2
    <2>3. CASE ~woken[a]
      <3>1. a \in Joiners(t) /\ \A b \in Joiners(t) : b = a
        BY <1>5, <1>6, <2>3 DEF Joiners
      <3>2. a \in S
        BY <1>3, <1>5, <1>6, <3>1
      <3>3. QED
        BY <1>3, <2>1, <3>2
    <2>4. QED
      BY <2>2, <2>3
  <1>7. ASSUME NEW a \in Actor, joining[a] # NoThread, joining[a] # t
        PROVE  WaitsOn(a)
    <2>1. joining[a] \in Thread /\ joining[a] \in Actor
      BY <1>7, JoiningFacts
    <2>2. /\ tstate'[joining[a]] = tstate[joining[a]]
          /\ status'[joining[a]] = status[joining[a]]
      BY <1>1, <1>2, <1>7, <2>1 DEF ControlTypes
    <2>3. QED
      BY <1>2, <1>4, <2>2 DEF WaitsOn
  <1>8. QED
    BY <1>2, <1>6, <1>7 DEF JoinersFollow

(* The others leave the threads that are joined, and who joins them.       *)
LEMMA StepFollowsJoiners ==
  ASSUME ThreadAssumption, ThreadIInv, [Next]_vars
  PROVE  JoinersFollow
  <1>1. /\ ControlTypes /\ woken \in [Actor -> BOOLEAN]
        /\ Main \in Actor /\ Main \notin Thread
        /\ \A t \in Thread : t \in Actor
        /\ NoThread \notin Actor
    BY ControlFacts DEF ThreadIInv, ThreadTypeOK
  <1>2. \A a \in Actor : joining[a] # NoThread =>
          /\ joining[a] \in Thread /\ tstate[a] = "running"
          /\ tstate[joining[a]] \in Joined
    BY JoiningFacts
  <1>3. CASE \E a \in Actor, t \in Thread : Create(a, t)
    <2>1. PICK c \in Actor, t \in Thread : Create(c, t)
      BY <1>3
    <2>2. /\ \A u \in Thread : u # t => SameThread(u)
          /\ joining' = joining
      BY <2>1, CreateData
    <2>3. (\A a \in Actor : joining[a] # t) /\ woken' = woken
      BY <2>1 DEF IsJoined, Create, Unborn, CreateNoTls, CreateNoMemory,
                  CreateFails, CreateSucceeds
    <2>4. QED
      BY <1>2, <2>2, <2>3 DEF JoinersFollow, WaitsOn, SameThread
  <1>4. CASE \E a \in Actor :
               CreateStart(a) \/ CreateUncount(a) \/ CreateCleanup(a)
    <2>1. PICK c \in Actor : CreateStart(c) \/ CreateUncount(c)
                                \/ CreateCleanup(c)
      BY <1>4
    <2>2. PICK t \in Thread : t = creating[c]
      BY <2>1, CreatingFacts DEF CreateStart, CreateUncount, CreateCleanup
    <2>3. /\ tstate[t] \in Creation
          /\ UNCHANGED <<joining, status, woken>>
          /\ tstate' = [tstate EXCEPT ![t] = tstate'[t]]
          /\ tstate'[t] \notin {"released", "gone"}
      BY <1>1, <2>1, <2>2, CreatingFacts
      DEF CreateStart, CreateUncount, CreateCleanup, dataVars, callVars,
          ControlTypes
    <2>4. \A u \in Thread : u # t => tstate'[u] = tstate[u]
      BY <1>1, <2>3 DEF ControlTypes
    <2>5. QED
      BY <1>2, <2>3, <2>4 DEF JoinersFollow, WaitsOn
  <1>5. CASE (\E a \in Actor : ExitBegin(a)) \/ \E t \in Thread : ExitUncount(t)
    <2>1. PICK a \in Actor, s \in {"exiting", "uncounted"} :
            /\ tstate' = [tstate EXCEPT ![a] = s]
            /\ UNCHANGED <<joining, status, woken>>
      BY <1>1, <1>5 DEF ExitBegin, ExitUncount, dataVars, callVars
    <2>2. \A u \in Thread : u # a => tstate'[u] = tstate[u]
      BY <1>1, <2>1 DEF ControlTypes
    <2>3. a \in Thread => tstate'[a] \notin {"released", "gone"}
      BY <1>1, <2>1 DEF ControlTypes
    <2>4. QED
      BY <1>2, <2>1, <2>2, <2>3 DEF JoinersFollow, WaitsOn
  <1>6. CASE \E t \in Thread : ExitRelease(t)
    BY <1>6, ReleaseWakesJoiner
  <1>7. CASE \E t \in Thread : ThreadExit(t)
    <2>1. PICK t \in Thread : ThreadExit(t)
      BY <1>7
    <2>2. /\ tstate[t] = "released"
          /\ tstate' = [tstate EXCEPT ![t] = "gone"]
          /\ UNCHANGED <<joining, status, woken>>
      BY <2>1 DEF ThreadExit, callVars
    <2>3. \A u \in Thread : u # t => tstate'[u] = tstate[u]
      BY <1>1, <2>2 DEF ControlTypes
    <2>4. QED
      BY <1>2, <2>2, <2>3 DEF JoinersFollow, WaitsOn
  <1>8. CASE MainWaits
    <2>1. /\ tstate[Main] # "running"
          /\ tstate' = [tstate EXCEPT ![Main] = tstate'[Main]]
          /\ woken' = [woken EXCEPT ![Main] = FALSE]
          /\ UNCHANGED <<joining, status>>
      BY <1>1, <1>8 DEF MainWaits, dataVars, ControlTypes
    <2>2. \A u \in Thread : tstate'[u] = tstate[u]
      BY <1>1, <2>1 DEF ControlTypes
    <2>3. \A a \in Actor : a # Main => woken'[a] = woken[a]
      BY <1>1, <2>1
    <2>4. QED
      BY <1>2, <2>1, <2>2, <2>3 DEF JoinersFollow, WaitsOn
  <1>9. CASE \E a \in Actor, t \in Thread : Join(a, t)
    <2>1. PICK a \in Actor, t \in Thread : Join(a, t)
      BY <1>9
    <2>2. /\ UNCHANGED <<tstate, status, woken>>
          /\ \/ joining' = joining
             \/ joining' = [joining EXCEPT ![a] = t] /\ tdb[t]
      BY <2>1 DEF Join
    <2>3. tdb[t] => tstate[t] \notin {"released", "gone"}
      BY <2>1, NamedFacts DEF Join, Born
    <2>4. \A b \in Actor : joining'[b] = joining[b]
                             \/ (joining'[b] = t /\ tdb[t])
      BY <1>1, <2>2 DEF ControlTypes
    <2>5. QED
      BY <2>2, <2>3, <2>4 DEF JoinersFollow, WaitsOn
  <1>10. CASE \E a \in Actor : JoinAwake(a)
    <2>1. PICK a \in Actor : JoinAwake(a)
      BY <1>10
    <2>2. /\ UNCHANGED <<tstate, status>>
          /\ woken' = [woken EXCEPT ![a] = FALSE]
          /\ IF status[joining[a]]
             THEN joining' = [joining EXCEPT ![a] = NoThread]
             ELSE joining' = joining
      BY <2>1 DEF JoinAwake
    <2>3. /\ \A b \in Actor : b # a => /\ joining'[b] = joining[b]
                                       /\ woken'[b] = woken[b]
          /\ joining'[a] = IF status[joining[a]] THEN NoThread ELSE joining[a]
      BY <1>1, <2>2 DEF ControlTypes
    <2>4. ~status[joining[a]] /\ joining[a] # NoThread =>
            tstate[joining[a]] \notin {"released", "gone"}
      BY DEF ThreadIInv, NoWakeLost
    <2>5. QED
      BY <2>2, <2>3, <2>4 DEF JoinersFollow, WaitsOn
  <1>11. CASE \/ \E a \in Actor, t \in Thread : Detach(a, t)
              \/ \E a \in Actor : CondSpurious(a)
              \/ UNCHANGED vars
    <2>1. /\ UNCHANGED <<tstate, status, joining>>
          /\ \/ woken' = woken
             \/ \E a \in Actor : woken' = [woken EXCEPT ![a] = TRUE]
      BY <1>11 DEF Detach, CondSpurious, vars, dataVars, callVars
    <2>2. \A b \in Actor : woken[b] => woken'[b]
      BY <1>1, <2>1
    <2>3. QED
      BY <2>1, <2>2 DEF JoinersFollow, WaitsOn
  <1>12. QED
    BY <1>3, <1>4, <1>5, <1>6, <1>7, <1>8, <1>9, <1>10, <1>11, StepOfOne

(* Main is told of the end of the last thread: the one that counts down to *)
(* 1 is not past its last critical section yet, or was never started.      *)
LEMMA StepTellsMain ==
  ASSUME ThreadAssumption, ThreadIInv, [Next]_vars,
         tstate'[Main] = "waiting", __nc_running_threads_counter' = 1
  PROVE  woken'[Main] \/ \E t \in Thread : tstate'[t] = "uncounted"
  <1>1. /\ ControlTypes /\ woken \in [Actor -> BOOLEAN]
        /\ Main \in Actor /\ Main \notin Thread
        /\ \A t \in Thread : t \in Actor
    BY ControlFacts DEF ThreadIInv, ThreadTypeOK
  <1>2. tstate[Main] = "waiting" /\ __nc_running_threads_counter = 1
          => woken[Main] \/ \E t \in Thread : tstate[t] = "uncounted"
    BY DEF ThreadIInv, NoWakeLost
  <1>3. Balanced /\ IsFiniteSet(Counted) /\ Cardinality(Counted) \in Nat
    <2>1. Counted \subseteq Thread /\ IsFiniteSet(Thread)
      BY DEF Counted, ThreadAssumption
    <2>2. IsFiniteSet(Counted)
      BY <2>1, FS_Subset
    <2>3. QED
      BY <2>2, FS_CardinalityType DEF ThreadIInv, CounterIsRight, Balanced,
                                      Counted
  <1>4. ASSUME tstate'[Main] = tstate[Main], woken[Main] => woken'[Main],
               __nc_running_threads_counter' = __nc_running_threads_counter,
               \A t \in Thread : tstate[t] = "uncounted"
                                   => tstate'[t] = "uncounted"
        PROVE  woken'[Main] \/ \E t \in Thread : tstate'[t] = "uncounted"
    BY <1>2, <1>4
  <1>5. CASE \E a \in Actor, t \in Thread : Create(a, t)
    <2>1. PICK c \in Actor, t \in Thread : Create(c, t)
      BY <1>5
    <2>2. CASE CreateFails(c, t)
      <3>1. /\ \A u \in Actor : u # t => tstate'[u] = tstate[u]
            /\ tstate[t] # "uncounted"
            /\ UNCHANGED <<woken, __nc_running_threads_counter>>
        BY <1>1, <2>1, <2>2 DEF CreateFails, Create, Unborn, ControlTypes
      <3>2. QED
        BY <1>1, <1>4, <3>1
    <2>3. CASE __nc_running_threads_counter' = __nc_running_threads_counter + 1
      BY <1>3, <2>3 DEF Balanced
    <2>4. QED
      BY <2>1, <2>2, <2>3 DEF Create, CreateNoTls, CreateNoMemory,
                              CreateSucceeds
  <1>6. CASE \E a \in Actor : CreateStart(a) \/ CreateCleanup(a)
    <2>1. PICK c \in Actor : CreateStart(c) \/ CreateCleanup(c)
      BY <1>6
    <2>2. PICK t \in Thread : t = creating[c]
      BY <2>1, CreatingFacts DEF CreateStart, CreateCleanup
    <2>3. /\ tstate[t] \in {"starting", "withdrawn", "failed"}
          /\ UNCHANGED <<woken, __nc_running_threads_counter>>
          /\ tstate' = [tstate EXCEPT ![t] = tstate'[t]]
      BY <1>1, <2>1, <2>2 DEF CreateStart, CreateCleanup, ControlTypes
    <2>4. \A u \in Actor : u # t => tstate'[u] = tstate[u]
      BY <1>1, <2>3 DEF ControlTypes
    <2>5. QED
      BY <1>1, <1>4, <2>3, <2>4
  <1>7. CASE \E a \in Actor : CreateUncount(a)
    <2>1. PICK c \in Actor : CreateUncount(c)
      BY <1>7
    <2>2. PICK t \in Thread : t = creating[c]
      BY <2>1, CreatingFacts DEF CreateUncount
    <2>3. /\ tstate[t] = "notstarted" /\ tstate[c] = "running"
          /\ tstate' = [tstate EXCEPT ![t] = "withdrawn"]
          /\ __nc_running_threads_counter' = __nc_running_threads_counter - 1
      BY <2>1, <2>2, CreatingFacts DEF CreateUncount
    <2>4. c # Main /\ c \in Thread
      BY <1>1, <2>3, ControlFacts DEF ControlTypes
    <2>5. c # t /\ {c, t} \subseteq Counted
      BY <2>3, <2>4 DEF Counted
    <2>6. IsFiniteSet({c}) /\ Cardinality({c}) = 1
      BY FS_Singleton
    <2>7. t \notin {c} /\ {c} \cup {t} \subseteq Counted
      BY <2>5
    <2>8. Cardinality({c} \cup {t}) = Cardinality({c}) + 1
      BY <2>6, <2>7, FS_AddElement
    <2>9. Cardinality({c} \cup {t}) <= Cardinality(Counted)
      BY <1>3, <2>7, FS_Subset
    <2>10. Cardinality(Counted) >= 2
      BY <1>3, <2>6, <2>8, <2>9
    <2>11. __nc_running_threads_counter' # 1
      BY <1>3, <2>3, <2>10 DEF Balanced
    <2>12. QED
      BY <2>11
  <1>8. CASE \E a \in Actor : ExitBegin(a)
    <2>1. PICK a \in Actor : ExitBegin(a)
      BY <1>8
    <2>2. /\ tstate[a] = "running" /\ tstate' = [tstate EXCEPT ![a] = "exiting"]
          /\ UNCHANGED <<woken, __nc_running_threads_counter>>
      BY <2>1 DEF ExitBegin, Idle, callVars
    <2>3. \A u \in Actor : tstate'[u] = IF u = a THEN "exiting" ELSE tstate[u]
      BY <1>1, <2>2 DEF ControlTypes
    <2>4. QED
      BY <1>1, <1>4, <2>2, <2>3
  <1>9. CASE \E t \in Thread : ExitUncount(t)
    BY <1>1, <1>9 DEF ExitUncount, ControlTypes
  <1>10. CASE \E t \in Thread : ExitRelease(t)
    <2>1. PICK t \in Thread : ExitRelease(t)
      BY <1>10
    <2>2. /\ tstate' = [tstate EXCEPT ![t] = "released"]
          /\ __nc_running_threads_counter' = __nc_running_threads_counter
      BY <2>1 DEF ExitRelease
    <2>3. Main \in LastThreadWaiter
      BY <1>1, <2>2 DEF LastThreadWaiter, ControlTypes
    <2>4. \E S : woken' = [a \in Actor |->
                             woken[a] \/ a \in S \cup LastThreadWaiter]
      BY <2>1 DEF ExitRelease
    <2>5. QED
      BY <1>1, <2>3, <2>4
  <1>11. CASE \E t \in Thread : ThreadExit(t)
    <2>1. PICK t \in Thread : ThreadExit(t)
      BY <1>11
    <2>2. /\ tstate[t] = "released" /\ tstate' = [tstate EXCEPT ![t] = "gone"]
          /\ UNCHANGED <<woken, __nc_running_threads_counter>>
      BY <2>1 DEF ThreadExit, callVars
    <2>3. \A u \in Actor : tstate'[u] = IF u = t THEN "gone" ELSE tstate[u]
      BY <1>1, <2>2 DEF ControlTypes
    <2>4. QED
      BY <1>1, <1>4, <2>2, <2>3
  <1>12. CASE MainWaits
    BY <1>1, <1>12 DEF MainWaits, ControlTypes
  <1>13. CASE \/ \E a \in Actor, t \in Thread : Join(a, t) \/ Detach(a, t)
              \/ \E a \in Actor : JoinAwake(a) \/ CondSpurious(a)
              \/ UNCHANGED vars
    <2>1. /\ UNCHANGED <<tstate, __nc_running_threads_counter>>
          /\ \/ woken' = woken
             \/ \E a \in Actor : woken' = [woken EXCEPT ![a] = TRUE]
             \/ \E a \in Actor : /\ woken' = [woken EXCEPT ![a] = FALSE]
                                 /\ joining[a] # NoThread
      BY <1>13 DEF Join, Detach, JoinAwake, CondSpurious, vars, callVars
    <2>2. CASE tstate[Main] # "waiting"
      BY <2>1, <2>2
    <2>3. CASE tstate[Main] = "waiting"
      <3>1. joining[Main] = NoThread
        BY <1>1, <2>3, JoiningFacts
      <3>2. woken[Main] => woken'[Main]
        BY <1>1, <2>1, <3>1
      <3>3. QED
        BY <1>4, <2>1, <3>2
    <2>4. QED
      BY <2>2, <2>3
  <1>14. QED
    BY <1>5, <1>6, <1>7, <1>8, <1>9, <1>10, <1>11, <1>12, <1>13, StepOfOne

(* Every step keeps the signals. *)
LEMMA WakesStep ==
  ASSUME ThreadAssumption, ThreadIInv, [Next]_vars
  PROVE  NoWakeLost'
  BY FollowedJoiners, StepFollowsJoiners, StepTellsMain DEF NoWakeLost

-----------------------------------------------------------------------------
(* The invariant holds, and what follows from it. *)

LEMMA ThreadTypesStep ==
  ASSUME ThreadAssumption, ThreadIInv, [Next]_vars
  PROVE  ThreadTypeOK'
  <1>1. HeapTypes' /\ ControlTypes' /\ woken' \in [Actor -> BOOLEAN]
    BY HeapStep, TypesStep
  <1>2. __nc_running_threads_counter' = 1 + Cardinality(Counted')
    BY CounterStep DEF CounterIsRight, Counted
  <1>3. Counted' \subseteq Thread /\ IsFiniteSet(Thread)
    BY DEF Counted, ThreadAssumption
  <1>4. /\ Cardinality(Counted') \in Nat /\ Cardinality(Thread) \in Nat
        /\ Cardinality(Counted') <= Cardinality(Thread)
    BY <1>3, FS_Subset, FS_CardinalityType
  <1>5. __nc_running_threads_counter' \in 1..(1 + Cardinality(Thread))
    BY <1>2, <1>4
  <1>6. QED
    BY <1>1, <1>5 DEF ThreadTypeOK, HeapTypes, ControlTypes

(* A program that is about to call main has no thread and no block. *)
LEMMA ThreadInitIInv ==
  ASSUME ThreadAssumption, ThreadInit
  PROVE  ThreadIInv
  <1>1. /\ Main \in Actor /\ Main \notin Thread /\ NoThread \notin Actor
        /\ \A t \in Thread : t \in Actor
        /\ NoBlock \notin Block /\ MemoryType = {"tls", "stack"}
    BY DEF ThreadAssumption, Actor, MemoryType
  <1>2. \A t \in Thread :
          /\ tstate[t] = "none" /\ ~tdb[t]
          /\ node[t]["tls"] = NoBlock /\ node[t]["stack"] = NoBlock
    BY <1>1 DEF ThreadInit
  <1>3. \A k \in MemoryType : queue[k] = << >>
    BY DEF ThreadInit
  <1>4. Counted = {}
    BY <1>2 DEF Counted
  <1>5. /\ CounterIsRight
        /\ __nc_running_threads_counter \in 1..(1 + Cardinality(Thread))
    <2>1. Cardinality(Counted) = 0
      BY <1>4, FS_EmptySet
    <2>2. Cardinality(Thread) \in Nat
      BY FS_CardinalityType DEF ThreadAssumption
    <2>3. __nc_running_threads_counter = 1
      BY DEF ThreadInit
    <2>4. QED
      BY <2>1, <2>2, <2>3 DEF CounterIsRight, Counted
  <1>6. ThreadTypeOK
    <2>1. HeapTypes
      BY <1>1 DEF ThreadInit, HeapTypes, ThreadState
    <2>2. ControlTypes /\ woken \in [Actor -> BOOLEAN]
      BY <1>1 DEF ThreadInit, ControlTypes, ThreadState
    <2>3. QED
      BY <1>5, <2>1, <2>2 DEF ThreadTypeOK, HeapTypes, ControlTypes
  <1>7. CreatingInv /\ JoiningInv
    BY DEF ThreadInit, CreatingInv, JoiningInv
  <1>8. \A t \in Thread : DataInv(t) /\ NodesInv(t)
    BY <1>2 DEF ThreadInit, DataInv, NodesInv, Born, Left, Holds
  <1>9. HeldInv
    BY <1>1, <1>2 DEF HeldInv, Holds
  <1>10. BlocksInv
    <2>1. \A k \in MemoryType : Distinct(queue[k]) /\ \A b : ~InQueue(k, b)
      BY <1>3 DEF Distinct, InQueue, On
    <2>2. \A t \in Thread, b \in Block : ~Owns(t, b)
      BY <1>1, <1>2 DEF Owns
    <2>3. allocated = {}
      BY DEF ThreadInit
    <2>4. QED
      BY <1>1, <2>1, <2>2, <2>3 DEF BlocksInv
  <1>11. NoWakeLost
    BY <1>1, <1>2 DEF ThreadInit, NoWakeLost
  <1>12. JoinedInv
    BY DEF ThreadInit, JoinedInv
  <1>13. QED
    BY <1>5, <1>6, <1>7, <1>8, <1>9, <1>10, <1>11, <1>12 DEF ThreadIInv

LEMMA ThreadStepIInv ==
  ASSUME ThreadAssumption, ThreadIInv, [Next]_vars
  PROVE  ThreadIInv'
  <1>1. /\ ThreadTypeOK' /\ HeapInv' /\ ControlInv'
        /\ CounterIsRight' /\ NoWakeLost' /\ JoinedInv'
    BY HeapStep, ControlStep, CounterStep, WakesStep, JoinedStep,
       ThreadTypesStep
  <1>2. QED
    BY <1>1 DEF ThreadIInv, HeapInv, ControlInv

(* A queue is no longer than there are blocks. *)
LEMMA QueueLength ==
  ASSUME ThreadAssumption, ThreadIInv, NEW k \in MemoryType
  PROVE  Len(queue[k]) <= Cardinality(Block)
  <1> DEFINE q == queue[k]
             place == [i \in 1..Len(q) |-> q[i]]
  <1>1. q \in Seq(Block) /\ Distinct(q)
    BY QueueFacts
  <1>2. Len(q) \in Nat /\ \A i \in 1..Len(q) : q[i] \in Block
    BY <1>1
  <1> HIDE DEF q
  <1>3. place \in Injection(1..Len(q), Block)
    BY <1>1, <1>2 DEF Injection, IsInjective, Distinct
  <1>4. IsFiniteSet(Block)
    BY DEF ThreadAssumption
  <1>5. Cardinality(1..Len(q)) <= Cardinality(Block)
    BY <1>3, <1>4, FS_Injection
  <1>6. Cardinality(1..Len(q)) = Len(q)
    <2>1. 1 \in Int /\ Len(q) \in Int
      BY <1>2
    <2>2. Cardinality(1..Len(q)) = IF 1 > Len(q) THEN 0 ELSE Len(q) - 1 + 1
      BY <2>1, FS_Interval
    <2>3. QED
      BY <1>2, <2>2
  <1>7. QED
    BY <1>5, <1>6 DEF q

(* The place of a cached block. *)
LEMMA CachedOnce ==
  ASSUME ThreadAssumption, ThreadIInv, NEW b \in Block
  PROVE  Cardinality(Cached(b)) = IF \E k \in MemoryType : InQueue(k, b)
                                  THEN 1 ELSE 0
  <1>1. CASE ~ \E k \in MemoryType : InQueue(k, b)
    <2>1. \A k \in MemoryType : Len(queue[k]) \in Nat
      BY QueueFacts
    <2>2. Cached(b) = {}
      BY <1>1, <2>1 DEF Cached, InQueue, On
    <2>3. QED
      BY <1>1, <2>2, FS_EmptySet
  <1>2. ASSUME NEW k \in MemoryType, InQueue(k, b)
        PROVE  Cardinality(Cached(b)) = 1
    <2>1. /\ Distinct(queue[k]) /\ Len(queue[k]) \in Nat
          /\ Len(queue[k]) <= Cardinality(Block)
          /\ Cardinality(Block) \in Nat
      BY QueueFacts, QueueLength, FS_CardinalityType DEF ThreadAssumption
    <2>2. PICK i \in 1..Len(queue[k]) : queue[k][i] = b
      BY <1>2 DEF InQueue, On
    <2>3. \A l \in MemoryType : InQueue(l, b) => l = k
      BY <1>2 DEF ThreadIInv, BlocksInv, MemoryType
    <2>4. \A p \in Cached(b) : p = <<k, i>>
      <3> SUFFICES ASSUME NEW l \in MemoryType, NEW j \in 1..Cardinality(Block),
                          j <= Len(queue[l]), queue[l][j] = b
                   PROVE  l = k /\ j = i
        BY DEF Cached
      <3>1. Len(queue[l]) \in Nat
        BY QueueFacts
      <3>2. j \in 1..Len(queue[l])
        BY <2>1, <3>1
      <3>3. l = k
        BY <2>3, <3>2 DEF InQueue, On
      <3>4. QED
        BY <2>1, <2>2, <3>2, <3>3 DEF Distinct
    <2>5. <<k, i>> \in Cached(b)
      BY <2>1, <2>2 DEF Cached
    <2>6. Cached(b) = {<<k, i>>}
      BY <2>4, <2>5
    <2>7. QED
      BY <2>6, FS_Singleton
  <1>3. QED
    BY <1>1, <1>2

(* The owner of a block that a thread has. *)
LEMMA OwnedOnce ==
  ASSUME ThreadAssumption, ThreadIInv, NEW b \in Block
  PROVE  Cardinality({t \in Thread : Owns(t, b)})
           = IF \E t \in Thread : Owns(t, b) THEN 1 ELSE 0
  <1>1. CASE ~ \E t \in Thread : Owns(t, b)
    <2>1. {t \in Thread : Owns(t, b)} = {}
      BY <1>1
    <2>2. QED
      BY <1>1, <2>1, FS_EmptySet
  <1>2. ASSUME NEW t \in Thread, Owns(t, b)
        PROVE  Cardinality({u \in Thread : Owns(u, b)}) = 1
    <2>1. PICK k \in MemoryType : node[t][k] = b
      BY <1>2 DEF Owns
    <2>2. Holds(t, k)
      BY <2>1 DEF Holds, ThreadAssumption
    <2>3. \A u \in Thread : Owns(u, b) => u = t
      BY <2>1, <2>2, HeldFacts DEF Owns
    <2>4. {u \in Thread : Owns(u, b)} = {t}
      BY <1>2, <2>3
    <2>5. QED
      BY <2>4, FS_Singleton
  <1>3. QED
    BY <1>1, <1>2

(* No block is lost, or in two places. *)
LEMMA BlocksKept ==
  ASSUME ThreadAssumption, ThreadIInv
  PROVE  NoBlockLost
  <1> SUFFICES ASSUME NEW b \in Block
               PROVE  Cardinality(Cached(b))
                        + Cardinality({t \in Thread : Owns(t, b)})
                        = IF b \in allocated THEN 1 ELSE 0
    BY DEF NoBlockLost, Owns
  <1>1. /\ \A t \in Thread, k \in MemoryType : Owns(t, b) => ~InQueue(k, b)
        /\ b \in allocated <=> \/ \E k \in MemoryType : InQueue(k, b)
                               \/ \E t \in Thread : Owns(t, b)
    BY DEF ThreadIInv, BlocksInv
  <1>2. QED
    BY <1>1, CachedOnce, OwnedOnce

(* Memory that a thread uses is its own. *)
LEMMA MemoryKept ==
  ASSUME ThreadIInv
  PROVE  MemoryIsOwn
  <1>1. HeldInv /\ \A t \in Thread : NodesInv(t)
    BY DEF ThreadIInv
  <1>2. QED
    BY <1>1 DEF MemoryIsOwn, HeldInv, NodesInv, Born

(* A join, in progress or to come, finds the data of the thread. *)
LEMMA DataKept ==
  ASSUME ThreadAssumption, ThreadIInv
  PROVE  DataIsLive
  <1>1. \A a \in Actor : joining[a] # NoThread =>
          \/ basic_data[joining[a]] = "live"
          \/ tstate[joining[a]] = "none"
    BY JoiningFacts
  <1>2. \A t \in Thread : MayName(t) => basic_data[t] = "live"
    BY NamedFacts
  <1>3. QED
    BY <1>1, <1>2 DEF DataIsLive

(* Data that is left has a join or a detach to wait for, or is the leak of *)
(* a late detach.                                                          *)
LEMMA NothingLost ==
  ASSUME ThreadIInv
  PROVE  DataNotLost
  <1> SUFFICES ASSUME NEW t \in Thread, Left(t), ~IsJoined(t)
               PROVE  claimed[t] \in {"no", "late"}
    BY DEF DataNotLost, Left
  <1>1. claimed[t] \in {"no", "join", "detach", "late"}
    BY DEF ThreadIInv, ThreadTypeOK
  <1>2. claimed[t] # "join" /\ claimed[t] # "detach"
    BY DEF ThreadIInv, JoinedInv, DataInv
  <1>3. QED
    BY <1>1, <1>2

(***************************************************************************)
(* However threads are created, fail to be, exit and are joined: the stack *)
(* and the TLS of each are its own, every block that malloc gave out is    *)
(* cached once or in use, the count of running threads is right, who joins *)
(* or waits for the last is signalled, and no basic_data is left behind    *)
(* but that of a thread that is detached while it exits                    *)
(* (nc_thread.c:148-206, 386-465, 467-556, 591, 614).                      *)
(***************************************************************************)
THEOREM ThreadCorrect == Spec => []ThreadInv
  <1>1. ThreadInit => ThreadIInv
    BY ThreadAssumption, ThreadInitIInv
  <1>2. ThreadIInv /\ [Next]_vars => ThreadIInv'
    BY ThreadAssumption, ThreadStepIInv
  <1>3. ThreadIInv => ThreadInv
    BY ThreadAssumption, BlocksKept, MemoryKept, NothingLost
    DEF ThreadInv, ThreadIInv
  <1>4. QED
    BY <1>1, <1>2, <1>3, PTL DEF Spec

(***************************************************************************)
(* No join or detach that a program may do finds the thread's basic_data   *)
(* freed: pthread_exit leaves it to the one thread that joins, and whoever *)
(* comes first of a join and a detach (nc_thread.c:531-544, 558-623).  A   *)
(* program may do so from the moment pthread_create lets go of the lock;   *)
(* only a join that has begun when thread_create fails loses it (446-462). *)
(***************************************************************************)
THEOREM JoinFindsData == Spec => []DataIsLive
  <1>1. ThreadInit => ThreadIInv
    BY ThreadAssumption, ThreadInitIInv
  <1>2. ThreadIInv /\ [Next]_vars => ThreadIInv'
    BY ThreadAssumption, ThreadStepIInv
  <1>3. ThreadIInv => DataIsLive
    BY ThreadAssumption, DataKept
  <1>4. QED
    BY <1>1, <1>2, <1>3, PTL DEF Spec
=============================================================================
