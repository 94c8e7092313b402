--------------------------- MODULE NaclTextProofs ---------------------------
(***************************************************************************)
(* No thread runs dynamic code that was taken away, and every region is    *)
(* there as a whole or not at all, for any number of threads, bundles,     *)
(* pages and generations.                                                  *)
(***************************************************************************)
EXTENDS NaclText, FiniteSetTheorems, SequenceTheorems, WellFoundedInduction,
        TLAPS

-----------------------------------------------------------------------------
(* The array of regions. *)

Sorted(rs) ==
  \A i, j \in DOMAIN rs : i < j => rs[i].start + rs[i].size <= rs[j].start

Apart(r, dest, size) ==
  r.start + r.size <= dest \/ dest + size <= r.start

(* What the types say of a region and of an array of them. *)
LEMMA RegionFields ==
  ASSUME NEW r \in Region
  PROVE  /\ r.start \in Bundle /\ r.size \in Bundle /\ r.is_mmap \in BOOLEAN
         /\ r.delete_generation \in {-1} \cup 1..MaxGeneration
         /\ r.start \in Int /\ r.size \in Int /\ r.start > 0 /\ r.size > 0
  BY DEF Region, Bundle

(* What the entries of the region array are.                                *)
LEMMA RegionsFields ==
  ASSUME NEW rs \in Seq(Region)
  PROVE  /\ DOMAIN rs = 1..Len(rs) /\ Len(rs) \in Nat
         /\ \A i \in 1..Len(rs) :
              /\ rs[i] \in Region
              /\ rs[i].start \in Int /\ rs[i].size \in Int /\ rs[i].size > 0
  <1>1. /\ DOMAIN rs = 1..Len(rs) /\ Len(rs) \in Nat
        /\ \A i \in 1..Len(rs) : rs[i] \in Region
    BY LenProperties, ElementOfSeq
  <1>2. QED
    BY <1>1, RegionFields

(* A set of indices has a largest one. *)
LEMMA LargestIndex ==
  ASSUME NEW n \in Nat, NEW S \in SUBSET (1..n), S # {}
  PROVE  \E i \in S : \A j \in S : j <= i
  <1> DEFINE T == {n - i : i \in S}
             R == OpToRel(<, Nat)
  <1>1. T \subseteq Nat /\ T # {}
    <2>1. PICK i \in S : TRUE
      OBVIOUS
    <2>2. n - i \in T
      OBVIOUS
    <2>3. \A j \in S : n - j \in Nat
      OBVIOUS
    <2>4. QED
      BY <2>2, <2>3
  <1>2. IsWellFoundedOn(R, Nat)
    BY NatLessThanWellFounded
  <1>3. PICK x \in T : \A y \in T : <<y, x>> \notin R
    <2> HIDE DEF R, T
    <2>1. QED
      BY <1>1, <1>2, WFMin
  <1>4. \A y \in T : ~(y < x)
    BY <1>1, <1>3 DEF OpToRel
  <1>5. PICK i \in S : x = n - i
    OBVIOUS
  <1>6. \A j \in S : ~(n - j < n - i)
    BY <1>4, <1>5
  <1>7. QED
    BY <1>5, <1>6

(* What FindClosestLEQ finds (nacl_text.c:197-234). *)
LEMMA FindClosestFinds ==
  ASSUME NEW rs \in Seq(Region), NEW p \in Int
  PROVE  LET i == FindClosestLEQ(rs, p)
         IN  \/ i = 0 /\ \A j \in 1..Len(rs) : p < rs[j].start
             \/ /\ i \in 1..Len(rs) /\ rs[i].start <= p
                /\ \A j \in 1..Len(rs) : i < j => p < rs[j].start
  <1> DEFINE before == {i \in DOMAIN rs : rs[i].start <= p}
  <1>1. /\ DOMAIN rs = 1..Len(rs) /\ Len(rs) \in Nat
        /\ \A i \in 1..Len(rs) : rs[i].start \in Int
    BY RegionsFields
  <1>2. before \in SUBSET (1..Len(rs))
    BY <1>1
  <1>3. CASE before = {}
    BY <1>1, <1>3 DEF FindClosestLEQ
  <1>4. CASE before # {}
    <2> DEFINE m == CHOOSE i \in before : \A j \in before : j <= i
    <2>1. m \in before /\ \A j \in before : j <= m
      BY <1>1, <1>2, <1>4, LargestIndex
    <2>2. FindClosestLEQ(rs, p) = m
      BY <1>4 DEF FindClosestLEQ
    <2> HIDE DEF m
    <2>3. m \in 1..Len(rs) /\ rs[m].start <= p
      BY <1>2, <2>1
    <2>4. ASSUME NEW j \in 1..Len(rs), m < j PROVE p < rs[j].start
      <3>1. j \notin before
        BY <1>1, <2>1, <2>3, <2>4
      <3>2. QED
        BY <1>1, <3>1
    <2>5. QED
      BY <2>2, <2>3, <2>4
  <1>5. QED
    BY <1>3, <1>4

(* RegionFind finds whatever overlaps the range, and nothing else. *)
LEMMA RegionFindFinds ==
  ASSUME NEW rs \in Seq(Region), Sorted(rs),
         NEW dest \in Int, NEW size \in Int, size > 0
  PROVE  LET i == RegionFind(rs, dest, size)
         IN  \/ i = 0 /\ \A j \in 1..Len(rs) : Apart(rs[j], dest, size)
             \/ i \in 1..Len(rs) /\ ~Apart(rs[i], dest, size)
  <1> DEFINE i == FindClosestLEQ(rs, dest + size - 1)
  <1>1. /\ DOMAIN rs = 1..Len(rs) /\ Len(rs) \in Nat
        /\ \A j \in 1..Len(rs) :
             rs[j].start \in Int /\ rs[j].size \in Int /\ rs[j].size > 0
    BY RegionsFields
  <1>2. \/ i = 0 /\ \A j \in 1..Len(rs) : dest + size - 1 < rs[j].start
        \/ /\ i \in 1..Len(rs) /\ rs[i].start <= dest + size - 1
           /\ \A j \in 1..Len(rs) : i < j => dest + size - 1 < rs[j].start
    BY FindClosestFinds
  <1>3. RegionFind(rs, dest, size)
          = IF i # 0 /\ dest < rs[i].start + rs[i].size THEN i ELSE 0
    BY DEF RegionFind
  <1> HIDE DEF i
  <1>4. CASE i = 0
    BY <1>1, <1>2, <1>3, <1>4 DEF Apart
  <1>5. CASE i # 0 /\ dest < rs[i].start + rs[i].size
    BY <1>1, <1>2, <1>3, <1>5 DEF Apart
  <1>6. CASE i # 0 /\ ~(dest < rs[i].start + rs[i].size)
    <2>1. i \in 1..Len(rs) /\ rs[i].start + rs[i].size <= dest
      BY <1>1, <1>2, <1>6
    <2>2. ASSUME NEW j \in 1..Len(rs) PROVE Apart(rs[j], dest, size)
      <3>1. CASE j < i
        <4>1. rs[j].start + rs[j].size <= rs[i].start
          BY <1>1, <2>1, <3>1 DEF Sorted
        <4>2. QED
          BY <1>1, <2>1, <4>1 DEF Apart
      <3>2. CASE j = i
        BY <2>1, <3>2 DEF Apart
      <3>3. CASE i < j
        <4>1. dest + size - 1 < rs[j].start
          BY <1>2, <1>6, <3>3
        <4>2. QED
          BY <1>1, <4>1 DEF Apart
      <3>4. QED
        BY <2>1, <3>1, <3>2, <3>3
    <2>3. QED
      BY <1>3, <1>6, <2>2
  <1>7. QED
    BY <1>4, <1>5, <1>6

(* Two regions at different indices are apart. *)
LEMMA SortedApart ==
  ASSUME NEW rs \in Seq(Region), Sorted(rs),
         NEW i \in 1..Len(rs), NEW j \in 1..Len(rs), i # j
  PROVE  Apart(rs[i], rs[j].start, rs[j].size) /\ rs[i].start # rs[j].start
  <1>1. /\ DOMAIN rs = 1..Len(rs) /\ Len(rs) \in Nat
        /\ \A k \in 1..Len(rs) :
             rs[k].start \in Int /\ rs[k].size \in Int /\ rs[k].size > 0
    BY RegionsFields
  <1>2. \/ rs[i].start + rs[i].size <= rs[j].start
        \/ rs[j].start + rs[j].size <= rs[i].start
    <2>1. i \in DOMAIN rs /\ j \in DOMAIN rs
      BY <1>1
    <2>2. i < j \/ j < i
      BY <1>1
    <2>3. QED
      BY <2>1, <2>2 DEF Sorted
  <1>3. QED
    BY <1>1, <1>2 DEF Apart

(* A region is found by its own range. *)
LEMMA RegionFindItself ==
  ASSUME NEW rs \in Seq(Region), Sorted(rs), NEW k \in 1..Len(rs)
  PROVE  RegionFind(rs, rs[k].start, rs[k].size) = k
  <1> DEFINE i == RegionFind(rs, rs[k].start, rs[k].size)
  <1>1. rs[k].start \in Int /\ rs[k].size \in Int /\ rs[k].size > 0
    BY RegionsFields
  <1>2. \/ i = 0 /\ \A j \in 1..Len(rs) : Apart(rs[j], rs[k].start, rs[k].size)
        \/ i \in 1..Len(rs) /\ ~Apart(rs[i], rs[k].start, rs[k].size)
    BY <1>1, RegionFindFinds
  <1>3. ~Apart(rs[k], rs[k].start, rs[k].size)
    BY <1>1 DEF Apart
  <1>4. i \in 1..Len(rs) /\ ~Apart(rs[i], rs[k].start, rs[k].size)
    BY <1>2, <1>3
  <1> HIDE DEF i
  <1>5. i = k
    BY <1>4, SortedApart
  <1>6. QED
    BY <1>5 DEF i

(* Inserting into a sequence and removing from it, index by index. *)
LEMMA InsertAtElements ==
  ASSUME NEW S, NEW s \in Seq(S), NEW i \in 1..(Len(s) + 1), NEW e \in S
  PROVE  /\ InsertAt(s, i, e) \in Seq(S)
         /\ Len(InsertAt(s, i, e)) = Len(s) + 1
         /\ \A j \in 1..(Len(s) + 1) :
              InsertAt(s, i, e)[j] = IF j < i THEN s[j]
                                     ELSE IF j = i THEN e ELSE s[j - 1]
  <1> DEFINE a == SubSeq(s, 1, i - 1)
             b == <<e>>
             c == SubSeq(s, i, Len(s))
  <1>1. Len(s) \in Nat
    BY LenProperties
  <1>2. /\ a \in Seq(S) /\ Len(a) = i - 1
        /\ \A j \in 1..(i - 1) : a[j] = s[j]
    <2>1. \A k \in 1..(i - 1) : s[k] \in S
      BY <1>1, ElementOfSeq
    <2>2. 1 \in Int /\ i - 1 \in Int /\ i \in Int
      BY <1>1
    <2>3. QED
      BY <1>1, <2>1, <2>2, SubSeqProperties
  <1>3. /\ c \in Seq(S) /\ Len(c) = Len(s) - i + 1
        /\ \A j \in 1..(Len(s) - i + 1) : c[j] = s[i + j - 1]
    <2>1. \A k \in i..Len(s) : s[k] \in S
      BY <1>1, ElementOfSeq
    <2>2. QED
      BY <1>1, <2>1, SubSeqProperties
  <1>4. b \in Seq(S) /\ Len(b) = 1 /\ b[1] = e
    OBVIOUS
  <1> HIDE DEF a, b, c
  <1>5. /\ a \o b \in Seq(S) /\ Len(a \o b) = i
        /\ \A j \in 1..i : (a \o b)[j] = IF j < i THEN s[j] ELSE e
    <2>1. /\ a \o b \in Seq(S) /\ Len(a \o b) = Len(a) + Len(b)
          /\ \A j \in 1..(Len(a) + Len(b)) :
               (a \o b)[j] = IF j <= Len(a) THEN a[j] ELSE b[j - Len(a)]
      <3>1. a \in Seq(S) /\ b \in Seq(S)
        BY <1>2, <1>4
      <3>2. QED
        BY <3>1, ConcatProperties
    <2>2. Len(a) + Len(b) = i /\ Len(a) = i - 1
      BY <1>1, <1>2, <1>4
    <2>3. ASSUME NEW j \in 1..i PROVE (a \o b)[j] = IF j < i THEN s[j] ELSE e
      <3>1. CASE j < i
        BY <1>1, <1>2, <2>1, <2>2, <3>1
      <3>2. CASE ~(j < i)
        <4>1. j = i
          BY <1>1, <3>2
        <4>2. QED
          BY <1>1, <1>4, <2>1, <2>2, <4>1
      <3>3. QED
        BY <3>1, <3>2
    <2>4. QED
      BY <2>1, <2>2, <2>3
  <1>6. /\ (a \o b) \o c \in Seq(S)
        /\ Len((a \o b) \o c) = Len(s) + 1
        /\ \A j \in 1..(Len(s) + 1) :
             ((a \o b) \o c)[j] = IF j <= i THEN (a \o b)[j] ELSE c[j - i]
    <2>1. /\ (a \o b) \o c \in Seq(S)
          /\ Len((a \o b) \o c) = Len(a \o b) + Len(c)
          /\ \A j \in 1..(Len(a \o b) + Len(c)) :
               ((a \o b) \o c)[j] = IF j <= Len(a \o b) THEN (a \o b)[j]
                                    ELSE c[j - Len(a \o b)]
      <3>1. a \o b \in Seq(S) /\ c \in Seq(S)
        BY <1>3, <1>5
      <3>2. QED
        BY <3>1, ConcatProperties
    <2>2. Len(a \o b) + Len(c) = Len(s) + 1
      BY <1>1, <1>3, <1>5
    <2>3. QED
      BY <1>5, <2>1, <2>2
  <1>7. InsertAt(s, i, e) = (a \o b) \o c
    BY DEF InsertAt, a, b, c
  <1>8. ASSUME NEW j \in 1..(Len(s) + 1)
        PROVE  ((a \o b) \o c)[j] = IF j < i THEN s[j]
                                    ELSE IF j = i THEN e ELSE s[j - 1]
    <2>1. CASE j <= i
      BY <1>1, <1>5, <1>6, <2>1
    <2>2. CASE ~(j <= i)
      <3>1. j - i \in 1..(Len(s) - i + 1) /\ i + (j - i) - 1 = j - 1
        BY <1>1, <2>2
      <3>2. QED
        <4>1. ((a \o b) \o c)[j] = c[j - i]
          BY <1>6, <2>2
        <4>2. c[j - i] = s[i + (j - i) - 1]
          BY <1>3, <3>1
        <4>3. j > i
          BY <1>1, <2>2
        <4>4. QED
          BY <3>1, <4>1, <4>2, <4>3
    <2>3. QED
      BY <2>1, <2>2
  <1>9. QED
    BY <1>6, <1>7, <1>8

(* RemoveAt moves the later elements one place down.                        *)
LEMMA RemoveAtElements ==
  ASSUME NEW S, NEW s \in Seq(S), NEW i \in 1..Len(s)
  PROVE  /\ RemoveAt(s, i) \in Seq(S)
         /\ Len(RemoveAt(s, i)) = Len(s) - 1
         /\ \A j \in 1..(Len(s) - 1) :
              RemoveAt(s, i)[j] = IF j < i THEN s[j] ELSE s[j + 1]
  <1> DEFINE a == SubSeq(s, 1, i - 1)
             c == SubSeq(s, i + 1, Len(s))
  <1>1. Len(s) \in Nat
    BY LenProperties
  <1>2. /\ a \in Seq(S) /\ Len(a) = i - 1
        /\ \A j \in 1..(i - 1) : a[j] = s[j]
    <2>1. \A k \in 1..(i - 1) : s[k] \in S
      BY <1>1, ElementOfSeq
    <2>2. QED
      BY <1>1, <2>1, SubSeqProperties
  <1>3. /\ c \in Seq(S) /\ Len(c) = Len(s) - i
        /\ \A j \in 1..(Len(s) - i) : c[j] = s[i + j]
    <2>1. \A k \in (i + 1)..Len(s) : s[k] \in S
      BY <1>1, ElementOfSeq
    <2>2. i + 1 \in Int /\ Len(s) \in Int /\ i \in Int /\ i <= Len(s)
      BY <1>1
    <2>3. QED
      BY <1>1, <2>1, <2>2, SubSeqProperties
  <1> HIDE DEF a, c
  <1>4. /\ a \o c \in Seq(S)
        /\ Len(a \o c) = Len(s) - 1
        /\ \A j \in 1..(Len(s) - 1) :
             (a \o c)[j] = IF j < i THEN a[j] ELSE c[j - (i - 1)]
    <2>1. /\ a \o c \in Seq(S) /\ Len(a \o c) = Len(a) + Len(c)
          /\ \A j \in 1..(Len(a) + Len(c)) :
               (a \o c)[j] = IF j <= Len(a) THEN a[j] ELSE c[j - Len(a)]
      <3>1. a \in Seq(S) /\ c \in Seq(S)
        BY <1>2, <1>3
      <3>2. QED
        BY <3>1, ConcatProperties
    <2>2. Len(a) + Len(c) = Len(s) - 1 /\ Len(a) = i - 1
      BY <1>1, <1>2, <1>3
    <2>3. \A j \in 1..(Len(s) - 1) : j <= i - 1 <=> j < i
      BY <1>1
    <2>4. QED
      BY <2>1, <2>2, <2>3
  <1>5. RemoveAt(s, i) = a \o c
    BY DEF RemoveAt, a, c
  <1>6. ASSUME NEW j \in 1..(Len(s) - 1)
        PROVE  (a \o c)[j] = IF j < i THEN s[j] ELSE s[j + 1]
    <2>1. CASE j < i
      BY <1>1, <1>2, <1>4, <2>1
    <2>2. CASE ~(j < i)
      <3>1. j - (i - 1) \in 1..(Len(s) - i) /\ i + (j - (i - 1)) = j + 1
        BY <1>1, <2>2
      <3>2. QED
        BY <1>1, <1>3, <1>4, <2>2, <3>1
    <2>3. QED
      BY <2>1, <2>2
  <1>7. QED
    BY <1>4, <1>5, <1>6

(***************************************************************************)
(* A region that overlaps no other is inserted where it belongs            *)
(* (NaClDynamicRegionCreate, nacl_text.c:236-271).                         *)
(***************************************************************************)
LEMMA InsertKeepsSorted ==
  ASSUME NEW rs \in Seq(Region), Sorted(rs), NEW item \in Region,
         RegionFind(rs, item.start, item.size) = 0
  PROVE  /\ RegionInsert(rs, item) \in Seq(Region)
         /\ Sorted(RegionInsert(rs, item))
         /\ ToSet(RegionInsert(rs, item)) = ToSet(rs) \cup {item}
         /\ \A r \in ToSet(rs) : Apart(r, item.start, item.size)
  <1> DEFINE k == FindClosestLEQ(rs, item.start)
             ns == RegionInsert(rs, item)
  <1>1. /\ DOMAIN rs = 1..Len(rs) /\ Len(rs) \in Nat
        /\ \A j \in 1..Len(rs) :
             rs[j].start \in Int /\ rs[j].size \in Int /\ rs[j].size > 0
        /\ item.start \in Int /\ item.size \in Int /\ item.size > 0
    BY RegionsFields, RegionFields
  <1>2. \A j \in 1..Len(rs) : Apart(rs[j], item.start, item.size)
    <2>1. RegionFind(rs, item.start, item.size) \notin 1..Len(rs)
      BY <1>1
    <2>2. QED
      BY <1>1, <2>1, RegionFindFinds
  <1>3. \/ k = 0 /\ \A j \in 1..Len(rs) : item.start < rs[j].start
        \/ /\ k \in 1..Len(rs) /\ rs[k].start <= item.start
           /\ \A j \in 1..Len(rs) : k < j => item.start < rs[j].start
    BY <1>1, FindClosestFinds
  <1>4. ns = InsertAt(rs, k + 1, item)
    BY DEF RegionInsert
  <1> HIDE DEF k, ns
  <1>5. k \in 0..Len(rs) /\ k + 1 \in 1..(Len(rs) + 1)
    BY <1>1, <1>3
  <1>6. /\ ns \in Seq(Region) /\ Len(ns) = Len(rs) + 1
        /\ \A j \in 1..(Len(rs) + 1) :
             ns[j] = IF j < k + 1 THEN rs[j]
                     ELSE IF j = k + 1 THEN item ELSE rs[j - 1]
    <2> DEFINE i == k + 1
    <2>1. i \in 1..(Len(rs) + 1)
      BY <1>5
    <2> HIDE DEF i
    <2>2. /\ InsertAt(rs, i, item) \in Seq(Region)
          /\ Len(InsertAt(rs, i, item)) = Len(rs) + 1
          /\ \A j \in 1..(Len(rs) + 1) :
               InsertAt(rs, i, item)[j] = IF j < i THEN rs[j]
                                          ELSE IF j = i THEN item ELSE rs[j - 1]
      <3>1. InsertAt(rs, i, item) \in Seq(Region)
        BY <2>1, InsertAtElements
      <3>2. Len(InsertAt(rs, i, item)) = Len(rs) + 1
        BY <2>1, InsertAtElements
      <3>3. ASSUME NEW j \in 1..(Len(rs) + 1)
            PROVE  InsertAt(rs, i, item)[j]
                     = IF j < i THEN rs[j]
                       ELSE IF j = i THEN item ELSE rs[j - 1]
        BY <2>1, InsertAtElements
      <3>4. QED
        BY <3>1, <3>2, <3>3
    <2>3. QED
      BY <1>4, <2>2 DEF i
  <1>7. DOMAIN ns = 1..(Len(rs) + 1)
    BY <1>6, LenProperties
  <1>8. ASSUME NEW j \in 1..Len(rs), j <= k
        PROVE  rs[j].start + rs[j].size <= item.start
    <2>1. k \in 1..Len(rs) /\ rs[k].start <= item.start
      BY <1>1, <1>3, <1>8
    <2>2. rs[j].start <= rs[k].start
      <3>1. CASE j = k
        BY <1>1, <3>1
      <3>2. CASE j < k
        <4>1. rs[j].start + rs[j].size <= rs[k].start
          BY <1>1, <2>1, <3>2 DEF Sorted
        <4>2. QED
          BY <1>1, <2>1, <4>1
      <3>3. QED
        BY <1>5, <1>8, <3>1, <3>2
    <2>3. QED
      BY <1>1, <1>2, <2>1, <2>2 DEF Apart
  <1>9. ASSUME NEW j \in 1..Len(rs), k < j
        PROVE  item.start + item.size <= rs[j].start
    <2>1. item.start < rs[j].start
      BY <1>3, <1>9
    <2>2. QED
      BY <1>1, <1>2, <2>1 DEF Apart
  <1>10. Sorted(ns)
    <2> SUFFICES ASSUME NEW i \in 1..(Len(rs) + 1), NEW j \in 1..(Len(rs) + 1),
                        i < j
                 PROVE  ns[i].start + ns[i].size <= ns[j].start
      BY <1>7 DEF Sorted
    <2>1. CASE j < k + 1
      <3>1. /\ ns[i] = rs[i] /\ ns[j] = rs[j]
            /\ i \in 1..Len(rs) /\ j \in 1..Len(rs)
        BY <1>5, <1>6, <2>1
      <3>2. QED
        BY <1>1, <3>1 DEF Sorted
    <2>2. CASE j = k + 1
      <3>1. ns[i] = rs[i] /\ ns[j] = item /\ i \in 1..Len(rs) /\ i <= k
        BY <1>5, <1>6, <2>2
      <3>2. QED
        BY <1>8, <3>1
    <2>3. CASE j > k + 1 /\ i < k + 1
      <3>1. /\ ns[i] = rs[i] /\ ns[j] = rs[j - 1] /\ i < j - 1
            /\ i \in 1..Len(rs) /\ j - 1 \in 1..Len(rs)
        BY <1>5, <1>6, <2>3
      <3>2. QED
        BY <1>1, <3>1 DEF Sorted
    <2>4. CASE i = k + 1
      <3>1. /\ ns[i] = item /\ ns[j] = rs[j - 1] /\ k < j - 1
            /\ j - 1 \in 1..Len(rs)
        BY <1>5, <1>6, <2>4
      <3>2. QED
        BY <1>9, <3>1
    <2>5. CASE i > k + 1
      <3>1. /\ ns[i] = rs[i - 1] /\ ns[j] = rs[j - 1] /\ i - 1 < j - 1
            /\ i - 1 \in 1..Len(rs) /\ j - 1 \in 1..Len(rs)
        BY <1>5, <1>6, <2>5
      <3>2. QED
        BY <1>1, <3>1 DEF Sorted
    <2>6. QED
      BY <1>5, <2>1, <2>2, <2>3, <2>4, <2>5
  <1>11. ToSet(ns) = ToSet(rs) \cup {item}
    <2>1. ASSUME NEW r \in ToSet(ns) PROVE r \in ToSet(rs) \cup {item}
      <3>1. PICK j \in 1..(Len(rs) + 1) : r = ns[j]
        BY <1>7 DEF ToSet
      <3>2. CASE j < k + 1
        <4>1. r = rs[j] /\ j \in 1..Len(rs)
          BY <1>5, <1>6, <3>1, <3>2
        <4>2. QED
          BY <1>1, <4>1 DEF ToSet
      <3>3. CASE j = k + 1
        BY <1>5, <1>6, <3>1, <3>3
      <3>4. CASE j > k + 1
        <4>1. r = rs[j - 1] /\ j - 1 \in 1..Len(rs)
          BY <1>5, <1>6, <3>1, <3>4
        <4>2. QED
          BY <1>1, <4>1 DEF ToSet
      <3>5. QED
        BY <1>5, <3>2, <3>3, <3>4
    <2>2. ASSUME NEW r \in ToSet(rs) PROVE r \in ToSet(ns)
      <3>1. PICK j \in 1..Len(rs) : r = rs[j]
        BY <1>1 DEF ToSet
      <3>2. CASE j < k + 1
        <4>1. r = ns[j] /\ j \in 1..(Len(rs) + 1)
          BY <1>1, <1>5, <1>6, <3>1, <3>2
        <4>2. QED
          BY <1>7, <4>1 DEF ToSet
      <3>3. CASE ~(j < k + 1)
        <4>1. j + 1 \in 1..(Len(rs) + 1) /\ (j + 1) - 1 = j
              /\ ~(j + 1 < k + 1) /\ j + 1 # k + 1
          BY <1>1, <1>5, <3>3
        <4>2. r = ns[j + 1]
          BY <1>6, <3>1, <4>1
        <4>3. QED
          BY <1>7, <4>1, <4>2 DEF ToSet
      <3>4. QED
        BY <3>2, <3>3
    <2>3. item \in ToSet(ns)
      <3>1. ns[k + 1] = item
        BY <1>5, <1>6
      <3>2. QED
        BY <1>5, <1>7, <3>1 DEF ToSet
    <2>4. QED
      BY <2>1, <2>2, <2>3
  <1>12. QED
    BY <1>1, <1>2, <1>6, <1>10, <1>11 DEF ns, ToSet

(* The region that is removed is the only one that goes. *)
LEMMA RemoveKeepsSorted ==
  ASSUME NEW rs \in Seq(Region), Sorted(rs), NEW i \in 1..Len(rs)
  PROVE  /\ RemoveAt(rs, i) \in Seq(Region)
         /\ Sorted(RemoveAt(rs, i))
         /\ ToSet(RemoveAt(rs, i)) = ToSet(rs) \ {rs[i]}
  <1> DEFINE ns == RemoveAt(rs, i)
  <1>1. DOMAIN rs = 1..Len(rs) /\ Len(rs) \in Nat
    BY RegionsFields
  <1>2. /\ ns \in Seq(Region) /\ Len(ns) = Len(rs) - 1
        /\ \A j \in 1..(Len(rs) - 1) :
             ns[j] = IF j < i THEN rs[j] ELSE rs[j + 1]
    BY RemoveAtElements
  <1> HIDE DEF ns
  <1>3. DOMAIN ns = 1..(Len(rs) - 1)
    BY <1>2, LenProperties
  <1>4. \A j \in 1..(Len(rs) - 1) :
          \E m \in 1..Len(rs) :
            /\ ns[j] = rs[m] /\ m # i
            /\ m = IF j < i THEN j ELSE j + 1
    <2> SUFFICES ASSUME NEW j \in 1..(Len(rs) - 1)
                 PROVE  \E m \in 1..Len(rs) :
                          /\ ns[j] = rs[m] /\ m # i
                          /\ m = IF j < i THEN j ELSE j + 1
      OBVIOUS
    <2>1. CASE j < i
      <3>1. j \in 1..Len(rs) /\ ns[j] = rs[j] /\ j # i
        BY <1>1, <1>2, <2>1
      <3>2. QED
        BY <2>1, <3>1
    <2>2. CASE ~(j < i)
      <3>1. j + 1 \in 1..Len(rs) /\ ns[j] = rs[j + 1] /\ j + 1 # i
        BY <1>1, <1>2, <2>2
      <3>2. QED
        BY <2>2, <3>1
    <2>3. QED
      BY <2>1, <2>2
  <1>5. Sorted(ns)
    <2> SUFFICES ASSUME NEW j \in 1..(Len(rs) - 1), NEW k \in 1..(Len(rs) - 1),
                        j < k
                 PROVE  ns[j].start + ns[j].size <= ns[k].start
      BY <1>3 DEF Sorted
    <2>1. PICK m \in 1..Len(rs) :
            ns[j] = rs[m] /\ m = IF j < i THEN j ELSE j + 1
      BY <1>4
    <2>2. PICK n \in 1..Len(rs) :
            ns[k] = rs[n] /\ n = IF k < i THEN k ELSE k + 1
      BY <1>4
    <2>3. m < n
      BY <1>1, <2>1, <2>2
    <2>4. QED
      BY <1>1, <2>1, <2>2, <2>3 DEF Sorted
  <1>6. ToSet(ns) = ToSet(rs) \ {rs[i]}
    <2>1. ASSUME NEW r \in ToSet(ns) PROVE r \in ToSet(rs) /\ r # rs[i]
      <3>1. PICK j \in 1..(Len(rs) - 1) : r = ns[j]
        BY <1>3 DEF ToSet
      <3>2. PICK m \in 1..Len(rs) : ns[j] = rs[m] /\ m # i
        BY <1>4
      <3>3. rs[m].start # rs[i].start
        BY <3>2, SortedApart
      <3>4. QED
        BY <1>1, <3>1, <3>2, <3>3 DEF ToSet
    <2>2. ASSUME NEW r \in ToSet(rs), r # rs[i] PROVE r \in ToSet(ns)
      <3>1. PICK m \in 1..Len(rs) : r = rs[m]
        BY <1>1 DEF ToSet
      <3>2. m # i
        BY <2>2, <3>1
      <3>3. CASE m < i
        <4>1. m \in 1..(Len(rs) - 1) /\ ns[m] = rs[m]
          BY <1>1, <1>2, <3>3
        <4>2. QED
          BY <1>3, <3>1, <4>1 DEF ToSet
      <3>4. CASE m > i
        <4>1. /\ m - 1 \in 1..(Len(rs) - 1) /\ ~(m - 1 < i)
              /\ (m - 1) + 1 = m
          BY <1>1, <3>4
        <4>2. ns[m - 1] = rs[m]
          BY <1>2, <4>1
        <4>3. QED
          BY <1>3, <3>1, <4>1, <4>2 DEF ToSet
      <3>5. QED
        BY <1>1, <3>2, <3>3, <3>4
    <2>3. QED
      BY <2>1, <2>2
  <1>7. QED
    BY <1>2, <1>5, <1>6 DEF ns

Mark(r, g) == [r EXCEPT !.delete_generation = g]
MarkAt(rs, i, g) == [rs EXCEPT ![i].delete_generation = g]

(* Marking a region for deletion leaves it where it is. *)
LEMMA MarkKeepsSorted ==
  ASSUME NEW rs \in Seq(Region), Sorted(rs), NEW i \in 1..Len(rs),
         NEW g \in 1..MaxGeneration
  PROVE  /\ MarkAt(rs, i, g) \in Seq(Region) /\ Sorted(MarkAt(rs, i, g))
         /\ ToSet(MarkAt(rs, i, g))
              = (ToSet(rs) \ {rs[i]}) \cup {Mark(rs[i], g)}
         /\ Mark(rs[i], g).start = rs[i].start
         /\ Mark(rs[i], g).size = rs[i].size
         /\ Mark(rs[i], g).is_mmap = rs[i].is_mmap
         /\ Mark(rs[i], g).delete_generation = g
  <1> DEFINE item == [rs[i] EXCEPT !.delete_generation = g]
             ns == [rs EXCEPT ![i] = item]
  <1>1. /\ DOMAIN rs = 1..Len(rs) /\ Len(rs) \in Nat
        /\ \A j \in 1..Len(rs) : rs[j] \in Region
    BY RegionsFields
  <1>2. /\ item \in Region
        /\ item.start = rs[i].start /\ item.size = rs[i].size
        /\ item.is_mmap = rs[i].is_mmap /\ item.delete_generation = g
    <2>1. rs[i] \in Region
      BY <1>1
    <2>2. QED
      BY <2>1 DEF Region
  <1>3. ns = MarkAt(rs, i, g) /\ item = Mark(rs[i], g)
    BY DEF MarkAt, Mark
  <1> HIDE DEF item
  <1>4. /\ ns \in Seq(Region) /\ Len(ns) = Len(rs)
        /\ \A j \in 1..Len(rs) : ns[j] = IF j = i THEN item ELSE rs[j]
    BY <1>2, ExceptSeq
  <1>5. DOMAIN ns = 1..Len(rs)
    BY <1>1
  <1> HIDE DEF ns
  <1>6. \A j \in 1..Len(rs) :
          ns[j].start = rs[j].start /\ ns[j].size = rs[j].size
    BY <1>2, <1>4
  <1>7. Sorted(ns)
    BY <1>1, <1>5, <1>6 DEF Sorted
  <1>8. ToSet(ns) = (ToSet(rs) \ {rs[i]}) \cup {item}
    <2>1. \A j \in 1..Len(rs) : j # i => rs[j] # rs[i]
      BY SortedApart
    <2>2. QED
      BY <1>1, <1>4, <1>5, <2>1 DEF ToSet
  <1>9. QED
    BY <1>2, <1>3, <1>4, <1>7, <1>8
-----------------------------------------------------------------------------
(* The inductive invariant. *)

PageOf(b) == (b - 1) \div PageBundles

(* The regions lie apart in the dynamic text area; a file is mapped over   *)
(* whole pages.                                                            *)
RegionsInv ==
  /\ Sorted(dynamic_regions)
  /\ \A r \in Regions :
       /\ Area(r) \subseteq Bundle
       /\ r.delete_generation <= dynamic_delete_generation
       /\ r.is_mmap =>
            \A b \in Area(r) : PageArea({PageOf(b)}) \subseteq Area(r)

InCall == {"tails", "heads", "halts", "checkIn", "scan"}

(* The table holds the threads that run, and the mutex the one in a call.  *)
ThreadsInv ==
  /\ Main \in Thread /\ NoThread \notin Thread
  /\ \A t \in Thread :
       /\ t \in threads <=> pc[t] \notin {"new", "gone"}
       /\ pc[t] \in InCall <=> dynamic_load_mutex = t
       /\ at[t] # <<>> => pc[t] = "user"

(* Between the read of the generation and its use it may only grow.        *)
GenerationsInv ==
  \A t \in Thread :
    /\ generation[t] <= dynamic_delete_generation
    /\ pc[t] = "set" => /\ generation[t] <= gen[t]
                        /\ gen[t] <= dynamic_delete_generation

(* What can be entered is complete and in a region nobody deleted, and no  *)
(* page is written before it is visible.                                   *)
MemoryInv ==
  \A b \in Bundle :
    /\ head[b] \in Code =>
         /\ tail[b] = head[b]
         /\ \E r \in Regions : b \in Area(r) /\ r.delete_generation = -1
    /\ \/ tail[b] = Zero
       \/ PageOf(b) \in dynamic_page_bitmap
       \/ \E r \in Regions : r.is_mmap /\ b \in Area(r)

(* A thread in a region has not checked in since it was marked.            *)
RunningInv ==
  \A t \in Thread : at[t] # <<>> =>
    /\ tail[at[t][1]] = at[t][2]
    /\ \E r \in Regions :
         /\ at[t][1] \in Area(r)
         /\ r.delete_generation = -1 \/ generation[t] < r.delete_generation

HeadsOff(bs) == \A b \in bs : head[b] \notin Code

(* A region that no call is at work on has all of its code or none.        *)
Whole(r) ==
  \/ HeadsOff(Area(r))
  \/ /\ r.delete_generation = -1
     /\ \E c \in Code : \A b \in Area(r) : head[b] = c /\ tail[b] = c

WholeInv == \A r \in Regions : ~Busy(r) => Whole(r)

(* How far the call that holds the mutex is with its region.               *)
Copying(r) ==
  /\ r.delete_generation = -1 /\ call.code \in Code
  /\ call.todo \subseteq Area(r)
  /\ HeadsOff(call.todo)

TailsInv(r) ==
  /\ Copying(r) /\ call.todo = Area(r)
  /\ Pages(r.start, r.size) \subseteq dynamic_page_bitmap
  /\ \A u \in Thread : at[u] # <<>> => at[u][1] \notin Area(r)

HeadsInv(r) ==
  /\ Copying(r)
  /\ \A b \in Area(r) : /\ tail[b] = call.code
                        /\ b \notin call.todo => head[b] = call.code

HaltsInv(r) ==
  /\ r.delete_generation = -1 /\ call.todo \subseteq Area(r)
  /\ dynamic_delete_generation # MaxGeneration
  /\ HeadsOff(Area(r) \ call.todo)

DeletingInv(r) == r.delete_generation >= 0 /\ HeadsOff(Area(r))

(* Whoever was read has checked in as far as the minimum says.             *)
ScanInv ==
  /\ call.unread \subseteq threads
  /\ \A u \in threads \ call.unread : call.rv <= generation[u]

AtWork(t, r) ==
  /\ r.start = call.dest /\ r.size = call.size /\ ~r.is_mmap
  /\ pc[t] = "tails" => TailsInv(r)
  /\ pc[t] = "heads" => HeadsInv(r)
  /\ pc[t] = "halts" => HaltsInv(r)
  /\ pc[t] \in {"checkIn", "scan"} => DeletingInv(r)
  /\ pc[t] = "scan" => ScanInv

CallInv ==
  \A t \in Thread : pc[t] \in InCall => \E r \in Regions : AtWork(t, r)

TextIInv ==
  /\ NaclTextTypeOK /\ RegionsInv /\ ThreadsInv /\ GenerationsInv
  /\ MemoryInv /\ RunningInv /\ WholeInv /\ CallInv
-----------------------------------------------------------------------------
(* Consequences of the invariant. *)

(* Two regions share no bundle.                                            *)
LEMMA RegionsDiffer ==
  ASSUME NaclTextTypeOK, RegionsInv,
         NEW r \in Regions, NEW q \in Regions, r # q
  PROVE  /\ Area(r) \cap Area(q) = {} /\ r.start # q.start
         /\ Apart(q, r.start, r.size)
  <1>1. dynamic_regions \in Seq(Region) /\ Sorted(dynamic_regions)
    BY DEF NaclTextTypeOK, RegionsInv
  <1>2. DOMAIN dynamic_regions = 1..Len(dynamic_regions)
    BY <1>1, RegionsFields
  <1>3. PICK i \in 1..Len(dynamic_regions) : r = dynamic_regions[i]
    BY <1>2 DEF Regions, ToSet
  <1>4. PICK j \in 1..Len(dynamic_regions) : q = dynamic_regions[j]
    BY <1>2 DEF Regions, ToSet
  <1>5. Apart(q, r.start, r.size) /\ r.start # q.start
    BY <1>1, <1>3, <1>4, SortedApart
  <1>6. r \in Region /\ q \in Region
    BY <1>1, <1>3, <1>4, RegionsFields
  <1>7. /\ r.start \in Int /\ r.size \in Int
        /\ q.start \in Int /\ q.size \in Int
    BY <1>6, RegionFields
  <1>8. Area(r) \cap Area(q) = {}
    <2>1. \/ q.start + q.size <= r.start
          \/ r.start + r.size <= q.start
      BY <1>5 DEF Apart
    <2>2. /\ Area(r) = r.start .. (r.start + r.size - 1)
          /\ Area(q) = q.start .. (q.start + q.size - 1)
      BY DEF Area, Bundles
    <2>3. QED
      BY <1>7, <2>1, <2>2
  <1>9. QED
    BY <1>5, <1>8

(* A region has its fields and at least one bundle.                        *)
LEMMA RegionTypes ==
  ASSUME NaclTextTypeOK, NEW r \in Regions
  PROVE  /\ r \in Region /\ r.start \in Area(r)
         /\ r.start \in Bundle /\ r.size \in Bundle /\ r.is_mmap \in BOOLEAN
         /\ r.delete_generation \in {-1} \cup 1..MaxGeneration
         /\ r.start \in Int /\ r.size \in Int /\ r.start > 0 /\ r.size > 0
  <1>1. dynamic_regions \in Seq(Region)
    BY DEF NaclTextTypeOK
  <1>2. r \in Region
    BY <1>1, RegionsFields DEF Regions, ToSet
  <1>3. QED
    BY <1>2, RegionFields DEF Area, Bundles

(* The index of a region is found by its range.                            *)
LEMMA RegionAt ==
  ASSUME NaclTextTypeOK, RegionsInv, NEW r \in Regions
  PROVE  /\ RegionFind(dynamic_regions, r.start, r.size)
              \in 1..Len(dynamic_regions)
         /\ dynamic_regions[RegionFind(dynamic_regions, r.start, r.size)] = r
  <1>1. dynamic_regions \in Seq(Region) /\ Sorted(dynamic_regions)
    BY DEF NaclTextTypeOK, RegionsInv
  <1>2. PICK i \in 1..Len(dynamic_regions) : r = dynamic_regions[i]
    BY <1>1, RegionsFields DEF Regions, ToSet
  <1>3. RegionFind(dynamic_regions, r.start, r.size) = i
    BY <1>1, <1>2, RegionFindItself
  <1>4. QED
    BY <1>2, <1>3

(* What a delete finds is a region, at the index it looks up.              *)
LEMMA DeletableRegion ==
  ASSUME NaclTextTypeOK, RegionsInv, NEW dest \in Bundle, NEW size \in Bundle,
         Deletable(RegionFind(dynamic_regions, dest, size), dest, size)
  PROVE  LET i == RegionFind(dynamic_regions, dest, size)
         IN  /\ dynamic_regions[i] \in Regions
             /\ dynamic_regions[i].start = dest
             /\ dynamic_regions[i].size = size /\ ~dynamic_regions[i].is_mmap
  <1> DEFINE i == RegionFind(dynamic_regions, dest, size)
  <1>1. dynamic_regions \in Seq(Region) /\ Sorted(dynamic_regions)
    BY DEF NaclTextTypeOK, RegionsInv
  <1>2. dest \in Int /\ size \in Int /\ size > 0
    BY DEF Bundle
  <1>3. i = 0 \/ i \in 1..Len(dynamic_regions)
    BY <1>1, <1>2, RegionFindFinds
  <1>4. i # 0
    BY DEF Deletable
  <1>5. dynamic_regions[i] \in Regions
    BY <1>1, <1>3, <1>4, RegionsFields DEF Regions, ToSet
  <1>6. QED
    BY <1>5 DEF Deletable

(* The bundles of the pages of a range are those that share a page with it. *)
LEMMA PagesAreShared ==
  ASSUME NaclTextAssumption, NEW dest \in Bundle, NEW size \in Bundle,
         Bundles(dest, size) \subseteq Bundle
  PROVE  /\ Pages(dest, size) \subseteq Page
         /\ \A b \in Bundle : PageOf(b) \in Pages(dest, size) =>
              \E d \in Bundles(dest, size) : PageOf(d) = PageOf(b)
  BY DEF Pages, Page, PageOf

(* A page that becomes visible has not been written to.                    *)
LEMMA FreshPagesAreUntouched ==
  ASSUME NaclTextAssumption, NaclTextTypeOK, RegionsInv, MemoryInv,
         NEW dest \in Bundle, NEW size \in Bundle,
         Bundles(dest, size) \subseteq Bundle,
         \A r \in Regions : r.is_mmap => Area(r) \cap Bundles(dest, size) = {},
         NEW b \in PageArea(Pages(dest, size) \ dynamic_page_bitmap)
  PROVE  tail[b] = Zero
  <1>1. b \in Bundle /\ PageOf(b) \in Pages(dest, size)
        /\ PageOf(b) \notin dynamic_page_bitmap
    BY DEF PageArea, PageOf
  <1>2. PICK d \in Bundles(dest, size) : PageOf(d) = PageOf(b)
    BY <1>1, PagesAreShared
  <1>3. SUFFICES ASSUME NEW r \in Regions, r.is_mmap, b \in Area(r)
                 PROVE  FALSE
    BY <1>1 DEF MemoryInv
  <1>4. d \in PageArea({PageOf(b)})
    BY <1>2 DEF PageArea, PageOf
  <1>5. d \in Area(r)
    BY <1>3, <1>4 DEF RegionsInv
  <1>6. QED
    BY <1>2, <1>3, <1>5

(***************************************************************************)
(* Making pages visible writes halts where there was nothing: no code and  *)
(* nothing that a thread runs (nacl_text.c:340-410).                       *)
(***************************************************************************)
LEMMA MapTextEffect ==
  ASSUME NaclTextAssumption, NaclTextTypeOK, RegionsInv, MemoryInv,
         NEW dest \in Bundle, NEW size \in Bundle,
         Bundles(dest, size) \subseteq Bundle,
         \A r \in Regions : r.is_mmap => Area(r) \cap Bundles(dest, size) = {},
         MapText(dest, size)
  PROVE  /\ dynamic_page_bitmap' \subseteq Page
         /\ dynamic_page_bitmap \subseteq dynamic_page_bitmap'
         /\ Pages(dest, size) \subseteq dynamic_page_bitmap'
         /\ dynamic_mapcache' \subseteq dynamic_page_bitmap'
         /\ head' \in [Bundle -> Cell] /\ tail' \in [Bundle -> Cell]
         /\ \A b \in Bundle :
              \/ head'[b] = head[b] /\ tail'[b] = tail[b]
              \/ /\ tail[b] = Zero /\ head'[b] = Halt /\ tail'[b] = Halt
                 /\ PageOf(b) \in dynamic_page_bitmap'
  <1>1. /\ dynamic_page_bitmap \subseteq Page
        /\ dynamic_mapcache \subseteq dynamic_page_bitmap
        /\ head \in [Bundle -> Cell] /\ tail \in [Bundle -> Cell]
    BY DEF NaclTextTypeOK
  <1>2. Pages(dest, size) \subseteq Page
    BY PagesAreShared
  <1>3. dynamic_mapcache' = Pages(dest, size)
    BY DEF MapText
  <1>4. CASE Pages(dest, size) = dynamic_mapcache
    BY <1>1, <1>3, <1>4 DEF MapText, memVars
  <1>5. CASE Pages(dest, size) # dynamic_mapcache
    <2> DEFINE fresh == PageArea(Pages(dest, size) \ dynamic_page_bitmap)
    <2>1. /\ dynamic_page_bitmap' = dynamic_page_bitmap \cup Pages(dest, size)
          /\ head' = [b \in Bundle |-> IF b \in fresh THEN Halt ELSE head[b]]
          /\ tail' = [b \in Bundle |-> IF b \in fresh THEN Halt ELSE tail[b]]
      BY <1>5 DEF MapText, MakePagesVisible
    <2>2. \A b \in fresh : tail[b] = Zero
      BY FreshPagesAreUntouched
    <2>3. \A b \in fresh : PageOf(b) \in Pages(dest, size)
      BY DEF PageArea, PageOf
    <2> HIDE DEF fresh
    <2>4. Halt \in Cell
      BY DEF Cell
    <2>5. head' \in [Bundle -> Cell] /\ tail' \in [Bundle -> Cell]
      BY <1>1, <2>1, <2>4
    <2>6. ASSUME NEW b \in Bundle
          PROVE  \/ head'[b] = head[b] /\ tail'[b] = tail[b]
                 \/ /\ tail[b] = Zero /\ head'[b] = Halt /\ tail'[b] = Halt
                    /\ PageOf(b) \in dynamic_page_bitmap'
      BY <2>1, <2>2, <2>3
    <2>7. QED
      BY <1>1, <1>2, <1>3, <2>1, <2>5, <2>6
  <1>6. QED
    BY <1>4, <1>5
(* A step that writes to fresh pages at most.                              *)
Settled ==
  /\ dynamic_page_bitmap \subseteq dynamic_page_bitmap'
  /\ \A b \in Bundle :
       \/ head'[b] = head[b] /\ tail'[b] = tail[b]
       \/ /\ tail[b] = Zero /\ head'[b] = Halt /\ tail'[b] = Halt
          /\ PageOf(b) \in dynamic_page_bitmap'

(* Such a step keeps what can be entered or is run.                        *)
LEMMA SettledCode ==
  ASSUME NaclTextAssumption, MemoryInv, Settled, NEW b \in Bundle
  PROVE  /\ head[b] \in Code => head'[b] = head[b] /\ tail'[b] = tail[b]
         /\ tail[b] \in Code => head'[b] = head[b] /\ tail'[b] = tail[b]
         /\ head'[b] \in Code => head'[b] = head[b] /\ tail'[b] = tail[b]
  BY DEF NaclTextAssumption, MemoryInv, Settled

(* A step that writes no memory and no page bits is settled.                *)
LEMMA SettledIfUnchanged ==
  ASSUME UNCHANGED <<memVars, dynamic_page_bitmap>>
  PROVE  Settled
  BY DEF memVars, Settled

(* A settled step that only adds regions keeps the memory right.            *)
LEMMA MemoryStays ==
  ASSUME NaclTextAssumption, MemoryInv, Settled, Regions \subseteq Regions'
  PROVE  MemoryInv'
  <1> SUFFICES ASSUME NEW b \in Bundle
               PROVE  /\ head'[b] \in Code =>
                           /\ tail'[b] = head'[b]
                           /\ \E r \in Regions' :
                                b \in Area(r) /\ r.delete_generation = -1
                      /\ \/ tail'[b] = Zero
                         \/ PageOf(b) \in dynamic_page_bitmap'
                         \/ \E r \in Regions' : r.is_mmap /\ b \in Area(r)
    BY DEF MemoryInv
  <1>1. head'[b] \in Code => head'[b] = head[b] /\ tail'[b] = tail[b]
    BY SettledCode
  <1>2. head[b] \in Code =>
          /\ tail[b] = head[b]
          /\ \E r \in Regions : b \in Area(r) /\ r.delete_generation = -1
    BY DEF MemoryInv
  <1>3. \/ tail'[b] = Zero
        \/ PageOf(b) \in dynamic_page_bitmap'
        \/ \E r \in Regions' : r.is_mmap /\ b \in Area(r)
    BY DEF MemoryInv, Settled
  <1>4. QED
    BY <1>1, <1>2, <1>3

(* So it does for the threads that run in the area.                         *)
LEMMA RunningStays ==
  ASSUME NaclTextAssumption, NaclTextTypeOK, MemoryInv, RunningInv, Settled,
         Regions \subseteq Regions',
         \A t \in Thread : at'[t] # <<>> =>
           at'[t] = at[t] /\ generation'[t] = generation[t]
  PROVE  RunningInv'
  <1> SUFFICES ASSUME NEW t \in Thread, at'[t] # <<>>
               PROVE  /\ tail'[at'[t][1]] = at'[t][2]
                      /\ \E r \in Regions' :
                           /\ at'[t][1] \in Area(r)
                           /\ \/ r.delete_generation = -1
                              \/ generation'[t] < r.delete_generation
    BY DEF RunningInv
  <1>1. at'[t] = at[t] /\ generation'[t] = generation[t]
    OBVIOUS
  <1>2. at[t][1] \in Bundle /\ at[t][2] \in Code
    BY <1>1 DEF NaclTextTypeOK
  <1>3. /\ tail[at[t][1]] = at[t][2]
        /\ \E r \in Regions :
             /\ at[t][1] \in Area(r)
             /\ \/ r.delete_generation = -1
                \/ generation[t] < r.delete_generation
    BY <1>1 DEF RunningInv
  <1>4. tail'[at[t][1]] = tail[at[t][1]]
    BY <1>2, <1>3, SettledCode
  <1>5. QED
    BY <1>1, <1>3, <1>4

(* A region whose bundles are not written stays as whole as it was.         *)
LEMMA WholeStays ==
  ASSUME NaclTextAssumption, MemoryInv, Settled,
         NEW r, Area(r) \subseteq Bundle, Whole(r)
  PROVE  Whole(r)'
  <1>1. \A b \in Area(r) : head'[b] \in Code => head'[b] = head[b]
    BY SettledCode
  <1>2. \A b \in Area(r) : head[b] \in Code =>
          head'[b] = head[b] /\ tail'[b] = tail[b]
    BY SettledCode
  <1>3. QED
    BY <1>1, <1>2 DEF Whole, HeadsOff

(* A region is left alone by a step of a thread that is not at work on it. *)
LEMMA QuietWhole ==
  ASSUME NaclTextAssumption, RegionsInv, MemoryInv, WholeInv, Settled,
         dynamic_regions' = dynamic_regions,
         \A r \in Regions : Busy(r) => Busy(r)' \/ Whole(r)
  PROVE  WholeInv'
  <1>1. Regions' = Regions
    BY DEF Regions
  <1>2. ASSUME NEW r \in Regions, ~Busy(r)' PROVE Whole(r)'
    <2>1. Whole(r)
      BY <1>2 DEF WholeInv
    <2>2. Area(r) \subseteq Bundle
      BY DEF RegionsInv
    <2>3. QED
      BY <2>1, <2>2, WholeStays
  <1>3. QED
    BY <1>1, <1>2 DEF WholeInv

(* A step that leaves the region array alone.                               *)
LEMMA QuietRegions ==
  ASSUME RegionsInv, UNCHANGED regionVars
  PROVE  RegionsInv' /\ Regions' = Regions
  BY DEF RegionsInv, Regions, regionVars

(* What a call has done so far is not undone by the other threads.         *)
LEMMA QuietCall ==
  ASSUME NaclTextTypeOK, CallInv,
         UNCHANGED <<memVars, dynamic_page_bitmap, regionVars, call>>,
         NEW t \in Thread, pc'[t] \in InCall, pc'[t] = pc[t],
         \A u \in Thread : at'[u] # <<>> =>
           at'[u] = at[u] \/ head[at'[u][1]] \in Code,
         pc[t] = "scan" =>
           /\ threads' = threads
           /\ \A u \in threads : generation[u] <= generation'[u]
                                 /\ generation'[u] \in Int
  PROVE  \E r \in Regions' : AtWork(t, r)'
  <1>1. PICK r \in Regions : AtWork(t, r)
    BY DEF CallInv
  <1>2. r \in Regions'
    BY DEF Regions, regionVars
  <1>3. TailsInv(r) => TailsInv(r)'
    <2>1. ASSUME TailsInv(r), NEW u \in Thread, at'[u] # <<>>
          PROVE  at'[u][1] \notin Area(r)
      <3>1. CASE at'[u] = at[u]
        BY <2>1, <3>1 DEF TailsInv
      <3>2. CASE head[at'[u][1]] \in Code
        BY <2>1, <3>2 DEF TailsInv, Copying, HeadsOff
      <3>3. QED
        BY <2>1, <3>1, <3>2
    <2>2. QED
      BY <2>1 DEF TailsInv, Copying, HeadsOff, memVars
  <1>4. HeadsInv(r) => HeadsInv(r)'
    BY DEF HeadsInv, Copying, HeadsOff, memVars
  <1>5. HaltsInv(r) => HaltsInv(r)'
    BY DEF HaltsInv, HeadsOff, memVars, regionVars
  <1>6. DeletingInv(r) => DeletingInv(r)'
    BY DEF DeletingInv, HeadsOff, memVars
  <1>7. pc[t] = "scan" /\ ScanInv => ScanInv'
    <2> SUFFICES ASSUME pc[t] = "scan", ScanInv PROVE ScanInv'
      OBVIOUS
    <2>1. call' = call /\ threads' = threads /\ threads \subseteq Thread
      BY DEF NaclTextTypeOK
    <2>2. ASSUME NEW u \in threads \ call.unread
          PROVE  call.rv <= generation'[u]
      <3>1. /\ call.rv \in Int /\ generation[u] \in Int
            /\ generation'[u] \in Int
        BY <2>1 DEF NaclTextTypeOK
      <3>2. call.rv <= generation[u] /\ generation[u] <= generation'[u]
        BY DEF ScanInv
      <3>3. QED
        BY <3>1, <3>2
    <2>3. QED
      BY <2>1, <2>2 DEF ScanInv
  <1>8. AtWork(t, r)'
    BY <1>1, <1>3, <1>4, <1>5, <1>6, <1>7 DEF AtWork
  <1>9. QED
    BY <1>2, <1>8
-----------------------------------------------------------------------------
(* Each step keeps the invariant: checking in, running, coming and going.  *)

(* While the mutex is free nobody is in a call.                            *)
LEMMA NobodyInCall ==
  ASSUME ThreadsInv, dynamic_load_mutex = NoThread, NEW t \in Thread
  PROVE  pc[t] \notin InCall
  BY DEF ThreadsInv

(* A step that leaves memory and regions alone keeps what is said of them. *)
LEMMA QuietMemory ==
  ASSUME NaclTextAssumption, TextIInv,
         UNCHANGED <<memVars, dynamic_page_bitmap, regionVars>>
  PROVE  /\ RegionsInv' /\ Regions' = Regions /\ MemoryInv' /\ Settled
         /\ (\A r \in Regions : Busy(r) => Busy(r)' \/ Whole(r)) => WholeInv'
         /\ (\A u \in Thread : at'[u] # <<>> =>
               at'[u] = at[u] /\ generation'[u] = generation[u]) => RunningInv'
  <1>1. RegionsInv' /\ Regions' = Regions
    BY QuietRegions DEF TextIInv
  <1>2. Settled
    BY SettledIfUnchanged
  <1>3. MemoryInv'
    BY <1>1, <1>2, MemoryStays DEF TextIInv
  <1>4. ASSUME \A r \in Regions : Busy(r) => Busy(r)' \/ Whole(r)
        PROVE  WholeInv'
    BY <1>2, <1>4, QuietWhole DEF TextIInv, regionVars
  <1>5. ASSUME \A u \in Thread : at'[u] # <<>> =>
                 at'[u] = at[u] /\ generation'[u] = generation[u]
        PROVE  RunningInv'
    BY <1>1, <1>2, <1>5, RunningStays DEF TextIInv
  <1>6. QED
    BY <1>1, <1>2, <1>3, <1>4, <1>5

(* A system call that reads the two generations keeps the invariant.        *)
LEMMA CheckInReadKeeps ==
  ASSUME NaclTextAssumption, TextIInv, NEW t \in Thread, CheckInRead(t)
  PROVE  TextIInv'
  <1>1. /\ pc[t] = "user" /\ at[t] = <<>>
        /\ dynamic_load_mutex = NoThread
        /\ gen' = [gen EXCEPT ![t] = dynamic_delete_generation]
        /\ pc' = [pc EXCEPT ![t] = "set"]
        /\ UNCHANGED <<memVars, dynamic_page_bitmap, regionVars>>
        /\ UNCHANGED <<memVars, mapVars, regionVars, threadVars,
                       dynamic_load_mutex, call>>
    BY DEF CheckInRead, CanCall, mapVars
  <1>2. NaclTextTypeOK'
    BY <1>1 DEF TextIInv, NaclTextTypeOK, memVars, mapVars, regionVars,
                threadVars
  <1>3. ThreadsInv'
    BY <1>1 DEF TextIInv, NaclTextTypeOK, ThreadsInv, InCall, threadVars
  <1>4. GenerationsInv'
    BY <1>1 DEF TextIInv, NaclTextTypeOK, GenerationsInv, regionVars,
                threadVars
  <1>5. RegionsInv' /\ MemoryInv' /\ WholeInv' /\ RunningInv'
    <2>1. \A r \in Regions : ~Busy(r)
      BY <1>1 DEF Busy
    <2>2. at' = at /\ generation' = generation
      BY <1>1 DEF threadVars
    <2>3. QED
      BY <1>1, <2>1, <2>2, QuietMemory
  <1>6. CallInv'
    BY <1>1, <1>3, NobodyInCall DEF ThreadsInv, CallInv
  <1>7. QED
    BY <1>2, <1>3, <1>4, <1>5, <1>6 DEF TextIInv

(* A system call that stores the generation it read keeps the invariant.    *)
LEMMA CheckInSetKeeps ==
  ASSUME NaclTextAssumption, TextIInv, NEW t \in Thread, CheckInSet(t)
  PROVE  TextIInv'
  <1>1. /\ pc[t] = "set"
        /\ generation' = [generation EXCEPT ![t] = gen[t]]
        /\ gen' = [gen EXCEPT ![t] = 0]
        /\ pc' = [pc EXCEPT ![t] = "user"]
        /\ UNCHANGED <<memVars, dynamic_page_bitmap, regionVars>>
        /\ UNCHANGED <<memVars, dynamic_page_bitmap, regionVars, call>>
        /\ UNCHANGED <<memVars, mapVars, regionVars, threads, at,
                       dynamic_load_mutex, call>>
    BY DEF CheckInSet, SetThreadGeneration, mapVars
  <1>2. NaclTextTypeOK'
    BY <1>1 DEF TextIInv, NaclTextTypeOK, memVars, mapVars, regionVars
  <1>3. ThreadsInv'
    BY <1>1 DEF TextIInv, NaclTextTypeOK, ThreadsInv, InCall
  <1>4. at[t] = <<>>
    BY <1>1 DEF TextIInv, ThreadsInv
  <1>5. GenerationsInv'
    BY <1>1 DEF TextIInv, NaclTextTypeOK, GenerationsInv, regionVars
  <1>6. RegionsInv' /\ MemoryInv' /\ WholeInv' /\ RunningInv'
    <2>1. \A r \in Regions : Busy(r) => Busy(r)'
      BY <1>1 DEF Busy
    <2>2. \A u \in Thread : at'[u] # <<>> =>
            at'[u] = at[u] /\ generation'[u] = generation[u]
      BY <1>1, <1>4 DEF TextIInv, NaclTextTypeOK
    <2>3. QED
      BY <1>1, <2>1, <2>2, QuietMemory
  <1>7. CallInv'
    <2> SUFFICES ASSUME NEW u \in Thread, pc'[u] \in InCall
                 PROVE  \E r \in Regions' : AtWork(u, r)'
      BY DEF CallInv
    <2>1. pc'[u] = pc[u]
      BY <1>1 DEF TextIInv, NaclTextTypeOK, InCall
    <2>2. /\ threads' = threads
          /\ \A v \in threads :
               generation[v] <= generation'[v] /\ generation'[v] \in Int
      BY <1>1 DEF TextIInv, NaclTextTypeOK, GenerationsInv
    <2>3. \A v \in Thread : at'[v] = at[v]
      BY <1>1
    <2>4. QED
      BY <1>1, <2>1, <2>2, <2>3, QuietCall DEF TextIInv
  <1>8. QED
    BY <1>2, <1>3, <1>5, <1>6, <1>7 DEF TextIInv

(* A thread that jumps into a region keeps the invariant.                   *)
LEMMA EnterKeeps ==
  ASSUME NaclTextAssumption, TextIInv, NEW t \in Thread,
         NEW b \in Bundle, Enter(t, b)
  PROVE  TextIInv'
  <1>1. /\ pc[t] = "user" /\ head[b] \in Code
        /\ at' = [at EXCEPT ![t] = <<b, head[b]>>]
        /\ UNCHANGED <<memVars, dynamic_page_bitmap, regionVars>>
        /\ UNCHANGED <<memVars, dynamic_page_bitmap, regionVars, call>>
        /\ UNCHANGED <<memVars, mapVars, regionVars, threads, generation, pc,
                       gen, dynamic_load_mutex, call>>
    BY DEF Enter, mapVars
  <1>2. NaclTextTypeOK'
    BY <1>1 DEF TextIInv, NaclTextTypeOK, memVars, mapVars, regionVars
  <1>3. \A u \in Thread : u # t => at'[u] = at[u]
    BY <1>1 DEF TextIInv, NaclTextTypeOK
  <1>4. at'[t] = <<b, head[b]>>
    BY <1>1 DEF TextIInv, NaclTextTypeOK
  <1>5. ThreadsInv'
    BY <1>1, <1>3 DEF TextIInv, ThreadsInv
  <1>6. GenerationsInv'
    BY <1>1 DEF TextIInv, GenerationsInv, regionVars
  <1>7. RegionsInv' /\ MemoryInv' /\ WholeInv' /\ Regions' = Regions
    <2>1. \A r \in Regions : Busy(r) => Busy(r)'
      BY <1>1 DEF Busy
    <2>2. QED
      BY <1>1, <2>1, QuietMemory
  <1>8. RunningInv'
    <2> SUFFICES ASSUME NEW u \in Thread, at'[u] # <<>>
                 PROVE  /\ tail'[at'[u][1]] = at'[u][2]
                        /\ \E r \in Regions' :
                             /\ at'[u][1] \in Area(r)
                             /\ \/ r.delete_generation = -1
                                \/ generation'[u] < r.delete_generation
      BY DEF RunningInv
    <2>1. CASE u = t
      <3>1. /\ tail[b] = head[b]
            /\ \E r \in Regions : b \in Area(r) /\ r.delete_generation = -1
        BY <1>1 DEF TextIInv, MemoryInv
      <3>2. QED
        BY <1>1, <1>4, <1>7, <2>1, <3>1 DEF memVars
    <2>2. CASE u # t
      BY <1>1, <1>3, <1>7, <2>2 DEF TextIInv, RunningInv, memVars
    <2>3. QED
      BY <2>1, <2>2
  <1>9. CallInv'
    <2> SUFFICES ASSUME NEW u \in Thread, pc'[u] \in InCall
                 PROVE  \E r \in Regions' : AtWork(u, r)'
      BY DEF CallInv
    <2>1. pc'[u] = pc[u]
      BY <1>1
    <2>2. /\ threads' = threads
          /\ \A v \in threads :
               generation[v] <= generation'[v] /\ generation'[v] \in Int
      BY <1>1 DEF TextIInv, NaclTextTypeOK
    <2>3. \A v \in Thread : at'[v] # <<>> =>
            at'[v] = at[v] \/ head[at'[v][1]] \in Code
      BY <1>1, <1>3, <1>4
    <2>4. QED
      BY <1>1, <2>1, <2>2, <2>3, QuietCall DEF TextIInv
  <1>10. QED
    BY <1>2, <1>5, <1>6, <1>7, <1>8, <1>9 DEF TextIInv

(* A thread that leaves the dynamic text area keeps the invariant.          *)
LEMMA LeaveKeeps ==
  ASSUME NaclTextAssumption, TextIInv, NEW t \in Thread, Leave(t)
  PROVE  TextIInv'
  <1>1. /\ at' = [at EXCEPT ![t] = <<>>]
        /\ UNCHANGED <<memVars, dynamic_page_bitmap, regionVars>>
        /\ UNCHANGED <<memVars, dynamic_page_bitmap, regionVars, call>>
        /\ UNCHANGED <<memVars, mapVars, regionVars, threads, generation, pc,
                       gen, dynamic_load_mutex, call>>
    BY DEF Leave, mapVars
  <1>2. NaclTextTypeOK'
    BY <1>1 DEF TextIInv, NaclTextTypeOK, memVars, mapVars, regionVars
  <1>3. \A u \in Thread : at'[u] # <<>> => at'[u] = at[u]
    BY <1>1 DEF TextIInv, NaclTextTypeOK
  <1>4. ThreadsInv'
    BY <1>1, <1>3 DEF TextIInv, ThreadsInv
  <1>5. GenerationsInv'
    BY <1>1 DEF TextIInv, GenerationsInv, regionVars
  <1>6. RegionsInv' /\ MemoryInv' /\ WholeInv' /\ RunningInv'
    <2>1. \A r \in Regions : Busy(r) => Busy(r)'
      BY <1>1 DEF Busy
    <2>2. \A u \in Thread : at'[u] # <<>> =>
            at'[u] = at[u] /\ generation'[u] = generation[u]
      BY <1>1, <1>3
    <2>3. QED
      BY <1>1, <2>1, <2>2, QuietMemory
  <1>7. CallInv'
    <2> SUFFICES ASSUME NEW u \in Thread, pc'[u] \in InCall
                 PROVE  \E r \in Regions' : AtWork(u, r)'
      BY DEF CallInv
    <2>1. pc'[u] = pc[u]
      BY <1>1
    <2>2. /\ threads' = threads
          /\ \A v \in threads :
               generation[v] <= generation'[v] /\ generation'[v] \in Int
      BY <1>1 DEF TextIInv, NaclTextTypeOK
    <2>3. QED
      BY <1>1, <1>3, <2>1, <2>2, QuietCall DEF TextIInv
  <1>8. QED
    BY <1>2, <1>4, <1>5, <1>6, <1>7 DEF TextIInv
(* A thread comes and goes while nobody scans the table.                   *)
LEMMA ComingAndGoing ==
  ASSUME NaclTextAssumption, TextIInv, NEW t \in Thread, ThreadsMuFree,
         pc[t] \notin InCall, at[t] = <<>>, NEW step \in {"user", "gone"},
         generation' = [generation EXCEPT ![t] = 0],
         pc' = [pc EXCEPT ![t] = step],
         threads' = IF step = "user" THEN threads \cup {t} ELSE threads \ {t},
         pc[t] # "set",
         UNCHANGED <<memVars, mapVars, regionVars, at, gen,
                     dynamic_load_mutex, call>>
  PROVE  TextIInv'
  <1>1. /\ UNCHANGED <<memVars, dynamic_page_bitmap, regionVars>>
        /\ UNCHANGED <<memVars, dynamic_page_bitmap, regionVars, call>>
    BY DEF mapVars
  <1>2. NaclTextTypeOK'
    <2>1. threads' \subseteq Thread
      BY DEF TextIInv, NaclTextTypeOK
    <2>2. generation' \in [Thread -> 0..MaxGeneration]
      BY DEF TextIInv, NaclTextTypeOK, NaclTextAssumption
    <2>3. pc' \in [Thread -> {"new", "user", "tails", "heads", "set", "halts",
                              "checkIn", "scan", "gone"}]
      BY DEF TextIInv, NaclTextTypeOK
    <2>4. QED
      BY <2>1, <2>2, <2>3
         DEF TextIInv, NaclTextTypeOK, memVars, mapVars, regionVars
  <1>3. ThreadsInv'
    BY DEF TextIInv, NaclTextTypeOK, ThreadsInv, InCall
  <1>4. GenerationsInv'
    BY DEF TextIInv, NaclTextTypeOK, GenerationsInv, regionVars
  <1>5. RegionsInv' /\ MemoryInv' /\ WholeInv' /\ RunningInv'
    <2>1. \A r \in Regions : Busy(r) => Busy(r)'
      BY DEF Busy
    <2>2. \A u \in Thread : at'[u] # <<>> =>
            at'[u] = at[u] /\ generation'[u] = generation[u]
      BY DEF TextIInv, NaclTextTypeOK
    <2>3. QED
      BY <1>1, <2>1, <2>2, QuietMemory
  <1>6. CallInv'
    <2> SUFFICES ASSUME NEW u \in Thread, pc'[u] \in InCall
                 PROVE  \E r \in Regions' : AtWork(u, r)'
      BY DEF CallInv
    <2>1. pc'[u] = pc[u] /\ pc[u] # "scan"
      BY DEF TextIInv, NaclTextTypeOK, InCall, ThreadsMuFree
    <2>2. \A v \in Thread : at'[v] = at[v]
      OBVIOUS
    <2>3. QED
      BY <1>1, <2>1, <2>2, QuietCall DEF TextIInv
  <1>7. QED
    BY <1>2, <1>3, <1>4, <1>5, <1>6 DEF TextIInv

(* The start of a thread keeps the invariant.                               *)
LEMMA LaunchKeeps ==
  ASSUME NaclTextAssumption, TextIInv, NEW t \in Thread, Launch(t)
  PROVE  TextIInv'
  <1>1. /\ pc[t] = "new" /\ at[t] = <<>>
        /\ pc[t] \notin InCall
    BY DEF Launch, TextIInv, ThreadsInv, InCall
  <1>2. QED
    BY <1>1, ComingAndGoing DEF Launch

(* The end of a thread keeps the invariant.                                 *)
LEMMA ExitKeeps ==
  ASSUME NaclTextAssumption, TextIInv, NEW t \in Thread, Exit(t)
  PROVE  TextIInv'
  <1>1. /\ pc[t] = "user" /\ at[t] = <<>>
        /\ pc[t] \notin InCall
    BY DEF Exit, CanCall, InCall
  <1>2. QED
    BY <1>1, ComingAndGoing DEF Exit

(* NaClTextDyncodeModify keeps the invariant.                               *)
LEMMA ModifyKeeps ==
  ASSUME NaclTextAssumption, TextIInv, NEW t \in Thread,
         NEW dest \in Bundle, NEW size \in Bundle, Modify(t, dest, size)
  PROVE  TextIInv'
  <1>1. /\ dynamic_load_mutex = NoThread
        /\ Pages(dest, size) \subseteq dynamic_page_bitmap
        /\ UNCHANGED <<dynamic_load_mutex, call, pc>>
        /\ UNCHANGED <<dynamic_page_bitmap, memVars>>
        /\ UNCHANGED <<memVars, dynamic_page_bitmap, regionVars>>
        /\ UNCHANGED <<regionVars, threadVars, gen>>
    BY DEF Modify, LockAndUnlock, MapTextFails
  <1>2. dynamic_mapcache' \subseteq dynamic_page_bitmap
    BY <1>1 DEF Modify, MapTextFails
  <1>3. NaclTextTypeOK'
    BY <1>1, <1>2 DEF TextIInv, NaclTextTypeOK, memVars, regionVars, threadVars
  <1>4. ThreadsInv' /\ GenerationsInv'
    BY <1>1 DEF TextIInv, ThreadsInv, GenerationsInv, threadVars, regionVars
  <1>5. RegionsInv' /\ MemoryInv' /\ WholeInv' /\ RunningInv'
    <2>1. \A r \in Regions : ~Busy(r)
      BY <1>1 DEF Busy
    <2>2. at' = at /\ generation' = generation
      BY <1>1 DEF threadVars
    <2>3. QED
      BY <1>1, <2>1, <2>2, QuietMemory
  <1>6. CallInv'
    BY <1>1, <1>4, NobodyInCall DEF ThreadsInv, CallInv
  <1>7. QED
    BY <1>3, <1>4, <1>5, <1>6 DEF TextIInv

-----------------------------------------------------------------------------
(* Creating.                                                               *)

(* A region that is created lies apart from all others, where nothing can  *)
(* be entered and nobody runs.                                             *)
LEMMA RegionCreateEffect ==
  ASSUME NaclTextAssumption, TextIInv, NEW dest \in Bundle, NEW size \in Bundle,
         NEW is_mmap \in BOOLEAN, Bundles(dest, size) \subseteq Bundle,
         RegionCreate(dest, size, is_mmap)
  PROVE  LET item == NewRegion(dest, size, is_mmap)
         IN  /\ item \in Region /\ Area(item) = Bundles(dest, size)
             /\ dynamic_regions' \in Seq(Region) /\ Sorted(dynamic_regions')
             /\ Regions' = Regions \cup {item}
             /\ item.start = dest /\ item.size = size
             /\ item.delete_generation = -1 /\ item.is_mmap = is_mmap
             /\ \A r \in Regions : /\ Area(r) \cap Bundles(dest, size) = {}
                                   /\ r.start # dest
             /\ \A b \in Bundles(dest, size) : head[b] \notin Code
             /\ \A u \in Thread : at[u] # <<>> =>
                  at[u][1] \notin Bundles(dest, size)
  <1> DEFINE item == NewRegion(dest, size, is_mmap)
  <1>1. /\ item \in Region /\ Area(item) = Bundles(dest, size)
        /\ item.start = dest /\ item.size = size
        /\ item.delete_generation = -1 /\ item.is_mmap = is_mmap
    BY DEF NewRegion, Region, Area
  <1>2. /\ RegionFind(dynamic_regions, item.start, item.size) = 0
        /\ dynamic_regions' = RegionInsert(dynamic_regions, item)
    BY <1>1 DEF RegionCreate
  <1>3. dynamic_regions \in Seq(Region) /\ Sorted(dynamic_regions)
    BY DEF TextIInv, NaclTextTypeOK, RegionsInv
  <1> HIDE DEF item
  <1>4. /\ dynamic_regions' \in Seq(Region) /\ Sorted(dynamic_regions')
        /\ ToSet(dynamic_regions') = ToSet(dynamic_regions) \cup {item}
        /\ \A r \in ToSet(dynamic_regions) : Apart(r, item.start, item.size)
    BY <1>1, <1>2, <1>3, InsertKeepsSorted
  <1>5. Regions' = Regions \cup {item}
    BY <1>4 DEF Regions
  <1>6. ASSUME NEW r \in Regions
        PROVE  Area(r) \cap Bundles(dest, size) = {} /\ r.start # dest
    <2>1. Apart(r, dest, size)
      BY <1>1, <1>4 DEF Regions
    <2>2. r.start \in Int /\ r.size \in Int /\ r.size > 0
      BY RegionTypes DEF TextIInv
    <2>3. dest \in Int /\ size \in Int /\ size > 0
      BY DEF Bundle
    <2>4. QED
      BY <2>1, <2>2, <2>3 DEF Apart, Area, Bundles
  <1>7. ASSUME NEW b \in Bundles(dest, size) PROVE head[b] \notin Code
    <2>1. \A r \in Regions : b \notin Area(r)
      BY <1>6
    <2>2. QED
      BY <2>1 DEF TextIInv, MemoryInv
  <1>8. ASSUME NEW u \in Thread, at[u] # <<>>
        PROVE  at[u][1] \notin Bundles(dest, size)
    <2>1. PICK r \in Regions : at[u][1] \in Area(r)
      BY <1>8 DEF TextIInv, RunningInv
    <2>2. QED
      BY <1>6, <2>1
  <1>9. QED
    BY <1>1, <1>4, <1>5, <1>6, <1>7, <1>8 DEF item

(* A region is put in its place of the sorted array.                        *)
LEMMA CreateKeepsRegions ==
  ASSUME NaclTextAssumption, TextIInv, NEW dest \in Bundle, NEW size \in Bundle,
         NEW is_mmap \in BOOLEAN, Bundles(dest, size) \subseteq Bundle,
         RegionCreate(dest, size, is_mmap),
         is_mmap => \A b \in Bundles(dest, size) :
                      PageArea({PageOf(b)}) \subseteq Bundles(dest, size),
         dynamic_delete_generation' = dynamic_delete_generation
  PROVE  RegionsInv' /\ dynamic_regions' \in Seq(Region)
  <1> DEFINE item == NewRegion(dest, size, is_mmap)
  <1>1. /\ dynamic_regions' \in Seq(Region) /\ Sorted(dynamic_regions')
        /\ Regions' = Regions \cup {item}
        /\ Area(item) = Bundles(dest, size)
        /\ item.delete_generation = -1 /\ item.is_mmap = is_mmap
    BY RegionCreateEffect
  <1>2. -1 <= dynamic_delete_generation'
    BY DEF TextIInv, NaclTextTypeOK
  <1> HIDE DEF item
  <1>3. ASSUME NEW r \in Regions'
        PROVE  /\ Area(r) \subseteq Bundle
               /\ r.delete_generation <= dynamic_delete_generation'
               /\ r.is_mmap =>
                    \A b \in Area(r) : PageArea({PageOf(b)}) \subseteq Area(r)
    <2>1. CASE r = item
      BY <1>1, <1>2, <2>1
    <2>2. CASE r \in Regions
      BY <2>2 DEF TextIInv, RegionsInv
    <2>3. QED
      BY <1>1, <2>1, <2>2
  <1>4. QED
    BY <1>1, <1>3 DEF RegionsInv

(* A creation that cannot map its pages keeps the invariant.                *)
LEMMA CreateNoMemoryKeeps ==
  ASSUME NaclTextAssumption, TextIInv, NEW t \in Thread,
         NEW dest \in Bundle, NEW size \in Bundle, CreateNoMemory(t, dest, size)
  PROVE  TextIInv'
  <1>1. /\ dynamic_load_mutex = NoThread
        /\ UNCHANGED <<dynamic_load_mutex, call, pc>>
        /\ UNCHANGED <<memVars, dynamic_page_bitmap>>
        /\ UNCHANGED <<dynamic_delete_generation, threadVars, gen>>
        /\ RegionCreate(dest, size, FALSE)
        /\ dynamic_mapcache' = {}
    BY DEF CreateNoMemory, LockAndUnlock, MapTextFails
  <1>2. Bundles(dest, size) \subseteq Bundle
    BY DEF CreateNoMemory, Loadable, Bundles, Bundle, NaclTextAssumption
  <1>3. RegionsInv' /\ dynamic_regions' \in Seq(Region)
    BY <1>1, <1>2, CreateKeepsRegions
  <1> DEFINE item == NewRegion(dest, size, FALSE)
  <1>4. /\ Regions' = Regions \cup {item} /\ Area(item) = Bundles(dest, size)
        /\ \A b \in Bundles(dest, size) : head[b] \notin Code
    <2> DEFINE m == FALSE
    <2>1. m \in BOOLEAN /\ RegionCreate(dest, size, m)
      BY <1>1
    <2>2. item = NewRegion(dest, size, m)
      OBVIOUS
    <2> HIDE DEF m, item
    <2>3. QED
      BY <1>2, <2>1, <2>2, RegionCreateEffect
  <1> HIDE DEF item
  <1>5. NaclTextTypeOK'
    BY <1>1, <1>3 DEF TextIInv, NaclTextTypeOK, memVars, threadVars
  <1>6. ThreadsInv' /\ GenerationsInv'
    BY <1>1 DEF TextIInv, ThreadsInv, GenerationsInv, threadVars
  <1>7. Settled
    BY <1>1, SettledIfUnchanged
  <1>8. MemoryInv'
    BY <1>4, <1>7, MemoryStays DEF TextIInv
  <1>9. RunningInv'
    <2>1. at' = at /\ generation' = generation
      BY <1>1 DEF threadVars
    <2>2. QED
      BY <1>4, <1>7, <2>1, RunningStays DEF TextIInv
  <1>10. WholeInv'
    <2> SUFFICES ASSUME NEW r \in Regions' PROVE Whole(r)'
      BY DEF WholeInv
    <2>1. CASE r = item
      BY <1>1, <1>4, <2>1 DEF Whole, HeadsOff, memVars
    <2>2. CASE r \in Regions
      <3>1. Whole(r) /\ Area(r) \subseteq Bundle
        BY <1>1, <2>2 DEF TextIInv, WholeInv, Busy, RegionsInv
      <3>2. QED
        BY <1>7, <3>1, WholeStays DEF TextIInv
    <2>3. QED
      BY <1>4, <2>1, <2>2
  <1>11. CallInv'
    BY <1>1, <1>6, NobodyInCall DEF ThreadsInv, CallInv
  <1>12. QED
    BY <1>3, <1>5, <1>6, <1>8, <1>9, <1>10, <1>11 DEF TextIInv
(* A call that begins has its whole range to do.                           *)
LEMMA LockEffect ==
  ASSUME NaclTextAssumption, TextIInv, NEW t \in Thread, NEW step \in InCall,
         NEW dest \in Bundle, NEW size \in Bundle, NEW code \in Cell,
         Bundles(dest, size) \subseteq Bundle, Lock(t, step, dest, size, code),
         threads' = threads, at' = at, gen' = gen,
         generation' = generation,
         dynamic_delete_generation' = dynamic_delete_generation
  PROVE  /\ call' \in [dest : {0} \cup Bundle, size : {0} \cup Bundle,
                       code : Cell, todo : SUBSET Bundle,
                       unread : SUBSET Thread, rv : 0..MaxGeneration]
         /\ call'.dest = dest /\ call'.size = size /\ call'.code = code
         /\ call'.todo = Bundles(dest, size)
         /\ dynamic_load_mutex = NoThread
         /\ dynamic_load_mutex' \in Thread \cup {NoThread}
         /\ pc' \in [Thread -> {"new", "user", "tails", "heads", "set", "halts",
                                "checkIn", "scan", "gone"}]
         /\ pc'[t] = step /\ dynamic_load_mutex' # NoThread
         /\ \A u \in Thread : pc'[u] \in InCall => u = t
         /\ ThreadsInv' /\ GenerationsInv'
  <1>1. /\ pc[t] = "user" /\ at[t] = <<>> /\ dynamic_load_mutex = NoThread
        /\ dynamic_load_mutex' = t
        /\ call' = [NoCall EXCEPT !.dest = dest, !.size = size, !.code = code,
                                  !.todo = Bundles(dest, size)]
        /\ pc' = [pc EXCEPT ![t] = step]
    BY DEF Lock, CanCall
  <1>2. /\ call' = [dest |-> dest, size |-> size, code |-> code,
                    todo |-> Bundles(dest, size), unread |-> {},
                    rv |-> MaxGeneration]
    BY <1>1 DEF NoCall
  <1>3. MaxGeneration \in 0..MaxGeneration
    BY DEF NaclTextAssumption
  <1>4. step \in {"tails", "heads", "halts", "checkIn", "scan"}
    BY DEF InCall
  <1>5. pc' \in [Thread -> {"new", "user", "tails", "heads", "set", "halts",
                            "checkIn", "scan", "gone"}]
    BY <1>1, <1>4 DEF TextIInv, NaclTextTypeOK
  <1>6. pc'[t] = step /\ \A u \in Thread : u # t => pc'[u] = pc[u]
    BY <1>1 DEF TextIInv, NaclTextTypeOK
  <1>7. \A u \in Thread : pc[u] \notin InCall
    BY <1>1, NobodyInCall DEF TextIInv
  <1>8. \A u \in Thread : pc'[u] \in InCall => u = t
    BY <1>6, <1>7
  <1>9. t # NoThread
    BY DEF NaclTextAssumption
  <1>10. ThreadsInv'
    <2> SUFFICES ASSUME NEW u \in Thread
                 PROVE  /\ u \in threads' <=> pc'[u] \notin {"new", "gone"}
                        /\ pc'[u] \in InCall <=> dynamic_load_mutex' = u
                        /\ at'[u] # <<>> => pc'[u] = "user"
      BY DEF TextIInv, ThreadsInv
    <2>1. /\ u \in threads <=> pc[u] \notin {"new", "gone"}
          /\ at[u] # <<>> => pc[u] = "user"
      BY DEF TextIInv, ThreadsInv
    <2>2. CASE u = t
      BY <1>1, <1>4, <1>6, <2>1, <2>2
    <2>3. CASE u # t
      BY <1>1, <1>6, <1>8, <2>1, <2>3
    <2>4. QED
      BY <2>2, <2>3
  <1>11. GenerationsInv'
    <2>1. \A u \in Thread : pc'[u] = "set" => pc[u] = "set"
      BY <1>4, <1>6
    <2>2. QED
      BY <2>1 DEF TextIInv, GenerationsInv
  <1>12. QED
    BY <1>1, <1>2, <1>3, <1>5, <1>6, <1>8, <1>9, <1>10, <1>11

(* The first half of a creation keeps the invariant.                        *)
LEMMA CreateBeginKeeps ==
  ASSUME NaclTextAssumption, TextIInv, NEW t \in Thread,
         NEW dest \in Bundle, NEW size \in Bundle, NEW code \in Code,
         CreateBegin(t, dest, size, code)
  PROVE  TextIInv'
  <1> DEFINE m == FALSE
             item == NewRegion(dest, size, m)
  <1>1. /\ m \in BOOLEAN /\ RegionCreate(dest, size, m) /\ m = FALSE
        /\ Lock(t, "tails", dest, size, code)
        /\ MapText(dest, size)
        /\ UNCHANGED <<dynamic_delete_generation, threadVars, gen>>
    BY DEF CreateBegin
  <1>2. Bundles(dest, size) \subseteq Bundle
    BY DEF CreateBegin, Loadable, Bundles, Bundle, NaclTextAssumption
  <1>3. threads' = threads /\ at' = at /\ generation' = generation
        /\ gen' = gen /\ dynamic_delete_generation' = dynamic_delete_generation
    BY <1>1 DEF threadVars
  <1> HIDE DEF m
  <1>4. RegionsInv' /\ dynamic_regions' \in Seq(Region)
    BY <1>1, <1>2, <1>3, CreateKeepsRegions
  <1> HIDE DEF item
  <1>5. /\ Regions' = Regions \cup {item} /\ Area(item) = Bundles(dest, size)
        /\ item.start = dest /\ item.size = size
        /\ item.delete_generation = -1 /\ item.is_mmap = m
        /\ \A r \in Regions : Area(r) \cap Bundles(dest, size) = {}
        /\ \A b \in Bundles(dest, size) : head[b] \notin Code
        /\ \A u \in Thread : at[u] # <<>> =>
             at[u][1] \notin Bundles(dest, size)
    BY <1>1, <1>2, RegionCreateEffect DEF item
  <1>6. /\ dynamic_page_bitmap' \subseteq Page
        /\ dynamic_mapcache' \subseteq dynamic_page_bitmap'
        /\ Pages(dest, size) \subseteq dynamic_page_bitmap'
        /\ head' \in [Bundle -> Cell] /\ tail' \in [Bundle -> Cell]
        /\ Settled
    BY <1>1, <1>2, <1>5, MapTextEffect DEF TextIInv, Settled
  <1>7. code \in Cell /\ "tails" \in InCall
    BY DEF Cell, InCall
  <1>8. /\ call' \in [dest : {0} \cup Bundle, size : {0} \cup Bundle,
                      code : Cell, todo : SUBSET Bundle,
                      unread : SUBSET Thread, rv : 0..MaxGeneration]
        /\ call'.dest = dest /\ call'.size = size /\ call'.code = code
        /\ call'.todo = Bundles(dest, size)
        /\ dynamic_load_mutex = NoThread
        /\ dynamic_load_mutex' \in Thread \cup {NoThread}
        /\ pc' \in [Thread -> {"new", "user", "tails", "heads", "set", "halts",
                               "checkIn", "scan", "gone"}]
        /\ pc'[t] = "tails" /\ dynamic_load_mutex' # NoThread
        /\ \A u \in Thread : pc'[u] \in InCall => u = t
        /\ ThreadsInv' /\ GenerationsInv'
    BY <1>1, <1>2, <1>3, <1>7, LockEffect
  <1>9. NaclTextTypeOK'
    BY <1>3, <1>4, <1>6, <1>8 DEF TextIInv, NaclTextTypeOK
  <1>10. MemoryInv'
    BY <1>5, <1>6, MemoryStays DEF TextIInv
  <1>11. RunningInv'
    BY <1>3, <1>5, <1>6, RunningStays DEF TextIInv
  <1>12. WholeInv'
    <2> SUFFICES ASSUME NEW r \in Regions', ~Busy(r)' PROVE Whole(r)'
      BY DEF WholeInv
    <2>1. r # item
      BY <1>5, <1>8 DEF Busy
    <2>2. r \in Regions
      BY <1>5, <2>1
    <2>3. Whole(r) /\ Area(r) \subseteq Bundle
      BY <1>8, <2>2 DEF TextIInv, WholeInv, Busy, RegionsInv
    <2>4. QED
      BY <1>6, <2>3, WholeStays DEF TextIInv
  <1>13. CallInv'
    <2>1. \A b \in Area(item) : head'[b] \notin Code
      BY <1>2, <1>5, <1>6, SettledCode DEF TextIInv
    <2>2. TailsInv(item)'
      BY <1>3, <1>5, <1>6, <1>8, <2>1 DEF TailsInv, Copying, HeadsOff
    <2>3. AtWork(t, item)'
      BY <1>1, <1>5, <1>8, <2>2 DEF AtWork
    <2>4. QED
      BY <1>5, <1>8, <2>3 DEF CallInv
  <1>14. QED
    BY <1>4, <1>8, <1>9, <1>10, <1>11, <1>12, <1>13 DEF TextIInv
(* The whole pages of a mapped file, counted in bundles.                   *)
LEMMA PagesOfBundles ==
  ASSUME NaclTextAssumption, NEW first \in Page, NEW last \in Page,
         first <= last
  PROVE  LET dest == first * PageBundles + 1
             size == (last - first + 1) * PageBundles
         IN  /\ dest \in Bundle /\ size \in Bundle
             /\ Bundles(dest, size) = PageArea(first..last)
             /\ \A b \in Bundles(dest, size) :
                  PageArea({PageOf(b)}) \subseteq Bundles(dest, size)
  <1> DEFINE P == PageBundles
             dest == first * P + 1
             size == (last - first + 1) * P
             K == NumBundles \div P
  <1>1. /\ P \in Nat \ {0} /\ NumBundles \in Nat /\ NumBundles % P = 0
    BY DEF NaclTextAssumption
  <1>2. \A b \in Bundle : b - 1 \in Nat /\ b - 1 < NumBundles
    BY <1>1 DEF Bundle
  <1> HIDE DEF P
  <1>3. \A x \in Nat : /\ x \div P \in Nat
                       /\ (x \div P) * P <= x /\ x < (x \div P) * P + P
    BY <1>1
  <1>4. K \in Nat /\ K * P = NumBundles
    BY <1>1
  <1> HIDE DEF K
  <1>5. \A i, j \in Nat : i < j => i * P + P <= j * P
    <2> SUFFICES ASSUME NEW i \in Nat, NEW j \in Nat, i < j
                 PROVE  i * P + P <= j * P
      OBVIOUS
    <2>1. i * P + P = (i + 1) * P
      BY <1>1
    <2>2. i + 1 <= j
      OBVIOUS
    <2>3. (i + 1) * P <= j * P
      BY <1>1, <2>2
    <2>4. QED
      BY <2>1, <2>3
  <1>6. \A i \in Nat : i * P \in Nat
    BY <1>1
  <1>7. \A p \in Page : p \in Nat /\ p < K
    <2> SUFFICES ASSUME NEW b \in Bundle
                 PROVE  (b - 1) \div P \in Nat /\ (b - 1) \div P < K
      BY DEF Page, P
    <2> DEFINE p == (b - 1) \div P
    <2>1. p \in Nat /\ p * P <= b - 1
      BY <1>2, <1>3
    <2>2. b - 1 < K * P
      BY <1>2, <1>4
    <2>3. p * P < K * P /\ p * P \in Nat /\ K * P \in Nat
      BY <1>2, <1>4, <1>6, <2>1, <2>2
    <2> HIDE DEF p
    <2>4. ~(K < p) /\ K # p
      <3>1. K < p => K * P + P <= p * P
        BY <1>4, <1>5, <2>1
      <3>2. QED
        BY <1>1, <2>3, <3>1
    <2>5. p < K
      BY <1>4, <2>1, <2>4
    <2>6. QED
      BY <2>1, <2>5 DEF p
  <1>8. /\ first \in Nat /\ last \in Nat /\ last < K
        /\ first * P \in Nat /\ last * P \in Nat
        /\ first * P <= last * P /\ last * P + P <= NumBundles
    <2>1. first \in Nat /\ last \in Nat /\ last < K
      BY <1>7
    <2>2. first * P \in Nat /\ last * P \in Nat
      BY <1>6, <2>1
    <2>3. last * P + P <= NumBundles
      BY <1>4, <1>5, <2>1
    <2>4. first * P <= last * P
      <3>1. CASE first = last
        BY <2>2, <3>1
      <3>2. CASE first < last
        <4>1. first * P + P <= last * P
          BY <1>5, <2>1, <3>2
        <4>2. QED
          BY <1>1, <2>2, <4>1
      <3>3. QED
        BY <2>1, <3>1, <3>2
    <2>5. QED
      BY <2>1, <2>2, <2>3, <2>4
  <1>9. size = last * P - first * P + P
    BY <1>1, <1>8
  <1>10. dest \in Bundle /\ size \in Bundle
    BY <1>1, <1>8, <1>9 DEF Bundle
  <1>11. Bundles(dest, size) = first * P + 1 .. last * P + P
    BY <1>1, <1>8, <1>9 DEF Bundles
  <1> HIDE DEF dest, size
  <1>12. ASSUME NEW b \in Bundle
         PROVE  b \in first * P + 1 .. last * P + P
                  <=> PageOf(b) \in first..last
    <2> DEFINE p == (b - 1) \div P
    <2>1. p \in Nat /\ p * P \in Nat /\ p * P <= b - 1 /\ b - 1 < p * P + P
      BY <1>2, <1>3, <1>6
    <2>2. p = PageOf(b)
      BY DEF PageOf, P
    <2> HIDE DEF p
    <2>3. /\ p < first => p * P + P <= first * P
          /\ first < p => first * P + P <= p * P
          /\ last < p => last * P + P <= p * P
          /\ p < last => p * P + P <= last * P
      BY <1>5, <1>8, <2>1
    <2>4. b \in Int
      BY DEF Bundle
    <2>5. p < first => ~(first * P + 1 <= b)
      BY <1>1, <1>8, <2>1, <2>3, <2>4
    <2>6. last < p => ~(b <= last * P + P)
      BY <1>1, <1>8, <2>1, <2>3, <2>4
    <2>7. first <= p => first * P + 1 <= b
      <3>1. CASE first < p
        BY <1>1, <1>8, <2>1, <2>3, <2>4, <3>1
      <3>2. CASE first = p
        BY <1>1, <1>8, <2>1, <2>4, <3>2
      <3>3. QED
        BY <1>8, <2>1, <3>1, <3>2
    <2>8. p <= last => b <= last * P + P
      <3>1. CASE p < last
        BY <1>1, <1>8, <2>1, <2>3, <2>4, <3>1
      <3>2. CASE p = last
        BY <1>1, <1>8, <2>1, <2>4, <3>2
      <3>3. QED
        BY <1>8, <2>1, <3>1, <3>2
    <2>9. p \in first..last => b \in first * P + 1 .. last * P + P
      BY <1>8, <2>1, <2>4, <2>7, <2>8
    <2>10. b \in first * P + 1 .. last * P + P => p \in first..last
      BY <1>8, <2>1, <2>4, <2>5, <2>6
    <2>11. QED
      BY <2>2, <2>9, <2>10
  <1>13. first * P + 1 .. last * P + P \subseteq Bundle
    BY <1>1, <1>8 DEF Bundle
  <1>14. Bundles(dest, size) = PageArea(first..last)
    BY <1>11, <1>12, <1>13 DEF PageArea, PageOf
  <1>15. \A b \in Bundles(dest, size) :
           PageArea({PageOf(b)}) \subseteq Bundles(dest, size)
    BY <1>14 DEF PageArea, PageOf
  <1>16. QED
    BY <1>10, <1>14, <1>15 DEF dest, size, P
(* The mapping of validated pages keeps the invariant.                      *)
LEMMA MmapCodeKeeps ==
  ASSUME NaclTextAssumption, TextIInv, NEW t \in Thread,
         NEW first \in Page, NEW last \in Page, NEW code \in Code,
         MmapCode(t, first, last, code)
  PROVE  TextIInv'
  <1> DEFINE dest == first * PageBundles + 1
             size == (last - first + 1) * PageBundles
             m == TRUE
             item == NewRegion(dest, size, m)
             area == PageArea(first..last)
  <1>1. /\ first <= last /\ dynamic_load_mutex = NoThread
        /\ UNCHANGED <<dynamic_load_mutex, call, pc>>
        /\ m \in BOOLEAN /\ RegionCreate(dest, size, m) /\ m = TRUE
        /\ head' = [b \in Bundle |-> IF b \in area THEN code ELSE head[b]]
        /\ tail' = [b \in Bundle |-> IF b \in area THEN code ELSE tail[b]]
        /\ UNCHANGED <<mapVars, dynamic_delete_generation, threadVars, gen>>
    BY DEF MmapCode, LockAndUnlock
  <1>2. /\ dest \in Bundle /\ size \in Bundle /\ Bundles(dest, size) = area
        /\ \A b \in Bundles(dest, size) :
             PageArea({PageOf(b)}) \subseteq Bundles(dest, size)
    BY <1>1, PagesOfBundles
  <1> HIDE DEF m, dest, size
  <1>3. area \subseteq Bundle
    BY DEF PageArea
  <1>4. threads' = threads /\ at' = at /\ generation' = generation
        /\ gen' = gen /\ dynamic_delete_generation' = dynamic_delete_generation
        /\ dynamic_page_bitmap' = dynamic_page_bitmap
        /\ dynamic_mapcache' = dynamic_mapcache
    BY <1>1 DEF threadVars, mapVars
  <1>5. RegionsInv' /\ dynamic_regions' \in Seq(Region)
    BY <1>1, <1>2, <1>3, <1>4, CreateKeepsRegions
  <1> HIDE DEF item, area
  <1>6. /\ Regions' = Regions \cup {item} /\ Area(item) = area
        /\ item.delete_generation = -1 /\ item.is_mmap = m
        /\ \A r \in Regions : Area(r) \cap area = {}
        /\ \A u \in Thread : at[u] # <<>> => at[u][1] \notin area
    <2>1. RegionCreate(dest, size, m) /\ Bundles(dest, size) \subseteq Bundle
      BY <1>1, <1>2, <1>3
    <2>2. m \in BOOLEAN
      BY <1>1
    <2>3. QED
      BY <1>2, <2>1, <2>2, RegionCreateEffect DEF item
  <1>7. head' \in [Bundle -> Cell] /\ tail' \in [Bundle -> Cell]
    <2>1. /\ code \in Cell
          /\ head \in [Bundle -> Cell] /\ tail \in [Bundle -> Cell]
      BY DEF Cell, TextIInv, NaclTextTypeOK
    <2>2. QED
      BY <1>1, <2>1
  <1>8. /\ \A b \in area : head'[b] = code /\ tail'[b] = code
        /\ \A b \in Bundle \ area : head'[b] = head[b] /\ tail'[b] = tail[b]
    BY <1>1, <1>3
  <1>9. NaclTextTypeOK'
    BY <1>1, <1>4, <1>5, <1>7 DEF TextIInv, NaclTextTypeOK
  <1>10. ThreadsInv' /\ GenerationsInv'
    BY <1>1, <1>4 DEF TextIInv, ThreadsInv, GenerationsInv
  <1>11. MemoryInv'
    <2> SUFFICES ASSUME NEW b \in Bundle
                 PROVE  /\ head'[b] \in Code =>
                             /\ tail'[b] = head'[b]
                             /\ \E r \in Regions' :
                                  b \in Area(r) /\ r.delete_generation = -1
                        /\ \/ tail'[b] = Zero
                           \/ PageOf(b) \in dynamic_page_bitmap'
                           \/ \E r \in Regions' : r.is_mmap /\ b \in Area(r)
      BY DEF MemoryInv
    <2>1. CASE b \in area
      BY <1>1, <1>6, <1>8, <2>1
    <2>2. CASE b \notin area
      BY <1>4, <1>6, <1>8, <2>2 DEF TextIInv, MemoryInv
    <2>3. QED
      BY <2>1, <2>2
  <1>12. RunningInv'
    <2> SUFFICES ASSUME NEW u \in Thread, at[u] # <<>>
                 PROVE  /\ tail'[at[u][1]] = at[u][2]
                        /\ \E r \in Regions' :
                             /\ at[u][1] \in Area(r)
                             /\ \/ r.delete_generation = -1
                                \/ generation[u] < r.delete_generation
      BY <1>4 DEF RunningInv
    <2>1. at[u][1] \in Bundle
      BY DEF TextIInv, NaclTextTypeOK
    <2>2. tail'[at[u][1]] = tail[at[u][1]]
      BY <1>6, <1>8, <2>1
    <2>3. QED
      BY <1>6, <2>2 DEF TextIInv, RunningInv
  <1>13. WholeInv'
    <2> SUFFICES ASSUME NEW r \in Regions' PROVE Whole(r)'
      BY DEF WholeInv
    <2>1. CASE r = item
      BY <1>6, <1>8, <2>1 DEF Whole
    <2>2. CASE r \in Regions
      <3>1. Whole(r) /\ Area(r) \subseteq Bundle \ area
        BY <1>1, <1>6, <2>2 DEF TextIInv, WholeInv, Busy, RegionsInv
      <3>2. QED
        BY <1>8, <3>1 DEF Whole, HeadsOff
    <2>3. QED
      BY <1>6, <2>1, <2>2
  <1>14. CallInv'
    BY <1>1, <1>10, NobodyInCall DEF TextIInv, ThreadsInv, CallInv
  <1>15. QED
    BY <1>5, <1>9, <1>10, <1>11, <1>12, <1>13, <1>14 DEF TextIInv

(* The holder of the mutex is the only thread in a call, and every region  *)
(* but its own is left alone.                                              *)
LEMMA HolderAlone ==
  ASSUME NaclTextAssumption, TextIInv, NEW t \in Thread, pc[t] \in InCall
  PROVE  /\ dynamic_load_mutex = t /\ t # NoThread /\ at[t] = <<>>
         /\ \A u \in Thread : pc[u] \in InCall => u = t
         /\ \E r \in Regions :
              /\ AtWork(t, r) /\ Area(r) \subseteq Bundle
              /\ Busy(r)
              /\ \A q \in Regions : q # r => ~Busy(q)
                                             /\ Area(q) \cap Area(r) = {}
  <1>1. dynamic_load_mutex = t /\ t # NoThread /\ at[t] = <<>>
    BY DEF TextIInv, ThreadsInv, InCall
  <1>2. \A u \in Thread : pc[u] \in InCall => u = t
    BY <1>1 DEF TextIInv, ThreadsInv
  <1>3. PICK r \in Regions : AtWork(t, r)
    BY DEF TextIInv, CallInv
  <1>4. Busy(r) /\ Area(r) \subseteq Bundle
    BY <1>1, <1>3 DEF Busy, AtWork, TextIInv, RegionsInv
  <1>5. ASSUME NEW q \in Regions, q # r
        PROVE  ~Busy(q) /\ Area(q) \cap Area(r) = {}
    BY <1>3, <1>5, RegionsDiffer DEF Busy, AtWork, TextIInv
  <1>6. QED
    BY <1>1, <1>2, <1>3, <1>4, <1>5

(* Copying the bundles but for their first words keeps the invariant.       *)
LEMMA CopyBundleTailsKeeps ==
  ASSUME NaclTextAssumption, TextIInv, NEW t \in Thread, CopyBundleTails(t)
  PROVE  TextIInv'
  <1>1. /\ pc[t] = "tails"
        /\ tail' = [b \in Bundle |-> IF b \in call.todo THEN call.code
                                     ELSE tail[b]]
        /\ pc' = [pc EXCEPT ![t] = "heads"]
        /\ UNCHANGED <<head, mapVars, regionVars, threadVars, gen,
                       dynamic_load_mutex, call>>
        /\ UNCHANGED regionVars
    BY DEF CopyBundleTails
  <1>2. head' = head /\ at' = at /\ generation' = generation
        /\ threads' = threads /\ dynamic_page_bitmap' = dynamic_page_bitmap
        /\ dynamic_mapcache' = dynamic_mapcache
    BY <1>1 DEF threadVars, mapVars
  <1>3. dynamic_load_mutex = t /\ \A u \in Thread : pc[u] \in InCall => u = t
    BY <1>1, HolderAlone DEF InCall
  <1>4. PICK r \in Regions :
          /\ AtWork(t, r) /\ Area(r) \subseteq Bundle /\ Busy(r)
          /\ \A q \in Regions : q # r => ~Busy(q) /\ Area(q) \cap Area(r) = {}
    BY <1>1, HolderAlone DEF InCall
  <1>5. TailsInv(r)
    BY <1>1, <1>4 DEF AtWork
  <1>6. NaclTextTypeOK'
    <2>1. /\ head' \in [Bundle -> Cell] /\ tail' \in [Bundle -> Cell]
      BY <1>1, <1>2 DEF TextIInv, NaclTextTypeOK
    <2>2. pc' \in [Thread -> {"new", "user", "tails", "heads", "set", "halts",
                              "checkIn", "scan", "gone"}]
      BY <1>1 DEF TextIInv, NaclTextTypeOK
    <2>3. QED
      BY <1>1, <1>2, <2>1, <2>2 DEF TextIInv, NaclTextTypeOK, regionVars
  <1>7. RegionsInv' /\ Regions' = Regions
    BY <1>1, QuietRegions DEF TextIInv
  <1>8. ThreadsInv'
    BY <1>1, <1>2, <1>3 DEF TextIInv, NaclTextTypeOK, ThreadsInv, InCall
  <1>9. GenerationsInv'
    BY <1>1, <1>2 DEF TextIInv, NaclTextTypeOK, GenerationsInv, regionVars
  <1>10. \A b \in Bundle : tail'[b] = IF b \in Area(r) THEN call.code
                                      ELSE tail[b]
    BY <1>1, <1>5 DEF TailsInv
  <1>11. MemoryInv'
    <2> SUFFICES ASSUME NEW b \in Bundle
                 PROVE  /\ head[b] \in Code =>
                             /\ tail'[b] = head[b]
                             /\ \E q \in Regions :
                                  b \in Area(q) /\ q.delete_generation = -1
                        /\ \/ tail'[b] = Zero
                           \/ PageOf(b) \in dynamic_page_bitmap
                           \/ \E q \in Regions : q.is_mmap /\ b \in Area(q)
      BY <1>2, <1>7 DEF MemoryInv
    <2>1. CASE b \in Area(r)
      <3>1. head[b] \notin Code
        BY <1>5, <2>1 DEF TailsInv, Copying, HeadsOff
      <3>2. PageOf(b) \in dynamic_page_bitmap
        <4>1. PageOf(b) \in Pages(r.start, r.size)
          BY <2>1 DEF Area, Pages, PageOf
        <4>2. QED
          BY <1>5, <4>1 DEF TailsInv
      <3>3. QED
        BY <3>1, <3>2
    <2>2. CASE b \notin Area(r)
      BY <1>10, <2>2 DEF TextIInv, MemoryInv
    <2>3. QED
      BY <2>1, <2>2
  <1>12. RunningInv'
    <2> SUFFICES ASSUME NEW u \in Thread, at[u] # <<>>
                 PROVE  /\ tail'[at[u][1]] = at[u][2]
                        /\ \E q \in Regions :
                             /\ at[u][1] \in Area(q)
                             /\ \/ q.delete_generation = -1
                                \/ generation[u] < q.delete_generation
      BY <1>2, <1>7 DEF RunningInv
    <2>1. at[u][1] \in Bundle /\ at[u][1] \notin Area(r)
      BY <1>5 DEF TextIInv, NaclTextTypeOK, TailsInv
    <2>2. QED
      BY <1>10, <2>1 DEF TextIInv, RunningInv
  <1>13. WholeInv'
    <2> SUFFICES ASSUME NEW q \in Regions, ~Busy(q)' PROVE Whole(q)'
      BY <1>7 DEF WholeInv
    <2>1. ~Busy(q) /\ q # r
      BY <1>1, <1>4 DEF Busy
    <2>2. Whole(q) /\ Area(q) \subseteq Bundle /\ Area(q) \cap Area(r) = {}
      BY <1>4, <2>1 DEF TextIInv, WholeInv, RegionsInv
    <2>3. \A b \in Area(q) : head'[b] = head[b] /\ tail'[b] = tail[b]
      BY <1>2, <1>10, <2>2
    <2>4. QED
      BY <2>2, <2>3 DEF Whole, HeadsOff
  <1>14. CallInv'
    <2>1. HeadsInv(r)'
      BY <1>1, <1>2, <1>4, <1>5, <1>10 DEF TailsInv, HeadsInv, Copying, HeadsOff
    <2>2. pc'[t] = "heads" /\ \A u \in Thread : pc'[u] \in InCall => u = t
      BY <1>1, <1>3 DEF TextIInv, NaclTextTypeOK
    <2>3. AtWork(t, r)'
      BY <1>1, <1>4, <2>1, <2>2 DEF AtWork
    <2>4. QED
      BY <1>7, <2>2, <2>3 DEF CallInv
  <1>15. QED
    BY <1>6, <1>7, <1>8, <1>9, <1>11, <1>12, <1>13, <1>14 DEF TextIInv
(* Copying the first word of a bundle keeps the invariant.                  *)
LEMMA CopyBundleHeadKeeps ==
  ASSUME NaclTextAssumption, TextIInv, NEW t \in Thread, CopyBundleHead(t)
  PROVE  TextIInv'
  <1>1. PICK b \in call.todo :
          /\ head' = [head EXCEPT ![b] = call.code]
          /\ call' = [call EXCEPT !.todo = @ \ {b}]
    BY DEF CopyBundleHead
  <1>2. /\ pc[t] = "heads" /\ UNCHANGED regionVars
        /\ UNCHANGED <<tail, mapVars, regionVars, threadVars, pc, gen,
                       dynamic_load_mutex>>
    BY DEF CopyBundleHead
  <1>3. tail' = tail /\ at' = at /\ generation' = generation
        /\ threads' = threads /\ dynamic_page_bitmap' = dynamic_page_bitmap
        /\ dynamic_mapcache' = dynamic_mapcache
    BY <1>2 DEF threadVars, mapVars
  <1>4. dynamic_load_mutex = t /\ \A u \in Thread : pc[u] \in InCall => u = t
    BY <1>2, HolderAlone DEF InCall
  <1>5. PICK r \in Regions :
          /\ AtWork(t, r) /\ Area(r) \subseteq Bundle /\ Busy(r)
          /\ \A q \in Regions : q # r => ~Busy(q) /\ Area(q) \cap Area(r) = {}
    BY <1>2, HolderAlone DEF InCall
  <1>6. HeadsInv(r) /\ b \in Area(r) /\ b \in Bundle /\ call.code \in Code
        /\ r.delete_generation = -1
    BY <1>1, <1>2, <1>5 DEF AtWork, HeadsInv, Copying
  <1>7. /\ head' \in [Bundle -> Cell] /\ head'[b] = call.code
        /\ \A d \in Bundle : d # b => head'[d] = head[d]
    <2>1. head \in [Bundle -> Cell] /\ call.code \in Cell
      BY <1>6 DEF TextIInv, NaclTextTypeOK, Cell
    <2>2. QED
      BY <1>1, <1>6, <2>1
  <1>8. /\ call' \in [dest : {0} \cup Bundle, size : {0} \cup Bundle,
                      code : Cell, todo : SUBSET Bundle,
                      unread : SUBSET Thread, rv : 0..MaxGeneration]
        /\ call'.dest = call.dest /\ call'.size = call.size
        /\ call'.code = call.code /\ call'.todo = call.todo \ {b}
    BY <1>1 DEF TextIInv, NaclTextTypeOK
  <1>9. NaclTextTypeOK'
    BY <1>2, <1>3, <1>7, <1>8 DEF TextIInv, NaclTextTypeOK, regionVars
  <1>10. RegionsInv' /\ Regions' = Regions
    BY <1>2, QuietRegions DEF TextIInv
  <1>11. ThreadsInv' /\ GenerationsInv'
    BY <1>2, <1>3 DEF TextIInv, ThreadsInv, GenerationsInv, regionVars
  <1>12. tail[b] = call.code
    BY <1>6 DEF HeadsInv
  <1>13. MemoryInv'
    <2> SUFFICES ASSUME NEW d \in Bundle
                 PROVE  head'[d] \in Code =>
                          /\ tail[d] = head'[d]
                          /\ \E q \in Regions :
                               d \in Area(q) /\ q.delete_generation = -1
      BY <1>3, <1>10 DEF TextIInv, MemoryInv
    <2>1. CASE d = b
      BY <1>6, <1>7, <1>12, <2>1
    <2>2. CASE d # b
      BY <1>7, <2>2 DEF TextIInv, MemoryInv
    <2>3. QED
      BY <2>1, <2>2
  <1>14. RunningInv'
    BY <1>3, <1>10 DEF TextIInv, RunningInv
  <1>15. WholeInv'
    <2> SUFFICES ASSUME NEW q \in Regions, ~Busy(q)' PROVE Whole(q)'
      BY <1>10 DEF WholeInv
    <2>1. ~Busy(q) /\ q # r
      BY <1>2, <1>5, <1>8 DEF Busy
    <2>2. Whole(q) /\ Area(q) \subseteq Bundle /\ Area(q) \cap Area(r) = {}
      BY <1>5, <2>1 DEF TextIInv, WholeInv, RegionsInv
    <2>3. \A d \in Area(q) : head'[d] = head[d] /\ tail'[d] = tail[d]
      BY <1>3, <1>6, <1>7, <2>2
    <2>4. QED
      BY <2>2, <2>3 DEF Whole, HeadsOff
  <1>16. CallInv'
    <2>1. \A d \in call'.todo : d \in call.todo /\ d # b
      BY <1>8
    <2>2. \A d \in Area(r) : d \notin call'.todo => head'[d] = call.code
      BY <1>5, <1>6, <1>7, <1>8 DEF HeadsInv
    <2>3. \A d \in call'.todo : head'[d] \notin Code
      BY <1>5, <1>6, <1>7, <2>1 DEF HeadsInv, Copying, HeadsOff
    <2>4. HeadsInv(r)'
      BY <1>3, <1>6, <1>8, <2>1, <2>2, <2>3 DEF HeadsInv, Copying, HeadsOff
    <2>5. AtWork(t, r)'
      BY <1>2, <1>5, <1>8, <2>4 DEF AtWork
    <2>6. QED
      BY <1>2, <1>4, <1>10, <2>5 DEF CallInv
  <1>17. QED
    BY <1>9, <1>10, <1>11, <1>13, <1>14, <1>15, <1>16 DEF TextIInv

(* Giving the mutex back ends a call.                                      *)
LEMMA UnlockEffect ==
  ASSUME NaclTextAssumption, TextIInv, NEW t \in Thread, pc[t] \in InCall,
         Unlock(t), threads' = threads, at' = at, gen' = gen,
         generation' = generation,
         dynamic_delete_generation' = dynamic_delete_generation
  PROVE  /\ call' \in [dest : {0} \cup Bundle, size : {0} \cup Bundle,
                       code : Cell, todo : SUBSET Bundle,
                       unread : SUBSET Thread, rv : 0..MaxGeneration]
         /\ dynamic_load_mutex' = NoThread
         /\ pc' \in [Thread -> {"new", "user", "tails", "heads", "set", "halts",
                                "checkIn", "scan", "gone"}]
         /\ \A r : ~Busy(r)'
         /\ ThreadsInv' /\ GenerationsInv' /\ CallInv'
  <1>1. /\ dynamic_load_mutex' = NoThread /\ call' = NoCall
        /\ pc' = [pc EXCEPT ![t] = "user"]
    BY DEF Unlock
  <1>2. \A u \in Thread : pc[u] \in InCall => u = t
    BY HolderAlone
  <1>3. pc'[t] = "user" /\ \A u \in Thread : u # t => pc'[u] = pc[u]
    BY <1>1 DEF TextIInv, NaclTextTypeOK
  <1>4. pc' \in [Thread -> {"new", "user", "tails", "heads", "set", "halts",
                            "checkIn", "scan", "gone"}]
    BY <1>1 DEF TextIInv, NaclTextTypeOK
  <1>5. call' \in [dest : {0} \cup Bundle, size : {0} \cup Bundle,
                   code : Cell, todo : SUBSET Bundle,
                   unread : SUBSET Thread, rv : 0..MaxGeneration]
    <2>1. MaxGeneration \in 0..MaxGeneration /\ Zero \in Cell
      BY DEF NaclTextAssumption, Cell
    <2>2. QED
      BY <1>1, <2>1 DEF NoCall
  <1>6. \A u \in Thread : pc'[u] \notin InCall
    BY <1>2, <1>3 DEF InCall
  <1>7. ThreadsInv'
    BY <1>1, <1>3, <1>6 DEF TextIInv, ThreadsInv, InCall
  <1>8. GenerationsInv'
    BY <1>3 DEF TextIInv, GenerationsInv
  <1>9. QED
    BY <1>1, <1>4, <1>5, <1>6, <1>7, <1>8 DEF Busy, CallInv

(* The end of a creation keeps the invariant.                               *)
LEMMA CreateEndKeeps ==
  ASSUME NaclTextAssumption, TextIInv, NEW t \in Thread, CreateEnd(t)
  PROVE  TextIInv'
  <1>1. /\ pc[t] = "heads" /\ pc[t] \in InCall /\ call.todo = {}
        /\ Unlock(t)
        /\ UNCHANGED <<memVars, dynamic_page_bitmap, regionVars, threadVars,
                       gen>>
        /\ UNCHANGED <<memVars, dynamic_page_bitmap, regionVars>>
        /\ ClearCacheIfNeeded(call.dest, call.size)
    BY DEF CreateEnd, InCall
  <1>2. at' = at /\ generation' = generation /\ threads' = threads
        /\ dynamic_delete_generation' = dynamic_delete_generation
    BY <1>1 DEF threadVars, regionVars
  <1>3. dynamic_mapcache' \subseteq dynamic_page_bitmap
    BY <1>1 DEF ClearCacheIfNeeded, TextIInv, NaclTextTypeOK
  <1>4. /\ call' \in [dest : {0} \cup Bundle, size : {0} \cup Bundle,
                      code : Cell, todo : SUBSET Bundle,
                      unread : SUBSET Thread, rv : 0..MaxGeneration]
        /\ dynamic_load_mutex' = NoThread
        /\ pc' \in [Thread -> {"new", "user", "tails", "heads", "set", "halts",
                               "checkIn", "scan", "gone"}]
        /\ ThreadsInv' /\ GenerationsInv' /\ CallInv'
    BY <1>1, <1>2, UnlockEffect
  <1>5. NaclTextTypeOK'
    BY <1>1, <1>2, <1>3, <1>4 DEF TextIInv, NaclTextTypeOK, memVars, regionVars
  <1>6. ASSUME NEW r \in Regions, Busy(r) PROVE Whole(r)
    <2>1. PICK q \in Regions :
            /\ AtWork(t, q)
            /\ \A x \in Regions : x # q => ~Busy(x)
      BY <1>1, HolderAlone
    <2>2. r = q
      BY <1>6, <2>1
    <2>3. HeadsInv(r)
      BY <1>1, <2>1, <2>2 DEF AtWork
    <2>4. QED
      BY <1>1, <2>3 DEF HeadsInv, Copying, Whole
  <1>7. RegionsInv' /\ MemoryInv' /\ WholeInv' /\ RunningInv'
    BY <1>1, <1>2, <1>6, QuietMemory
  <1>8. QED
    BY <1>4, <1>5, <1>7 DEF TextIInv
-----------------------------------------------------------------------------
(* Deleting.                                                               *)

LEMMA DeleteFirstKeeps ==
  ASSUME NaclTextAssumption, TextIInv, NEW t \in Thread,
         NEW dest \in Bundle, NEW size \in Bundle, DeleteFirst(t, dest, size)
  PROVE  TextIInv'
  <1>0. PICK r : r = dynamic_regions[RegionFind(dynamic_regions, dest, size)]
    OBVIOUS
  <1>1. /\ Deletable(RegionFind(dynamic_regions, dest, size), dest, size)
        /\ ~(r.delete_generation >= 0)
        /\ dynamic_delete_generation # MaxGeneration
        /\ UNCHANGED regionVars
        /\ UNCHANGED <<regionVars, threadVars, gen>>
    BY <1>0 DEF DeleteFirst, Deleting
  <1>2. r \in Regions /\ r.start = dest /\ r.size = size /\ ~r.is_mmap
    BY <1>0, <1>1, DeletableRegion DEF TextIInv
  <1>3. r.delete_generation = -1 /\ Area(r) = Bundles(dest, size)
    <2>1. r.delete_generation \in {-1} \cup 1..MaxGeneration
      BY <1>2, RegionTypes DEF TextIInv
    <2>2. QED
      BY <1>1, <1>2, <2>1 DEF Area, NaclTextAssumption
  <1>4. Bundles(dest, size) \subseteq Bundle
    BY <1>2, <1>3 DEF TextIInv, RegionsInv
  <1>5. threads' = threads /\ at' = at /\ generation' = generation
        /\ gen' = gen /\ dynamic_delete_generation' = dynamic_delete_generation
        /\ dynamic_regions' = dynamic_regions
    BY <1>1 DEF threadVars, regionVars
  <1>6. CASE MapText(dest, size) /\ Lock(t, "halts", dest, size, Halt)
    <2>1. ASSUME NEW q \in Regions, q.is_mmap
          PROVE  Area(q) \cap Bundles(dest, size) = {}
      <3>1. q # r
        BY <1>2, <2>1
      <3>2. QED
        BY <1>2, <1>3, <3>1, RegionsDiffer DEF TextIInv
    <2>2. /\ dynamic_page_bitmap' \subseteq Page
          /\ dynamic_mapcache' \subseteq dynamic_page_bitmap'
          /\ head' \in [Bundle -> Cell] /\ tail' \in [Bundle -> Cell]
          /\ Settled
      BY <1>4, <1>6, <2>1, MapTextEffect DEF TextIInv, Settled
    <2>3. Halt \in Cell /\ "halts" \in InCall
      BY DEF Cell, InCall
    <2>4. /\ call' \in [dest : {0} \cup Bundle, size : {0} \cup Bundle,
                        code : Cell, todo : SUBSET Bundle,
                        unread : SUBSET Thread, rv : 0..MaxGeneration]
          /\ call'.dest = dest /\ call'.size = size
          /\ call'.todo = Bundles(dest, size)
          /\ dynamic_load_mutex = NoThread
          /\ dynamic_load_mutex' \in Thread \cup {NoThread}
          /\ pc' \in [Thread -> {"new", "user", "tails", "heads", "set",
                                 "halts", "checkIn", "scan", "gone"}]
          /\ pc'[t] = "halts"
          /\ \A u \in Thread : pc'[u] \in InCall => u = t
          /\ ThreadsInv' /\ GenerationsInv'
      BY <1>4, <1>5, <1>6, <2>3, LockEffect
    <2>5. RegionsInv' /\ Regions' = Regions
      BY <1>1, QuietRegions DEF TextIInv
    <2>6. NaclTextTypeOK'
      BY <1>5, <2>2, <2>4 DEF TextIInv, NaclTextTypeOK
    <2>7. MemoryInv' /\ RunningInv'
      BY <1>5, <2>2, <2>5, MemoryStays, RunningStays DEF TextIInv
    <2>8. WholeInv'
      <3>1. \A q \in Regions : ~Busy(q)
        BY <2>4 DEF Busy
      <3>2. QED
        BY <1>5, <2>2, <3>1, QuietWhole DEF TextIInv
    <2>9. CallInv'
      <3>1. HaltsInv(r)'
        BY <1>1, <1>3, <1>5, <2>4 DEF HaltsInv, HeadsOff
      <3>2. AtWork(t, r)'
        BY <1>2, <2>4, <3>1 DEF AtWork
      <3>3. QED
        BY <1>2, <2>4, <2>5, <3>2 DEF CallInv
    <2>10. QED
      BY <2>4, <2>5, <2>6, <2>7, <2>8, <2>9 DEF TextIInv
  <1>7. CASE MapTextFails(dest, size) /\ LockAndUnlock(t)
    <2>1. /\ dynamic_load_mutex = NoThread
          /\ UNCHANGED <<dynamic_load_mutex, call, pc>>
          /\ UNCHANGED <<memVars, dynamic_page_bitmap, regionVars>>
          /\ dynamic_mapcache' = {}
      BY <1>1, <1>7 DEF MapTextFails, LockAndUnlock
    <2>2. NaclTextTypeOK'
      BY <1>5, <2>1 DEF TextIInv, NaclTextTypeOK, memVars
    <2>3. ThreadsInv' /\ GenerationsInv'
      BY <1>5, <2>1 DEF TextIInv, ThreadsInv, GenerationsInv
    <2>4. RegionsInv' /\ MemoryInv' /\ WholeInv' /\ RunningInv'
      <3>1. \A q \in Regions : ~Busy(q)
        BY <2>1 DEF Busy
      <3>2. QED
        BY <1>5, <2>1, <3>1, QuietMemory
    <2>5. CallInv'
      BY <2>1, NobodyInCall DEF TextIInv, CallInv
    <2>6. QED
      BY <2>2, <2>3, <2>4, <2>5 DEF TextIInv
  <1>8. QED
    BY <1>6, <1>7 DEF DeleteFirst

(* A deletion that has to be called again keeps the invariant.              *)
LEMMA DeleteAgainKeeps ==
  ASSUME NaclTextAssumption, TextIInv, NEW t \in Thread,
         NEW dest \in Bundle, NEW size \in Bundle, DeleteAgain(t, dest, size)
  PROVE  TextIInv'
  <1>0. PICK r : r = dynamic_regions[RegionFind(dynamic_regions, dest, size)]
    OBVIOUS
  <1>1. /\ Deletable(RegionFind(dynamic_regions, dest, size), dest, size)
        /\ r.delete_generation >= 0
        /\ Lock(t, "checkIn", dest, size, Halt)
        /\ UNCHANGED <<memVars, dynamic_page_bitmap, regionVars>>
        /\ UNCHANGED <<memVars, mapVars, regionVars, threadVars, gen>>
    BY <1>0 DEF DeleteAgain, Deleting, mapVars
  <1>2. r \in Regions /\ r.start = dest /\ r.size = size /\ ~r.is_mmap
    BY <1>0, <1>1, DeletableRegion DEF TextIInv
  <1>3. Bundles(dest, size) \subseteq Bundle
    BY <1>2 DEF TextIInv, RegionsInv, Area
  <1>4. threads' = threads /\ at' = at /\ generation' = generation
        /\ gen' = gen /\ dynamic_delete_generation' = dynamic_delete_generation
        /\ head' = head
    BY <1>1 DEF threadVars, regionVars, memVars
  <1>5. Halt \in Cell /\ "checkIn" \in InCall
    BY DEF Cell, InCall
  <1>6. /\ call' \in [dest : {0} \cup Bundle, size : {0} \cup Bundle,
                      code : Cell, todo : SUBSET Bundle,
                      unread : SUBSET Thread, rv : 0..MaxGeneration]
        /\ call'.dest = dest /\ call'.size = size
        /\ dynamic_load_mutex = NoThread
        /\ dynamic_load_mutex' \in Thread \cup {NoThread}
        /\ pc' \in [Thread -> {"new", "user", "tails", "heads", "set", "halts",
                               "checkIn", "scan", "gone"}]
        /\ pc'[t] = "checkIn"
        /\ \A u \in Thread : pc'[u] \in InCall => u = t
        /\ ThreadsInv' /\ GenerationsInv'
    BY <1>1, <1>3, <1>4, <1>5, LockEffect
  <1>7. NaclTextTypeOK'
    BY <1>1, <1>4, <1>6
       DEF TextIInv, NaclTextTypeOK, memVars, mapVars, regionVars
  <1>8. \A q \in Regions : ~Busy(q)
    BY <1>6 DEF Busy
  <1>9. RegionsInv' /\ MemoryInv' /\ WholeInv' /\ RunningInv'
        /\ Regions' = Regions
    BY <1>1, <1>4, <1>8, QuietMemory
  <1>10. CallInv'
    <2>1. Whole(r)
      BY <1>2, <1>8 DEF TextIInv, WholeInv
    <2>2. DeletingInv(r)'
      BY <1>1, <1>4, <2>1 DEF DeletingInv, Whole, HeadsOff
    <2>3. AtWork(t, r)'
      BY <1>2, <1>6, <2>2 DEF AtWork
    <2>4. QED
      BY <1>2, <1>6, <1>9, <2>3 DEF CallInv
  <1>11. QED
    BY <1>6, <1>7, <1>9, <1>10 DEF TextIInv

(* Writing a halt over the head of a bundle keeps the invariant.            *)
LEMMA HaltBundleHeadKeeps ==
  ASSUME NaclTextAssumption, TextIInv, NEW t \in Thread, HaltBundleHead(t)
  PROVE  TextIInv'
  <1>1. PICK b \in call.todo :
          /\ head' = [head EXCEPT ![b] = Halt]
          /\ call' = [call EXCEPT !.todo = @ \ {b}]
    BY DEF HaltBundleHead
  <1>2. /\ pc[t] = "halts" /\ UNCHANGED regionVars
        /\ UNCHANGED <<tail, mapVars, regionVars, threadVars, pc, gen,
                       dynamic_load_mutex>>
    BY DEF HaltBundleHead
  <1>3. tail' = tail /\ at' = at /\ generation' = generation
        /\ threads' = threads /\ dynamic_page_bitmap' = dynamic_page_bitmap
        /\ dynamic_mapcache' = dynamic_mapcache
        /\ dynamic_delete_generation' = dynamic_delete_generation
    BY <1>2 DEF threadVars, mapVars, regionVars
  <1>4. dynamic_load_mutex = t /\ \A u \in Thread : pc[u] \in InCall => u = t
    BY <1>2, HolderAlone DEF InCall
  <1>5. PICK r \in Regions :
          /\ AtWork(t, r) /\ Area(r) \subseteq Bundle /\ Busy(r)
          /\ \A q \in Regions : q # r => ~Busy(q) /\ Area(q) \cap Area(r) = {}
    BY <1>2, HolderAlone DEF InCall
  <1>6. HaltsInv(r) /\ b \in Area(r) /\ b \in Bundle
    BY <1>1, <1>2, <1>5 DEF AtWork, HaltsInv
  <1>7. Halt \notin Code
    BY DEF NaclTextAssumption
  <1>8. /\ head' \in [Bundle -> Cell] /\ head'[b] = Halt
        /\ \A d \in Bundle : d # b => head'[d] = head[d]
    <2>1. head \in [Bundle -> Cell] /\ Halt \in Cell
      BY DEF TextIInv, NaclTextTypeOK, Cell
    <2>2. QED
      BY <1>1, <1>6, <2>1
  <1>9. /\ call' \in [dest : {0} \cup Bundle, size : {0} \cup Bundle,
                      code : Cell, todo : SUBSET Bundle,
                      unread : SUBSET Thread, rv : 0..MaxGeneration]
        /\ call'.dest = call.dest /\ call'.size = call.size
        /\ call'.todo = call.todo \ {b}
    BY <1>1 DEF TextIInv, NaclTextTypeOK
  <1>10. NaclTextTypeOK'
    BY <1>2, <1>3, <1>8, <1>9 DEF TextIInv, NaclTextTypeOK, regionVars
  <1>11. RegionsInv' /\ Regions' = Regions
    BY <1>2, QuietRegions DEF TextIInv
  <1>12. ThreadsInv' /\ GenerationsInv'
    BY <1>2, <1>3 DEF TextIInv, ThreadsInv, GenerationsInv
  <1>13. MemoryInv'
    <2>1. \A d \in Bundle : head'[d] \in Code => head'[d] = head[d]
      BY <1>7, <1>8
    <2>2. QED
      BY <1>3, <1>11, <2>1 DEF TextIInv, MemoryInv
  <1>14. RunningInv'
    BY <1>3, <1>11 DEF TextIInv, RunningInv
  <1>15. WholeInv'
    <2> SUFFICES ASSUME NEW q \in Regions, ~Busy(q)' PROVE Whole(q)'
      BY <1>11 DEF WholeInv
    <2>1. ~Busy(q) /\ q # r
      BY <1>2, <1>5, <1>9 DEF Busy
    <2>2. Whole(q) /\ Area(q) \subseteq Bundle /\ Area(q) \cap Area(r) = {}
      BY <1>5, <2>1 DEF TextIInv, WholeInv, RegionsInv
    <2>3. \A d \in Area(q) : head'[d] = head[d] /\ tail'[d] = tail[d]
      BY <1>3, <1>6, <1>8, <2>2
    <2>4. QED
      BY <2>2, <2>3 DEF Whole, HeadsOff
  <1>16. CallInv'
    <2>1. \A d \in Area(r) : d \notin call'.todo => head'[d] \notin Code
      BY <1>5, <1>6, <1>7, <1>8, <1>9 DEF HaltsInv, HeadsOff
    <2>2. HaltsInv(r)'
      BY <1>3, <1>6, <1>9, <2>1 DEF HaltsInv, HeadsOff
    <2>3. AtWork(t, r)'
      BY <1>2, <1>5, <1>9, <2>2 DEF AtWork
    <2>4. QED
      BY <1>2, <1>4, <1>11, <2>3 DEF CallInv
  <1>17. QED
    BY <1>10, <1>11, <1>12, <1>13, <1>14, <1>15, <1>16 DEF TextIInv
(* A deletion that takes its generation keeps the invariant.                *)
LEMMA DeleteMarkKeeps ==
  ASSUME NaclTextAssumption, TextIInv, NEW t \in Thread, DeleteMark(t)
  PROVE  TextIInv'
  <1>1. /\ pc[t] = "halts" /\ pc[t] \in InCall /\ call.todo = {}
        /\ ClearCacheIfNeeded(call.dest, call.size)
        /\ dynamic_delete_generation' = dynamic_delete_generation + 1
        /\ pc' = [pc EXCEPT ![t] = "checkIn"]
        /\ UNCHANGED <<memVars, dynamic_page_bitmap, threadVars, gen,
                       dynamic_load_mutex, call>>
    BY DEF DeleteMark, InCall
  <1>2. /\ at' = at /\ generation' = generation /\ threads' = threads
        /\ head' = head /\ tail' = tail
    BY <1>1 DEF threadVars, memVars
  <1>3. dynamic_load_mutex = t /\ \A u \in Thread : pc[u] \in InCall => u = t
    BY <1>1, HolderAlone
  <1>4. PICK r \in Regions :
          /\ AtWork(t, r) /\ Area(r) \subseteq Bundle /\ Busy(r)
          /\ \A q \in Regions : q # r => ~Busy(q) /\ Area(q) \cap Area(r) = {}
    BY <1>1, HolderAlone
  <1>5. /\ r.start = call.dest /\ r.size = call.size /\ ~r.is_mmap
        /\ r.delete_generation = -1 /\ HeadsOff(Area(r))
        /\ dynamic_delete_generation # MaxGeneration
    BY <1>1, <1>4 DEF AtWork, HaltsInv
  <1>6. PICK g : g = dynamic_delete_generation + 1
    OBVIOUS
  <1> DEFINE i == RegionFind(dynamic_regions, call.dest, call.size)
  <1> DEFINE item == Mark(r, g)
  <1>7. i \in 1..Len(dynamic_regions) /\ dynamic_regions[i] = r
    BY <1>5, RegionAt DEF TextIInv
  <1>8. g \in 1..MaxGeneration /\ dynamic_delete_generation \in Int
    BY <1>5, <1>6 DEF TextIInv, NaclTextTypeOK, NaclTextAssumption
  <1>9. dynamic_regions' = MarkAt(dynamic_regions, i, g)
    BY <1>1, <1>6 DEF DeleteMark, MarkAt
  <1>10. dynamic_regions \in Seq(Region) /\ Sorted(dynamic_regions)
    BY DEF TextIInv, NaclTextTypeOK, RegionsInv
  <1> HIDE DEF i
  <1>11. /\ dynamic_regions' \in Seq(Region) /\ Sorted(dynamic_regions')
         /\ ToSet(dynamic_regions') = (ToSet(dynamic_regions) \ {r}) \cup {item}
         /\ item.start = r.start /\ item.size = r.size
         /\ item.is_mmap = r.is_mmap /\ item.delete_generation = g
    BY <1>7, <1>8, <1>9, <1>10, MarkKeepsSorted
  <1> HIDE DEF item
  <1>12. Regions' = (Regions \ {r}) \cup {item} /\ Area(item) = Area(r)
    BY <1>11 DEF Regions, Area
  <1>13. NaclTextTypeOK'
    <2>1. dynamic_mapcache' \subseteq dynamic_page_bitmap
      BY <1>1 DEF ClearCacheIfNeeded, TextIInv, NaclTextTypeOK
    <2>2. pc' \in [Thread -> {"new", "user", "tails", "heads", "set", "halts",
                              "checkIn", "scan", "gone"}]
      BY <1>1 DEF TextIInv, NaclTextTypeOK
    <2>3. dynamic_delete_generation' \in 0..MaxGeneration
      BY <1>1, <1>8, <1>6
    <2>4. QED
      BY <1>1, <1>2, <1>11, <2>1, <2>2, <2>3 DEF TextIInv, NaclTextTypeOK
  <1>14. RegionsInv'
    <2>1. ASSUME NEW q \in Regions'
          PROVE  /\ Area(q) \subseteq Bundle
                 /\ q.delete_generation <= dynamic_delete_generation'
                 /\ q.is_mmap =>
                      \A b \in Area(q) : PageArea({PageOf(b)}) \subseteq Area(q)
      <3>1. CASE q = item
        BY <1>1, <1>4, <1>5, <1>8, <1>11, <1>12, <1>6, <3>1
      <3>2. CASE q \in Regions
        <4>1. q.delete_generation \in {-1} \cup 1..MaxGeneration
          BY <3>2, RegionTypes DEF TextIInv
        <4>2. q.delete_generation \in Int
          BY <4>1 DEF NaclTextAssumption
        <4>3. QED
          BY <1>1, <1>8, <3>2, <4>2 DEF TextIInv, RegionsInv
      <3>3. QED
        BY <1>12, <3>1, <3>2
    <2>2. QED
      BY <1>11, <2>1 DEF RegionsInv
  <1>15. ThreadsInv'
    BY <1>1, <1>2 DEF TextIInv, NaclTextTypeOK, ThreadsInv, InCall
  <1>16. GenerationsInv'
    BY <1>1, <1>2, <1>8 DEF TextIInv, NaclTextTypeOK, GenerationsInv
  <1>17. MemoryInv'
    <2> SUFFICES ASSUME NEW b \in Bundle
                 PROVE  /\ head[b] \in Code =>
                             /\ tail[b] = head[b]
                             /\ \E q \in Regions' :
                                  b \in Area(q) /\ q.delete_generation = -1
                        /\ \/ tail[b] = Zero
                           \/ PageOf(b) \in dynamic_page_bitmap
                           \/ \E q \in Regions' : q.is_mmap /\ b \in Area(q)
      BY <1>1, <1>2 DEF MemoryInv
    <2>1. ASSUME head[b] \in Code
          PROVE  /\ tail[b] = head[b]
                 /\ \E q \in Regions' :
                      b \in Area(q) /\ q.delete_generation = -1
      <3>1. tail[b] = head[b]
        BY <2>1 DEF TextIInv, MemoryInv
      <3>2. PICK q \in Regions : b \in Area(q) /\ q.delete_generation = -1
        BY <2>1 DEF TextIInv, MemoryInv
      <3>3. q # r
        BY <1>5, <2>1, <3>2 DEF HeadsOff
      <3>4. QED
        BY <1>12, <3>1, <3>2, <3>3
    <2>2. \/ tail[b] = Zero
          \/ PageOf(b) \in dynamic_page_bitmap
          \/ \E q \in Regions' : q.is_mmap /\ b \in Area(q)
      BY <1>5, <1>12 DEF TextIInv, MemoryInv
    <2>3. QED
      BY <2>1, <2>2
  <1>18. RunningInv'
    <2> SUFFICES ASSUME NEW u \in Thread, at[u] # <<>>
                 PROVE  /\ tail[at[u][1]] = at[u][2]
                        /\ \E q \in Regions' :
                             /\ at[u][1] \in Area(q)
                             /\ \/ q.delete_generation = -1
                                \/ generation[u] < q.delete_generation
      BY <1>2 DEF RunningInv
    <2>1. tail[at[u][1]] = at[u][2]
      BY DEF TextIInv, RunningInv
    <2>2. PICK q \in Regions :
            /\ at[u][1] \in Area(q)
            /\ \/ q.delete_generation = -1
               \/ generation[u] < q.delete_generation
      BY DEF TextIInv, RunningInv
    <2>3. CASE q = r
      <3>1. generation[u] <= dynamic_delete_generation /\ generation[u] \in Int
        BY DEF TextIInv, NaclTextTypeOK, GenerationsInv
      <3>2. generation[u] < g
        BY <1>8, <1>6, <3>1
      <3>3. QED
        BY <1>11, <1>12, <2>1, <2>2, <2>3, <3>2
    <2>4. CASE q # r
      BY <1>12, <2>1, <2>2, <2>4
    <2>5. QED
      BY <2>3, <2>4
  <1>19. WholeInv'
    <2> SUFFICES ASSUME NEW q \in Regions', ~Busy(q)' PROVE Whole(q)'
      BY DEF WholeInv
    <2>1. q # item
      BY <1>1, <1>4, <1>11 DEF Busy
    <2>2. q \in Regions /\ ~Busy(q)
      BY <1>1, <1>12, <2>1 DEF Busy
    <2>3. Whole(q)
      BY <2>2 DEF TextIInv, WholeInv
    <2>4. QED
      BY <1>2, <2>3 DEF Whole, HeadsOff
  <1>20. CallInv'
    <2>1. DeletingInv(item)'
      BY <1>2, <1>5, <1>8, <1>11, <1>12 DEF DeletingInv, HeadsOff
    <2>2. pc'[t] = "checkIn" /\ \A u \in Thread : pc'[u] \in InCall => u = t
      BY <1>1, <1>3 DEF TextIInv, NaclTextTypeOK
    <2>3. AtWork(t, item)'
      BY <1>1, <1>5, <1>11, <2>1, <2>2 DEF AtWork
    <2>4. QED
      BY <1>12, <2>2, <2>3 DEF CallInv
  <1>21. QED
    BY <1>13, <1>14, <1>15, <1>16, <1>17, <1>18, <1>19, <1>20 DEF TextIInv

(* The deletion's own check-in keeps the invariant.                         *)
LEMMA DeleteCheckInKeeps ==
  ASSUME NaclTextAssumption, TextIInv, NEW t \in Thread, DeleteCheckIn(t)
  PROVE  TextIInv'
  <1>1. /\ pc[t] = "checkIn" /\ pc[t] \in InCall
        /\ generation' = [generation EXCEPT ![t] = dynamic_delete_generation]
        /\ pc' = [pc EXCEPT ![t] = "scan"]
        /\ call' = [call EXCEPT !.unread = threads, !.todo = {}]
        /\ UNCHANGED <<memVars, dynamic_page_bitmap, regionVars>>
        /\ UNCHANGED <<memVars, mapVars, regionVars, threads, at, gen,
                       dynamic_load_mutex>>
    BY DEF DeleteCheckIn, SetThreadGeneration, InCall, mapVars
  <1>2. dynamic_load_mutex = t /\ at[t] = <<>>
        /\ \A u \in Thread : pc[u] \in InCall => u = t
    BY <1>1, HolderAlone
  <1>3. PICK r \in Regions : AtWork(t, r)
    BY <1>1, HolderAlone
  <1>4. /\ call' \in [dest : {0} \cup Bundle, size : {0} \cup Bundle,
                      code : Cell, todo : SUBSET Bundle,
                      unread : SUBSET Thread, rv : 0..MaxGeneration]
        /\ call'.dest = call.dest /\ call'.size = call.size
        /\ call'.unread = threads
    BY <1>1 DEF TextIInv, NaclTextTypeOK
  <1>5. NaclTextTypeOK'
    <2>1. generation' \in [Thread -> 0..MaxGeneration]
      BY <1>1 DEF TextIInv, NaclTextTypeOK
    <2>2. pc' \in [Thread -> {"new", "user", "tails", "heads", "set", "halts",
                              "checkIn", "scan", "gone"}]
      BY <1>1 DEF TextIInv, NaclTextTypeOK
    <2>3. QED
      BY <1>1, <1>4, <2>1, <2>2
         DEF TextIInv, NaclTextTypeOK, memVars, mapVars, regionVars
  <1>6. ThreadsInv'
    BY <1>1 DEF TextIInv, NaclTextTypeOK, ThreadsInv, InCall
  <1>7. GenerationsInv'
    BY <1>1 DEF TextIInv, NaclTextTypeOK, GenerationsInv, regionVars
  <1>8. RegionsInv' /\ MemoryInv' /\ WholeInv' /\ RunningInv'
        /\ Regions' = Regions
    <2>1. \A q \in Regions : Busy(q) => Busy(q)'
      BY <1>1, <1>4 DEF Busy
    <2>2. \A u \in Thread : at'[u] # <<>> =>
            at'[u] = at[u] /\ generation'[u] = generation[u]
      BY <1>1, <1>2 DEF TextIInv, NaclTextTypeOK
    <2>3. QED
      BY <1>1, <2>1, <2>2, QuietMemory
  <1>9. CallInv'
    <2>1. DeletingInv(r)'
      BY <1>1, <1>3 DEF AtWork, DeletingInv, HeadsOff, memVars
    <2>2. ScanInv'
      BY <1>1, <1>4 DEF ScanInv
    <2>3. pc'[t] = "scan" /\ \A u \in Thread : pc'[u] \in InCall => u = t
      BY <1>1, <1>2 DEF TextIInv, NaclTextTypeOK
    <2>4. AtWork(t, r)'
      BY <1>3, <1>4, <2>1, <2>2, <2>3 DEF AtWork
    <2>5. QED
      BY <1>8, <2>3, <2>4 DEF CallInv
  <1>10. QED
    BY <1>5, <1>6, <1>7, <1>8, <1>9 DEF TextIInv

(* One thread of the scan for the smallest generation keeps the invariant.  *)
LEMMA ScanThreadKeeps ==
  ASSUME NaclTextAssumption, TextIInv, NEW t \in Thread, ScanThread(t)
  PROVE  TextIInv'
  <1>1. PICK u \in call.unread :
          call' = [call EXCEPT !.unread = @ \ {u},
                               !.rv = IF @ > generation[u] THEN generation[u]
                                      ELSE @]
    BY DEF ScanThread
  <1>2. /\ pc[t] = "scan" /\ pc[t] \in InCall
        /\ UNCHANGED <<memVars, dynamic_page_bitmap, regionVars>>
        /\ UNCHANGED <<memVars, mapVars, regionVars, threadVars, pc, gen,
                       dynamic_load_mutex>>
    BY DEF ScanThread, InCall, mapVars
  <1>3. at' = at /\ generation' = generation /\ threads' = threads
    BY <1>2 DEF threadVars
  <1>4. \A v \in Thread : pc[v] \in InCall => v = t
    BY <1>2, HolderAlone
  <1>5. PICK r \in Regions : AtWork(t, r)
    BY <1>2, HolderAlone
  <1>6. u \in Thread /\ generation[u] \in 0..MaxGeneration
        /\ call.rv \in 0..MaxGeneration
    BY DEF TextIInv, NaclTextTypeOK
  <1>7. /\ call' \in [dest : {0} \cup Bundle, size : {0} \cup Bundle,
                      code : Cell, todo : SUBSET Bundle,
                      unread : SUBSET Thread, rv : 0..MaxGeneration]
        /\ call'.dest = call.dest /\ call'.size = call.size
        /\ call'.unread = call.unread \ {u}
        /\ call'.rv = IF call.rv > generation[u] THEN generation[u] ELSE call.rv
    BY <1>1, <1>6 DEF TextIInv, NaclTextTypeOK
  <1>8. NaclTextTypeOK'
    BY <1>2, <1>3, <1>7
       DEF TextIInv, NaclTextTypeOK, memVars, mapVars, regionVars
  <1>9. ThreadsInv' /\ GenerationsInv'
    BY <1>2, <1>3 DEF TextIInv, ThreadsInv, GenerationsInv, regionVars
  <1>10. RegionsInv' /\ MemoryInv' /\ WholeInv' /\ RunningInv'
         /\ Regions' = Regions
    <2>1. \A q \in Regions : Busy(q) => Busy(q)'
      BY <1>2, <1>7 DEF Busy
    <2>2. QED
      BY <1>2, <1>3, <2>1, QuietMemory
  <1>11. ScanInv'
    <2>1. ScanInv /\ threads \subseteq Thread
      BY <1>2, <1>5 DEF AtWork, TextIInv, NaclTextTypeOK
    <2>2. ASSUME NEW v \in threads \ call'.unread
          PROVE  call'.rv <= generation[v]
      <3>1. generation[v] \in Int
        BY <2>1 DEF TextIInv, NaclTextTypeOK
      <3>2. CASE v = u
        BY <1>6, <1>7, <3>1, <3>2
      <3>3. CASE v # u
        <4>1. call.rv <= generation[v]
          BY <1>7, <2>1, <2>2, <3>3 DEF ScanInv
        <4>2. QED
          BY <1>6, <1>7, <3>1, <4>1
      <3>4. QED
        BY <3>2, <3>3
    <2>3. QED
      BY <1>3, <1>7, <2>1, <2>2 DEF ScanInv
  <1>12. CallInv'
    <2>1. DeletingInv(r)'
      BY <1>2, <1>5 DEF AtWork, DeletingInv, HeadsOff, memVars
    <2>2. AtWork(t, r)'
      BY <1>2, <1>5, <1>7, <1>11, <2>1 DEF AtWork
    <2>3. QED
      BY <1>2, <1>4, <1>10, <2>2 DEF CallInv
  <1>13. QED
    BY <1>8, <1>9, <1>10, <1>12 DEF TextIInv

(* The area is given back only when nobody is in it: a thread that was in  *)
(* it when its heads were halted has checked in since, and left it.        *)
LEMMA DeleteEndKeeps ==
  ASSUME NaclTextAssumption, TextIInv, NEW t \in Thread, DeleteEnd(t)
  PROVE  TextIInv'
  <1> DEFINE i == RegionFind(dynamic_regions, call.dest, call.size)
  <1>1. /\ pc[t] = "scan" /\ pc[t] \in InCall /\ call.unread = {}
        /\ Unlock(t)
        /\ dynamic_regions' =
             IF dynamic_regions[i].delete_generation <= call.rv
             THEN RemoveAt(dynamic_regions, i) ELSE dynamic_regions
        /\ UNCHANGED <<memVars, mapVars, dynamic_delete_generation, threadVars,
                       gen>>
    BY DEF DeleteEnd, InCall
  <1>2. /\ at' = at /\ generation' = generation /\ threads' = threads
        /\ head' = head /\ tail' = tail
        /\ dynamic_page_bitmap' = dynamic_page_bitmap
        /\ dynamic_mapcache' = dynamic_mapcache
        /\ dynamic_delete_generation' = dynamic_delete_generation
        /\ gen' = gen
    BY <1>1 DEF threadVars, memVars, mapVars
  <1>3. PICK r \in Regions :
          AtWork(t, r) /\ \A q \in Regions : q # r => ~Busy(q)
    BY <1>1, HolderAlone
  <1>4. /\ r.start = call.dest /\ r.size = call.size /\ ~r.is_mmap
        /\ DeletingInv(r) /\ ScanInv
    BY <1>1, <1>3 DEF AtWork
  <1>5. i \in 1..Len(dynamic_regions) /\ dynamic_regions[i] = r
    BY <1>4, RegionAt DEF TextIInv
  <1>6. /\ call' \in [dest : {0} \cup Bundle, size : {0} \cup Bundle,
                      code : Cell, todo : SUBSET Bundle,
                      unread : SUBSET Thread, rv : 0..MaxGeneration]
        /\ dynamic_load_mutex' = NoThread
        /\ pc' \in [Thread -> {"new", "user", "tails", "heads", "set", "halts",
                               "checkIn", "scan", "gone"}]
        /\ ThreadsInv' /\ GenerationsInv' /\ CallInv'
    BY <1>1, <1>2, UnlockEffect
  <1> HIDE DEF i
  <1>7. dynamic_regions \in Seq(Region) /\ Sorted(dynamic_regions)
    BY DEF TextIInv, NaclTextTypeOK, RegionsInv
  <1>8. /\ dynamic_regions' \in Seq(Region) /\ Sorted(dynamic_regions')
        /\ \/ Regions' = Regions
           \/ r.delete_generation <= call.rv /\ Regions' = Regions \ {r}
    <2>1. CASE r.delete_generation <= call.rv
      <3>1. dynamic_regions' = RemoveAt(dynamic_regions, i)
        BY <1>1, <1>5, <2>1
      <3>2. /\ RemoveAt(dynamic_regions, i) \in Seq(Region)
            /\ Sorted(RemoveAt(dynamic_regions, i))
            /\ ToSet(RemoveAt(dynamic_regions, i))
                 = ToSet(dynamic_regions) \ {dynamic_regions[i]}
        BY <1>5, <1>7, RemoveKeepsSorted
      <3>3. QED
        BY <1>5, <2>1, <3>1, <3>2 DEF Regions
    <2>2. CASE ~(r.delete_generation <= call.rv)
      BY <1>1, <1>5, <1>7, <2>2 DEF Regions
    <2>3. QED
      BY <2>1, <2>2
  <1>9. NaclTextTypeOK'
    BY <1>1, <1>2, <1>6, <1>8 DEF TextIInv, NaclTextTypeOK
  <1>10. RegionsInv'
    BY <1>2, <1>8 DEF TextIInv, RegionsInv
  <1>11. MemoryInv'
    <2>1. \A q \in Regions : q.delete_generation = -1 \/ q.is_mmap
                               => q \in Regions'
      BY <1>4, <1>8 DEF DeletingInv
    <2>2. QED
      BY <1>2, <2>1 DEF TextIInv, MemoryInv
  <1>12. RunningInv'
    <2> SUFFICES ASSUME NEW u \in Thread, at[u] # <<>>
                 PROVE  /\ tail[at[u][1]] = at[u][2]
                        /\ \E q \in Regions' :
                             /\ at[u][1] \in Area(q)
                             /\ \/ q.delete_generation = -1
                                \/ generation[u] < q.delete_generation
      BY <1>2 DEF RunningInv
    <2>1. tail[at[u][1]] = at[u][2]
      BY DEF TextIInv, RunningInv
    <2>2. PICK q \in Regions :
            /\ at[u][1] \in Area(q)
            /\ \/ q.delete_generation = -1
               \/ generation[u] < q.delete_generation
      BY DEF TextIInv, RunningInv
    <2>3. ASSUME q = r, r.delete_generation <= call.rv PROVE FALSE
      <3>1. u \in threads
        BY DEF TextIInv, ThreadsInv
      <3>2. call.rv <= generation[u]
        BY <1>1, <1>4, <3>1 DEF ScanInv
      <3>3. generation[u] < r.delete_generation /\ r.delete_generation \in Int
        <4>1. r.delete_generation \in {-1} \cup 1..MaxGeneration
          BY RegionTypes DEF TextIInv
        <4>2. QED
          BY <1>4, <2>2, <2>3, <4>1 DEF DeletingInv, NaclTextAssumption
      <3>4. generation[u] \in Int /\ call.rv \in Int
        BY DEF TextIInv, NaclTextTypeOK
      <3>5. QED
        BY <2>3, <3>2, <3>3, <3>4
    <2>4. q \in Regions'
      BY <1>8, <2>3
    <2>5. QED
      BY <2>1, <2>2, <2>4
  <1>13. WholeInv'
    <2> SUFFICES ASSUME NEW q \in Regions PROVE Whole(q)'
      BY <1>8 DEF WholeInv
    <2>1. Whole(q)
      <3>1. CASE q = r
        BY <1>4, <3>1 DEF DeletingInv, Whole
      <3>2. CASE q # r
        BY <1>3, <3>2 DEF TextIInv, WholeInv
      <3>3. QED
        BY <3>1, <3>2
    <2>2. QED
      BY <1>2, <2>1 DEF Whole, HeadsOff
  <1>14. QED
    BY <1>6, <1>9, <1>10, <1>11, <1>12, <1>13 DEF TextIInv
-----------------------------------------------------------------------------
(* The theorems. *)

LEMMA TextInit ==
  ASSUME NaclTextAssumption, Init
  PROVE  TextIInv
  <1>1. NaclTextTypeOK
    <2>1. Zero \in Cell /\ 0 \in 0..MaxGeneration
          /\ MaxGeneration \in 0..MaxGeneration
      BY DEF Cell, NaclTextAssumption
    <2>2. dynamic_regions \in Seq(Region)
      BY DEF Init
    <2>3. call \in [dest : {0} \cup Bundle, size : {0} \cup Bundle, code : Cell,
                    todo : SUBSET Bundle, unread : SUBSET Thread,
                    rv : 0..MaxGeneration]
      BY <2>1 DEF Init, NoCall
    <2>4. QED
      BY <2>1, <2>2, <2>3 DEF Init, NaclTextTypeOK, NaclTextAssumption
  <1>2. Regions = {} /\ DOMAIN dynamic_regions = {}
    BY DEF Init, Regions, ToSet
  <1>3. RegionsInv
    BY <1>2 DEF RegionsInv, Sorted
  <1>4. ThreadsInv
    BY DEF Init, ThreadsInv, InCall, NaclTextAssumption
  <1>5. GenerationsInv
    BY DEF Init, GenerationsInv
  <1>6. MemoryInv
    BY DEF Init, MemoryInv, NaclTextAssumption
  <1>7. RunningInv
    BY DEF Init, RunningInv
  <1>8. WholeInv
    BY <1>2 DEF WholeInv
  <1>9. CallInv
    BY DEF Init, CallInv, InCall
  <1>10. QED
    BY <1>1, <1>3, <1>4, <1>5, <1>6, <1>7, <1>8, <1>9 DEF TextIInv

(* The inductive step, action by action.                                    *)
LEMMA TextNext ==
  ASSUME NaclTextAssumption, TextIInv, [Next]_vars
  PROVE  TextIInv'
  <1>1. CASE Next
    <2>1. PICK t \in Thread :
            CallBegin(t) \/ CallStep(t) \/ UntrustedStep(t) \/ Launch(t)
            \/ Exit(t)
      BY <1>1 DEF Next
    <2>2. CASE CallBegin(t)
      <3>1. CASE CheckInRead(t)
        BY <3>1, CheckInReadKeeps
      <3>2. ASSUME NEW dest \in Bundle, NEW size \in Bundle,
                   \/ \E code \in Code : CreateBegin(t, dest, size, code)
                   \/ CreateNoMemory(t, dest, size)
                   \/ Modify(t, dest, size)
                   \/ DeleteFirst(t, dest, size)
                   \/ DeleteAgain(t, dest, size)
            PROVE  TextIInv'
        BY <3>2, CreateBeginKeeps, CreateNoMemoryKeeps, ModifyKeeps,
           DeleteFirstKeeps, DeleteAgainKeeps
      <3>3. ASSUME NEW first \in Page, NEW last \in Page, NEW code \in Code,
                   MmapCode(t, first, last, code)
            PROVE  TextIInv'
        BY <3>3, MmapCodeKeeps
      <3>4. QED
        BY <2>2, <3>1, <3>2, <3>3 DEF CallBegin
    <2>3. CASE CallStep(t)
      BY <2>3, CopyBundleTailsKeeps, CopyBundleHeadKeeps, CreateEndKeeps,
         CheckInSetKeeps, HaltBundleHeadKeeps, DeleteMarkKeeps,
         DeleteCheckInKeeps, ScanThreadKeeps, DeleteEndKeeps DEF CallStep
    <2>4. CASE UntrustedStep(t)
      BY <2>4, EnterKeeps, LeaveKeeps DEF UntrustedStep
    <2>5. CASE Launch(t) \/ Exit(t)
      BY <2>5, LaunchKeeps, ExitKeeps
    <2>6. QED
      BY <2>1, <2>2, <2>3, <2>4, <2>5
  <1>2. CASE UNCHANGED vars
    <2>1. /\ UNCHANGED <<memVars, dynamic_page_bitmap, regionVars>>
          /\ UNCHANGED <<memVars, dynamic_page_bitmap, regionVars, call>>
          /\ UNCHANGED <<memVars, mapVars, regionVars, threadVars, pc, gen,
                         dynamic_load_mutex, call>>
      BY <1>2 DEF vars, mapVars
    <2>2. at' = at /\ generation' = generation /\ threads' = threads
      BY <2>1 DEF threadVars
    <2>3. NaclTextTypeOK'
      BY <2>1, <2>2 DEF TextIInv, NaclTextTypeOK, memVars, mapVars, regionVars
    <2>4. ThreadsInv' /\ GenerationsInv'
      BY <2>1, <2>2 DEF TextIInv, ThreadsInv, GenerationsInv, regionVars
    <2>5. RegionsInv' /\ MemoryInv' /\ WholeInv' /\ RunningInv'
      <3>1. \A r \in Regions : Busy(r) => Busy(r)'
        BY <2>1 DEF Busy
      <3>2. QED
        BY <2>1, <2>2, <3>1, QuietMemory
    <2>6. CallInv'
      <3> SUFFICES ASSUME NEW u \in Thread, pc'[u] \in InCall
                   PROVE  \E r \in Regions' : AtWork(u, r)'
        BY DEF CallInv
      <3>1. pc'[u] = pc[u]
        BY <2>1
      <3>2. \A v \in threads :
              generation[v] <= generation'[v] /\ generation'[v] \in Int
        BY <2>2 DEF TextIInv, NaclTextTypeOK
      <3>3. \A v \in Thread : at'[v] = at[v]
        BY <2>2
      <3>4. QED
        BY <2>1, <2>2, <3>1, <3>2, <3>3, QuietCall DEF TextIInv
    <2>7. QED
      BY <2>3, <2>4, <2>5, <2>6 DEF TextIInv
  <1>3. QED
    BY <1>1, <1>2

(* The inductive invariant holds in every state.                           *)
LEMMA TextInvariant == Spec => []TextIInv
  <1>1. NaclTextAssumption
    BY NaclTextAssumption
  <1>2. Init => TextIInv
    BY <1>1, TextInit
  <1>3. TextIInv /\ [Next]_vars => TextIInv'
    BY <1>1, TextNext
  <1>4. QED
    BY <1>2, <1>3, PTL DEF Spec

(***************************************************************************)
(* A thread that is past the head of a bundle runs the rest of the same    *)
(* code until it leaves, and the area it is in has not been given back     *)
(* (nacl_text.c:985-1002).                                                 *)
(***************************************************************************)
THEOREM RunsNoStaleCode == Spec => []NoStaleCode
  <1>1. TextIInv => NoStaleCode
    BY DEF TextIInv, RunningInv, NoStaleCode
  <1>2. QED
    BY <1>1, TextInvariant, PTL

(* Outside of a call a region has all of its code or none (nacl_text.c:    *)
(* 340-410, 690-735).                                                      *)
LEMMA RegionsAreWhole ==
  ASSUME TextIInv
  PROVE  AllOrNothing
  <1>1. \A r \in Regions : ~Busy(r) =>
          \/ \A b \in Area(r) : head[b] \notin Code
          \/ /\ r.delete_generation = -1
             /\ \E c \in Code : \A b \in Area(r) : head[b] = c /\ tail[b] = c
    BY DEF TextIInv, WholeInv, Whole, HeadsOff
  <1>2. \A b \in Bundle : head[b] \in Code => \E r \in Regions : b \in Area(r)
    BY DEF TextIInv, MemoryInv
  <1>3. QED
    BY <1>1, <1>2 DEF AllOrNothing

(***************************************************************************)
(* The regions never overlap, each is loaded as a whole or not at all and  *)
(* cannot be entered while it waits for its deletion, and no fatal check   *)
(* fails: the generation of a thread never goes back, and a page that      *)
(* becomes visible has never been used (nacl_text.c:236-280, 293, 340-413, *)
(* 455, 690-735, 960-985).                                                 *)
(***************************************************************************)
THEOREM TextCorrect == Spec => []NaclTextInv
  <1>1. TextIInv => NaclTextInv
    <2> SUFFICES ASSUME TextIInv PROVE NaclTextInv
      OBVIOUS
    <2>1. NaclTextTypeOK
      BY DEF TextIInv
    <2>2. RegionsAreSorted
      BY DEF TextIInv, RegionsInv, Sorted, RegionsAreSorted
    <2>3. AllOrNothing
      BY RegionsAreWhole
    <2>4. ChecksHold
      BY DEF TextIInv, GenerationsInv, MemoryInv, PageOf, ChecksHold
    <2>5. QED
      BY <2>1, <2>2, <2>3, <2>4 DEF NaclTextInv
  <1>2. QED
    BY <1>1, TextInvariant, PTL
=============================================================================
