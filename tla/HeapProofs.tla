------------------------------ MODULE HeapProofs -----------------------------
(***************************************************************************)
(* Proofs about TimeoutHeap: the tree is complete, indexed and ordered     *)
(* between calls whatever threads are added and deleted, and it implements *)
(* the sleep queue of SleepQueue, for every set of threads and deadlines.  *)
(***************************************************************************)
EXTENDS TimeoutHeap, FiniteSetTheorems, WellFoundedInduction, TLAPS

Links(T) == T \X {"left", "right"}

(* The threads T have the indices 1..n, each its own.                      *)
Indexed(h, T, n) ==
  /\ \A t \in T : h[t] \in 1..n
  /\ \A t, u \in T : h[t] = h[u] => t = u
  /\ \A i \in 1..n : \E t \in T : h[t] = i

(* Every place of the tree holds the thread of its index, or nothing.      *)
Linked(q, h, T, n) ==
  \A p \in PlacesOf(T) :
    IF IndexOf(h, p) <= n
    THEN q[p] \in T /\ h[q[p]] = IndexOf(h, p)
    ELSE q[p] = Nil

Tree(q, h, T, n) == Indexed(h, T, n) /\ Linked(q, h, T, n)

(* No thread is due before the one that has it below one of the places S.  *)
Ordered(q, d, S) == \A p \in S : q[p] # Nil => d[p[1]] <= d[q[p]]

-----------------------------------------------------------------------------
(* Facts about trees: pure functions q (places to threads), h and d.       *)

(* A nonempty set of numbers has a least one: by way of which what holds   *)
(* along the path to a thread is shown without induction.                  *)
LEMMA LeastNumber ==
  ASSUME NEW S \in SUBSET Nat, S # {}
  PROVE  \E n \in S : \A m \in S : n <= m
<1> DEFINE R == {ss \in Nat \X Nat : ss[1] < ss[2]}
<1>1. IsWellFoundedOn(R, Nat)
  BY NatLessThanWellFounded DEF OpToRel
<1>2. \A m, n \in Nat : m < n => <<m, n>> \in R
  OBVIOUS
<1> HIDE DEF R
<1>3. PICK n \in S : \A m \in S : ~(<<m, n>> \in R)
  BY <1>1, WFMin
<1>4. ASSUME NEW m \in S PROVE n <= m
  <2>1. m \in Nat /\ n \in Nat
    OBVIOUS
  <2>2. ~(m < n)
    BY <1>2, <1>3, <2>1, Zenon
  <2> QED BY <2>1, <2>2
<1> QED BY <1>4

(* The indices of the places of a tree differ.                             *)
LEMMA PlaceUnique ==
  ASSUME NEW h \in [Thread -> Nat], NEW T \in SUBSET Thread, NEW n \in Nat,
         Indexed(h, T, n), NEW x \in PlacesOf(T), NEW y \in PlacesOf(T)
  PROVE  /\ IndexOf(h, x) \in Nat /\ IndexOf(h, x) >= 1
         /\ x # Root => x[1] \in T /\ IndexOf(h, x) > h[x[1]]
         /\ IndexOf(h, x) = IndexOf(h, y) => x = y
<1>1. ASSUME NEW z \in PlacesOf(T)
      PROVE  \/ z = Root
             \/ /\ z # Root /\ z[1] \in T /\ z[2] \in {"left", "right"}
                /\ z = <<z[1], z[2]>>
  BY <1>1, HeapAssumption DEF PlacesOf, Root
<1>2. ASSUME NEW z \in PlacesOf(T), z # Root
      PROVE  /\ IndexOf(h, z) = 2 * h[z[1]] + (IF z[2] = "right" THEN 1 ELSE 0)
             /\ h[z[1]] \in Nat /\ h[z[1]] >= 1
  BY <1>1, <1>2 DEF IndexOf, Indexed
<1>3. IndexOf(h, Root) = 1
  BY DEF IndexOf
<1>4. CASE x = Root
  BY <1>4, <1>2, <1>3
<1>5. CASE x # Root
  <2>1. IndexOf(h, x) \in Nat /\ IndexOf(h, x) >= 2 /\ IndexOf(h, x) > h[x[1]]
    BY <1>2, <1>5
  <2>2. ASSUME y # Root, IndexOf(h, x) = IndexOf(h, y) PROVE x = y
    <3>1. h[x[1]] = h[y[1]] /\ (x[2] = "right" <=> y[2] = "right")
      BY <1>2, <1>5, <2>2
    <3>2. x[1] = y[1]
      BY <1>1, <1>5, <2>2, <3>1 DEF Indexed
    <3>3. x[2] = y[2]
      BY <1>1, <1>5, <2>2, <3>1
    <3> QED BY <1>1, <1>5, <2>2, <3>2, <3>3
  <2> QED BY <1>1, <1>3, <1>5, <2>1, <2>2
<1> QED BY <1>4, <1>5

(* What a tree says of the thread at a place.                              *)
LEMMA AtPlaceOf ==
  ASSUME NEW q, NEW h \in [Thread -> Nat], NEW T \in SUBSET Thread,
         NEW n \in Nat, Tree(q, h, T, n), NEW x \in PlacesOf(T)
  PROVE  /\ q[x] # Nil <=> IndexOf(h, x) <= n
         /\ q[x] # Nil => q[x] \in T /\ h[q[x]] = IndexOf(h, x)
BY HeapAssumption DEF Tree, Linked

(* The thread t, not of the tree, takes the place of the one at p.         *)
LEMMA TakeOver ==
  ASSUME NEW q, NEW h \in [Thread -> Nat], NEW T \in SUBSET Thread,
         NEW n \in Nat, Tree(q, h, T, n), NEW t \in Thread, t \notin T,
         NEW p \in PlacesOf(T), IndexOf(h, p) <= n,
         NEW q2, NEW h2 \in [Thread -> Nat],
         q2[p] = t,
         \A s \in {"left", "right"} : q2[<<t, s>>] = q[<<q[p], s>>],
         \A x \in PlacesOf(T) \ {p} : q2[x] = q[x],
         h2[t] = IndexOf(h, p), \A u \in T : h2[u] = h[u]
  PROVE  Tree(q2, h2, (T \ {q[p]}) \cup {t}, n)
<1> DEFINE old == q[p]
           T2  == (T \ {old}) \cup {t}
<1>1. old \in T /\ h[old] = IndexOf(h, p)
  BY AtPlaceOf
<1>2. p = Root \/ p[1] \in T \ {old}
  BY <1>1, PlaceUnique DEF Tree
<1>4. IndexOf(h2, p) = IndexOf(h, p)
  BY <1>2 DEF IndexOf
<1>5. Indexed(h2, T2, n)
  <2>1. \A u \in T2 : h2[u] \in 1..n
    BY <1>1, PlaceUnique DEF Tree, Indexed
  <2>2. \A u, v \in T2 : h2[u] = h2[v] => u = v
    BY <1>1 DEF Tree, Indexed
  <2>3. ASSUME NEW i \in 1..n PROVE \E u \in T2 : h2[u] = i
    BY <1>1 DEF Tree, Indexed
  <2> QED BY <2>1, <2>2, <2>3 DEF Indexed
<1>6. ASSUME NEW x \in PlacesOf(T2)
      PROVE  IF IndexOf(h2, x) <= n
             THEN q2[x] \in T2 /\ h2[q2[x]] = IndexOf(h2, x)
             ELSE q2[x] = Nil
  <2>1. CASE x = p
    BY <2>1, <1>4
  <2>2. CASE \E s \in {"left", "right"} : x = <<t, s>>
    <3>1. PICK s \in {"left", "right"} : x = <<t, s>>
      BY <2>2
    <3> DEFINE z == <<old, s>>
    <3>2. z \in PlacesOf(T) /\ z # Root
      BY <1>1, HeapAssumption DEF PlacesOf, Root
    <3>3. IndexOf(h2, x) = IndexOf(h, z)
      BY <3>1, <1>1, HeapAssumption DEF IndexOf, Root
    <3>4. q2[x] = q[z]
      BY <3>1
    <3>5. q[z] # Nil => q[z] # old
      BY SMTT(60), <3>2, AtPlaceOf, PlaceUnique, <1>1 DEF Tree, Indexed
    <3> HIDE DEF z
    <3> QED BY <3>2, <3>3, <3>4, <3>5, AtPlaceOf
  <2>3. CASE x # p /\ x \in PlacesOf(T) /\ (x = Root \/ x[1] # t)
    <3>1. IndexOf(h2, x) = IndexOf(h, x)
      BY <2>3, PlaceUnique DEF IndexOf, Tree
    <3>2. q2[x] = q[x]
      BY <2>3
    <3>3. q[x] # Nil => q[x] # old
      BY <2>3, AtPlaceOf, PlaceUnique, <1>1 DEF Tree
    <3> QED BY <2>3, <3>1, <3>2, <3>3, AtPlaceOf
  <2> QED BY <2>1, <2>2, <2>3, HeapAssumption DEF PlacesOf, Root
<1> QED BY <1>5, <1>6 DEF Tree, Linked

(* The thread t, not of the tree, is put at the first empty place p.       *)
Extended(q, h, T, m, t, p, q2, h2) ==
  /\ t \in Thread /\ t \notin T /\ p \in PlacesOf(T) /\ IndexOf(h, p) = m
  /\ q2[p] = t
  /\ \A s \in {"left", "right"} : q2[<<t, s>>] = Nil
  /\ \A x \in PlacesOf(T) \ {p} : q2[x] = q[x]
  /\ h2[t] = m /\ \A u \in T : h2[u] = h[u]

LEMMA PutLast ==
  ASSUME NEW q, NEW h \in [Thread -> Nat], NEW T \in SUBSET Thread,
         NEW n \in Nat, NEW m \in Nat, m = n + 1, Tree(q, h, T, n),
         NEW t, NEW p, NEW q2, NEW h2 \in [Thread -> Nat],
         Extended(q, h, T, m, t, p, q2, h2)
  PROVE  Tree(q2, h2, T \cup {t}, m)
<1> USE DEF Extended
<1> DEFINE T2 == T \cup {t}
<1>1. Indexed(h2, T2, m)
  BY DEF Tree, Indexed
<1>2. ASSUME NEW x \in PlacesOf(T2)
      PROVE  IF IndexOf(h2, x) <= m
             THEN q2[x] \in T2 /\ h2[q2[x]] = IndexOf(h2, x)
             ELSE q2[x] = Nil
  <2>1. CASE \E s \in {"left", "right"} : x = <<t, s>>
    <3>1. IndexOf(h2, x) \in Nat /\ IndexOf(h2, x) > m
      BY <2>1, HeapAssumption DEF IndexOf, Root
    <3> QED BY <2>1, <3>1
  <2>2. CASE x \in PlacesOf(T)
    <3>1. IndexOf(h2, x) = IndexOf(h, x) /\ IndexOf(h, x) \in Nat
      BY <2>2, PlaceUnique DEF IndexOf, Tree
    <3>2. CASE x = p
      BY <3>1, <3>2
    <3>3. CASE x # p
      <4>1. q2[x] = q[x] /\ IndexOf(h, x) # m
        BY <2>2, <3>3, PlaceUnique DEF Tree
      <4>2. (q[x] # Nil <=> IndexOf(h, x) <= n)
            /\ (q[x] # Nil => q[x] \in T /\ h[q[x]] = IndexOf(h, x))
        BY <2>2, AtPlaceOf
      <4> QED BY <3>1, <4>1, <4>2
    <3> QED BY <3>2, <3>3
  <2> QED BY <2>1, <2>2 DEF PlacesOf
<1>3. Linked(q2, h2, T2, m)
  BY <1>2 DEF Linked
<1> QED BY <1>1, <1>3 DEF Tree

(* The thread with the last index is taken out.                            *)
LEMMA RemoveLast ==
  ASSUME NEW q, NEW h \in [Thread -> Nat], NEW T \in SUBSET Thread,
         NEW n \in Nat, Tree(q, h, T, n),
         NEW p \in PlacesOf(T), IndexOf(h, p) = n,
         NEW q2, NEW h2 \in [Thread -> Nat],
         \A x \in PlacesOf(T \ {q[p]}) :
           q2[x] = IF x = p THEN Nil ELSE q[x],
         \A u \in T \ {q[p]} : h2[u] = h[u]
  PROVE  Tree(q2, h2, T \ {q[p]}, n - 1)
<1> DEFINE T2 == T \ {q[p]}
<1>1. q[p] \in T /\ h[q[p]] = n
  BY AtPlaceOf
<1>2. Indexed(h2, T2, n - 1)
  BY <1>1 DEF Tree, Indexed
<1>3. ASSUME NEW x \in PlacesOf(T2)
      PROVE  IF IndexOf(h2, x) <= n - 1
             THEN q2[x] \in T2 /\ h2[q2[x]] = IndexOf(h2, x)
             ELSE q2[x] = Nil
  <2>1. x \in PlacesOf(T) /\ (x = Root \/ x[1] \in T2)
    BY <1>3 DEF PlacesOf
  <2>2. IndexOf(h2, x) = IndexOf(h, x) /\ IndexOf(h, x) \in Nat
    BY <2>1, PlaceUnique DEF IndexOf, Tree
  <2>3. (q[x] # Nil <=> IndexOf(h, x) <= n)
        /\ (q[x] # Nil => q[x] \in T /\ h[q[x]] = IndexOf(h, x))
    BY <2>1, AtPlaceOf
  <2>4. CASE x = p
    BY <2>2, <2>4
  <2>5. CASE x # p
    <3>1. IndexOf(h, x) # n
      BY <2>1, <2>5, PlaceUnique DEF Tree
    <3> QED BY <1>1, <2>2, <2>3, <2>5, <3>1
  <2> QED BY <2>4, <2>5
<1> QED BY <1>2, <1>3 DEF Tree, Linked

(* A thread t at p and its child y below side s exchange their places; k   *)
(* is the other side.                                                      *)
Exchanged(q, h, T, p, t, y, s, k, q2, h2) ==
  /\ p \in PlacesOf(T) /\ t \in T /\ q[p] = t
  /\ s \in {"left", "right"} /\ k \in {"left", "right"} /\ s # k
  /\ y \in T /\ q[<<t, s>>] = y
  /\ q2[p] = y /\ q2[<<y, s>>] = t /\ q2[<<y, k>>] = q[<<t, k>>]
  /\ \A r \in {"left", "right"} : q2[<<t, r>>] = q[<<y, r>>]
  /\ \A x \in PlacesOf(T) \ {p} :
       (x = Root \/ x[1] \notin {t, y}) => q2[x] = q[x]
  /\ h2[t] = h[y] /\ h2[y] = h[t] /\ \A u \in T \ {t, y} : h2[u] = h[u]

LEMMA Exchange ==
  ASSUME NEW q, NEW h \in [Thread -> Nat], NEW T \in SUBSET Thread,
         NEW n \in Nat, Tree(q, h, T, n),
         NEW p, NEW t, NEW y, NEW s, NEW k, NEW q2,
         NEW h2 \in [Thread -> Nat], Exchanged(q, h, T, p, t, y, s, k, q2, h2)
  PROVE  Tree(q2, h2, T, n)
<1> USE DEF Exchanged
<1>1. /\ <<t, s>> \in PlacesOf(T) /\ <<t, k>> \in PlacesOf(T)
      /\ <<y, s>> \in PlacesOf(T) /\ <<y, k>> \in PlacesOf(T)
      /\ <<t, s>> # Root /\ <<y, s>> # Root /\ <<t, k>> # Root
      /\ <<y, k>> # Root
  BY HeapAssumption DEF PlacesOf, Root
<1>2. h[t] = IndexOf(h, p) /\ h[y] = IndexOf(h, <<t, s>>)
  BY <1>1, AtPlaceOf, HeapAssumption
<1>3. h[y] > h[t] /\ y # t
  BY <1>1, <1>2, PlaceUnique DEF Tree
<1>4. p = Root \/ p[1] \notin {t, y}
  <2>1. p # Root => p[1] \in T /\ h[t] > h[p[1]]
    BY <1>2, PlaceUnique DEF Tree
  <2> QED BY <1>3, <2>1
<1>5. Indexed(h2, T, n)
  BY <1>3 DEF Tree, Indexed
<1>6. ASSUME NEW x \in PlacesOf(T), q[x] # Nil
      PROVE  /\ q[x] \in T /\ h[q[x]] = IndexOf(h, x)
             /\ q[x] = t => x = p
             /\ q[x] = y => x = <<t, s>>
  <2>1. q[x] \in T /\ h[q[x]] = IndexOf(h, x)
    BY <1>6, AtPlaceOf
  <2> QED BY <1>1, <1>2, <2>1, PlaceUnique DEF Tree
<1>7. ASSUME NEW x \in PlacesOf(T)
      PROVE  IF IndexOf(h2, x) <= n
             THEN q2[x] \in T /\ h2[q2[x]] = IndexOf(h2, x)
             ELSE q2[x] = Nil
  <2>1. CASE x = p
    <3>1. IndexOf(h2, x) = h[t]
      BY <1>2, <1>4, <2>1, PlaceUnique DEF IndexOf, Tree
    <3> QED BY <2>1, <3>1 DEF Tree, Indexed
  <2>2. CASE x = <<y, s>>
    <3>1. IndexOf(h2, x) = h[y]
      BY <1>1, <1>2, <2>2 DEF IndexOf
    <3> QED BY <2>2, <3>1 DEF Tree, Indexed
  <2>3. CASE x = <<y, k>>
    <3>1. IndexOf(h2, x) = IndexOf(h, <<t, k>>)
      BY <1>1, <2>3 DEF IndexOf
    <3>2. q[<<t, k>>] # Nil => q[<<t, k>>] # t /\ q[<<t, k>>] # y
      BY <1>1, <1>4, <1>6
    <3>3. q2[x] = q[<<t, k>>]
      BY <2>3
    <3> QED BY <1>1, <3>1, <3>2, <3>3, AtPlaceOf
  <2>4. ASSUME NEW r \in {"left", "right"}, x = <<t, r>>
        PROVE  IF IndexOf(h2, x) <= n
               THEN q2[x] \in T /\ h2[q2[x]] = IndexOf(h2, x)
               ELSE q2[x] = Nil
    <3>0. <<y, r>> \in PlacesOf(T) /\ <<y, r>> # Root /\ x # Root
      BY <2>4, HeapAssumption DEF PlacesOf, Root
    <3>1. IndexOf(h2, x) = IndexOf(h, <<y, r>>)
      BY <3>0, <2>4 DEF IndexOf
    <3>2. q[<<y, r>>] # Nil => q[<<y, r>>] # t /\ q[<<y, r>>] # y
      BY <3>0, <1>3, <1>4, <1>6
    <3>3. q2[x] = q[<<y, r>>]
      BY <2>4
    <3> QED BY <3>0, <3>1, <3>2, <3>3, AtPlaceOf
  <2>5. CASE x # p /\ (x = Root \/ x[1] \notin {t, y})
    <3>1. IndexOf(h2, x) = IndexOf(h, x)
      BY <2>5, PlaceUnique DEF IndexOf, Tree
    <3>2. q2[x] = q[x]
      BY <2>5
    <3>3. q[x] # Nil => q[x] # t /\ q[x] # y
      BY <1>1, <1>6, <2>5
    <3> QED BY <3>1, <3>2, <3>3, AtPlaceOf
  <2> QED BY <2>1, <2>2, <2>3, <2>4, <2>5, HeapAssumption DEF PlacesOf, Root
<1> QED BY <1>5, <1>7 DEF Tree, Linked

(* A tree and its order depend on its own threads only.                    *)
LEMMA TreeSame ==
  ASSUME NEW q, NEW h \in [Thread -> Nat], NEW T \in SUBSET Thread,
         NEW n \in Nat, Tree(q, h, T, n),
         NEW q2, NEW h2 \in [Thread -> Nat],
         \A x \in PlacesOf(T) : q2[x] = q[x], \A u \in T : h2[u] = h[u]
  PROVE  Tree(q2, h2, T, n)
<1>1. Indexed(h2, T, n)
  BY DEF Tree, Indexed
<1>2. ASSUME NEW x \in PlacesOf(T)
      PROVE  IF IndexOf(h2, x) <= n
             THEN q2[x] \in T /\ h2[q2[x]] = IndexOf(h2, x)
             ELSE q2[x] = Nil
  <2>1. IndexOf(h2, x) = IndexOf(h, x)
    BY PlaceUnique DEF IndexOf, Tree
  <2> QED BY <2>1, AtPlaceOf
<1> QED BY <1>1, <1>2 DEF Tree, Linked

(* The place below v that leads to index k has that index.                 *)
LEMMA ChildIndex ==
  ASSUME NEW h \in [Thread -> Nat], NEW T \in SUBSET Thread, NEW v \in T,
         NEW k \in Nat, k \div 2 = h[v]
  PROVE  /\ Child(v, k) \in PlacesOf(T) /\ Child(v, k) \in Links(T)
         /\ Child(v, k) # Root /\ Child(v, k)[1] = v
         /\ IndexOf(h, Child(v, k)) = k
<1> DEFINE x == Child(v, k)
<1>1. x \in PlacesOf(T) /\ x \in Links(T) /\ x # Root /\ x[1] = v
  BY HeapAssumption DEF PlacesOf, Root, Links, Child
<1>2. x[2] = IF k % 2 = 1 THEN "right" ELSE "left"
  BY DEF Child
<1>3. k = 2 * (k \div 2) + (IF k % 2 = 1 THEN 1 ELSE 0)
  OBVIOUS
<1> QED BY <1>1, <1>2, <1>3 DEF IndexOf

(* The root of an ordered tree is due first: of the threads due before it  *)
(* the one with the least index would have another above it.               *)
LEMMA RootFirst ==
  ASSUME NEW q, NEW h \in [Thread -> Nat], NEW T \in SUBSET Thread,
         NEW n \in Nat, Tree(q, h, T, n), NEW d \in [Thread -> Nat],
         Ordered(q, d, Links(T)), T # {}
  PROVE  q[Root] \in T /\ \A u \in T : d[q[Root]] <= d[u]
<1>1. Root \in PlacesOf(T) /\ IndexOf(h, Root) = 1
  BY DEF PlacesOf, IndexOf
<1>2. n >= 1
  BY DEF Tree, Indexed
<1>3. q[Root] \in T /\ h[q[Root]] = 1
  BY <1>1, <1>2, AtPlaceOf
<1> DEFINE Before == {u \in T : d[u] < d[q[Root]]}
           S == {h[u] : u \in Before}
<1>4. ASSUME Before # {} PROVE FALSE
  <2>1. PICK i \in S : \A j \in S : i <= j
    <3>1. S \in SUBSET Nat /\ S # {}
      BY <1>4
    <3> QED BY <3>1, LeastNumber
  <2>2. PICK u \in Before : h[u] = i
    BY <2>1
  <2>3. h[u] \in 1..n /\ h[u] # 1
    BY <2>2, <1>3 DEF Tree, Indexed
  <2>4. (h[u] \div 2) \in 1..n /\ h[u] \div 2 < h[u]
    BY <2>3
  <2>5. PICK v \in T : h[v] = h[u] \div 2
    BY <2>4 DEF Tree, Indexed
  <2> DEFINE x == Child(v, h[u])
  <2>6. x \in PlacesOf(T) /\ x \in Links(T) /\ x # Root /\ x[1] = v
    BY <2>3, <2>5, ChildIndex
  <2>7. IndexOf(h, x) = h[u]
    BY <2>3, <2>5, ChildIndex
  <2> HIDE DEF x
  <2>8. q[x] = u
    BY <2>2, <2>3, <2>6, <2>7, AtPlaceOf DEF Tree, Indexed
  <2>9. d[v] <= d[u]
    BY <2>2, <2>6, <2>8, HeapAssumption DEF Ordered
  <2>10. v \in Before
    BY <1>3, <2>2, <2>5, <2>9
  <2>11. h[v] \in S
    BY <2>10
  <2> HIDE DEF S
  <2>12. i <= h[v]
    BY <2>1, <2>11
  <2> QED BY <2>2, <2>3, <2>4, <2>5, <2>12
<1> QED BY <1>3, <1>4

-----------------------------------------------------------------------------
(* The inductive invariant: for every step of a call, which threads are in *)
(* the tree, where the call is in it, and what the order lacks.            *)
Job == [call : {"none", "add", "del"},
        step : {"none", "insert", "find", "sift"},
        thread : Thread \cup {Nil}, t : Thread \cup {Nil}, p : Place,
        index : Nat, target : Nat, head : Thread \cup {Nil}]

HeapTypes ==
  /\ ptr \in [Place -> Thread \cup {Nil}]
  /\ heap_index \in [Thread -> Nat]
  /\ due \in [Thread -> Nat]
  /\ size \in Nat
  /\ onq \in SUBSET Thread
  /\ job \in Job
  /\ \A t \in Thread : IF t \in onq THEN due[t] \in Dues ELSE due[t] = 0

Counted(n) == IsFiniteSet(onq) /\ Cardinality(onq) = n
HeapOf(T, n) == Tree(ptr, heap_index, T, n)
InOrder(T) == Ordered(ptr, due, Links(T))
AtIndex(T) == job.p \in PlacesOf(T) /\ job.index = IndexOf(heap_index, job.p)

WhenIdle == Counted(size) /\ HeapOf(onq, size) /\ InOrder(onq)

WhenFinding ==
  /\ Counted(size) /\ HeapOf(onq, size) /\ InOrder(onq)
  /\ job.call = "del" /\ job.thread \in onq
  /\ AtIndex(onq) /\ job.target = size /\ job.index \in 1..size

(* The thread carried is in no place, and is not due before the one above. *)
Carrying(n) ==
  /\ HeapOf(onq \ {job.t}, n) /\ InOrder(onq \ {job.t})
  /\ job.thread \in onq /\ job.t \in onq
  /\ AtIndex(onq \ {job.t}) /\ job.index \in 1..job.target
  /\ job.p # Root => due[job.p[1]] <= due[job.t]

WhenAdding ==
  /\ job.call = "add" /\ Counted(size) /\ size >= 1 /\ Carrying(size - 1)
  /\ job.target = size /\ (size = 1 => heap_index[job.t] = 1)

WhenReplacing ==
  /\ job.call = "del" /\ Counted(size + 1) /\ Carrying(size)
  /\ job.thread # job.t /\ job.target = heap_index[job.thread]

(* The replacement may be due after those below it, which are not due      *)
(* before the one above it.                                                *)
WhenSifting ==
  /\ job.call = "del" /\ job.thread \in onq /\ Counted(size + 1)
  /\ HeapOf(onq \ {job.thread}, size)
  /\ InOrder(onq \ {job.thread, job.t})
  /\ job.t \in onq \ {job.thread}
  /\ job.p \in PlacesOf(onq \ {job.thread}) /\ ptr[job.p] = job.t
  /\ job.p # Root =>
       \A s \in {"left", "right"} :
         ptr[<<job.t, s>>] # Nil => due[job.p[1]] <= due[ptr[<<job.t, s>>]]

HeapInv ==
  /\ HeapTypes
  /\ \/ job = NoJob /\ WhenIdle
     \/ job.step = "find" /\ WhenFinding
     \/ job.step = "insert" /\ (WhenAdding \/ WhenReplacing)
     \/ job.step = "sift" /\ WhenSifting

LEMMA PlaceFacts ==
  /\ Root \in Place /\ Root[1] = Nil
  /\ \A T \in SUBSET Thread : PlacesOf(T) \subseteq Place
  /\ \A t \in Thread, s \in {"left", "right"} :
       <<t, s>> \in Place /\ <<t, s>> # Root /\ <<t, s>>[1] = t
  /\ \A x \in Place : x = Root \/ x \in Links(Thread)
  /\ \A T \in SUBSET Thread : PlacesOf(T) = {Root} \cup Links(T)
BY HeapAssumption DEF Place, PlacesOf, Root, Links

LEMMA LinkFacts ==
  ASSUME NEW T \in SUBSET Thread, NEW x \in Links(T)
  PROVE  /\ x[1] \in T /\ x[2] \in {"left", "right"} /\ x = <<x[1], x[2]>>
         /\ x # Root /\ x \in PlacesOf(T) /\ x \in Place
BY HeapAssumption DEF Place, PlacesOf, Root, Links

LEMMA PlaceApart ==
  ASSUME NEW T \in SUBSET Thread, NEW x \in PlacesOf(T),
         NEW t \in Thread, t \notin T
  PROVE  x \in Place /\ x # <<t, "left">> /\ x # <<t, "right">>
BY HeapAssumption DEF Place, PlacesOf, Root

LEMMA PathBound ==
  ASSUME NEW n \in Nat, NEW k \in NextOn(n)
  PROVE  k \in 1..n /\ k \in Nat /\ k \div 2 = job.index
<1>1. k \in 1..n /\ k \div 2 = job.index
  BY Zenon DEF NextOn, Path
<1> QED BY <1>1

LEMMA HeapInitInv == HeapInit => HeapInv
<1> SUFFICES ASSUME HeapInit PROVE HeapInv
  OBVIOUS
<1>1. HeapTypes
  BY PlaceFacts DEF HeapInit, HeapTypes, Job, NoJob
<1>2. Counted(0)
  BY FS_EmptySet DEF HeapInit, Counted
<1>3. Indexed(heap_index, {}, 0)
  BY DEF Indexed
<1>4. Linked(ptr, heap_index, {}, 0)
  BY PlaceFacts DEF HeapInit, Linked, PlacesOf, IndexOf
<1>5. InOrder({})
  BY DEF InOrder, Ordered, Links
<1> QED BY <1>1, <1>2, <1>3, <1>4, <1>5
        DEF HeapInit, HeapInv, WhenIdle, HeapOf, Tree

-----------------------------------------------------------------------------
(* One lemma per action.                                                   *)

LEMMA AddSleepQInv ==
  ASSUME HeapInv, NEW t \in Thread, NEW d \in Dues, AddSleepQ(t, d)
  PROVE  HeapInv'
<1>1. HeapTypes /\ WhenIdle /\ t \notin onq
  BY DEF HeapInv, AddSleepQ, NoJob
<1>2. d \in Nat
  BY HeapAssumption
<1>3. HeapTypes'
  BY <1>1, <1>2, PlaceFacts DEF HeapTypes, AddSleepQ, Job
<1>4. Counted(size)'
  BY <1>1, FS_AddElement DEF WhenIdle, Counted, AddSleepQ, HeapTypes
<1>5. onq' \ {job'.t} = onq /\ job'.t = t
  BY <1>1 DEF AddSleepQ
<1>7. Tree(ptr', heap_index', onq, size)
  BY ZenonT(60), <1>1, <1>3, TreeSame DEF HeapTypes, WhenIdle, HeapOf, AddSleepQ
<1>8. Ordered(ptr', due', Links(onq))
  <2> SUFFICES ASSUME NEW x \in Links(onq), ptr[x] # Nil
               PROVE  due'[x[1]] <= due'[ptr[x]]
    BY DEF Ordered, AddSleepQ
  <2>1. x[1] \in onq /\ ptr[x] \in onq
    BY <1>1, LinkFacts, AtPlaceOf DEF WhenIdle, HeapOf, HeapTypes
  <2> QED BY <1>1, <2>1
          DEF AddSleepQ, HeapTypes, WhenIdle, InOrder, Ordered
<1>9. Carrying(size - 1)'
  <2>1. job'.p = Root /\ job'.index = 1 /\ job'.target = size + 1
    BY DEF AddSleepQ
  <2>2. AtIndex(onq \ {job.t})'
    BY <2>1, PlaceFacts DEF AtIndex, IndexOf, PlacesOf
  <2>3. size' = size + 1 /\ size' - 1 = size /\ size \in Nat
    BY <1>1 DEF AddSleepQ, HeapTypes
  <2>4. job'.thread \in onq' /\ t \in onq'
    BY DEF AddSleepQ
  <2> QED BY <1>5, <1>7, <1>8, <2>1, <2>2, <2>3, <2>4
          DEF Carrying, HeapOf, InOrder
<1>10. WhenAdding'
  BY <1>1, <1>4, <1>9, <1>5 DEF WhenAdding, AddSleepQ, HeapTypes
<1>11. job'.step = "insert"
  BY DEF AddSleepQ
<1> QED BY <1>3, <1>10, <1>11 DEF HeapInv

LEMMA DelSleepQInv ==
  ASSUME HeapInv, NEW t \in Thread, DelSleepQ(t)
  PROVE  HeapInv'
<1>1. HeapTypes /\ WhenIdle /\ t \in onq
  BY DEF HeapInv, DelSleepQ, NoJob
<1>2. HeapTypes'
  BY <1>1, PlaceFacts DEF HeapTypes, DelSleepQ, Job
<1>3. size >= 1
  BY <1>1 DEF WhenIdle, HeapOf, Tree, Indexed, HeapTypes
<1>4. AtIndex(onq)'
  BY PlaceFacts DEF DelSleepQ, AtIndex, IndexOf, PlacesOf
<1>5. Counted(size)' /\ HeapOf(onq, size)' /\ InOrder(onq)'
  BY <1>1 DEF WhenIdle, DelSleepQ, Counted, HeapOf, InOrder
<1>6. WhenFinding' /\ job'.step = "find"
  BY <1>1, <1>3, <1>4, <1>5 DEF WhenFinding, DelSleepQ, HeapTypes
<1> QED BY <1>2, <1>6 DEF HeapInv

LEMMA FindDownInv ==
  ASSUME HeapInv, FindDown
  PROVE  HeapInv'
<1>1. HeapTypes /\ WhenFinding /\ job.step = "find"
  BY DEF HeapInv, FindDown, NoJob
<1>2. PICK k \in NextOn(job.target) :
             job' = [job EXCEPT !.p = Child(Met, k), !.index = k]
  BY DEF FindDown
<1>3. k \in 1..size /\ k \in Nat /\ k \div 2 = job.index
  BY <1>1, PathBound DEF WhenFinding, HeapTypes
<1>4. Met \in onq /\ heap_index[Met] = job.index
  BY <1>1, AtPlaceOf DEF WhenFinding, HeapOf, AtIndex, Met, HeapTypes
<1>5. /\ Child(Met, k) \in PlacesOf(onq)
      /\ IndexOf(heap_index, Child(Met, k)) = k
  BY <1>1, <1>3, <1>4, ChildIndex DEF HeapTypes
<1>6. /\ job'.p = Child(Met, k) /\ job'.index = k /\ job'.step = job.step
      /\ job'.call = job.call /\ job'.thread = job.thread
      /\ job'.target = job.target
  BY <1>1, <1>2 DEF HeapTypes, Job
<1>7. job' \in Job
  BY <1>1, <1>2, <1>3, <1>5, PlaceFacts DEF HeapTypes, Job
<1>8. HeapTypes'
  BY <1>1, <1>7 DEF HeapTypes, FindDown
<1>9. WhenFinding'
  BY <1>1, <1>3, <1>5, <1>6
     DEF WhenFinding, FindDown, Counted, HeapOf, InOrder, AtIndex
<1> QED BY <1>1, <1>6, <1>8, <1>9 DEF HeapInv

(* What holds in heap_insert, whichever call it is part of.                *)
TreeSize == IF job.call = "add" THEN size - 1 ELSE size

LEMMA InsertFacts ==
  ASSUME HeapInv, Inserting
  PROVE  /\ HeapTypes /\ Carrying(TreeSize) /\ TreeSize \in Nat
         /\ \/ job.call = "add" /\ WhenAdding /\ TreeSize = size - 1
            \/ job.call = "del" /\ WhenReplacing /\ TreeSize = size
         /\ job.t \in Thread /\ job.t \in onq /\ onq \ {job.t} \in SUBSET Thread
         /\ job.p \in PlacesOf(onq \ {job.t}) /\ job.p \in Place
         /\ job.target \in Nat /\ job.index \in Nat
<1>1. HeapTypes /\ (WhenAdding \/ WhenReplacing)
  BY DEF HeapInv, Inserting, NoJob
<1>2. /\ Carrying(TreeSize) /\ TreeSize \in Nat
      /\ \/ job.call = "add" /\ WhenAdding /\ TreeSize = size - 1
         \/ job.call = "del" /\ WhenReplacing /\ TreeSize = size
  BY <1>1 DEF WhenAdding, WhenReplacing, TreeSize, HeapTypes
<1> QED BY <1>1, <1>2, PlaceFacts DEF Carrying, AtIndex, HeapTypes, Job

(* The thread met on the way, and the place below it or its successor.     *)
LEMMA MetFacts ==
  ASSUME HeapInv, Inserting, ~AtPlace
  PROVE  /\ Met \in onq \ {job.t} /\ Met \in Thread
         /\ heap_index[Met] = job.index
         /\ IndexOf(heap_index, job.p) = job.index /\ job.index <= TreeSize
         /\ job.call = "del" => Met # job.thread
<1>1. Met \in onq \ {job.t} /\ heap_index[Met] = job.index
      /\ IndexOf(heap_index, job.p) = job.index /\ job.index <= TreeSize
  BY InsertFacts, AtPlaceOf
     DEF Met, AtPlace, Carrying, HeapOf, AtIndex, HeapTypes
<1>2. job.call = "del" => Met # job.thread
  BY <1>1, InsertFacts DEF AtPlace, WhenReplacing
<1> QED BY <1>1, <1>2, InsertFacts

LEMMA GoBelowInv ==
  ASSUME HeapInv, GoBelow
  PROVE  HeapInv'
<1>1. Inserting /\ ~AtPlace
  BY DEF GoBelow
<1> DEFINE T == onq \ {job.t}
<1>2. PICK k \in NextOn(job.target) :
             job' = [job EXCEPT !.p = Child(Met, k), !.index = k]
  BY DEF GoBelow
<1>3. k \in 1..job.target /\ k \in Nat /\ k \div 2 = job.index
  BY <1>1, InsertFacts, PathBound
<1>4. /\ Child(Met, k) \in PlacesOf(T) /\ Child(Met, k) # Root
      /\ Child(Met, k)[1] = Met
      /\ IndexOf(heap_index, Child(Met, k)) = k
  BY <1>1, <1>3, InsertFacts, MetFacts, ChildIndex DEF HeapTypes
<1>5. /\ job'.p = Child(Met, k) /\ job'.index = k /\ job'.step = job.step
      /\ job'.call = job.call /\ job'.thread = job.thread /\ job'.t = job.t
      /\ job'.target = job.target
  BY <1>1, <1>2, InsertFacts DEF HeapTypes, Job
<1>6. job' \in Job
  BY <1>1, <1>2, <1>3, <1>4, InsertFacts, PlaceFacts DEF HeapTypes, Job
<1>7. HeapTypes'
  BY <1>1, <1>6, InsertFacts DEF HeapTypes, GoBelow
<1>8. Carrying(TreeSize)'
  <2>1. due[Met] <= due[job.t]
    BY <1>1, InsertFacts, MetFacts DEF GoBelow, HeapTypes
  <2>2. UNCHANGED TreeSize /\ UNCHANGED <<ptr, heap_index, due, onq, size>>
    BY <1>5 DEF TreeSize, GoBelow
  <2> QED BY <1>1, <1>3, <1>4, <1>5, <2>1, <2>2, InsertFacts
          DEF Carrying, AtIndex, HeapOf, InOrder
<1>9. CASE job.call = "add"
  <2>1. WhenAdding
    BY <1>1, <1>9, InsertFacts
  <2>2. WhenAdding'
    BY <1>5, <1>8, <1>9, <2>1 DEF WhenAdding, TreeSize, GoBelow, Counted
  <2> QED BY <1>1, <1>5, <1>7, <2>2 DEF HeapInv, Inserting
<1>10. CASE job.call = "del"
  <2>1. WhenReplacing
    BY <1>1, <1>10, InsertFacts
  <2>2. WhenReplacing'
    BY <1>5, <1>8, <1>10, <2>1 DEF WhenReplacing, TreeSize, GoBelow, Counted
  <2> QED BY <1>1, <1>5, <1>7, <2>2 DEF HeapInv, Inserting
<1> QED BY <1>1, <1>9, <1>10, InsertFacts

LEMMA TakePlaceInv ==
  ASSUME HeapInv, TakePlace
  PROVE  HeapInv'
<1>1. Inserting /\ ~AtPlace /\ due[job.t] < due[Met]
  BY DEF TakePlace
<1> DEFINE t  == job.t
           p  == job.p
           T  == onq \ {t}
           T2 == onq \ {Met}
<1>2. PICK k \in NextOn(job.target) :
             job' = [job EXCEPT !.t = Met, !.p = Child(t, k), !.index = k]
  BY DEF TakePlace
<1>3. k \in 1..job.target /\ k \in Nat /\ k \div 2 = job.index
  BY <1>1, InsertFacts, PathBound
<1>4. /\ heap_index' \in [Thread -> Nat] /\ heap_index'[t] = job.index
      /\ \A u \in Thread \ {t} : heap_index'[u] = heap_index[u]
  BY <1>1, InsertFacts DEF TakePlace, HeapTypes
<1>5. t \in T2 /\ T2 \in SUBSET Thread /\ T2 = (T \ {Met}) \cup {t}
  BY <1>1, InsertFacts, MetFacts
<1>6. /\ Child(t, k) \in PlacesOf(T2) /\ Child(t, k) # Root
      /\ Child(t, k)[1] = t
      /\ IndexOf(heap_index', Child(t, k)) = k
  BY <1>3, <1>4, <1>5, ChildIndex
<1>7. /\ job'.p = Child(t, k) /\ job'.index = k /\ job'.step = job.step
      /\ job'.call = job.call /\ job'.thread = job.thread /\ job'.t = Met
      /\ job'.target = job.target
  BY <1>1, <1>2, InsertFacts DEF HeapTypes, Job
<1>8. job' \in Job
  BY <1>1, <1>2, <1>3, <1>5, <1>6, InsertFacts, MetFacts, PlaceFacts
     DEF HeapTypes, Job
<1>9. /\ ptr' \in [Place -> Thread \cup {Nil}]
      /\ ptr'[p] = t
      /\ \A s \in {"left", "right"} : ptr'[<<t, s>>] = ptr[<<Met, s>>]
      /\ \A x \in PlacesOf(T) \ {p} : ptr'[x] = ptr[x]
  <2>1. p \in PlacesOf(T) /\ T \in SUBSET Thread /\ t \in Thread /\ t \notin T
    BY <1>1, InsertFacts
  <2>2. \A x \in PlacesOf(T) :
          x \in Place /\ x # <<t, "left">> /\ x # <<t, "right">>
    BY <2>1, PlaceApart
  <2>3. /\ <<t, "left">> \in Place /\ <<t, "right">> \in Place
        /\ <<Met, "left">> \in Place /\ <<Met, "right">> \in Place
        /\ <<t, "left">> # <<t, "right">>
    BY <1>1, InsertFacts, MetFacts, PlaceFacts
  <2> HIDE DEF T
  <2> QED BY <1>1, <2>1, <2>2, <2>3, InsertFacts DEF TakePlace, HeapTypes
<1>10. HeapTypes'
  BY <1>1, <1>4, <1>8, <1>9, InsertFacts DEF HeapTypes, TakePlace
<1>11. Tree(ptr', heap_index', T2, TreeSize)
  <2>1. /\ Tree(ptr, heap_index, T, TreeSize) /\ TreeSize \in Nat
        /\ heap_index \in [Thread -> Nat] /\ T \in SUBSET Thread
        /\ t \in Thread /\ t \notin T /\ p \in PlacesOf(T)
        /\ ptr[p] = Met /\ IndexOf(heap_index, p) = job.index
        /\ IndexOf(heap_index, p) <= TreeSize
    BY <1>1, InsertFacts, MetFacts DEF Carrying, HeapOf, HeapTypes, Met
  <2>2. \A u \in T : heap_index'[u] = heap_index[u]
    BY <1>4, <2>1
  <2> HIDE DEF t, p, T, T2
  <2>3. heap_index'[t] = IndexOf(heap_index, p)
        /\ \A s \in {"left", "right"} : ptr'[<<t, s>>] = ptr[<<ptr[p], s>>]
    BY <1>4, <1>9, <2>1
  <2>4. Tree(ptr', heap_index', (T \ {ptr[p]}) \cup {t}, TreeSize)
    BY <1>4, <1>9, <2>1, <2>2, <2>3, TakeOver, Zenon
  <2> QED BY <1>5, <2>1, <2>4
<1>12. Ordered(ptr', due, Links(T2))
  <2> SUFFICES ASSUME NEW x \in Links(T2), ptr'[x] # Nil
               PROVE  due[x[1]] <= due[ptr'[x]]
    BY DEF Ordered
  <2>1. x[1] \in T2 /\ x[2] \in {"left", "right"} /\ x = <<x[1], x[2]>>
        /\ x # Root
    BY <1>5, LinkFacts
  <2>2. CASE x = p
    BY <1>1, <1>9, <2>1, <2>2, InsertFacts DEF Carrying
  <2>3. CASE x # p /\ x[1] = t
    <3>1. ptr'[x] = ptr[<<Met, x[2]>>] /\ <<Met, x[2]>> \in Links(T)
      BY <1>1, <1>9, <2>1, <2>3, MetFacts DEF Links
    <3>2. ptr'[x] \in Thread
      BY <1>5, <1>10, LinkFacts DEF HeapTypes
    <3>3. <<Met, x[2]>>[1] = Met
      OBVIOUS
    <3>4. due[Met] <= due[ptr'[x]]
      BY <1>1, <3>1, <3>3, InsertFacts DEF Carrying, InOrder, Ordered
    <3> QED BY <1>1, <2>3, <3>2, <3>4, InsertFacts, MetFacts DEF HeapTypes
  <2>4. CASE x # p /\ x[1] # t
    <3>1. x \in Links(T) /\ x \in PlacesOf(T)
      BY <1>1, <1>5, <2>1, <2>4, InsertFacts, LinkFacts DEF Links
    <3> QED BY <1>1, <1>9, <2>4, <3>1, InsertFacts
            DEF Carrying, InOrder, Ordered
  <2> QED BY <2>2, <2>3, <2>4
<1>13. Carrying(TreeSize)'
  <2>1. due[t] <= due[Met]
    BY <1>1, InsertFacts, MetFacts DEF HeapTypes
  <2>2. UNCHANGED TreeSize /\ UNCHANGED <<due, onq, size>>
    BY <1>7 DEF TreeSize, TakePlace
  <2>3. Met \in onq /\ job.thread \in onq
    BY <1>1, MetFacts, InsertFacts DEF Carrying
  <2> QED BY <1>1, <1>3, <1>6, <1>7, <1>11, <1>12, <2>1, <2>2, <2>3
          DEF Carrying, AtIndex, HeapOf, InOrder
<1>14. CASE job.call = "add"
  <2>1. WhenAdding /\ TreeSize = size - 1
    BY <1>1, <1>14, InsertFacts
  <2>2. size # 1
    BY <1>1, <2>1, InsertFacts, MetFacts DEF Carrying
  <2>3. WhenAdding'
    BY <1>7, <1>13, <1>14, <2>1, <2>2
       DEF WhenAdding, TreeSize, TakePlace, Counted
  <2> QED BY <1>1, <1>7, <1>10, <2>3 DEF HeapInv, Inserting
<1>15. CASE job.call = "del"
  <2>1. WhenReplacing
    BY <1>1, <1>15, InsertFacts
  <2>2. job.thread \in Thread \ {t} /\ job.thread # Met
    BY <1>1, <1>15, <2>1, InsertFacts, MetFacts
       DEF WhenReplacing, HeapTypes, Carrying
  <2>3. WhenReplacing'
    BY <1>4, <1>7, <1>13, <1>15, <2>1, <2>2
       DEF WhenReplacing, TreeSize, TakePlace, Counted
  <2> QED BY <1>1, <1>7, <1>10, <2>3 DEF HeapInv, Inserting
<1> QED BY <1>1, <1>14, <1>15, InsertFacts

(* What Settle writes.                                                     *)
LEMMA SettleFacts ==
  ASSUME HeapInv, NEW l \in Thread \cup {Nil}, NEW r \in Thread \cup {Nil},
         Settle(l, r)
  PROVE  /\ ptr' \in [Place -> Thread \cup {Nil}]
         /\ ptr'[job.p] = job.t
         /\ ptr'[<<job.t, "left">>] = l /\ ptr'[<<job.t, "right">>] = r
         /\ \A x \in PlacesOf(onq \ {job.t}) \ {job.p} : ptr'[x] = ptr[x]
         /\ heap_index' \in [Thread -> Nat]
         /\ heap_index'[job.t] = IF ptr[Root] = Nil THEN heap_index[job.t]
                                 ELSE job.index
         /\ \A u \in Thread \ {job.t} : heap_index'[u] = heap_index[u]
<1>1. Inserting
  BY DEF Settle
<1> DEFINE t == job.t
           p == job.p
           T == onq \ {t}
<1>2. p \in PlacesOf(T) /\ T \in SUBSET Thread /\ t \in Thread /\ t \notin T
  BY <1>1, InsertFacts
<1>3. \A x \in PlacesOf(T) :
        x \in Place /\ x # <<t, "left">> /\ x # <<t, "right">>
  BY <1>2, PlaceApart
<1>4. /\ <<t, "left">> \in Place /\ <<t, "right">> \in Place
      /\ <<t, "left">> # <<t, "right">>
  BY <1>2, PlaceFacts
<1>5. /\ heap_index' \in [Thread -> Nat]
      /\ heap_index'[t] = IF ptr[Root] = Nil THEN heap_index[t] ELSE job.index
      /\ \A u \in Thread \ {t} : heap_index'[u] = heap_index[u]
  BY <1>1, <1>2, InsertFacts DEF Settle, HeapTypes
<1> HIDE DEF T
<1>6. /\ ptr' \in [Place -> Thread \cup {Nil}]
      /\ ptr'[p] = t
      /\ ptr'[<<t, "left">>] = l /\ ptr'[<<t, "right">>] = r
      /\ \A x \in PlacesOf(T) \ {p} : ptr'[x] = ptr[x]
  BY <1>1, <1>2, <1>3, <1>4, InsertFacts DEF Settle, HeapTypes
<1> QED BY <1>5, <1>6 DEF T

LEMMA AddDoneInv ==
  ASSUME HeapInv, AddDone
  PROVE  HeapInv'
<1>1. Inserting /\ AtPlace /\ job.call = "add" /\ Settle(Nil, Nil)
  BY DEF AddDone, Settle
<1> DEFINE t == job.t
           p == job.p
           T == onq \ {t}
           n == size - 1
<1>2. /\ Tree(ptr, heap_index, T, n) /\ n \in Nat /\ T \in SUBSET Thread
      /\ heap_index \in [Thread -> Nat] /\ p \in PlacesOf(T) /\ p \in Place
      /\ t \in Thread /\ t \notin T /\ onq = T \cup {t}
      /\ size \in Nat /\ size = n + 1
      /\ job.index = IndexOf(heap_index, p) /\ job.index \in 1..size
      /\ job.target = size /\ (size = 1 => heap_index[t] = 1)
  BY <1>1, InsertFacts
     DEF WhenAdding, Carrying, HeapOf, AtIndex, HeapTypes
<1>3. IndexOf(heap_index, p) = size
  BY <1>1, <1>2, AtPlaceOf DEF AtPlace
<1>4. ptr[Root] = Nil => size = 1
  <2>1. Root \in PlacesOf(T) /\ IndexOf(heap_index, Root) = 1
    BY DEF PlacesOf, IndexOf
  <2> QED BY <1>2, <2>1, AtPlaceOf
<1>5. heap_index'[t] = size
  BY <1>1, <1>2, <1>3, <1>4, SettleFacts
<1>6. /\ heap_index' \in [Thread -> Nat] /\ ptr'[p] = t
      /\ ptr' \in [Place -> Thread \cup {Nil}]
      /\ \A s \in {"left", "right"} : ptr'[<<t, s>>] = Nil
      /\ \A x \in PlacesOf(T) \ {p} : ptr'[x] = ptr[x]
      /\ \A u \in T : heap_index'[u] = heap_index[u]
  BY <1>1, <1>2, SettleFacts
<1>7. Tree(ptr', heap_index', onq, size)
  <2> HIDE DEF t, p, T, n
  <2>1. Tree(ptr', heap_index', T \cup {t}, size)
    <3>1. /\ Tree(ptr, heap_index, T, n) /\ n \in Nat /\ T \in SUBSET Thread
          /\ heap_index \in [Thread -> Nat] /\ p \in PlacesOf(T)
          /\ t \in Thread /\ t \notin T /\ size \in Nat /\ size = n + 1
      BY <1>2
    <3>2. Extended(ptr, heap_index, T, size, t, p, ptr', heap_index')
      BY <1>3, <1>5, <1>6, <3>1 DEF Extended
    <3> QED BY <1>6, <3>1, <3>2, PutLast
  <2> QED BY <1>2, <2>1
<1>8. Ordered(ptr', due, Links(onq))
  <2> SUFFICES ASSUME NEW x \in Links(onq), ptr'[x] # Nil
               PROVE  due[x[1]] <= due[ptr'[x]]
    BY DEF Ordered
  <2>1. x[1] \in onq /\ x[2] \in {"left", "right"} /\ x = <<x[1], x[2]>>
        /\ x # Root
    BY <1>1, InsertFacts, LinkFacts DEF HeapTypes
  <2>2. CASE x = p
    BY <1>1, <1>6, <2>1, <2>2, InsertFacts DEF Carrying
  <2>3. CASE x # p /\ x[1] = t
    BY <1>6, <2>1, <2>3
  <2>4. CASE x # p /\ x[1] # t
    <3>1. x \in Links(T) /\ x \in PlacesOf(T)
      BY <1>2, <2>1, <2>4, LinkFacts DEF Links
    <3> QED BY <1>1, <1>6, <2>4, <3>1, InsertFacts
            DEF Carrying, InOrder, Ordered
  <2> QED BY <2>2, <2>3, <2>4
<1>9. HeapTypes'
  <2>1. job' \in Job
    BY <1>1, PlaceFacts DEF AddDone, Job, NoJob
  <2> QED BY <1>1, <1>6, <2>1, InsertFacts DEF HeapTypes, AddDone
<1>10. WhenIdle'
  BY <1>1, <1>7, <1>8, InsertFacts
     DEF WhenIdle, WhenAdding, Counted, HeapOf, InOrder, AddDone
<1> QED BY <1>9, <1>10 DEF HeapInv, AddDone

LEMMA FoundFacts ==
  ASSUME HeapInv, Found
  PROVE  /\ HeapTypes /\ WhenFinding /\ job.index = size /\ size >= 1
         /\ Met \in onq /\ Met \in Thread /\ heap_index[Met] = size
         /\ job.thread \in Thread /\ job.p \in Place
<1>1. HeapTypes /\ WhenFinding
  BY DEF HeapInv, Found, NoJob
<1>2. Met \in onq /\ heap_index[Met] = job.index
  BY <1>1, AtPlaceOf DEF WhenFinding, HeapOf, AtIndex, Met, HeapTypes
<1>3. ASSUME NEW k \in NextOn(job.target) PROVE ptr[Child(Met, k)] # Nil
  <2>1. k \in 1..size /\ k \in Nat /\ k \div 2 = job.index
    BY <1>1, PathBound DEF WhenFinding, HeapTypes
  <2>2. /\ Child(Met, k) \in PlacesOf(onq)
        /\ IndexOf(heap_index, Child(Met, k)) = k
    <3>1. heap_index \in [Thread -> Nat] /\ onq \in SUBSET Thread
      BY <1>1 DEF HeapTypes
    <3>2. k \div 2 = heap_index[Met]
      BY <1>2, <2>1
    <3> QED BY <1>2, <2>1, <3>1, <3>2, ChildIndex
  <2> QED BY <1>1, <2>1, <2>2, AtPlaceOf DEF WhenFinding, HeapOf, HeapTypes
<1>4. job.index = size
  BY <1>1, <1>3 DEF Found, WhenFinding
<1> QED BY <1>1, <1>2, <1>4, PlaceFacts
        DEF WhenFinding, HeapTypes, AtIndex, Job

LEMMA DeleteLastInv ==
  ASSUME HeapInv, DeleteLast
  PROVE  HeapInv'
<1>1. Found /\ Met = job.thread
  BY DEF DeleteLast
<1> DEFINE p == job.p
           T == onq \ {Met}
<1>2. /\ Tree(ptr, heap_index, onq, size) /\ size \in Nat /\ size >= 1
      /\ onq \in SUBSET Thread /\ T \in SUBSET Thread
      /\ heap_index \in [Thread -> Nat] /\ p \in PlacesOf(onq)
      /\ IndexOf(heap_index, p) = size /\ ptr[p] = Met /\ Met \in onq
      /\ Met \in Thread
  BY <1>1, FoundFacts DEF WhenFinding, HeapOf, HeapTypes, AtIndex, Met
<1>3. /\ heap_index' \in [Thread -> Nat]
      /\ \A u \in T : heap_index'[u] = heap_index[u]
  BY <1>1, <1>2 DEF DeleteLast, Leave
<1>4. /\ ptr' \in [Place -> Thread \cup {Nil}]
      /\ \A x \in PlacesOf(T) : ptr'[x] = IF x = p THEN Nil ELSE ptr[x]
  <2>1. \A x \in PlacesOf(T) :
          x \in Place /\ x # <<Met, "left">> /\ x # <<Met, "right">>
    BY <1>2, PlaceApart
  <2>2. /\ <<Met, "left">> \in Place /\ <<Met, "right">> \in Place
    BY <1>2, PlaceFacts
  <2> HIDE DEF T
  <2> QED BY <1>1, <2>1, <2>2, FoundFacts DEF DeleteLast, HeapTypes
<1>5. Tree(ptr', heap_index', T, size - 1)
  <2> HIDE DEF p
  <2>1. Tree(ptr', heap_index', onq \ {ptr[p]}, size - 1)
    <3>1. \A x \in PlacesOf(onq \ {ptr[p]}) :
             ptr'[x] = IF x = p THEN Nil ELSE ptr[x]
      BY <1>2, <1>4
    <3>2. \A u \in onq \ {ptr[p]} : heap_index'[u] = heap_index[u]
      BY <1>2, <1>3
    <3> QED BY <1>2, <1>3, <3>1, <3>2, RemoveLast, Zenon
  <2> QED BY <1>2, <2>1
<1>6. Ordered(ptr', due', Links(T))
  <2> SUFFICES ASSUME NEW x \in Links(T), ptr'[x] # Nil
               PROVE  due'[x[1]] <= due'[ptr'[x]]
    BY DEF Ordered
  <2>1. x[1] \in T /\ x \in PlacesOf(T) /\ x \in Links(onq)
    BY <1>2, LinkFacts DEF Links
  <2>2. ptr'[x] = ptr[x] /\ ptr'[x] \in T
    <3>1. ptr'[x] \in T
      BY <1>2, <1>3, <1>5, <2>1, AtPlaceOf
    <3> QED BY <1>4, <2>1, <3>1
  <2>3. due[x[1]] <= due[ptr[x]]
    BY <1>1, <2>1, <2>2, FoundFacts DEF WhenFinding, InOrder, Ordered
  <2> QED BY <1>1, <1>2, <2>1, <2>2, <2>3, FoundFacts
          DEF DeleteLast, Leave, HeapTypes
<1>7. HeapTypes'
  <2>1. job' \in Job
    BY PlaceFacts DEF DeleteLast, Leave, Job, NoJob
  <2>2. size' \in Nat
    BY <1>2 DEF DeleteLast
  <2> QED BY <1>1, <1>2, <1>3, <1>4, <2>1, <2>2, FoundFacts
          DEF HeapTypes, DeleteLast, Leave
<1>8. Counted(size)'
  <2>1. IsFiniteSet(onq) /\ Cardinality(onq) = size /\ onq' = T
        /\ size' = size - 1
    BY <1>1, FoundFacts DEF WhenFinding, Counted, DeleteLast, Leave
  <2> QED BY <1>2, <2>1, FS_RemoveElement DEF Counted
<1>9. WhenIdle'
  BY <1>1, <1>5, <1>6, <1>8
     DEF WhenIdle, HeapOf, InOrder, DeleteLast, Leave
<1> QED BY <1>7, <1>9 DEF HeapInv, DeleteLast, Leave

LEMMA UnlinkLastInv ==
  ASSUME HeapInv, UnlinkLast
  PROVE  HeapInv'
<1>1. Found /\ Met # job.thread
  BY DEF UnlinkLast
<1> DEFINE p == job.p
           T == onq \ {Met}
<1>2. /\ Tree(ptr, heap_index, onq, size) /\ size \in Nat /\ size >= 1
      /\ onq \in SUBSET Thread /\ T \in SUBSET Thread
      /\ heap_index \in [Thread -> Nat] /\ p \in PlacesOf(onq)
      /\ IndexOf(heap_index, p) = size /\ ptr[p] = Met /\ Met \in onq
      /\ Met \in Thread /\ job.thread \in T
  BY <1>1, FoundFacts DEF WhenFinding, HeapOf, HeapTypes, AtIndex, Met
<1>3. /\ heap_index' \in [Thread -> Nat]
      /\ \A u \in T : heap_index'[u] = heap_index[u]
  BY <1>1, <1>2 DEF UnlinkLast
<1>4. /\ ptr' \in [Place -> Thread \cup {Nil}]
      /\ \A x \in PlacesOf(T) : ptr'[x] = IF x = p THEN Nil ELSE ptr[x]
  <2>1. PlacesOf(T) \subseteq Place
    BY <1>2, PlaceFacts
  <2> HIDE DEF T
  <2> QED BY <1>1, <2>1, FoundFacts DEF UnlinkLast, HeapTypes
<1>5. Tree(ptr', heap_index', T, size - 1)
  <2> HIDE DEF p
  <2>1. Tree(ptr', heap_index', onq \ {ptr[p]}, size - 1)
    <3>1. \A x \in PlacesOf(onq \ {ptr[p]}) :
             ptr'[x] = IF x = p THEN Nil ELSE ptr[x]
      BY <1>2, <1>4
    <3>2. \A u \in onq \ {ptr[p]} : heap_index'[u] = heap_index[u]
      BY <1>2, <1>3
    <3> QED BY <1>2, <1>3, <3>1, <3>2, RemoveLast, Zenon
  <2> QED BY <1>2, <2>1
<1>6. Ordered(ptr', due, Links(T))
  <2> SUFFICES ASSUME NEW x \in Links(T), ptr'[x] # Nil
               PROVE  due[x[1]] <= due[ptr'[x]]
    BY DEF Ordered
  <2>1. x[1] \in T /\ x \in PlacesOf(T) /\ x \in Links(onq)
    BY <1>2, LinkFacts DEF Links
  <2>2. ptr'[x] = ptr[x]
    BY <1>4, <2>1
  <2> QED BY <1>1, <2>1, <2>2, FoundFacts DEF WhenFinding, InOrder, Ordered
<1>7. /\ job'.p = Root /\ job'.index = 1 /\ job'.step = "insert"
      /\ job'.call = "del" /\ job'.thread = job.thread /\ job'.t = Met
      /\ job'.target = heap_index[job.thread]
  BY <1>1, FoundFacts DEF HeapTypes, Job, UnlinkLast, WhenFinding
<1>8. HeapTypes'
  <2>1. job' \in Job
    BY <1>1, <1>2, PlaceFacts, FoundFacts DEF UnlinkLast, HeapTypes, Job
  <2>2. size' \in Nat
    BY <1>2 DEF UnlinkLast
  <2> QED BY <1>1, <1>3, <1>4, <2>1, <2>2, FoundFacts
          DEF HeapTypes, UnlinkLast
<1>9. heap_index'[job.thread] \in 1..(size - 1) /\ UNCHANGED <<onq, due>>
      /\ size' = size - 1 /\ heap_index'[job.thread] = heap_index[job.thread]
  BY <1>2, <1>3, <1>5 DEF Tree, Indexed, UnlinkLast
<1>10. Carrying(size)'
  <2>1. AtIndex(onq \ {job.t})'
    BY <1>7 DEF AtIndex, IndexOf, PlacesOf
  <2>2. job'.index \in 1..job'.target
    BY <1>7, <1>9
  <2> QED BY <1>2, <1>5, <1>6, <1>7, <1>9, <2>1, <2>2
          DEF Carrying, HeapOf, InOrder
<1>11. WhenReplacing'
  <2>1. Counted(size + 1)'
    BY <1>1, <1>2, <1>9, FoundFacts DEF WhenFinding, Counted
  <2> QED BY <1>1, <1>7, <1>9, <1>10, <2>1 DEF WhenReplacing
<1> QED BY <1>7, <1>8, <1>11 DEF HeapInv

LEMMA ReplaceInv ==
  ASSUME HeapInv, Replace
  PROVE  HeapInv'
<1> DEFINE t == job.t
           p == job.p
           T == onq \ {t}
           d == job.thread
           T2 == onq \ {d}
<1>1. /\ Inserting /\ AtPlace /\ job.call = "del"
      /\ Settle(ptr[<<d, "left">>], ptr[<<d, "right">>])
  BY DEF Replace, Settle
<1>2. /\ Tree(ptr, heap_index, T, size) /\ size \in Nat /\ T \in SUBSET Thread
      /\ heap_index \in [Thread -> Nat] /\ p \in PlacesOf(T) /\ p \in Place
      /\ t \in Thread /\ t \notin T /\ d \in T /\ d \in Thread
      /\ T2 = (T \ {d}) \cup {t} /\ T2 \in SUBSET Thread /\ t \in T2
      /\ job.index = IndexOf(heap_index, p) /\ job.index \in 1..job.target
      /\ job.target = heap_index[d] /\ heap_index[d] \in 1..size
      /\ WhenReplacing /\ HeapTypes
  BY <1>1, InsertFacts
     DEF WhenReplacing, Carrying, HeapOf, AtIndex, HeapTypes, Tree, Indexed
<1>3. ptr[p] # Nil /\ ptr[p] \in T /\ heap_index[ptr[p]] = job.index
  BY <1>2, AtPlaceOf
<1>4. ptr[p] = d /\ IndexOf(heap_index, p) <= size
  BY <1>1, <1>2, <1>3 DEF AtPlace, Tree, Indexed
<1>5. ptr[Root] # Nil
  <2>1. Root \in PlacesOf(T) /\ IndexOf(heap_index, Root) = 1
    BY DEF PlacesOf, IndexOf
  <2> QED BY <1>2, <2>1, AtPlaceOf
<1>6. ptr[<<d, "left">>] \in Thread \cup {Nil}
      /\ ptr[<<d, "right">>] \in Thread \cup {Nil}
  BY <1>2, PlaceFacts DEF HeapTypes
<1>7. /\ heap_index' \in [Thread -> Nat] /\ ptr'[p] = t
      /\ heap_index'[t] = IndexOf(heap_index, p)
      /\ ptr' \in [Place -> Thread \cup {Nil}]
      /\ \A s \in {"left", "right"} : ptr'[<<t, s>>] = ptr[<<d, s>>]
      /\ \A x \in PlacesOf(T) \ {p} : ptr'[x] = ptr[x]
      /\ \A u \in T : heap_index'[u] = heap_index[u]
  <2> DEFINE l == ptr[<<d, "left">>]
             r == ptr[<<d, "right">>]
  <2>1. l \in Thread \cup {Nil} /\ r \in Thread \cup {Nil} /\ Settle(l, r)
    BY <1>1, <1>6
  <2>2. ptr'[<<t, "left">>] = l /\ ptr'[<<t, "right">>] = r
    <3> HIDE DEF l, r
    <3> QED BY <2>1, SettleFacts
  <2>3. /\ heap_index' \in [Thread -> Nat] /\ ptr'[p] = t
        /\ heap_index'[t] = IF ptr[Root] = Nil THEN heap_index[t] ELSE job.index
        /\ ptr' \in [Place -> Thread \cup {Nil}]
        /\ \A x \in PlacesOf(T) \ {p} : ptr'[x] = ptr[x]
        /\ \A u \in Thread \ {t} : heap_index'[u] = heap_index[u]
    <3> HIDE DEF l, r
    <3> QED BY <2>1, SettleFacts
  <2> QED BY <1>2, <1>5, <2>2, <2>3
<1>8. Tree(ptr', heap_index', T2, size) /\ p \in PlacesOf(T2)
  <2> HIDE DEF t, p, T, T2
  <2>1. /\ Tree(ptr, heap_index, T, size) /\ size \in Nat
        /\ heap_index \in [Thread -> Nat] /\ T \in SUBSET Thread
        /\ t \in Thread /\ t \notin T /\ p \in PlacesOf(T)
        /\ IndexOf(heap_index, p) <= size
    BY <1>2, <1>4
  <2>2. \A s \in {"left", "right"} : ptr'[<<t, s>>] = ptr[<<ptr[p], s>>]
    BY <1>4, <1>7
  <2>3. Tree(ptr', heap_index', (T \ {ptr[p]}) \cup {t}, size)
    BY <1>7, <2>1, <2>2, TakeOver, Zenon
  <2>4. p = Root \/ p[1] \in T2
    BY <1>2, <1>3, <1>4, PlaceUnique DEF Tree
  <2>5. p \in PlacesOf(T2)
    BY <1>2, <2>4, PlaceFacts, LinkFacts DEF PlacesOf, Links
  <2> QED BY <1>2, <1>4, <2>3, <2>5
<1>9. Ordered(ptr', due, Links(T2 \ {t}))
  <2> SUFFICES ASSUME NEW x \in Links(T2 \ {t}), ptr'[x] # Nil
               PROVE  due[x[1]] <= due[ptr'[x]]
    BY DEF Ordered
  <2>1. x[1] \in T2 \ {t} /\ x # Root /\ x \in Links(T) /\ x \in PlacesOf(T)
    BY <1>2, LinkFacts DEF Links
  <2>2. CASE x = p
    BY <1>1, <1>7, <2>1, <2>2, InsertFacts DEF Carrying
  <2>3. CASE x # p
    BY <1>1, <1>7, <2>1, <2>3, InsertFacts DEF Carrying, InOrder, Ordered
  <2> QED BY <2>2, <2>3
<1>10. ASSUME NEW s \in {"left", "right"}, p # Root, ptr'[<<t, s>>] # Nil
       PROVE  due[p[1]] <= due[ptr'[<<t, s>>]]
  <2>1. p \in Links(T) /\ <<d, s>> \in Links(T) /\ <<d, s>>[1] = d
    BY <1>2, <1>10, PlaceFacts DEF Links
  <2>2. ptr'[<<t, s>>] = ptr[<<d, s>>]
    BY <1>7
  <2>3. due[p[1]] <= due[d] /\ due[d] <= due[ptr[<<d, s>>]]
    BY <1>1, <1>3, <1>4, <1>10, <2>1, <2>2, InsertFacts
       DEF Carrying, InOrder, Ordered
  <2>4. p[1] \in Thread /\ ptr[<<d, s>>] \in Thread
    BY <1>2, <1>6, <1>10, <2>1, <2>2, LinkFacts
  <2> QED BY <1>2, <2>2, <2>3, <2>4 DEF HeapTypes
<1>11. /\ job'.p = p /\ job'.step = "sift" /\ job'.call = "del"
       /\ job'.thread = d /\ job'.t = t /\ job' \in Job
       /\ UNCHANGED <<due, size, onq>>
  BY <1>1, <1>2 DEF HeapTypes, Job, Replace
<1>12. HeapTypes'
  BY <1>2, <1>7, <1>11 DEF HeapTypes
<1>13. WhenSifting'
  <2>1. T2 \ {t} = onq \ {d, t} /\ d \in onq
    BY <1>2
  <2> QED BY <1>2, <1>7, <1>8, <1>9, <1>10, <1>11, <2>1
          DEF WhenSifting, WhenReplacing, HeapOf, InOrder, Counted
<1> QED BY <1>11, <1>12, <1>13 DEF HeapInv

(* What holds while the replacement goes down.                             *)
LEMMA SiftFacts ==
  ASSUME HeapInv, job.step = "sift"
  PROVE  LET d == job.thread
             t == job.t
             T == onq \ {d}
         IN  /\ HeapTypes /\ WhenSifting
             /\ Tree(ptr, heap_index, T, size) /\ size \in Nat
             /\ T \in SUBSET Thread /\ heap_index \in [Thread -> Nat]
             /\ job.p \in PlacesOf(T) /\ job.p \in Place /\ ptr[job.p] = t
             /\ t \in T /\ t \in Thread /\ d \in Thread /\ d \in onq
             /\ Ordered(ptr, due, Links(T \ {t}))
             /\ Left \in T \cup {Nil} /\ Right \in T \cup {Nil}
             /\ Left = Nil => Right = Nil
             /\ Left # Nil => Left # Right
<1> DEFINE d == job.thread
           t == job.t
           T == onq \ {d}
<1>1. HeapTypes /\ WhenSifting
  BY DEF HeapInv, NoJob
<1>2. /\ Tree(ptr, heap_index, T, size) /\ size \in Nat
      /\ T \in SUBSET Thread /\ heap_index \in [Thread -> Nat]
      /\ job.p \in PlacesOf(T) /\ job.p \in Place /\ ptr[job.p] = t
      /\ t \in T /\ t \in Thread /\ d \in Thread /\ d \in onq
  BY <1>1, PlaceFacts DEF WhenSifting, HeapTypes, HeapOf
<1>3. T \ {t} = onq \ {d, t}
  OBVIOUS
<1>4. Ordered(ptr, due, Links(T \ {t}))
  BY <1>1, <1>3 DEF WhenSifting, InOrder
<1> DEFINE l == <<t, "left">>
           r == <<t, "right">>
<1>5. l \in PlacesOf(T) /\ r \in PlacesOf(T) /\ l # Root /\ r # Root
  BY <1>2, HeapAssumption DEF PlacesOf, Root
<1>6. /\ IndexOf(heap_index, l) = 2 * heap_index[t]
      /\ IndexOf(heap_index, r) = 2 * heap_index[t] + 1
      /\ heap_index[t] \in Nat
  BY <1>2, <1>5 DEF IndexOf
<1>7. /\ ptr[l] \in T \cup {Nil} /\ ptr[r] \in T \cup {Nil}
      /\ ptr[l] = Nil => ptr[r] = Nil
      /\ ptr[l] # Nil => ptr[l] # ptr[r]
  <2> HIDE DEF l, r, T
  <2> QED BY <1>2, <1>5, <1>6, AtPlaceOf
<1> QED BY <1>1, <1>2, <1>4, <1>7 DEF Left, Right

LEMMA DeleteDoneInv ==
  ASSUME HeapInv, DeleteDone
  PROVE  HeapInv'
<1> DEFINE t == job.t
           d == job.thread
           T == onq \ {d}
<1>1. job.step = "sift" /\ ~TooLate
  BY DEF DeleteDone
<1>2. /\ HeapTypes /\ WhenSifting
      /\ Tree(ptr, heap_index, T, size) /\ size \in Nat
      /\ T \in SUBSET Thread /\ heap_index \in [Thread -> Nat]
      /\ t \in T /\ t \in Thread /\ d \in Thread /\ d \in onq /\ d \notin T
      /\ Ordered(ptr, due, Links(T \ {t}))
      /\ Left \in T \cup {Nil} /\ Right \in T \cup {Nil}
      /\ Left = Nil => Right = Nil
  BY <1>1, SiftFacts
<1>3. /\ ptr' \in [Place -> Thread \cup {Nil}]
      /\ \A x \in PlacesOf(T) : ptr'[x] = ptr[x]
  <2>1. \A x \in PlacesOf(T) :
          x \in Place /\ x # <<d, "left">> /\ x # <<d, "right">>
    BY <1>2, PlaceApart
  <2>2. /\ <<d, "left">> \in Place /\ <<d, "right">> \in Place
    BY <1>2, PlaceFacts
  <2> HIDE DEF T
  <2> QED BY <1>2, <2>1, <2>2 DEF DeleteDone, HeapTypes
<1>4. /\ heap_index' \in [Thread -> Nat]
      /\ \A u \in T : heap_index'[u] = heap_index[u] /\ due'[u] = due[u]
  BY <1>2 DEF DeleteDone, Leave, HeapTypes
<1>5. Tree(ptr', heap_index', T, size)
  BY <1>2, <1>3, <1>4, TreeSame
<1>6. Ordered(ptr', due', Links(T))
  <2> SUFFICES ASSUME NEW x \in Links(T), ptr'[x] # Nil
               PROVE  due'[x[1]] <= due'[ptr'[x]]
    BY DEF Ordered
  <2>1. /\ x[1] \in T /\ x \in PlacesOf(T) /\ x[2] \in {"left", "right"}
        /\ x = <<x[1], x[2]>>
    BY <1>2, LinkFacts
  <2>2. ptr'[x] = ptr[x] /\ ptr[x] \in T
    <3>1. ptr'[x] = ptr[x]
      BY <1>3, <2>1
    <3> QED BY <1>2, <2>1, <3>1, AtPlaceOf
  <2>3. due[x[1]] <= due[ptr[x]]
    <3>1. CASE x[1] # t
      <4>1. x \in Links(T \ {t})
        BY <2>1, <3>1 DEF Links
      <4> QED BY <1>2, <2>2, <4>1, HeapAssumption DEF Ordered
    <3>2. CASE x[1] = t
      <4>1. ptr[x] \in {Left, Right} /\ ptr[x] # Nil
        BY <2>1, <2>2, <3>2 DEF Left, Right
      <4>2. Left # Nil /\ ~(due[t] > due[Younger]) /\ Left \in Thread
        BY <1>1, <1>2, <4>1 DEF TooLate
      <4>3. CASE Right = Nil
        BY <1>2, <3>2, <4>1, <4>2, <4>3 DEF Younger, HeapTypes
      <4>4. CASE Right # Nil
        <5>1. Right \in Thread
          BY <1>2, <4>4
        <5> QED BY <1>2, <3>2, <4>1, <4>2, <4>4, <5>1 DEF Younger, HeapTypes
      <4> QED BY <4>3, <4>4
    <3> QED BY <3>1, <3>2
  <2> QED BY <1>4, <2>1, <2>2, <2>3
<1>7. HeapTypes'
  <2>1. job' \in Job
    BY PlaceFacts DEF DeleteDone, Leave, Job, NoJob
  <2> QED BY <1>2, <1>3, <1>4, <2>1 DEF HeapTypes, DeleteDone, Leave
<1>8. Counted(size)'
  <2>1. IsFiniteSet(onq) /\ Cardinality(onq) = size + 1 /\ onq' = T
        /\ size' = size
    BY <1>2 DEF WhenSifting, Counted, DeleteDone, Leave
  <2>2. IsFiniteSet(T) /\ Cardinality(T) = Cardinality(onq) - 1
    BY <1>2, <2>1, FS_RemoveElement
  <2> QED BY <1>2, <2>1, <2>2 DEF Counted
<1>9. WhenIdle'
  BY <1>5, <1>6, <1>8 DEF WhenIdle, HeapOf, InOrder, DeleteDone, Leave
<1> QED BY <1>7, <1>9 DEF HeapInv, DeleteDone, Leave

LEMMA SiftDownInv ==
  ASSUME HeapInv, SiftDown
  PROVE  HeapInv'
<1> DEFINE t == job.t
           p == job.p
           T == onq \ {job.thread}
           y == Younger
           s == IF y = Left THEN "left" ELSE "right"
           k == IF y = Left THEN "right" ELSE "left"
<1>1. job.step = "sift" /\ Left # Nil /\ due[t] > due[y]
  BY DEF SiftDown, TooLate
<1>2. /\ HeapTypes /\ WhenSifting
      /\ Tree(ptr, heap_index, T, size) /\ size \in Nat
      /\ T \in SUBSET Thread /\ heap_index \in [Thread -> Nat]
      /\ p \in PlacesOf(T) /\ p \in Place /\ ptr[p] = t
      /\ t \in T /\ t \in Thread /\ job.thread \in onq
      /\ Ordered(ptr, due, Links(T \ {t}))
      /\ Left \in T /\ Right \in T \cup {Nil} /\ Left # Right
  BY <1>1, SiftFacts
<1>3. y \in T /\ y \in Thread /\ ptr[<<t, s>>] = y
  BY <1>2 DEF Younger, Left, Right
<1>4. s \in {"left", "right"} /\ k \in {"left", "right"} /\ s # k
  OBVIOUS
<1>5. ptr[<<t, k>>] # Nil => ptr[<<t, k>>] \in T /\ due[y] <= due[ptr[<<t, k>>]]
  <2>1. CASE y = Left
    <3>1. ptr[<<t, k>>] = Right
      BY <2>1 DEF Right
    <3>2. Right # Nil => due[Left] < due[Right]
      BY <1>2, <2>1 DEF Younger
    <3> QED BY <1>2, <2>1, <3>1, <3>2 DEF HeapTypes
  <2>2. CASE y # Left
    <3>1. ptr[<<t, k>>] = Left /\ y = Right
      BY <2>2 DEF Left, Younger
    <3>2. ~(due[Left] < due[Right]) /\ Right \in Thread
      BY <1>3, <2>2, <3>1 DEF Younger
    <3> QED BY <1>2, <3>1, <3>2 DEF HeapTypes
  <2> QED BY <2>1, <2>2
<1>6. /\ ptr' = [ptr EXCEPT ![p] = y, ![<<y, s>>] = t,
                            ![<<y, k>>] = ptr[<<t, k>>],
                            ![<<t, "left">>]  = ptr[<<y, "left">>],
                            ![<<t, "right">>] = ptr[<<y, "right">>]]
      /\ heap_index' = [heap_index EXCEPT ![t] = heap_index[y],
                                          ![y] = heap_index[t]]
      /\ job' = [job EXCEPT !.p = <<y, s>>]
      /\ UNCHANGED <<due, size, onq>>
  BY DEF SiftDown
<1> HIDE DEF t, p, T, y, s, k
<1>7. /\ <<t, "left">> \in PlacesOf(T) /\ <<t, "right">> \in PlacesOf(T)
      /\ <<y, "left">> \in PlacesOf(T) /\ <<y, "right">> \in PlacesOf(T)
      /\ <<t, "left">> \in Place /\ <<t, "right">> \in Place
      /\ <<y, "left">> \in Place /\ <<y, "right">> \in Place
      /\ <<t, "left">> # Root /\ <<t, "right">> # Root
      /\ <<y, "left">> # Root /\ <<y, "right">> # Root
      /\ <<t, "left">> # <<t, "right">> /\ <<y, "left">> # <<y, "right">>
  BY <1>2, <1>3, HeapAssumption DEF PlacesOf, Place, Root
<1>8. heap_index[t] = IndexOf(heap_index, p)
      /\ heap_index[y] = IndexOf(heap_index, <<t, s>>)
  BY <1>2, <1>3, <1>4, <1>7, AtPlaceOf, HeapAssumption
<1>9. y # t /\ heap_index[y] > heap_index[t]
  BY <1>2, <1>4, <1>7, <1>8, PlaceUnique DEF Tree
<1>10. p = Root \/ (p[1] \in T /\ p[1] # t /\ p[1] # y)
  <2>1. p # Root => p[1] \in T /\ heap_index[t] > heap_index[p[1]]
    BY <1>2, <1>8, PlaceUnique DEF Tree
  <2> QED BY <1>2, <1>3, <1>9, <2>1
<1>11. /\ p # <<t, "left">> /\ p # <<t, "right">>
       /\ p # <<y, "left">> /\ p # <<y, "right">>
  BY <1>7, <1>10
<1>12. /\ ptr' \in [Place -> Thread \cup {Nil}]
       /\ ptr'[p] = y /\ ptr'[<<y, s>>] = t /\ ptr'[<<y, k>>] = ptr[<<t, k>>]
       /\ \A r \in {"left", "right"} : ptr'[<<t, r>>] = ptr[<<y, r>>]
  <2>1. /\ <<t, "left">> # <<y, "left">> /\ <<t, "left">> # <<y, "right">>
        /\ <<t, "right">> # <<y, "left">> /\ <<t, "right">> # <<y, "right">>
    BY <1>9
  <2>2. CASE s = "left"
    <3>1. k = "right"
      BY <1>4, <2>2
    <3> QED BY <1>2, <1>3, <1>6, <1>7, <1>11, <2>1, <2>2, <3>1 DEF HeapTypes
  <2>3. CASE s = "right"
    <3>1. k = "left"
      BY <1>4, <2>3
    <3> QED BY <1>2, <1>3, <1>6, <1>7, <1>11, <2>1, <2>3, <3>1 DEF HeapTypes
  <2> QED BY <1>4, <2>2, <2>3
<1>13. \A x \in PlacesOf(T) \ {p} :
         (x = Root \/ x[1] \notin {t, y}) => ptr'[x] = ptr[x]
  <2> SUFFICES ASSUME NEW x \in PlacesOf(T) \ {p},
                      x = Root \/ x[1] \notin {t, y}
               PROVE  ptr'[x] = ptr[x]
    OBVIOUS
  <2>1. /\ x # <<t, "left">> /\ x # <<t, "right">>
        /\ x # <<y, s>> /\ x # <<y, k>> /\ x \in Place
    BY <1>2, <1>4, <1>7, PlaceFacts
  <2> QED BY <1>2, <1>6, <2>1 DEF HeapTypes
<1>14. /\ heap_index' \in [Thread -> Nat]
       /\ heap_index'[t] = heap_index[y] /\ heap_index'[y] = heap_index[t]
       /\ \A u \in T \ {t, y} : heap_index'[u] = heap_index[u]
  BY <1>2, <1>3, <1>6, <1>9
<1>15. Tree(ptr', heap_index', T, size)
  <2>1. /\ heap_index \in [Thread -> Nat] /\ T \in SUBSET Thread
        /\ size \in Nat /\ Tree(ptr, heap_index, T, size)
        /\ p \in PlacesOf(T) /\ t \in T /\ ptr[p] = t
        /\ s \in {"left", "right"} /\ k \in {"left", "right"} /\ s # k
        /\ y \in T /\ ptr[<<t, s>>] = y
    BY <1>2, <1>3, <1>4
  <2>2. Exchanged(ptr, heap_index, T, p, t, y, s, k, ptr', heap_index')
    BY <1>12, <1>13, <1>14, <2>1 DEF Exchanged
  <2> QED BY <1>14, <2>1, <2>2, Exchange
<1>16. Ordered(ptr', due, Links(T \ {t}))
  <2> SUFFICES ASSUME NEW x \in Links(T \ {t}), ptr'[x] # Nil
               PROVE  due[x[1]] <= due[ptr'[x]]
    BY DEF Ordered
  <2>1. /\ x[1] \in T \ {t} /\ x[2] \in {"left", "right"}
        /\ x = <<x[1], x[2]>> /\ x # Root /\ x \in PlacesOf(T)
    BY <1>2, LinkFacts DEF Links, PlacesOf
  <2>2. CASE x = p
    <3>1. ptr'[x] = y
      BY <1>12, <2>2
    <3>2. ptr[<<t, s>>] = y /\ y # Nil
      BY <1>3, HeapAssumption
    <3>3. due[p[1]] <= due[y]
      BY <1>2, <1>4, <2>1, <2>2, <3>2 DEF WhenSifting, t, p
    <3> QED BY <2>2, <3>1, <3>3
  <2>3. CASE x = <<y, s>>
    BY <1>1, <1>2, <1>3, <1>12, <2>3 DEF HeapTypes, t, y
  <2>4. CASE x = <<y, k>>
    BY <1>5, <1>12, <2>4
  <2>5. CASE x # p /\ x[1] # y
    BY <1>2, <1>13, <2>1, <2>5 DEF Ordered
  <2>6. x[1] = y => x = <<y, s>> \/ x = <<y, k>>
    BY <1>4, <2>1
  <2> QED BY <2>2, <2>3, <2>4, <2>5, <2>6
<1>17. ASSUME NEW r \in {"left", "right"}, ptr'[<<t, r>>] # Nil
       PROVE  due[y] <= due[ptr'[<<t, r>>]]
  <2>1. ptr'[<<t, r>>] = ptr[<<y, r>>]
    BY <1>12
  <2>2. <<y, r>> \in Links(T \ {t}) /\ <<y, r>>[1] = y
    BY <1>3, <1>9 DEF Links
  <2> QED BY <1>2, <1>17, <2>1, <2>2 DEF Ordered
<1>18. /\ job'.p = <<y, s>> /\ job'.step = "sift" /\ job'.call = "del"
       /\ job'.thread = job.thread /\ job'.t = t /\ job' \in Job
  <2>1. <<y, s>> \in Place /\ job \in Job
    BY <1>2, <1>4, <1>7 DEF HeapTypes
  <2>2. job.call = "del"
    BY <1>2 DEF WhenSifting
  <2> QED BY <1>1, <1>6, <2>1, <2>2 DEF Job, t
<1>19. HeapTypes'
  BY <1>2, <1>6, <1>12, <1>14, <1>18 DEF HeapTypes
<1>20. WhenSifting'
  <2>1. T' = T /\ T \ {t} = onq \ {job.thread, t} /\ T = onq \ {job.thread}
    BY <1>6, <1>18 DEF T
  <2>2. <<y, s>>[1] = y /\ <<y, s>> \in PlacesOf(T)
    BY <1>4, <1>7
  <2>3. Counted(size + 1)' /\ job'.thread \in onq'
    BY <1>2, <1>6, <1>18 DEF WhenSifting, Counted
  <2>4. HeapOf(onq \ {job.thread}, size)'
    BY <1>6, <1>15, <1>18, <2>1 DEF HeapOf
  <2>5. InOrder(onq \ {job.thread, job.t})'
    BY <1>6, <1>16, <1>18, <2>1 DEF InOrder
  <2>6. job'.p \in PlacesOf(onq' \ {job'.thread}) /\ ptr'[job'.p] = job'.t
        /\ job'.t \in onq' \ {job'.thread}
    BY <1>2, <1>6, <1>12, <1>18, <2>1, <2>2
  <2>7. ASSUME NEW r \in {"left", "right"}, ptr'[<<job'.t, r>>] # Nil
        PROVE  due'[job'.p[1]] <= due'[ptr'[<<job'.t, r>>]]
    BY <1>6, <1>17, <1>18, <2>2, <2>7
  <2> QED BY <1>18, <2>3, <2>4, <2>5, <2>6, <2>7 DEF WhenSifting
<1> QED BY <1>18, <1>19, <1>20 DEF HeapInv

-----------------------------------------------------------------------------
LEMMA HeapStep == HeapInv /\ [HeapNext]_heapVars => HeapInv'
<1> SUFFICES ASSUME HeapInv, [HeapNext]_heapVars PROVE HeapInv'
  OBVIOUS
<1>1. CASE UNCHANGED heapVars
  BY <1>1 DEF heapVars, HeapInv, HeapTypes, WhenIdle, WhenFinding, WhenAdding,
              WhenReplacing, WhenSifting, Carrying, Counted, HeapOf, InOrder,
              AtIndex
<1>2. CASE \E t \in Thread : DelSleepQ(t) \/ \E d \in Dues : AddSleepQ(t, d)
  BY <1>2, DelSleepQInv, AddSleepQInv
<1>3. CASE GoBelow \/ TakePlace \/ AddDone
  BY <1>3, GoBelowInv, TakePlaceInv, AddDoneInv
<1>4. CASE FindDown \/ DeleteLast \/ UnlinkLast
  BY <1>4, FindDownInv, DeleteLastInv, UnlinkLastInv
<1>5. CASE Replace \/ SiftDown \/ DeleteDone
  BY <1>5, ReplaceInv, SiftDownInv, DeleteDoneInv
<1> QED BY <1>1, <1>2, <1>3, <1>4, <1>5 DEF HeapNext

LEMMA HeapInvariance == HeapSpec => []HeapInv
BY HeapInitInv, HeapStep, PTL DEF HeapSpec

(* heap_insert and heap_delete, loop by loop: between calls the tree is    *)
(* complete, indexed and ordered, whatever was added and deleted before.   *)
THEOREM HeapCorrect == HeapSpec => []HeapShape
<1>1. HeapInv => HeapShape
  <2> SUFFICES ASSUME HeapInv, job = NoJob
               PROVE  /\ size = Cardinality(onq)
                      /\ {heap_index[t] : t \in onq} = 1..size
                      /\ Linked(ptr, heap_index, onq, size)
                      /\ Ordered(ptr, due, PlacesOf(onq) \ {Root})
    BY DEF HeapShape, Linked, Ordered
  <2>1. WhenIdle /\ HeapTypes
    BY DEF HeapInv, NoJob
  <2>2. PlacesOf(onq) \ {Root} = Links(onq)
    BY <2>1, PlaceFacts, LinkFacts DEF HeapTypes
  <2>3. {heap_index[t] : t \in onq} = 1..size
    BY <2>1 DEF WhenIdle, HeapOf, Tree, Indexed
  <2> QED BY <2>1, <2>2, <2>3 DEF WhenIdle, Counted, HeapOf, Tree, InOrder
<1> QED BY <1>1, HeapInvariance, PTL

-----------------------------------------------------------------------------
(* The refinement.  What SleepQueue sees: its members, deadlines and head. *)
AbsMembers == onq \ Adding
AbsDue     == [t \in Thread |-> IF t \in Adding THEN 0 ELSE due[t]]
AbsHead    == IF job = NoJob THEN ptr[Root] ELSE job.head
AbsVars    == <<AbsMembers, AbsDue, AbsHead>>

(* Between calls the root is a thread that no other must expire before.    *)
LEMMA HeadFirst ==
  ASSUME HeapTypes, WhenIdle
  PROVE  IF onq = {} THEN ptr[Root] = Nil
         ELSE ptr[Root] \in onq /\ \A u \in onq : due[ptr[Root]] <= due[u]
<1>1. Root \in PlacesOf(onq) /\ IndexOf(heap_index, Root) = 1
  BY DEF PlacesOf, IndexOf
<1>2. CASE onq = {}
  <2>1. ~(1 <= size)
    BY <1>2 DEF WhenIdle, HeapOf, Tree, Indexed, HeapTypes
  <2> QED BY <1>1, <1>2, <2>1, AtPlaceOf DEF WhenIdle, HeapOf, HeapTypes
<1>3. CASE onq # {}
  BY <1>3, RootFirst DEF WhenIdle, HeapOf, InOrder, HeapTypes
<1> QED BY <1>2, <1>3

(* The steps inside a call change nothing of that.                         *)
LEMMA InnerStutters ==
  ASSUME HeapInv, GoBelow \/ TakePlace \/ FindDown \/ UnlinkLast \/ Replace
                  \/ SiftDown
  PROVE  UNCHANGED AbsVars
<1>1. job \in Job /\ job.call \in {"add", "del"}
  <2>1. job.step # "none"
    BY DEF GoBelow, TakePlace, FindDown, UnlinkLast, Found, Replace, Settle,
           SiftDown, Inserting
  <2> QED BY <2>1 DEF HeapInv, HeapTypes, WhenFinding, WhenAdding,
                      WhenReplacing, WhenSifting, NoJob
<1>2. /\ job'.call = job.call /\ job'.thread = job.thread
      /\ job'.head = job.head /\ UNCHANGED <<onq, due>>
  BY <1>1 DEF Job, GoBelow, TakePlace, FindDown, UnlinkLast, Replace, SiftDown
<1>3. job # NoJob /\ job' # NoJob
  BY <1>1, <1>2 DEF NoJob
<1> QED BY <1>1, <1>2, <1>3
        DEF AbsVars, AbsMembers, AbsDue, AbsHead, Adding

LEMMA StartStutters ==
  ASSUME HeapInv, NEW t \in Thread,
         DelSleepQ(t) \/ \E d \in Dues : AddSleepQ(t, d)
  PROVE  UNCHANGED AbsVars
<1>1. job = NoJob /\ job.call = "none" /\ HeapTypes
  BY DEF DelSleepQ, AddSleepQ, NoJob, HeapInv
<1>2. Adding = {}
  BY <1>1 DEF Adding
<1>3. job' # NoJob /\ job'.head = ptr[Root]
  <2>1. job'.call # "none"
    BY DEF DelSleepQ, AddSleepQ
  <2> QED BY <2>1 DEF DelSleepQ, AddSleepQ, NoJob
<1>4. CASE DelSleepQ(t)
  <2>1. Adding' = {}
    BY <1>4 DEF DelSleepQ, Adding
  <2> QED BY <1>1, <1>2, <1>3, <1>4, <2>1
          DEF DelSleepQ, AbsVars, AbsMembers, AbsDue, AbsHead
<1>5. CASE \E d \in Dues : AddSleepQ(t, d)
  <2>1. PICK d \in Dues : AddSleepQ(t, d)
    BY <1>5
  <2>2. Adding' = {t} /\ t \notin onq /\ due[t] = 0
    BY <1>1, <2>1 DEF AddSleepQ, Adding, HeapTypes
  <2>3. AbsMembers' = AbsMembers
    BY <1>2, <2>1, <2>2 DEF AbsMembers, AddSleepQ
  <2>4. AbsDue' = AbsDue
    BY <1>1, <1>2, <2>1, <2>2 DEF AbsDue, AddSleepQ, HeapTypes
  <2> QED BY <1>1, <1>3, <2>3, <2>4 DEF AbsVars, AbsHead
<1> QED BY <1>4, <1>5

LEMMA AddDoneAdds ==
  ASSUME HeapInv, HeapInv', AddDone
  PROVE  \E t \in Thread, d \in Dues : Queue!Add(t, d)
<1>1. Inserting /\ job.call = "add"
  BY DEF AddDone, Settle
<1>2. /\ HeapTypes /\ job.thread \in onq /\ job.thread \in Thread
      /\ due[job.thread] \in Dues
  BY <1>1, InsertFacts DEF Carrying, HeapTypes
<1> PICK t \in Thread : t = job.thread
  BY <1>2
<1> PICK d \in Dues : d = due[t]
  BY <1>2
<1>3. HeapTypes' /\ WhenIdle' /\ job' = NoJob
  BY DEF HeapInv, AddDone, NoJob
<1>4. Adding = {t} /\ Adding' = {} /\ UNCHANGED <<onq, due>>
  BY <1>1, <1>3 DEF Adding, NoJob, AddDone
<1>5. AbsMembers = onq \ {t} /\ AbsMembers' = onq /\ AbsHead' = ptr'[Root]
  BY <1>3, <1>4 DEF AbsMembers, AbsHead
<1>6. AbsDue' = due /\ AbsDue' = [AbsDue EXCEPT ![t] = d]
  BY <1>2, <1>4 DEF AbsDue, HeapTypes
<1>7. IF onq = {} THEN AbsHead' = Nil
      ELSE AbsHead' \in onq /\ \A u \in onq : due[AbsHead'] <= due[u]
  <2>1. (IF onq = {} THEN ptr[Root] = Nil
         ELSE ptr[Root] \in onq /\ \A u \in onq : due[ptr[Root]] <= due[u])'
    BY <1>3, HeadFirst, PTL
  <2> QED BY <1>4, <1>5, <2>1
<1>8. Queue!Add(t, d)
  BY <1>2, <1>5, <1>6, <1>7
     DEF Queue!Add, Queue!IsHead, Queue!First, AbsMembers, AbsDue, AbsHead
<1> QED BY <1>8

LEMMA DeleteDels ==
  ASSUME HeapInv, HeapInv', DeleteLast \/ DeleteDone
  PROVE  \E t \in Thread : Queue!Del(t)
<1>1. /\ HeapTypes /\ job.call = "del" /\ job.thread \in onq
      /\ job.thread \in Thread
  BY FoundFacts, SiftFacts
     DEF DeleteLast, DeleteDone, WhenFinding, WhenSifting
<1> PICK t \in Thread : t = job.thread
  BY <1>1
<1>2. HeapTypes' /\ WhenIdle' /\ job' = NoJob
  BY DEF HeapInv, DeleteLast, DeleteDone, Leave, NoJob
<1>3. Adding = {} /\ Adding' = {} /\ onq' = onq \ {t}
      /\ due' = [due EXCEPT ![t] = 0]
  BY <1>1, <1>2 DEF Adding, NoJob, DeleteLast, DeleteDone, Leave
<1>4. AbsMembers = onq /\ AbsMembers' = onq \ {t} /\ AbsHead' = ptr'[Root]
  BY <1>2, <1>3 DEF AbsMembers, AbsHead
<1>5. AbsDue' = due' /\ AbsDue' = [AbsDue EXCEPT ![t] = 0]
  BY <1>1, <1>2, <1>3 DEF AbsDue, HeapTypes
<1>6. IF AbsMembers' = {} THEN AbsHead' = Nil
      ELSE AbsHead' \in AbsMembers'
           /\ \A u \in AbsMembers' : AbsDue'[AbsHead'] <= AbsDue'[u]
  <2>1. (IF onq = {} THEN ptr[Root] = Nil
         ELSE ptr[Root] \in onq /\ \A u \in onq : due[ptr[Root]] <= due[u])'
    BY <1>2, HeadFirst, PTL
  <2> QED BY <1>3, <1>4, <1>5, <2>1
<1>7. Queue!Del(t)
  BY <1>1, <1>4, <1>5, <1>6
     DEF Queue!Del, Queue!IsHead, Queue!First, AbsMembers, AbsDue, AbsHead
<1> QED BY <1>7

(* The pointer structure implements the sleep queue the scheduler is       *)
(* modelled with: a call adds or removes just its thread, and _ST_SLEEPQ   *)
(* then is a thread with the smallest deadline.                            *)
THEOREM HeapRefinement == HeapSpec => ImplementsSleepQueue
<1>1. HeapInit => Queue!Init
  <2> SUFFICES ASSUME HeapInit PROVE Queue!Init
    OBVIOUS
  <2>1. Adding = {} /\ AbsMembers = {}
    BY DEF HeapInit, Adding, NoJob, AbsMembers
  <2>2. AbsDue = [t \in Thread |-> 0]
    BY <2>1 DEF HeapInit, AbsDue
  <2>3. AbsHead = Nil
    BY PlaceFacts DEF HeapInit, AbsHead
  <2> QED BY <2>1, <2>2, <2>3 DEF Queue!Init, AbsMembers, AbsDue, AbsHead
<1>2. HeapInv /\ HeapInv' /\ [HeapNext]_heapVars => [Queue!Next]_Queue!vars
  <2> SUFFICES ASSUME HeapInv, HeapInv', [HeapNext]_heapVars
               PROVE  Queue!Next \/ UNCHANGED AbsVars
    BY DEF Queue!vars, AbsVars, AbsMembers, AbsDue, AbsHead
  <2>1. CASE UNCHANGED heapVars
    BY <2>1 DEF heapVars, AbsVars, AbsMembers, AbsDue, AbsHead, Adding
  <2>2. CASE \E t \in Thread : DelSleepQ(t) \/ \E d \in Dues : AddSleepQ(t, d)
    BY <2>2, StartStutters
  <2>3. CASE GoBelow \/ TakePlace \/ FindDown \/ UnlinkLast \/ Replace
             \/ SiftDown
    BY <2>3, InnerStutters
  <2>4. CASE AddDone
    BY <2>4, AddDoneAdds DEF Queue!Next
  <2>5. CASE DeleteLast \/ DeleteDone
    BY <2>5, DeleteDels DEF Queue!Next
  <2> QED BY <2>1, <2>2, <2>3, <2>4, <2>5 DEF HeapNext
<1> QED BY <1>1, <1>2, HeapInvariance, PTL
        DEF HeapSpec, ImplementsSleepQueue, Queue!Spec

=============================================================================
