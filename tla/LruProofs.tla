------------------------------ MODULE LruProofs ------------------------------
(***************************************************************************)
(* The cache of LruCache never frees an entry that is held, its buckets    *)
(* and its list stay well linked, and its limits are kept: for every       *)
(* number of entries, keys, buckets and references.                        *)
(***************************************************************************)
EXTENDS LruCache, CListTheorems, FiniteSetTheorems, TLAPS

(* The inductive invariant.  `pthis` undoes the pointer to an entry, and   *)
(* no set of entries is held together by its own pointers only: walking    *)
(* back along `pthis` ends at the table.                                   *)
Linked(e) ==
  \/ \E b \in Bucket : pthis[e] = <<"table", b>> /\ table[b] = e /\ b = Hash[key[e]]
  \/ \E d \in InTable : /\ pthis[e] = <<"next", d>> /\ next[d] = e
                        /\ Hash[key[d]] = Hash[key[e]]

Rooted ==
  \A X \in SUBSET InTable : X # {} =>
    \E x \in X : \A d \in X : pthis[x] # <<"next", d>>

BucketInv ==
  /\ \A e \in InTable : Linked(e)
  /\ \A e \in Entry : e \notin InTable => next[e] = NULL
  /\ \A b \in Bucket : table[b] # NULL => pthis[table[b]] = <<"table", b>>
  /\ \A d \in Entry : next[d] # NULL => pthis[next[d]] = <<"next", d>>
  /\ Rooted

(* Entries that exist have a key and a weight; the references counted are  *)
(* those that are held, on entries of the table, and what is pending is    *)
(* held.                                                                   *)
RefInv ==
  /\ InTable \subseteq allocated
  /\ \A e \in allocated : key[e] \in Key /\ weight[e] \in Weights
  /\ refCount = held
  /\ \A e \in Entry : held[e] > 0 => e \in InTable
  /\ \A e \in Entry : pending[e] => held[e] > 0

SizeInv ==
  /\ IsFiniteSet(InTable) /\ IsFiniteSet(Units(weight, InTable))
  /\ CapacityKept

(* What the loops of insert and empty rely on from one step to the next.   *)
Ops == [step : {"none", "weigh", "match", "link", "empty"},
        entry : Entry \cup {NULL}, bucket : Bucket]

OpInv ==
  /\ op \in Ops
  /\ op.step = "none" => op = NoOp
  /\ op.step \in {"weigh", "match", "link"} => op.entry \in Fresh
  /\ op.step \in {"match", "link"} => /\ curSize < MaxSize
                                      /\ curWeight + weight[op.entry] <= MaxWeight
  /\ op.step = "link" =>
       \A e \in InTable : key[e] = key[op.entry] => pending[e]
  /\ op.step = "empty" => op.entry \in InTable \cup {NULL}

CacheOk == TypeOK /\ BucketInv /\ RefInv /\ LruWellFormed /\ SizeInv /\ NoDuplicates
LruInv  == CacheOk /\ OpInv

-----------------------------------------------------------------------------
(* The types as a step sees them.                                          *)
LEMMA PlaceFacts ==
  /\ \A b \in Bucket : <<"table", b>> \in Places /\ <<"table", b>> # NULL
  /\ \A e \in Entry : <<"next", e>> \in Places /\ <<"next", e>> # NULL
  /\ \A x, y : <<"table", x>> # <<"next", y>>
  /\ \A x, y : <<"next", x>> = <<"next", y>> => x = y
  /\ \A x, y : <<"table", x>> = <<"table", y>> => x = y
  /\ NULL \notin Entry /\ LRU \notin Entry /\ NULL \notin LNode
<1>1. /\ \A b \in Bucket : <<"table", b>> \in Places
      /\ \A e \in Entry : <<"next", e>> \in Places
  BY DEF Places
<1>2. NULL \notin Places /\ NULL \notin LNode /\ LRU \notin Entry
  BY LruAssumption
<1>3. NULL \notin Entry
  BY <1>2 DEF LNode
<1>4. /\ \A x, y : <<"table", x>> # <<"next", y>>
      /\ \A x, y : <<"next", x>> = <<"next", y>> => x = y
      /\ \A x, y : <<"table", x>> = <<"table", y>> => x = y
  OBVIOUS
<1>5. /\ \A b \in Bucket : <<"table", b>> # NULL
      /\ \A e \in Entry : <<"next", e>> # NULL
  BY <1>1, <1>2
<1> QED
  BY <1>1, <1>2, <1>3, <1>4, <1>5

(* No entry follows itself.                                                *)
LEMMA NoLoop ==
  ASSUME BucketInv, NEW e \in InTable
  PROVE  next[e] # e /\ pthis[e] # <<"next", e>>
<1>1. {e} \in SUBSET InTable /\ {e} # {}
  OBVIOUS
<1>2. pthis[e] # <<"next", e>>
  BY <1>1 DEF BucketInv, Rooted
<1>3. e \in Entry /\ e # NULL
  BY PlaceFacts DEF InTable
<1> QED
  BY <1>2, <1>3 DEF BucketInv

(* The pointers after an entry is unlinked from its bucket.                *)
LEMMA UnlinkPointers ==
  ASSUME TypeOK, BucketInv, NEW e \in InTable, Unlink(e)
  PROVE  LET place == pthis[e]
             n     == next[e]
         IN  /\ e \in Entry /\ n # e
             /\ \A b \in Bucket :
                  table'[b] = IF place = <<"table", b>> THEN n ELSE table[b]
             /\ \A d \in Entry :
                  next'[d] = IF d = e THEN NULL
                             ELSE IF place = <<"next", d>> THEN n ELSE next[d]
             /\ \A x \in Entry :
                  pthis'[x] = IF x = e THEN NULL ELSE IF x = n THEN place ELSE pthis[x]
             /\ table' \in [Bucket -> Entry \cup {NULL}]
             /\ next' \in [Entry -> Entry \cup {NULL}]
             /\ pthis' \in [Entry -> Places \cup {NULL}]
<1> DEFINE place == pthis[e]
           n     == next[e]
<1>0. /\ e \in Entry /\ n \in Entry \cup {NULL} /\ n # e /\ place \in Places
      /\ place # <<"next", e>> /\ NULL \notin Entry
      /\ table \in [Bucket -> Entry \cup {NULL}]
      /\ next \in [Entry -> Entry \cup {NULL}]
      /\ pthis \in [Entry -> Places \cup {NULL}]
  BY NoLoop, PlaceFacts DEF TypeOK, InTable
<1>1. pthis' = NextPthis(e)
  BY DEF Unlink
<1>2. /\ \A x \in Entry :
           pthis'[x] = IF x = e THEN NULL ELSE IF x = n THEN place ELSE pthis[x]
      /\ pthis' \in [Entry -> Places \cup {NULL}]
  <2>1. CASE n = NULL
    <3>1. pthis' = [pthis EXCEPT ![e] = NULL]
      BY <1>1, <2>1 DEF NextPthis
    <3> QED
      BY <1>0, <2>1, <3>1
  <2>2. CASE n # NULL
    <3>1. pthis' = [pthis EXCEPT ![n] = place, ![e] = NULL]
      BY <1>1, <2>2 DEF NextPthis
    <3> QED
      BY <1>0, <2>2, <3>1
  <2> QED
    BY <2>1, <2>2
<1>3. CASE \E b \in Bucket : place = <<"table", b>>
  <2>1. PICK b \in Bucket : place = <<"table", b>>
    BY <1>3
  <2>2. place[1] = "table" /\ place[2] = b /\ place[1] # "next"
    BY <2>1
  <2>3. /\ table' = [table EXCEPT ![b] = n]
        /\ next' = [next EXCEPT ![e] = NULL]
    BY <2>2 DEF Unlink
  <2>4. \A c \in Bucket : (place = <<"table", c>>) <=> (c = b)
    BY <2>1, PlaceFacts
  <2>5. \A d \in Entry : place # <<"next", d>>
    BY <2>1, PlaceFacts
  <2> HIDE DEF place, n
  <2>6. \A c \in Bucket : table'[c] = IF place = <<"table", c>> THEN n ELSE table[c]
    BY <1>0, <2>3, <2>4
  <2>7. \A d \in Entry :
          next'[d] = IF d = e THEN NULL
                     ELSE IF place = <<"next", d>> THEN n ELSE next[d]
    BY <1>0, <2>3, <2>5
  <2>8. /\ table' \in [Bucket -> Entry \cup {NULL}]
        /\ next' \in [Entry -> Entry \cup {NULL}]
    BY <1>0, <2>3
  <2> QED
    BY <1>0, <1>2, <2>6, <2>7, <2>8 DEF place, n
<1>4. CASE \E d \in Entry : place = <<"next", d>>
  <2>1. PICK d \in Entry : place = <<"next", d>>
    BY <1>4
  <2>2. place[1] = "next" /\ place[2] = d /\ place[1] # "table"
    BY <2>1
  <2>3. /\ table' = table
        /\ next' = [[next EXCEPT ![d] = n] EXCEPT ![e] = NULL]
    BY <2>2 DEF Unlink
  <2>4. \A c \in Entry : (place = <<"next", c>>) <=> (c = d)
    BY <2>1, PlaceFacts
  <2>5. \A c \in Bucket : place # <<"table", c>>
    BY <2>1, PlaceFacts
  <2> HIDE DEF place, n
  <2>6. \A c \in Bucket : table'[c] = IF place = <<"table", c>> THEN n ELSE table[c]
    BY <1>0, <2>3, <2>5
  <2>7. \A c \in Entry :
          next'[c] = IF c = e THEN NULL
                     ELSE IF place = <<"next", c>> THEN n ELSE next[c]
    BY <1>0, <2>3, <2>4
  <2>8. /\ table' \in [Bucket -> Entry \cup {NULL}]
        /\ next' \in [Entry -> Entry \cup {NULL}]
    BY <1>0, <2>3
  <2> QED
    BY <1>0, <1>2, <2>6, <2>7, <2>8 DEF place, n
<1>5. (\E b \in Bucket : place = <<"table", b>>) \/ (\E d \in Entry : place = <<"next", d>>)
  BY DEF BucketInv, Linked, InTable
<1> QED
  BY <1>3, <1>4, <1>5

(* Unlinking an entry keeps the buckets well linked.                       *)
LEMMA UnlinkInv ==
  ASSUME TypeOK, BucketInv, NEW e \in InTable, Unlink(e),
         key' = [key EXCEPT ![e] = NULL]
  PROVE  InTable' = InTable \ {e} /\ BucketInv'
<1> DEFINE place == pthis[e]
           n     == next[e]
<1>1. /\ e \in Entry /\ n # e /\ place # NULL /\ NULL \notin Entry /\ place # <<"next", e>>
      /\ n \in Entry \cup {NULL}
      /\ n # NULL => n \in InTable /\ pthis[n] = <<"next", e>>
  <2>1. e \in Entry /\ place # NULL /\ NULL \notin Entry /\ n \in Entry \cup {NULL}
    BY PlaceFacts DEF InTable, TypeOK
  <2>2. n # e /\ place # <<"next", e>>
    BY NoLoop
  <2>3. n # NULL => n \in Entry /\ pthis[n] = <<"next", e>> /\ pthis[n] # NULL
    BY <2>1, PlaceFacts DEF BucketInv
  <2> QED
    BY <2>1, <2>2, <2>3 DEF InTable
<1>2. \A b \in Bucket : table'[b] = IF place = <<"table", b>> THEN n ELSE table[b]
  BY UnlinkPointers
<1>3. \A d \in Entry :
        next'[d] = IF d = e THEN NULL
                   ELSE IF place = <<"next", d>> THEN n ELSE next[d]
  BY UnlinkPointers
<1>4. \A x \in Entry :
        pthis'[x] = IF x = e THEN NULL ELSE IF x = n THEN place ELSE pthis[x]
  BY UnlinkPointers
<1>5. \A x \in Entry : x # e => key'[x] = key[x]
  BY DEF TypeOK
<1> HIDE DEF place, n
<1>6. InTable' = InTable \ {e}
  BY <1>1, <1>4 DEF InTable
<1>7. n # NULL => Hash[key[n]] = Hash[key[e]]
  <2> SUFFICES ASSUME n # NULL PROVE Hash[key[n]] = Hash[key[e]]
    OBVIOUS
  <2>1. n \in InTable /\ pthis[n] = <<"next", e>>
    BY <1>1
  <2>2. Linked(n)
    BY <2>1 DEF BucketInv
  <2> QED
    BY <2>1, <2>2, PlaceFacts DEF Linked
<1>8. \/ \E b \in Bucket : place = <<"table", b>> /\ table[b] = e /\ b = Hash[key[e]]
      \/ \E d \in InTable : /\ place = <<"next", d>> /\ next[d] = e /\ d # e
                            /\ Hash[key[d]] = Hash[key[e]]
  BY <1>1 DEF BucketInv, Linked, place
<1>9. InTable \subseteq Entry
  BY DEF InTable
<1>10. ASSUME NEW x \in InTable' PROVE Linked(x)'
  <2>0. x \in InTable /\ x # e /\ x \in Entry /\ key'[x] = key[x]
    BY <1>5, <1>6, <1>9
  <2>1. CASE x = n
    <3>0. pthis'[x] = place /\ Hash[key'[x]] = Hash[key[e]]
      BY <1>4, <1>7, <2>0, <2>1, PlaceFacts
    <3>1. CASE \E b \in Bucket : place = <<"table", b>> /\ table[b] = e /\ b = Hash[key[e]]
      BY <1>2, <2>1, <3>0, <3>1 DEF Linked
    <3>2. CASE \E d \in InTable : /\ place = <<"next", d>> /\ next[d] = e /\ d # e
                                  /\ Hash[key[d]] = Hash[key[e]]
      <4>1. PICK d \in InTable : /\ place = <<"next", d>> /\ next[d] = e /\ d # e
                                 /\ Hash[key[d]] = Hash[key[e]]
        BY <3>2
      <4>2. d \in InTable' /\ next'[d] = x /\ key'[d] = key[d]
        BY <1>3, <1>5, <1>6, <1>9, <2>1, <4>1
      <4> QED
        BY <3>0, <4>1, <4>2 DEF Linked
    <3> QED
      BY <1>8, <3>1, <3>2
  <2>2. CASE x # n
    <3>0. pthis'[x] = pthis[x] /\ Linked(x)
      BY <1>4, <2>0, <2>2 DEF BucketInv
    <3>1. CASE \E b \in Bucket : pthis[x] = <<"table", b>> /\ table[b] = x /\ b = Hash[key[x]]
      <4>1. PICK b \in Bucket : pthis[x] = <<"table", b>> /\ table[b] = x /\ b = Hash[key[x]]
        BY <3>1
      <4>2. place # <<"table", b>>
        BY <1>8, <2>0, <4>1, PlaceFacts
      <4>3. table'[b] = x
        BY <1>2, <4>1, <4>2
      <4> QED
        BY <2>0, <3>0, <4>1, <4>3 DEF Linked
    <3>2. CASE \E d \in InTable : /\ pthis[x] = <<"next", d>> /\ next[d] = x
                                  /\ Hash[key[d]] = Hash[key[x]]
      <4>1. PICK d \in InTable : /\ pthis[x] = <<"next", d>> /\ next[d] = x
                                 /\ Hash[key[d]] = Hash[key[x]]
        BY <3>2
      <4>2. d # e /\ d \in Entry
        BY <1>9, <2>2, <4>1 DEF n
      <4>3. place # <<"next", d>>
        BY <1>8, <2>0, <4>1, PlaceFacts
      <4>4. next'[d] = x /\ d \in InTable' /\ key'[d] = key[d]
        BY <1>3, <1>5, <1>6, <4>1, <4>2, <4>3
      <4> QED
        BY <2>0, <3>0, <4>1, <4>4 DEF Linked
    <3> QED
      BY <3>0, <3>1, <3>2 DEF Linked
  <2> QED
    BY <2>1, <2>2
<1>11. ASSUME NEW x \in Entry, x \notin InTable' PROVE next'[x] = NULL
  <2>1. CASE x = e
    BY <1>3, <2>1
  <2>2. CASE x # e
    <3>1. x \notin InTable /\ next[x] = NULL
      BY <1>6, <1>11, <2>2 DEF BucketInv
    <3>2. place # <<"next", x>>
      BY <1>8, <3>1, PlaceFacts
    <3> QED
      BY <1>3, <2>2, <3>1, <3>2
  <2> QED
    BY <2>1, <2>2
<1>12. ASSUME NEW b \in Bucket, table'[b] # NULL PROVE pthis'[table'[b]] = <<"table", b>>
  <2>1. CASE place = <<"table", b>>
    BY <1>1, <1>2, <1>4, <1>9, <1>12, <2>1
  <2>2. CASE place # <<"table", b>>
    <3>1. table'[b] = table[b] /\ pthis[table[b]] = <<"table", b>>
      BY <1>2, <1>12, <2>2 DEF BucketInv
    <3>2. table[b] \in Entry
      BY <1>12, <3>1 DEF TypeOK
    <3>3. table[b] # e /\ table[b] # n
      BY <1>1, <2>2, <3>1, <3>2, PlaceFacts DEF place
    <3> QED
      BY <1>4, <3>1, <3>2, <3>3
  <2> QED
    BY <2>1, <2>2
<1>13. ASSUME NEW d \in Entry, next'[d] # NULL PROVE pthis'[next'[d]] = <<"next", d>>
  <2>0. d # e
    BY <1>3, <1>13
  <2>1. CASE place = <<"next", d>>
    BY <1>1, <1>3, <1>4, <1>9, <1>13, <2>0, <2>1
  <2>2. CASE place # <<"next", d>>
    <3>1. next'[d] = next[d] /\ pthis[next[d]] = <<"next", d>>
      BY <1>3, <1>13, <2>0, <2>2 DEF BucketInv
    <3>2. next[d] \in Entry
      BY <1>13, <3>1 DEF TypeOK
    <3>3. next[d] # e /\ next[d] # n
      BY <1>1, <2>0, <2>2, <3>1, <3>2, PlaceFacts DEF place
    <3> QED
      BY <1>4, <3>1, <3>2, <3>3
  <2> QED
    BY <2>1, <2>2
<1>14. ASSUME NEW X \in SUBSET InTable', X # {}
       PROVE  \E x \in X : \A d \in X : pthis'[x] # <<"next", d>>
  <2>0. X \in SUBSET InTable /\ e \notin X
    BY <1>6
  <2>1. PICK x \in X : \A d \in X : pthis[x] # <<"next", d>>
    BY <1>14, <2>0 DEF BucketInv, Rooted
  <2>2. CASE x # n
    BY <1>4, <1>9, <2>0, <2>1, <2>2
  <2>3. CASE x = n /\ \A d \in X : place # <<"next", d>>
    BY <1>4, <1>9, <2>0, <2>3
  <2>4. CASE x = n /\ \E d \in X : place = <<"next", d>>
    <3> DEFINE Y == X \cup {e}
    <3>1. Y \in SUBSET InTable /\ Y # {}
      BY <2>0
    <3>2. PICK y \in Y : \A d \in Y : pthis[y] # <<"next", d>>
      BY <3>1 DEF BucketInv, Rooted
    <3>3. y # e
      BY <2>4, <3>2 DEF place
    <3>4. y \in X /\ y # n
      BY <1>1, <1>9, <2>0, <2>4, <3>2, <3>3
    <3>5. pthis'[y] = pthis[y]
      BY <1>4, <1>9, <2>0, <3>3, <3>4
    <3> QED
      BY <3>2, <3>4, <3>5
  <2> QED
    BY <2>2, <2>3, <2>4
<1>15. BucketInv'
  BY <1>10, <1>11, <1>12, <1>13, <1>14 DEF BucketInv, Rooted
<1> QED
  BY <1>6, <1>15

(* A new entry at the head of its bucket keeps the buckets well linked.    *)
LEMMA LinkInv ==
  ASSUME TypeOK, BucketInv, NEW e \in Entry, e \notin InTable, NEW b \in Bucket,
         b = Hash[key[e]],
         next' = [next EXCEPT ![e] = table[b]],
         table' = [table EXCEPT ![b] = e],
         pthis' = IF table[b] = NULL
                  THEN [pthis EXCEPT ![e] = <<"table", b>>]
                  ELSE [pthis EXCEPT ![e] = <<"table", b>>, ![table[b]] = <<"next", e>>],
         key' = key
  PROVE  /\ InTable' = InTable \cup {e} /\ BucketInv'
         /\ table' \in [Bucket -> Entry \cup {NULL}]
         /\ next' \in [Entry -> Entry \cup {NULL}]
         /\ pthis' \in [Entry -> Places \cup {NULL}]
<1> DEFINE h == table[b]
<1>0. /\ h \in Entry \cup {NULL} /\ NULL \notin Entry /\ InTable \subseteq Entry
      /\ table \in [Bucket -> Entry \cup {NULL}]
      /\ next \in [Entry -> Entry \cup {NULL}]
      /\ pthis \in [Entry -> Places \cup {NULL}]
  BY PlaceFacts DEF TypeOK, InTable
<1>1. h # NULL => h \in InTable /\ h # e /\ pthis[h] = <<"table", b>>
  BY <1>0, PlaceFacts DEF BucketInv, InTable
<1>2. \A c \in Bucket : table'[c] = IF c = b THEN e ELSE table[c]
  BY <1>0
<1>3. \A d \in Entry : next'[d] = IF d = e THEN h ELSE next[d]
  BY <1>0
<1>4. \A x \in Entry :
        pthis'[x] = IF x = e THEN <<"table", b>>
                    ELSE IF x = h THEN <<"next", e>> ELSE pthis[x]
  <2>1. CASE h = NULL
    BY <1>0, <2>1
  <2>2. CASE h # NULL
    BY <1>0, <1>1, <2>2
  <2> QED
    BY <2>1, <2>2
<1>5. /\ table' \in [Bucket -> Entry \cup {NULL}]
      /\ next' \in [Entry -> Entry \cup {NULL}]
  BY <1>0
<1>6. pthis' \in [Entry -> Places \cup {NULL}]
  BY <1>0, PlaceFacts
<1> HIDE DEF h
<1>7. InTable' = InTable \cup {e}
  BY <1>0, <1>1, <1>4, PlaceFacts DEF InTable
<1>8. ASSUME NEW x \in InTable' PROVE Linked(x)'
  <2>0. x \in InTable \cup {e} /\ x \in Entry
    BY <1>0, <1>7
  <2>1. CASE x = e
    BY <1>2, <1>4, <2>1 DEF Linked
  <2>2. CASE x = h /\ x # e
    <3>1. pthis'[x] = <<"next", e>> /\ next'[e] = x /\ e \in InTable'
      BY <1>3, <1>4, <1>7, <2>0, <2>2
    <3>2. Linked(x) /\ pthis[x] = <<"table", b>>
      BY <1>0, <1>1, <2>0, <2>2 DEF BucketInv
    <3>3. Hash[key[x]] = b
      BY <3>2, PlaceFacts DEF Linked
    <3> QED
      BY <3>1, <3>3 DEF Linked
  <2>3. CASE x # h /\ x # e
    <3>1. pthis'[x] = pthis[x] /\ Linked(x)
      BY <1>4, <2>0, <2>3 DEF BucketInv
    <3>2. CASE \E c \in Bucket : pthis[x] = <<"table", c>> /\ table[c] = x /\ c = Hash[key[x]]
      BY <1>2, <2>3, <3>1, <3>2 DEF Linked, h
    <3>3. CASE \E d \in InTable : /\ pthis[x] = <<"next", d>> /\ next[d] = x
                                  /\ Hash[key[d]] = Hash[key[x]]
      <4>1. PICK d \in InTable : /\ pthis[x] = <<"next", d>> /\ next[d] = x
                                 /\ Hash[key[d]] = Hash[key[x]]
        BY <3>3
      <4>2. d # e /\ d \in Entry /\ d \in InTable'
        BY <1>0, <1>7
      <4>3. next'[d] = x
        BY <1>3, <4>1, <4>2
      <4> QED
        BY <3>1, <4>1, <4>2, <4>3 DEF Linked
    <3> QED
      BY <3>1, <3>2, <3>3 DEF Linked
  <2> QED
    BY <2>1, <2>2, <2>3
<1>9. ASSUME NEW x \in Entry, x \notin InTable' PROVE next'[x] = NULL
  BY <1>3, <1>7, <1>9 DEF BucketInv
<1>10. ASSUME NEW c \in Bucket, table'[c] # NULL PROVE pthis'[table'[c]] = <<"table", c>>
  <2>1. CASE c = b
    BY <1>2, <1>4, <2>1
  <2>2. CASE c # b
    <3>1. table'[c] = table[c] /\ pthis[table[c]] = <<"table", c>> /\ table[c] \in Entry
      BY <1>0, <1>2, <1>10, <2>2 DEF BucketInv
    <3>2. table[c] # h /\ table[c] # e
      BY <1>0, <1>1, <2>2, <3>1, PlaceFacts DEF InTable
    <3> QED
      BY <1>4, <3>1, <3>2
  <2> QED
    BY <2>1, <2>2
<1>11. ASSUME NEW d \in Entry, next'[d] # NULL PROVE pthis'[next'[d]] = <<"next", d>>
  <2>1. CASE d = e
    BY <1>0, <1>1, <1>3, <1>4, <1>11, <2>1
  <2>2. CASE d # e
    <3>1. next'[d] = next[d] /\ pthis[next[d]] = <<"next", d>> /\ next[d] \in Entry
      BY <1>0, <1>3, <1>11, <2>2 DEF BucketInv
    <3>2. next[d] # h /\ next[d] # e
      BY <1>0, <1>1, <3>1, PlaceFacts DEF InTable
    <3> QED
      BY <1>4, <3>1, <3>2
  <2> QED
    BY <2>1, <2>2
<1>12. ASSUME NEW X \in SUBSET InTable', X # {}
       PROVE  \E x \in X : \A d \in X : pthis'[x] # <<"next", d>>
  <2>1. CASE e \in X
    <3>1. pthis'[e] = <<"table", b>>
      BY <1>4
    <3>2. \A d \in X : pthis'[e] # <<"next", d>>
      BY <3>1, PlaceFacts
    <3> QED
      BY <2>1, <3>2
  <2>2. CASE e \notin X
    <3>1. X \in SUBSET InTable
      BY <1>7, <2>2
    <3>2. PICK x \in X : \A d \in X : pthis[x] # <<"next", d>>
      BY <1>12, <3>1 DEF BucketInv, Rooted
    <3>3. x \in Entry /\ x # e
      BY <1>0, <2>2, <3>1
    <3>4. \A d \in X : <<"next", e>> # <<"next", d>>
      BY <2>2, PlaceFacts
    <3>5. pthis'[x] \in {pthis[x], <<"next", e>>}
      BY <1>4, <3>3
    <3> QED
      BY <3>2, <3>4, <3>5
  <2> QED
    BY <2>1, <2>2
<1>13. BucketInv'
  BY <1>8, <1>9, <1>10, <1>11, <1>12 DEF BucketInv, Rooted
<1> QED
  BY <1>5, <1>6, <1>7, <1>13

-----------------------------------------------------------------------------
(* An entry brings in its weight.                                          *)
LEMMA UnitsOfOne ==
  ASSUME NEW e, NEW n \in Nat
  PROVE  IsFiniteSet({e} \X (1..n)) /\ Cardinality({e} \X (1..n)) = n
<1> DEFINE f == [i \in 1..n |-> <<e, i>>]
           T == {e} \X (1..n)
<1>1. f \in [1..n -> T] /\ \A i, j \in 1..n : f[i] = f[j] => i = j
  OBVIOUS
<1>2. \A t \in T : \E i \in 1..n : f[i] = t
  OBVIOUS
<1> HIDE DEF f, T
<1>3. f \in Bijection(1..n, T)
  BY <1>1, <1>2 DEF Bijection, Injection, Surjection, IsInjective
<1>4. ExistsBijection(1..n, T)
  BY <1>3 DEF ExistsBijection
<1>5. IsFiniteSet(1..n) /\ Cardinality(1..n) = n
  BY FS_Interval
<1> QED
  BY <1>4, <1>5, FS_Bijection DEF T

(* And so the units of one more entry add up.                              *)
LEMMA UnitsOfMore ==
  ASSUME NEW w, NEW E, NEW e, e \notin E, w[e] \in Nat, IsFiniteSet(Units(w, E))
  PROVE  /\ IsFiniteSet(Units(w, E \cup {e}))
         /\ Cardinality(Units(w, E \cup {e})) = Cardinality(Units(w, E)) + w[e]
<1> DEFINE U == Units(w, E)
           V == {e} \X (1..w[e])
<1>1. Units(w, E \cup {e}) = U \cup V /\ U \cap V = {}
  BY DEF Units
<1>2. IsFiniteSet(V) /\ Cardinality(V) = w[e]
  BY UnitsOfOne
<1>3. Cardinality(U) \in Nat
  BY FS_CardinalityType
<1> HIDE DEF U, V
<1>4. /\ IsFiniteSet(U \cup V)
      /\ Cardinality(U \cup V) = Cardinality(U) + Cardinality(V) - Cardinality(U \cap V)
  BY <1>2, FS_Union DEF U
<1>5. Cardinality(U \cap V) = 0
  BY <1>1, FS_EmptySet
<1>6. Cardinality(U \cup V) = Cardinality(U) + w[e]
  BY <1>2, <1>3, <1>4, <1>5
<1> QED
  BY <1>1, <1>4, <1>6 DEF U

(* The units of one entry less.                                            *)
LEMMA UnitsOfLess ==
  ASSUME NEW w, NEW v, NEW E, NEW e \in E, w[e] \in Nat, IsFiniteSet(Units(w, E)),
         \A x \in E : x # e => v[x] = w[x]
  PROVE  /\ IsFiniteSet(Units(v, E \ {e}))
         /\ Cardinality(Units(v, E \ {e})) = Cardinality(Units(w, E)) - w[e]
         /\ Cardinality(Units(v, E \ {e})) \in Nat
<1> DEFINE D == E \ {e}
<1>1. Units(v, D) = Units(w, D) /\ Units(w, D) \subseteq Units(w, E)
  BY DEF Units
<1>2. IsFiniteSet(Units(w, D))
  BY <1>1, FS_Subset
<1>3. D \cup {e} = E /\ e \notin D
  OBVIOUS
<1> HIDE DEF D
<1>4. Cardinality(Units(w, E)) = Cardinality(Units(w, D)) + w[e]
  BY <1>2, <1>3, UnitsOfMore
<1>5. Cardinality(Units(w, D)) \in Nat
  BY <1>2, FS_CardinalityType
<1>6. Cardinality(Units(w, D)) = Cardinality(Units(w, E)) - w[e]
  BY <1>4, <1>5
<1> QED
  BY <1>1, <1>2, <1>5, <1>6 DEF D

-----------------------------------------------------------------------------
(* The pointers of a link field that is on no list may be cleared.         *)
LEMMA ClearRing ==
  ASSUME NEW Node, NEW R \in ListState(Node), NEW h, NEW Q \in SUBSET Node,
         Ring(R, h, Q), NEW e \in Node, e \notin Q
  PROVE  LET M == [next |-> [R.next EXCEPT ![e] = NULL],
                   prev |-> [R.prev EXCEPT ![e] = NULL]]
         IN  M \in ListState(Node) /\ Ring(M, h, Q)
<1> DEFINE M == [next |-> [R.next EXCEPT ![e] = NULL],
                 prev |-> [R.prev EXCEPT ![e] = NULL]]
<1>1. M \in ListState(Node)
  BY DEF ListState
<1>2. \A x \in Q : M.next[x] = R.next[x] /\ M.prev[x] = R.prev[x]
  BY DEF ListState
<1> HIDE DEF M
<1>3. Ring(M, h, Q)
  BY <1>2 DEF Ring, Circular
<1> QED
  BY <1>1, <1>3 DEF M

(* What a handler has established when it calls stx_cache_entry_delete for *)
(* e, with the lru list L and the reference counts refs.                   *)
Ready(e, L, refs) ==
  /\ TypeOK /\ BucketInv /\ SizeInv /\ NoDuplicates
  /\ InTable \subseteq allocated
  /\ \A x \in allocated : key[x] \in Key /\ weight[x] \in Weights
  /\ e \in allocated /\ L \in ListState(LNode) /\ refs \in [Entry -> Nat]
  /\ Ring(L, LRU, {LRU} \cup {x \in InTable : refs[x] = 0})
  /\ \A x \in Entry : refs[x] > 0 => x \in InTable
  /\ \A x \in Entry : pending[x] /\ x # e => refs[x] > 0

(* What it leaves alone.                                                   *)
OthersKept(e) ==
  \A x \in Entry : x # e => /\ key'[x] = key[x] /\ weight'[x] = weight[x]
                            /\ pending'[x] = pending[x]
                            /\ x \in allocated' <=> x \in allocated
                            /\ x \in InTable' <=> x \in InTable

(* The entry is in use: it will be deleted later.                          *)
LEMMA DeleteInUse ==
  ASSUME NEW e, NEW STATE L, NEW STATE refs, Ready(e, L, refs), held' = refs, op' \in Ops,
         Delete(e, L, refs), refs[e] > 0
  PROVE  /\ CacheOk' /\ OthersKept(e)
         /\ InTable' = InTable /\ pending'[e] = TRUE /\ curSize' = curSize
         /\ curWeight' = curWeight /\ key' = key
<1>1. /\ pending' = [pending EXCEPT ![e] = TRUE] /\ lru' = L /\ refCount' = refs
      /\ UNCHANGED <<allocated, key, weight, table, next, pthis, curSize, curWeight>>
  BY DEF Delete, InUse, entryVars, chainVars
<1>2. e \in Entry /\ pending \in [Entry -> BOOLEAN]
  BY DEF Ready, TypeOK
<1>3. pending'[e] = TRUE /\ \A x \in Entry : x # e => pending'[x] = pending[x]
  BY <1>1, <1>2
<1>4. pending' \in [Entry -> BOOLEAN]
  BY <1>1, <1>2
<1>5. InTable' = InTable
  BY <1>1 DEF InTable
<1>6. TypeOK'
  BY <1>1, <1>4 DEF Ready, TypeOK, Ops
<1>7. BucketInv'
  BY <1>1, <1>5 DEF Ready, BucketInv, Linked, Rooted
<1>8. RefInv'
  <2>1. InTable' \subseteq allocated' /\ refCount' = held'
    BY <1>1, <1>5 DEF Ready
  <2>2. \A x \in allocated' : key'[x] \in Key /\ weight'[x] \in Weights
    BY <1>1 DEF Ready
  <2>3. \A x \in Entry : held'[x] > 0 => x \in InTable'
    BY <1>5 DEF Ready
  <2>4. \A x \in Entry : pending'[x] => held'[x] > 0
    BY <1>3 DEF Ready
  <2> QED
    BY <2>1, <2>2, <2>3, <2>4 DEF RefInv
<1>9. LruWellFormed'
  BY <1>1, <1>5 DEF Ready, LruWellFormed
<1>10. SizeInv'
  BY <1>1, <1>5 DEF Ready, SizeInv, CapacityKept
<1>11. NoDuplicates'
  <2>1. InTable \subseteq Entry
    BY DEF InTable
  <2> QED
    BY <1>1, <1>3, <1>5, <2>1 DEF Ready, NoDuplicates
<1>12. OthersKept(e)
  BY <1>1, <1>3, <1>5 DEF OthersKept
<1> QED
  BY <1>1, <1>3, <1>5, <1>6, <1>7, <1>8, <1>9, <1>10, <1>11, <1>12 DEF CacheOk

(* What Free does to the entries.                                          *)
LEMMA FreeEffect ==
  ASSUME NEW e, NEW STATE L, NEW STATE refs, Ready(e, L, refs), Free(e, refs), refs[e] = 0
  PROVE  /\ allocated' = allocated \ {e} /\ refCount' = refs
         /\ \A x \in Entry : x # e => /\ key'[x] = key[x] /\ weight'[x] = weight[x]
                                      /\ pending'[x] = pending[x]
         /\ pending'[e] = FALSE
         /\ key' \in [Entry -> Key \cup {NULL}] /\ weight' \in [Entry -> Weights \cup {0}]
         /\ pending' \in [Entry -> BOOLEAN]
<1>1. /\ e \in Entry /\ refs \in [Entry -> Nat] /\ key \in [Entry -> Key \cup {NULL}]
      /\ weight \in [Entry -> Weights \cup {0}] /\ pending \in [Entry -> BOOLEAN]
  BY DEF Ready, TypeOK
<1>2. refCount' = refs
  BY <1>1 DEF Free
<1>3. \A x \in Entry : x # e => key'[x] = key[x]
  BY <1>1 DEF Free
<1>4. \A x \in Entry : x # e => weight'[x] = weight[x]
  BY <1>1 DEF Free
<1>5. pending'[e] = FALSE /\ \A x \in Entry : x # e => pending'[x] = pending[x]
  BY <1>1 DEF Free
<1>6. key' \in [Entry -> Key \cup {NULL}]
  BY <1>1 DEF Free
<1>7. weight' \in [Entry -> Weights \cup {0}]
  BY <1>1 DEF Free
<1>8. pending' \in [Entry -> BOOLEAN]
  BY <1>1 DEF Free
<1> QED
  BY <1>2, <1>3, <1>4, <1>5, <1>6, <1>7, <1>8 DEF Free

(* The references and the keys after an entry that is not in use has gone. *)
LEMMA FreeKeeps ==
  ASSUME NEW e, NEW STATE L, NEW STATE refs, Ready(e, L, refs), Free(e, refs), refs[e] = 0,
         held' = refs, InTable' = InTable \ {e}
  PROVE  RefInv' /\ NoDuplicates' /\ OthersKept(e)
<1>1. /\ allocated' = allocated \ {e} /\ refCount' = refs
      /\ \A x \in Entry : x # e => /\ key'[x] = key[x] /\ weight'[x] = weight[x]
                                   /\ pending'[x] = pending[x]
      /\ pending'[e] = FALSE
  BY FreeEffect
<1>2. allocated \subseteq Entry /\ InTable \subseteq allocated
  BY DEF Ready, TypeOK
<1>3. RefInv'
  <2>1. InTable' \subseteq allocated' /\ refCount' = held'
    BY <1>1, <1>2
  <2>2. \A x \in allocated' : key'[x] \in Key /\ weight'[x] \in Weights
    BY <1>1, <1>2 DEF Ready
  <2>3. \A x \in Entry : held'[x] > 0 => x \in InTable'
    BY DEF Ready
  <2>4. \A x \in Entry : pending'[x] => held'[x] > 0
    BY <1>1 DEF Ready
  <2> QED
    BY <2>1, <2>2, <2>3, <2>4 DEF RefInv
<1>4. NoDuplicates'
  <2>1. ASSUME NEW x \in InTable', NEW y \in InTable', key'[x] = key'[y],
               ~pending'[x], ~pending'[y]
        PROVE  x = y
    BY <1>1, <1>2, <2>1 DEF Ready, NoDuplicates
  <2> QED
    BY <2>1 DEF NoDuplicates
<1>5. OthersKept(e)
  BY <1>1 DEF OthersKept
<1> QED
  BY <1>3, <1>4, <1>5

(* An entry that was never inserted is freed.                              *)
LEMMA DeleteFresh ==
  ASSUME NEW e, NEW STATE L, NEW STATE refs, Ready(e, L, refs), held' = refs, op' \in Ops,
         Delete(e, L, refs), refs[e] = 0, e \notin InTable
  PROVE  /\ CacheOk' /\ OthersKept(e)
         /\ InTable' = InTable /\ curSize' = curSize /\ curWeight' = curWeight
<1>1. e \in Entry /\ pthis[e] = NULL
  BY DEF Ready, TypeOK, InTable
<1>2. /\ Free(e, refs) /\ lru' = L
      /\ UNCHANGED <<table, next, pthis, curSize, curWeight>>
  BY <1>1 DEF Delete, InUse, chainVars
<1>3. InTable' = InTable /\ InTable' = InTable \ {e}
  BY <1>2 DEF InTable
<1>4. /\ allocated' = allocated \ {e} /\ refCount' = refs
      /\ \A x \in Entry : x # e => key'[x] = key[x] /\ weight'[x] = weight[x]
      /\ key' \in [Entry -> Key \cup {NULL}] /\ weight' \in [Entry -> Weights \cup {0}]
      /\ pending' \in [Entry -> BOOLEAN]
  BY <1>2, FreeEffect
<1>5. TypeOK'
  BY <1>2, <1>4 DEF Ready, TypeOK, Ops
<1>6. InTable \subseteq Entry
  BY DEF InTable
<1>7. BucketInv'
  <2>1. ASSUME NEW x \in InTable PROVE Linked(x)'
    <3>1. Linked(x) /\ key'[x] = key[x] /\ \A d \in InTable : key'[d] = key[d]
      BY <1>4, <1>6 DEF Ready, BucketInv
    <3> QED
      BY <1>2, <1>3, <3>1 DEF Linked
  <2>2. BucketInv
    BY DEF Ready
  <2>3. Rooted'
    BY <1>2, <1>3, <2>2 DEF BucketInv, Rooted
  <2>4. /\ \A d \in Entry : d \notin InTable' => next'[d] = NULL
        /\ \A b \in Bucket : table'[b] # NULL => pthis'[table'[b]] = <<"table", b>>
        /\ \A d \in Entry : next'[d] # NULL => pthis'[next'[d]] = <<"next", d>>
    BY <1>2, <1>3, <2>2 DEF BucketInv
  <2>5. \A d \in InTable' : Linked(d)'
    BY <1>3, <2>1
  <2> QED
    BY <2>3, <2>4, <2>5 DEF BucketInv
<1>8. LruWellFormed'
  BY <1>2, <1>3, <1>4 DEF Ready, LruWellFormed
<1>9. SizeInv'
  <2>1. Units(weight', InTable) = Units(weight, InTable)
    BY <1>4, <1>6 DEF Units
  <2> QED
    BY <1>2, <1>3, <2>1 DEF Ready, SizeInv, CapacityKept
<1>10. RefInv' /\ NoDuplicates' /\ OthersKept(e)
  BY <1>2, <1>3, FreeKeeps
<1> QED
  BY <1>2, <1>3, <1>5, <1>7, <1>8, <1>9, <1>10 DEF CacheOk

(* An entry of the table that nobody uses is unlinked and freed.           *)
LEMMA DeleteUnused ==
  ASSUME NEW e, NEW STATE L, NEW STATE refs, Ready(e, L, refs), held' = refs, op' \in Ops,
         Delete(e, L, refs), refs[e] = 0, e \in InTable
  PROVE  /\ CacheOk' /\ OthersKept(e)
         /\ InTable' = InTable \ {e} /\ curSize' = curSize - 1 /\ curWeight' <= curWeight
<1> DEFINE Q == {LRU} \cup {x \in InTable : refs[x] = 0}
           R == RemoveLink(L, e)
<1>1. /\ e \in Entry /\ pthis[e] # NULL /\ TypeOK /\ BucketInv /\ InTable \subseteq Entry
      /\ L \in ListState(LNode) /\ Ring(L, LRU, Q) /\ Q \in SUBSET LNode
      /\ NULL \notin LNode /\ e \in Q /\ e # LRU /\ e \in LNode
  BY PlaceFacts DEF Ready, InTable, LNode
<1>2. /\ Free(e, refs) /\ Unlink(e)
      /\ lru' = [next |-> [R.next EXCEPT ![e] = NULL],
                 prev |-> [R.prev EXCEPT ![e] = NULL]]
  BY <1>1 DEF Delete, InUse, RemoveLru
<1>3. InTable' = InTable \ {e} /\ BucketInv'
  <2>1. key' = [key EXCEPT ![e] = NULL]
    BY <1>2 DEF Free
  <2> QED
    BY <1>1, <1>2, <2>1, UnlinkInv
<1>4. /\ allocated' = allocated \ {e} /\ refCount' = refs
      /\ \A x \in Entry : x # e => key'[x] = key[x] /\ weight'[x] = weight[x]
      /\ key' \in [Entry -> Key \cup {NULL}] /\ weight' \in [Entry -> Weights \cup {0}]
      /\ pending' \in [Entry -> BOOLEAN]
  BY <1>2, FreeEffect
<1>5. /\ table' \in [Bucket -> Entry \cup {NULL}]
      /\ next' \in [Entry -> Entry \cup {NULL}]
      /\ pthis' \in [Entry -> Places \cup {NULL}]
  BY <1>1, <1>2, UnlinkPointers
<1> HIDE DEF Q, R
<1>6. R \in ListState(LNode) /\ Ring(R, LRU, Q \ {e})
  BY <1>1, RemoveType, RemoveRing DEF R
<1>7. lru' \in ListState(LNode) /\ Ring(lru', LRU, Q \ {e})
  BY <1>1, <1>2, <1>6, ClearRing
<1>8. LruWellFormed'
  <2>1. Q \ {e} = {LRU} \cup {x \in InTable' : refCount'[x] = 0}
    BY <1>1, <1>3, <1>4 DEF Q
  <2> QED
    BY <1>7, <2>1 DEF LruWellFormed
<1>9. weight[e] \in Nat /\ weight[e] > 0
  <2>1. weight[e] \in Weights
    BY DEF Ready
  <2>2. Weights \subseteq Nat \ {0}
    BY LruAssumption
  <2>3. weight[e] \in Nat \ {0}
    BY <2>1, <2>2
  <2> QED
    BY <2>3
<1>10. /\ IsFiniteSet(InTable \ {e})
       /\ Cardinality(InTable \ {e}) = Cardinality(InTable) - 1
       /\ Cardinality(InTable \ {e}) \in Nat
  <2>1. IsFiniteSet(InTable)
    BY DEF Ready, SizeInv
  <2> QED
    BY <2>1, FS_RemoveElement, FS_CardinalityType
<1>11. /\ IsFiniteSet(Units(weight', InTable \ {e}))
       /\ Cardinality(Units(weight', InTable \ {e}))
            = Cardinality(Units(weight, InTable)) - weight[e]
       /\ Cardinality(Units(weight', InTable \ {e})) \in Nat
  <2>1. IsFiniteSet(Units(weight, InTable))
    BY DEF Ready, SizeInv
  <2>2. \A x \in InTable : x # e => weight'[x] = weight[x]
    BY <1>1, <1>4
  <2> QED
    BY <1>9, <2>1, <2>2, UnitsOfLess
<1>12. curSize' = curSize - 1 /\ curWeight' = curWeight - weight[e]
  BY <1>2 DEF Unlink, WeightWithout
<1>13. /\ curSize = Cardinality(InTable) /\ curWeight = Cardinality(Units(weight, InTable))
       /\ curSize <= MaxSize /\ curWeight <= MaxWeight /\ curSize \in Nat /\ curWeight \in Nat
  BY DEF Ready, SizeInv, CapacityKept, TypeOK
<1>14. /\ curSize' \in Nat /\ curWeight' \in Nat /\ curWeight' <= curWeight
       /\ curSize' <= MaxSize /\ curWeight' <= MaxWeight
  BY <1>9, <1>10, <1>11, <1>12, <1>13, LruAssumption
<1>15. SizeInv'
  BY <1>3, <1>10, <1>11, <1>12, <1>13, <1>14 DEF SizeInv, CapacityKept
<1>16. TypeOK'
  BY <1>1, <1>4, <1>5, <1>7, <1>14 DEF Ready, TypeOK, Ops
<1>17. RefInv' /\ NoDuplicates' /\ OthersKept(e)
  BY <1>2, <1>3, FreeKeeps
<1> QED
  BY <1>3, <1>8, <1>12, <1>14, <1>15, <1>16, <1>17 DEF CacheOk

-----------------------------------------------------------------------------
(* The walk along a bucket meets the entries of the table whose keys hash  *)
(* to it, and no others.                                                   *)
LEMMA ChainFacts ==
  ASSUME TypeOK, BucketInv, NEW b \in Bucket
  PROVE  Chain(b) = {e \in InTable : Hash[key[e]] = b}
<1> DEFINE B == {e \in InTable : Hash[key[e]] = b}
<1>0. InTable \subseteq Entry /\ NULL \notin Entry /\ table[b] \in Entry \cup {NULL}
      /\ \A e \in Entry : next[e] \in Entry \cup {NULL}
  BY PlaceFacts DEF InTable, TypeOK
<1>1. ASSUME NEW S \in SUBSET Entry, table[b] \in S \cup {NULL},
             \A m \in S : next[m] \in S \cup {NULL}
      PROVE  B \subseteq S
  <2> SUFFICES ASSUME B \ S # {} PROVE FALSE
    OBVIOUS
  <2>1. (B \ S) \in SUBSET InTable
    OBVIOUS
  <2>2. PICK x \in B \ S : \A d \in B \ S : pthis[x] # <<"next", d>>
    BY <2>1 DEF BucketInv, Rooted
  <2>3. x \in InTable /\ Hash[key[x]] = b /\ x \notin S /\ x # NULL
    BY <1>0, <2>2
  <2>4. Linked(x)
    BY <2>3 DEF BucketInv
  <2>5. ~\E c \in Bucket : pthis[x] = <<"table", c>> /\ table[c] = x /\ c = Hash[key[x]]
    BY <1>1, <2>3
  <2>6. PICK d \in InTable : /\ pthis[x] = <<"next", d>> /\ next[d] = x
                             /\ Hash[key[d]] = Hash[key[x]]
    BY <2>4, <2>5 DEF Linked
  <2>7. d \in S
    BY <2>2, <2>3, <2>6
  <2> QED
    BY <1>1, <2>3, <2>6, <2>7
<1>2. table[b] # NULL => table[b] \in B
  <2> SUFFICES ASSUME table[b] # NULL PROVE table[b] \in B
    OBVIOUS
  <2>1. table[b] \in Entry /\ pthis[table[b]] = <<"table", b>>
    BY <1>0 DEF BucketInv
  <2>2. table[b] \in InTable
    BY <2>1, PlaceFacts DEF InTable
  <2>3. Linked(table[b])
    BY <2>2 DEF BucketInv
  <2>4. Hash[key[table[b]]] = b
    BY <2>1, <2>3, PlaceFacts DEF Linked
  <2> QED
    BY <2>2, <2>4
<1>3. \A m \in B : next[m] \in B \cup {NULL}
  <2> SUFFICES ASSUME NEW m \in B, next[m] # NULL PROVE next[m] \in B
    OBVIOUS
  <2>1. next[m] \in Entry /\ pthis[next[m]] = <<"next", m>>
    BY <1>0 DEF BucketInv
  <2>2. next[m] \in InTable
    BY <1>0, <2>1, PlaceFacts DEF InTable
  <2>3. Linked(next[m])
    BY <2>2 DEF BucketInv
  <2>4. Hash[key[next[m]]] = b
    BY <2>1, <2>3, PlaceFacts DEF Linked
  <2> QED
    BY <2>2, <2>4
<1>4. B \in SUBSET Entry
  BY <1>0
<1> HIDE DEF B
<1>5. CASE table[b] = NULL
  <2>1. B = {}
    <3> DEFINE S == {}
    <3>1. S \in SUBSET Entry /\ table[b] \in S \cup {NULL}
      BY <1>5
    <3>2. \A m \in S : next[m] \in S \cup {NULL}
      OBVIOUS
    <3> HIDE DEF S
    <3>3. B \subseteq S
      BY <1>1, <3>1, <3>2
    <3> QED
      BY <3>3 DEF S
  <2> QED
    BY <1>5, <2>1 DEF Chain, From, B
<1>6. CASE table[b] # NULL
  <2>1. Chain(b) = {n \in Entry : \A S \in SUBSET Entry :
                      table[b] \in S /\ (\A m \in S : next[m] \in S \cup {NULL}) => n \in S}
    BY <1>6 DEF Chain, From, Reach
  <2>2. B \subseteq Chain(b)
    BY <1>1, <1>4, <2>1
  <2>3. Chain(b) \subseteq B
    BY <1>2, <1>3, <1>4, <1>6, <2>1
  <2> QED
    BY <2>2, <2>3 DEF B
<1> QED
  BY <1>5, <1>6

(* What a look-up of a key finds: its entry, if there is one that is not   *)
(* to be deleted.                                                          *)
LEMMA FoundFacts ==
  ASSUME TypeOK, BucketInv, NoDuplicates, NEW k \in Key
  PROVE  Found(k) = {e \in InTable : ~pending[e] /\ key[e] = k}
<1> DEFINE H == {e \in InTable : ~pending[e] /\ key[e] = k}
<1>1. Hash[k] \in Bucket
  BY LruAssumption
<1>2. {e \in Chain(Hash[k]) : Matches(e, k)} = H
  BY <1>1, ChainFacts DEF Matches
<1>3. \A e \in Entry : e \in From(e)
  BY PlaceFacts DEF From, Reach
<1>4. \A d, e \in H : d = e
  BY DEF NoDuplicates
<1>5. H \subseteq Entry
  BY DEF InTable
<1> HIDE DEF H
<1>6. Found(k) = {e \in H : H \subseteq From(e)}
  BY <1>2 DEF Found
<1>7. \A e \in H : H \subseteq From(e)
  BY <1>3, <1>4, <1>5
<1> QED
  BY <1>6, <1>7 DEF H

(* A handler that has not touched the list or the counts may delete.       *)
LEMMA ReadyNow ==
  ASSUME CacheOk, NEW e \in allocated
  PROVE  Ready(e, lru, refCount) /\ refCount = held
<1>1. refCount = held
  BY DEF CacheOk, RefInv
<1>2. TypeOK /\ BucketInv /\ SizeInv /\ NoDuplicates /\ LruWellFormed
  BY DEF CacheOk
<1>3. lru \in ListState(LNode) /\ refCount \in [Entry -> Nat]
  BY <1>2 DEF TypeOK
<1>4. Ring(lru, LRU, {LRU} \cup {x \in InTable : refCount[x] = 0})
  BY <1>2 DEF LruWellFormed
<1>5. /\ InTable \subseteq allocated
      /\ \A x \in allocated : key[x] \in Key /\ weight[x] \in Weights
      /\ \A x \in Entry : refCount[x] > 0 => x \in InTable
      /\ \A x \in Entry : pending[x] => refCount[x] > 0
  BY <1>1 DEF CacheOk, RefInv
<1> QED
  BY <1>1, <1>2, <1>3, <1>4, <1>5 DEF Ready

(* stx_cache_entry_delete, whatever the state of the entry.                *)
LEMMA DeleteInv ==
  ASSUME CacheOk, NEW e \in allocated, held' = held, op' \in Ops,
         Delete(e, lru, refCount)
  PROVE  /\ CacheOk' /\ OthersKept(e)
         /\ curSize' <= curSize /\ curWeight' <= curWeight
         /\ InTable' \subseteq InTable
         /\ e \in InTable' => pending'[e] /\ key' = key
         /\ e \in InTable /\ refCount[e] = 0 => curSize' = curSize - 1
<1>1. Ready(e, lru, refCount) /\ held' = refCount
  BY ReadyNow
<1>2. curSize \in Nat /\ curWeight \in Nat /\ refCount[e] \in Nat
  BY DEF CacheOk, TypeOK
<1>3. CASE refCount[e] > 0
  <2>1. /\ CacheOk' /\ OthersKept(e)
        /\ InTable' = InTable /\ pending'[e] = TRUE /\ curSize' = curSize
        /\ curWeight' = curWeight /\ key' = key
    BY <1>1, <1>3, DeleteInUse
  <2>2. curSize' <= curSize /\ curWeight' <= curWeight
    BY <1>2, <2>1
  <2> QED
    BY <1>3, <2>1, <2>2
<1>4. CASE refCount[e] = 0 /\ e \notin InTable
  BY <1>1, <1>2, <1>4, DeleteFresh
<1>5. CASE refCount[e] = 0 /\ e \in InTable
  <2>1. /\ CacheOk' /\ OthersKept(e)
        /\ InTable' = InTable \ {e} /\ curSize' = curSize - 1 /\ curWeight' <= curWeight
    BY <1>1, <1>5, DeleteUnused
  <2> QED
    BY <1>2, <2>1
<1> QED
  BY <1>2, <1>3, <1>4, <1>5

-----------------------------------------------------------------------------
(* The call with a loop that is being executed, as it goes on.             *)
LEMMA OpFacts ==
  /\ NoOp \in Ops /\ NoOp.step = "none"
  /\ \A e \in Entry : LET q == [NoOp EXCEPT !.step = "weigh", !.entry = e]
                      IN  q \in Ops /\ q.step = "weigh" /\ q.entry = e
  /\ \A o \in Ops, s \in {"match", "link"} :
       LET q == [o EXCEPT !.step = s]
       IN  q \in Ops /\ q.step = s /\ q.entry = o.entry
<1>1. 0 \in Bucket
  BY LruAssumption DEF Bucket
<1>2. NoOp \in Ops /\ NoOp.step = "none"
  BY <1>1 DEF NoOp, Ops
<1>3. \A e \in Entry : LET q == [NoOp EXCEPT !.step = "weigh", !.entry = e]
                       IN  q \in Ops /\ q.step = "weigh" /\ q.entry = e
  BY <1>1 DEF NoOp, Ops
<1>4. \A o \in Ops, s \in {"match", "link"} :
        LET q == [o EXCEPT !.step = s]
        IN  q \in Ops /\ q.step = s /\ q.entry = o.entry
  BY DEF Ops
<1> QED
  BY <1>2, <1>3, <1>4

(* Between calls nothing is left to do.                                    *)
LEMMA IdleOp ==
  ASSUME op' = NoOp
  PROVE  OpInv' /\ op' \in Ops
<1>1. op' \in Ops /\ op'.step = "none"
  BY OpFacts
<1> QED
  BY <1>1 DEF OpInv

(* A step that changes op only.                                            *)
LEMMA OpStep ==
  ASSUME CacheOk, op' \in Ops,
         UNCHANGED <<allocated, entryVars, chainVars, refCount, pending, lru, held>>
  PROVE  CacheOk'
<1>1. UNCHANGED <<allocated, key, weight, table, next, pthis, curSize, curWeight,
                  refCount, pending, lru, held>>
  BY DEF entryVars, chainVars
<1>2. InTable' = InTable
  BY <1>1 DEF InTable
<1>3. TypeOK'
  BY <1>1 DEF CacheOk, TypeOK, Ops
<1>4. BucketInv'
  BY <1>1, <1>2 DEF CacheOk, BucketInv, Linked, Rooted
<1>5. RefInv' /\ LruWellFormed' /\ NoDuplicates'
  BY <1>1, <1>2 DEF CacheOk, RefInv, LruWellFormed, NoDuplicates
<1>6. SizeInv'
  BY <1>1, <1>2 DEF CacheOk, SizeInv, CapacityKept
<1> QED
  BY <1>3, <1>4, <1>5, <1>6 DEF CacheOk

(* stx_cache_entry_create.                                                 *)
LEMMA CreateInv ==
  ASSUME LruInv, NEW k \in Key, NEW w \in Weights, EntryCreate(k, w)
  PROVE  LruInv'
<1>1. PICK e \in Entry \ allocated :
        /\ allocated' = allocated \cup {e}
        /\ key' = [key EXCEPT ![e] = k] /\ weight' = [weight EXCEPT ![e] = w]
  BY DEF EntryCreate
<1>2. /\ op' = NoOp
      /\ UNCHANGED <<table, next, pthis, curSize, curWeight, refCount, pending, lru, held>>
  BY DEF EntryCreate, Idle, chainVars
<1>3. OpInv' /\ op' \in Ops
  BY <1>2, IdleOp
<1>4. TypeOK /\ BucketInv /\ RefInv /\ LruWellFormed /\ SizeInv /\ NoDuplicates
  BY DEF LruInv, CacheOk
<1>5. InTable' = InTable /\ InTable \subseteq Entry /\ e \notin InTable
  BY <1>1, <1>2, <1>4 DEF InTable, RefInv
<1>6. \A x \in Entry : /\ key'[x] = IF x = e THEN k ELSE key[x]
                       /\ weight'[x] = IF x = e THEN w ELSE weight[x]
  BY <1>1, <1>4 DEF TypeOK
<1>7. TypeOK'
  <2>1. key' \in [Entry -> Key \cup {NULL}]
    BY <1>1, <1>4 DEF TypeOK
  <2>2. weight' \in [Entry -> Weights \cup {0}]
    BY <1>1, <1>4 DEF TypeOK
  <2> QED
    BY <1>1, <1>2, <1>3, <1>4, <2>1, <2>2 DEF TypeOK, Ops
<1>8. BucketInv'
  <2>1. ASSUME NEW x \in InTable PROVE Linked(x)'
    <3>1. Linked(x) /\ key'[x] = key[x] /\ \A d \in InTable : key'[d] = key[d]
      BY <1>4, <1>5, <1>6 DEF BucketInv
    <3> QED
      BY <1>2, <1>5, <3>1 DEF Linked
  <2> QED
    BY <1>2, <1>4, <1>5, <2>1 DEF BucketInv, Rooted
<1>9. RefInv'
  <2>1. \A x \in allocated' : key'[x] \in Key /\ weight'[x] \in Weights
    BY <1>1, <1>4, <1>6 DEF RefInv, TypeOK
  <2> QED
    BY <1>1, <1>2, <1>4, <1>5, <2>1 DEF RefInv
<1>10. LruWellFormed'
  BY <1>2, <1>4, <1>5 DEF LruWellFormed
<1>11. SizeInv'
  <2>1. Units(weight', InTable) = Units(weight, InTable)
    BY <1>5, <1>6 DEF Units
  <2> QED
    BY <1>2, <1>4, <1>5, <2>1 DEF SizeInv, CapacityKept
<1>12. NoDuplicates'
  BY <1>2, <1>4, <1>5, <1>6 DEF NoDuplicates
<1> QED
  BY <1>3, <1>7, <1>8, <1>9, <1>10, <1>11, <1>12 DEF LruInv, CacheOk

(* A step that changes the references and the lru list only.               *)
LEMMA RefStep ==
  ASSUME CacheOk, NEW STATE refs, refs \in [Entry -> Nat], refCount' = refs, held' = refs,
         op' \in Ops, lru' \in ListState(LNode),
         Ring(lru', LRU, {LRU} \cup {x \in InTable : refs[x] = 0}),
         \A x \in Entry : refs[x] > 0 => x \in InTable,
         \A x \in Entry : pending[x] => refs[x] > 0,
         UNCHANGED <<allocated, entryVars, chainVars, pending>>
  PROVE  CacheOk'
<1>1. UNCHANGED <<allocated, key, weight, table, next, pthis, curSize, curWeight, pending>>
  BY DEF entryVars, chainVars
<1>2. InTable' = InTable
  BY <1>1 DEF InTable
<1>3. TypeOK'
  BY <1>1 DEF CacheOk, TypeOK, Ops
<1>4. BucketInv'
  BY <1>1, <1>2 DEF CacheOk, BucketInv, Linked, Rooted
<1>5. RefInv' /\ NoDuplicates'
  BY <1>1, <1>2 DEF CacheOk, RefInv, NoDuplicates
<1>6. SizeInv' /\ LruWellFormed'
  BY <1>1, <1>2 DEF CacheOk, SizeInv, CapacityKept, LruWellFormed
<1> QED
  BY <1>3, <1>4, <1>5, <1>6 DEF CacheOk

(* stx_cache_entry_lookup.                                                 *)
LEMMA LookupInv ==
  ASSUME LruInv, NEW k \in Key, EntryLookup(k)
  PROVE  LruInv'
<1>1. PICK e \in Found(k) :
        /\ lru' = LruWithout(e) /\ refCount' = [refCount EXCEPT ![e] = @ + 1]
        /\ held' = [held EXCEPT ![e] = @ + 1]
  BY DEF EntryLookup
<1>2. op' = NoOp /\ UNCHANGED <<allocated, entryVars, chainVars, pending>>
  BY DEF EntryLookup, Idle
<1>3. OpInv' /\ op' \in Ops
  BY <1>2, IdleOp
<1>4. CacheOk /\ TypeOK /\ BucketInv /\ RefInv /\ LruWellFormed /\ NoDuplicates
  BY DEF LruInv, CacheOk
<1>5. e \in InTable /\ e \in Entry
  BY <1>4, FoundFacts DEF InTable
<1> DEFINE refs == [refCount EXCEPT ![e] = @ + 1]
           Q == {LRU} \cup {x \in InTable : refCount[x] = 0}
<1>6. /\ refCount \in [Entry -> Nat] /\ refCount = held
      /\ \A x \in Entry : refs[x] = IF x = e THEN refCount[e] + 1 ELSE refCount[x]
      /\ refs \in [Entry -> Nat] /\ held' = refs /\ refCount' = refs
  BY <1>1, <1>4, <1>5 DEF TypeOK, RefInv
<1>7. /\ lru \in ListState(LNode) /\ Ring(lru, LRU, Q) /\ Q \in SUBSET LNode
      /\ NULL \notin LNode /\ e # LRU /\ e \in LNode
  BY <1>4, <1>5, PlaceFacts DEF TypeOK, LruWellFormed, LNode, InTable
<1> HIDE DEF refs
<1>8. {LRU} \cup {x \in InTable : refs[x] = 0} = Q \ {e}
  <2>1. \A x \in InTable : refs[x] = 0 <=> refCount[x] = 0 /\ x # e
    BY <1>5, <1>6 DEF InTable
  <2> QED
    BY <1>7, <2>1
<1>9. lru' \in ListState(LNode) /\ Ring(lru', LRU, Q \ {e})
  <2>1. CASE refCount[e] = 0
    <3>1. lru' = RemoveLink(lru, e) /\ e \in Q
      BY <1>1, <1>5, <2>1 DEF LruWithout, RemoveLru
    <3> HIDE DEF Q
    <3> QED
      BY <1>7, <3>1, RemoveType, RemoveRing
  <2>2. CASE refCount[e] # 0
    <3>1. lru' = lru /\ Q \ {e} = Q
      BY <1>1, <1>7, <2>2 DEF LruWithout
    <3> QED
      BY <1>7, <3>1
  <2> QED
    BY <2>1, <2>2
<1>10. /\ \A x \in Entry : refs[x] > 0 => x \in InTable
       /\ \A x \in Entry : pending[x] => refs[x] > 0
  BY <1>4, <1>5, <1>6 DEF RefInv
<1> HIDE DEF Q
<1>11. CacheOk'
  BY <1>2, <1>3, <1>4, <1>6, <1>8, <1>9, <1>10, RefStep
<1> QED
  BY <1>3, <1>11 DEF LruInv

(* stx_cache_entry_release.                                                *)
LEMMA ReleaseInv ==
  ASSUME LruInv, NEW e \in Entry, EntryRelease(e)
  PROVE  LruInv'
<1> DEFINE refs == [refCount EXCEPT ![e] = @ - 1]
           L == IF refs[e] = 0 THEN AppendLru(e) ELSE lru
           Q == {LRU} \cup {x \in InTable : refCount[x] = 0}
<1>1. /\ op' = NoOp /\ held[e] > 0 /\ held' = [held EXCEPT ![e] = @ - 1]
      /\ IF refs[e] = 0 /\ pending[e]
         THEN Delete(e, L, refs)
         ELSE /\ refCount' = refs /\ lru' = L
              /\ UNCHANGED <<allocated, entryVars, chainVars, pending>>
  BY DEF EntryRelease, Idle, DeletesLate
<1>2. OpInv' /\ op' \in Ops
  BY <1>1, IdleOp
<1>3. /\ CacheOk /\ TypeOK /\ BucketInv /\ RefInv /\ LruWellFormed /\ NoDuplicates
      /\ SizeInv
  BY DEF LruInv, CacheOk
<1>4. /\ e \in InTable /\ e \in allocated /\ refCount \in [Entry -> Nat] /\ refCount = held
      /\ refCount[e] > 0 /\ refCount[e] \in Nat
  BY <1>1, <1>3 DEF TypeOK, RefInv
<1>5. /\ \A x \in Entry : refs[x] = IF x = e THEN refCount[e] - 1 ELSE refCount[x]
      /\ refs \in [Entry -> Nat] /\ held' = refs
  BY <1>1, <1>4
<1>6. /\ lru \in ListState(LNode) /\ Ring(lru, LRU, Q) /\ Q \in SUBSET LNode
      /\ NULL \notin LNode /\ e # LRU /\ e \in LNode /\ e \notin Q /\ LRU \in Q
  BY <1>3, <1>4, PlaceFacts DEF TypeOK, LruWellFormed, LNode, InTable
<1> HIDE DEF refs
<1>7. /\ L \in ListState(LNode)
      /\ Ring(L, LRU, {LRU} \cup {x \in InTable : refs[x] = 0})
  <2>0. InTable \subseteq Entry
    BY DEF InTable
  <2>1. CASE refs[e] = 0
    <3>1. {LRU} \cup {x \in InTable : refs[x] = 0} = Q \cup {e}
      BY <1>4, <1>5, <2>0, <2>1
    <3>2. L = InsertBefore(lru, e, LRU)
      BY <2>1 DEF AppendLru
    <3> HIDE DEF Q, L
    <3>3. L \in ListState(LNode) /\ Ring(L, LRU, Q \cup {e})
      BY <1>6, <3>2, InsertType, InsertRing
    <3> QED
      BY <3>1, <3>3
  <2>2. CASE refs[e] # 0
    <3>1. {LRU} \cup {x \in InTable : refs[x] = 0} = Q
      BY <1>4, <1>5, <2>0, <2>2
    <3> QED
      BY <1>6, <2>2, <3>1
  <2> QED
    BY <2>1, <2>2
<1> HIDE DEF L
<1>8. /\ \A x \in Entry : refs[x] > 0 => x \in InTable
      /\ \A x \in Entry : pending[x] /\ x # e => refs[x] > 0
  BY <1>3, <1>4, <1>5 DEF RefInv
<1>9. CASE refs[e] = 0 /\ pending[e]
  <2>1. Ready(e, L, refs)
    BY <1>3, <1>4, <1>5, <1>7, <1>8 DEF Ready, RefInv
  <2>2. CacheOk'
    BY <1>1, <1>2, <1>4, <1>5, <1>9, <2>1, DeleteUnused
  <2> QED
    BY <1>2, <2>2 DEF LruInv
<1>10. CASE ~(refs[e] = 0 /\ pending[e])
  <2>1. \A x \in Entry : pending[x] => refs[x] > 0
    BY <1>4, <1>5, <1>8, <1>10
  <2>2. CacheOk'
    BY <1>1, <1>2, <1>3, <1>5, <1>7, <1>8, <1>10, <2>1, RefStep
  <2> QED
    BY <1>2, <2>2 DEF LruInv
<1> QED
  BY <1>9, <1>10

(* stx_cache_entry_delete by a caller.                                     *)
LEMMA EntryDeleteInv ==
  ASSUME LruInv, NEW e \in Entry, EntryDelete(e)
  PROVE  LruInv'
<1>1. op' = NoOp /\ held' = held /\ Delete(e, lru, refCount)
  BY DEF EntryDelete, Idle
<1>2. OpInv' /\ op' \in Ops
  BY <1>1, IdleOp
<1>3. e \in allocated
  BY DEF EntryDelete, LruInv, CacheOk, RefInv, Fresh
<1>4. CacheOk'
  BY <1>1, <1>2, <1>3, DeleteInv DEF LruInv
<1> QED
  BY <1>2, <1>4 DEF LruInv

(* stx_cache_entry_insert begins, or fails.                                *)
LEMMA InsertEndsInv ==
  ASSUME LruInv, (\E e \in Entry : InsertBegin(e)) \/ InsertFails
  PROVE  LruInv'
<1>0. UNCHANGED <<allocated, entryVars, chainVars, refCount, pending, lru, held>>
  BY DEF InsertBegin, InsertFails
<1>1. CASE InsertFails
  <2>1. OpInv' /\ op' \in Ops
    BY <1>1, IdleOp DEF InsertFails
  <2> QED
    BY <1>0, <2>1, OpStep DEF LruInv
<1>2. CASE \E e \in Entry : InsertBegin(e)
  <2>1. PICK e \in Entry : e \in Fresh /\ op' = [NoOp EXCEPT !.step = "weigh", !.entry = e]
    BY <1>2 DEF InsertBegin
  <2>2. op' \in Ops /\ op'.step = "weigh" /\ op'.entry = e
    BY <2>1, OpFacts
  <2>3. e \in Fresh'
    BY <1>0, <2>1 DEF Fresh, chainVars
  <2>4. OpInv'
    BY <2>2, <2>3 DEF OpInv
  <2> QED
    BY <1>0, <2>2, <2>4, OpStep DEF LruInv
<1> QED
  BY <1>1, <1>2

(* The least recently used entry is in the table and nobody uses it.       *)
LEMMA LeastUsed ==
  ASSUME CacheOk, ~LruEmpty
  PROVE  LET e == lru.next[LRU] IN e \in InTable /\ refCount[e] = 0
<1>1. Ring(lru, LRU, {LRU} \cup {e \in InTable : refCount[e] = 0})
  BY DEF CacheOk, LruWellFormed
<1>2. lru.next[LRU] \in {LRU} \cup {e \in InTable : refCount[e] = 0}
  BY <1>1 DEF Ring, Circular
<1> QED
  BY <1>2 DEF LruEmpty

(* A new entry is still new when another one was deleted.                  *)
LEMMA StillFresh ==
  ASSUME CacheOk, NEW d \in Fresh, NEW e \in InTable, OthersKept(e), CacheOk'
  PROVE  d \in Fresh' /\ weight'[d] = weight[d] /\ key'[d] = key[d] /\ d # e
<1>1. d \in Entry /\ d # e /\ d \in allocated /\ d \notin InTable
  BY DEF Fresh, InTable, CacheOk, TypeOK
<1>2. /\ d \in allocated' /\ d \notin InTable' /\ weight'[d] = weight[d]
      /\ key'[d] = key[d]
  BY <1>1 DEF OthersKept
<1> QED
  BY <1>1, <1>2 DEF Fresh, InTable

(* The cache is too heavy, or full: an entry is evicted.                   *)
LEMMA EvictInv ==
  ASSUME LruInv, InsertEvictsWeight \/ InsertEvictsSize
  PROVE  LruInv'
<1>1. CacheOk /\ OpInv
  BY DEF LruInv
<1>2. /\ ~LruEmpty /\ Delete(lru.next[LRU], lru, refCount) /\ held' = held
      /\ op.step = "weigh" /\ op.entry \in Fresh
  BY <1>1 DEF InsertEvictsWeight, InsertEvictsSize, OpInv
<1>3. PICK e \in InTable : e = lru.next[LRU] /\ refCount[e] = 0
  BY <1>1, <1>2, LeastUsed
<1>4. Delete(e, lru, refCount) /\ e \in allocated
  BY <1>1, <1>2, <1>3 DEF CacheOk, RefInv
<1>5. /\ op' \in Ops /\ op'.entry = op.entry
      /\ op'.step = "weigh" \/ (op'.step = "match" /\ ~TooHeavy)
  <2>0. op \in Ops
    BY <1>1 DEF OpInv
  <2>1. CASE InsertEvictsWeight
    BY <1>2, <2>0, <2>1 DEF InsertEvictsWeight
  <2>2. CASE InsertEvictsSize
    <3>1. op' = [op EXCEPT !.step = "match"] /\ ~TooHeavy
      BY <2>2 DEF InsertEvictsSize
    <3> QED
      BY <2>0, <3>1, OpFacts
  <2> QED
    BY <2>1, <2>2
<1>6. /\ CacheOk' /\ OthersKept(e) /\ curSize' = curSize - 1 /\ curWeight' <= curWeight
  BY <1>1, <1>2, <1>3, <1>4, <1>5, DeleteInv
<1>7. op.entry \in Fresh' /\ weight'[op.entry] = weight[op.entry]
  BY <1>1, <1>2, <1>3, <1>6, StillFresh
<1>8. CASE op'.step = "weigh"
  BY <1>5, <1>6, <1>7, <1>8 DEF OpInv, LruInv
<1>9. CASE op'.step = "match" /\ ~TooHeavy
  <2>1. curSize \in Nat /\ curSize <= MaxSize /\ curWeight \in Nat
    BY <1>1 DEF CacheOk, TypeOK, SizeInv, CapacityKept
  <2>2. curWeight' \in Nat /\ MaxWeight \in Nat /\ MaxSize \in Nat
    BY <1>6, LruAssumption DEF CacheOk, TypeOK
  <2>3. weight[op.entry] \in Nat
    BY <1>1, <1>2, LruAssumption DEF CacheOk, RefInv, Fresh
  <2>4. curWeight + weight[op.entry] <= MaxWeight
    BY <1>9, <2>1, <2>2, <2>3 DEF TooHeavy
  <2>5. curSize' < MaxSize /\ curWeight' + weight'[op.entry] <= MaxWeight
    BY <1>6, <1>7, <2>1, <2>2, <2>3, <2>4
  <2>6. OpInv'
    BY <1>5, <1>7, <1>9, <2>5 DEF OpInv
  <2> QED
    BY <1>6, <2>6 DEF LruInv
<1> QED
  BY <1>5, <1>8, <1>9

(* The older entry with the same key is deleted.                           *)
LEMMA MatchInv ==
  ASSUME LruInv, InsertMatches
  PROVE  LruInv'
<1>1. CacheOk /\ OpInv /\ TypeOK /\ BucketInv /\ NoDuplicates /\ RefInv
  BY DEF LruInv, CacheOk
<1> DEFINE n == op.entry
           k == key[n]
<1>2. /\ n \in Fresh /\ n \in allocated /\ k \in Key /\ weight[n] \in Weights
      /\ held' = held /\ op' = [op EXCEPT !.step = "link"]
  BY <1>1 DEF InsertMatches, OpInv, Fresh, RefInv
<1>3. weight[n] \in Nat
  BY <1>2, LruAssumption
<1>4. /\ curSize \in Nat /\ curWeight \in Nat /\ MaxSize \in Nat /\ MaxWeight \in Nat
      /\ curSize < MaxSize /\ curWeight + weight[n] <= MaxWeight
  BY <1>1, <1>3, LruAssumption DEF InsertMatches, OpInv, TooHeavy, TypeOK
<1>5. op' \in Ops /\ op'.step = "link" /\ op'.entry = n
  BY <1>1, <1>2, OpFacts DEF OpInv
<1>6. Found(k) = {e \in InTable : ~pending[e] /\ key[e] = k}
  BY <1>1, <1>2, FoundFacts
<1> HIDE DEF n, k
<1>7. CASE Found(k) = {}
  <2>1. UNCHANGED <<allocated, entryVars, chainVars, refCount, pending, lru, held>>
    BY <1>7 DEF InsertMatches, Duplicate, n, k
  <2>2. CacheOk'
    BY <1>1, <1>5, <2>1, OpStep
  <2>3. /\ InTable' = InTable /\ Fresh' = Fresh /\ key' = key /\ weight' = weight
        /\ pending' = pending /\ curSize' = curSize /\ curWeight' = curWeight
    BY <2>1 DEF InTable, Fresh, entryVars, chainVars
  <2>4. \A e \in InTable : key[e] = k => pending[e]
    BY <1>6, <1>7
  <2>5. OpInv'
    BY <1>2, <1>4, <1>5, <2>3, <2>4 DEF OpInv, k
  <2> QED
    BY <2>2, <2>5 DEF LruInv
<1>8. CASE Found(k) # {}
  <2>1. PICK e \in Found(k) : Delete(e, lru, refCount)
    BY <1>8 DEF InsertMatches, Duplicate, n, k
  <2>2. e \in InTable /\ e \in allocated /\ key[e] = k /\ ~pending[e]
    BY <1>1, <1>6 DEF RefInv
  <2>3. /\ CacheOk' /\ OthersKept(e)
        /\ curSize' <= curSize /\ curWeight' <= curWeight
        /\ InTable' \subseteq InTable
        /\ e \in InTable' => pending'[e] /\ key' = key
    BY <1>1, <1>2, <1>5, <2>1, <2>2, DeleteInv
  <2>4. n \in Fresh' /\ weight'[n] = weight[n] /\ key'[n] = k
    BY <1>1, <1>2, <2>2, <2>3, StillFresh DEF k
  <2>5. curSize' \in Nat /\ curWeight' \in Nat
    BY <2>3 DEF CacheOk, TypeOK
  <2>6. curSize' < MaxSize /\ curWeight' + weight'[n] <= MaxWeight
    BY <1>3, <1>4, <2>3, <2>4, <2>5
  <2>7. ASSUME NEW x \in InTable', key'[x] = k PROVE pending'[x]
    <3>1. CASE x = e
      BY <2>3, <3>1
    <3>2. CASE x # e
      <4>1. x \in InTable /\ x \in Entry
        BY <2>3 DEF InTable
      <4>2. key[x] = k /\ pending'[x] = pending[x]
        BY <2>3, <2>7, <3>2, <4>1 DEF OthersKept
      <4>3. pending[x]
        BY <1>1, <2>2, <3>2, <4>1, <4>2 DEF NoDuplicates
      <4> QED
        BY <4>2, <4>3
    <3> QED
      BY <3>1, <3>2
  <2>8. OpInv'
    BY <1>5, <2>4, <2>6, <2>7 DEF OpInv
  <2> QED
    BY <2>3, <2>8 DEF LruInv
<1> QED
  BY <1>7, <1>8

(* The new entry is linked into its bucket, with one reference.            *)
LEMMA InsertLinksInv ==
  ASSUME LruInv, InsertLinks
  PROVE  LruInv'
<1>1. /\ CacheOk /\ OpInv /\ TypeOK /\ BucketInv /\ NoDuplicates /\ RefInv /\ SizeInv
      /\ LruWellFormed
  BY DEF LruInv, CacheOk
<1>2. op.entry \in Fresh
  BY <1>1 DEF InsertLinks, OpInv
<1>3. PICK e \in Fresh : e = op.entry
  BY <1>2
<1> DEFINE b == Hash[key[e]]
<1>4. /\ next' = [next EXCEPT ![e] = table[b]]
      /\ table' = [table EXCEPT ![b] = e]
      /\ pthis' = IF table[b] = NULL
                  THEN [pthis EXCEPT ![e] = <<"table", b>>]
                  ELSE [pthis EXCEPT ![e] = <<"table", b>>, ![table[b]] = <<"next", e>>]
      /\ refCount' = [refCount EXCEPT ![e] = @ + 1]
      /\ held' = [held EXCEPT ![e] = @ + 1]
      /\ curSize' = curSize + 1 /\ curWeight' = curWeight + weight[e]
      /\ op' = NoOp /\ UNCHANGED <<allocated, key, weight, pending, lru>>
  BY <1>3 DEF InsertLinks, entryVars
<1>5. OpInv' /\ op' \in Ops
  BY <1>4, IdleOp
<1>6. /\ e \in Entry /\ e \in allocated /\ e \notin InTable /\ InTable \subseteq Entry
      /\ key[e] \in Key /\ weight[e] \in Weights /\ refCount = held
      /\ refCount \in [Entry -> Nat]
  BY <1>1 DEF TypeOK, Fresh, InTable, RefInv
<1>7. b \in Bucket
  BY <1>6, LruAssumption
<1>8. /\ InTable' = InTable \cup {e} /\ BucketInv'
      /\ table' \in [Bucket -> Entry \cup {NULL}]
      /\ next' \in [Entry -> Entry \cup {NULL}]
      /\ pthis' \in [Entry -> Places \cup {NULL}]
  <2> HIDE DEF b
  <2>1. key' = key /\ b = Hash[key[e]]
    BY <1>4 DEF b
  <2> QED
    BY <1>1, <1>4, <1>6, <1>7, <2>1, LinkInv
<1>9. weight[e] \in Nat
  BY <1>6, LruAssumption
<1>10. /\ curSize \in Nat /\ curWeight \in Nat /\ curSize < MaxSize
       /\ curWeight + weight[e] <= MaxWeight
  BY <1>1, <1>3 DEF TypeOK, OpInv, InsertLinks
<1>11. /\ refCount' = held' /\ held' \in [Entry -> Nat]
       /\ \A x \in Entry : held'[x] = IF x = e THEN held[e] + 1 ELSE held[x]
       /\ refCount[e] = 0
  <2>1. held[e] = 0
    BY <1>1, <1>6 DEF RefInv
  <2> QED
    BY <1>4, <1>6, <2>1
<1>12. TypeOK'
  BY <1>1, <1>4, <1>5, <1>8, <1>9, <1>10, <1>11 DEF TypeOK, Ops
<1>13. RefInv'
  <2>1. \A x \in Entry : held'[x] > 0 => x \in InTable'
    BY <1>1, <1>8, <1>11 DEF RefInv
  <2>2. \A x \in Entry : pending'[x] => held'[x] > 0
    BY <1>1, <1>4, <1>6, <1>11 DEF RefInv
  <2> QED
    BY <1>1, <1>4, <1>6, <1>8, <1>11, <2>1, <2>2 DEF RefInv
<1>14. LruWellFormed'
  <2>1. \A x \in InTable' : refCount'[x] = 0 <=> x \in InTable /\ refCount[x] = 0
    BY <1>6, <1>8, <1>11
  <2>2. {x \in InTable' : refCount'[x] = 0} = {x \in InTable : refCount[x] = 0}
    BY <1>8, <2>1
  <2> QED
    BY <1>1, <1>4, <2>2 DEF LruWellFormed
<1>15. SizeInv'
  <2>1. /\ IsFiniteSet(InTable') /\ Cardinality(InTable') = curSize'
    <3>1. IsFiniteSet(InTable) /\ curSize = Cardinality(InTable)
      BY <1>1 DEF SizeInv, CapacityKept
    <3> QED
      BY <1>4, <1>6, <1>8, <3>1, FS_AddElement
  <2>2. /\ IsFiniteSet(Units(weight, InTable \cup {e}))
        /\ Cardinality(Units(weight, InTable \cup {e})) = curWeight'
    <3>1. /\ IsFiniteSet(Units(weight, InTable))
          /\ curWeight = Cardinality(Units(weight, InTable))
      BY <1>1 DEF SizeInv, CapacityKept
    <3> QED
      BY <1>4, <1>6, <1>9, <3>1, UnitsOfMore
  <2>3. curSize' <= MaxSize /\ curWeight' <= MaxWeight
    BY <1>4, <1>10, LruAssumption
  <2> QED
    BY <1>4, <1>8, <2>1, <2>2, <2>3 DEF SizeInv, CapacityKept
<1>16. NoDuplicates'
  <2>1. \A x \in InTable : key[x] = key[e] => pending[x]
    BY <1>1, <1>3 DEF OpInv, InsertLinks
  <2> QED
    BY <1>1, <1>4, <1>8, <2>1 DEF NoDuplicates
<1> QED
  BY <1>5, <1>8, <1>12, <1>13, <1>14, <1>15, <1>16 DEF LruInv, CacheOk

(* stx_cache_empty goes from bucket to bucket.                             *)
LEMMA EmptyMovesInv ==
  ASSUME LruInv, EmptyBegin \/ EmptyNextBucket
  PROVE  LruInv'
<1>0. UNCHANGED <<allocated, entryVars, chainVars, refCount, pending, lru, held>>
  BY DEF EmptyBegin, EmptyNextBucket
<1>1. CacheOk /\ OpInv /\ TypeOK /\ BucketInv
  BY DEF LruInv, CacheOk
<1>2. \A c \in Bucket : table[c] \in InTable \cup {NULL} /\ table[c] \in Entry \cup {NULL}
  <2> SUFFICES ASSUME NEW c \in Bucket, table[c] # NULL
               PROVE  table[c] \in InTable /\ table[c] \in Entry
    BY <1>1 DEF TypeOK
  <2>1. table[c] \in Entry
    BY <1>1 DEF TypeOK
  <2>2. pthis[table[c]] = <<"table", c>>
    BY <1>1 DEF BucketInv
  <2> QED
    BY <2>1, <2>2, PlaceFacts DEF InTable
<1>3. InTable' = InTable
  BY <1>0 DEF InTable, chainVars
<1>4. \/ op' = NoOp
      \/ op' \in Ops /\ op'.step = "empty" /\ op'.entry \in InTable \cup {NULL}
  <2>1. CASE EmptyBegin
    <3>1. 0 \in Bucket
      BY LruAssumption DEF Bucket
    <3>2. op' = [step |-> "empty", entry |-> table[0], bucket |-> 0]
      BY <2>1 DEF EmptyBegin
    <3> QED
      BY <1>2, <3>1, <3>2 DEF Ops
  <2>2. CASE EmptyNextBucket /\ op.bucket + 1 < HashSize
    <3> DEFINE c == op.bucket + 1
    <3>1. op \in Ops /\ op.bucket \in Bucket
      BY <1>1 DEF OpInv, Ops
    <3>2. c \in Bucket
      BY <2>2, <3>1, LruAssumption DEF Bucket
    <3>3. op' = [op EXCEPT !.entry = table[c], !.bucket = c] /\ op.step = "empty"
      BY <2>2 DEF EmptyNextBucket
    <3> HIDE DEF c
    <3>4. op' \in Ops /\ op'.step = "empty" /\ op'.entry = table[c]
      BY <1>2, <3>1, <3>2, <3>3 DEF Ops
    <3> QED
      BY <1>2, <3>2, <3>4
  <2>3. CASE EmptyNextBucket /\ ~(op.bucket + 1 < HashSize)
    BY <2>3 DEF EmptyNextBucket
  <2> QED
    BY <2>1, <2>2, <2>3
<1>5. op' \in Ops /\ OpInv'
  <2>1. CASE op' = NoOp
    BY <2>1, IdleOp
  <2>2. CASE op' \in Ops /\ op'.step = "empty" /\ op'.entry \in InTable \cup {NULL}
    BY <1>3, <2>2 DEF OpInv
  <2> QED
    BY <1>4, <2>1, <2>2
<1> QED
  BY <1>0, <1>1, <1>5, OpStep DEF LruInv

(* And from entry to entry, deleting them.                                 *)
LEMMA EmptyDeletesInv ==
  ASSUME LruInv, EmptyDeletes
  PROVE  LruInv'
<1>1. CacheOk /\ OpInv /\ TypeOK /\ BucketInv /\ RefInv
  BY DEF LruInv, CacheOk
<1>2. op.entry \in InTable /\ op.step = "empty"
  BY <1>1 DEF EmptyDeletes, OpInv
<1>3. PICK e \in InTable : e = op.entry
  BY <1>2
<1>4. /\ Delete(e, lru, refCount) /\ held' = held
      /\ op' = [op EXCEPT !.entry = next[e]] /\ e \in allocated /\ e \in Entry
  BY <1>1, <1>3 DEF EmptyDeletes, RefInv, InTable
<1>5. next[e] \in Entry \cup {NULL} /\ next[e] \in InTable \cup {NULL} /\ next[e] # e
  BY ZenonT(60), <1>1, <1>4, NoLoop, PlaceFacts DEF TypeOK, BucketInv, InTable
<1>6. op' \in Ops /\ op'.step = "empty" /\ op'.entry = next[e]
  <2>1. op \in Ops
    BY <1>1 DEF OpInv
  <2> QED
    BY <1>2, <1>4, <1>5, <2>1 DEF Ops
<1>7. CacheOk' /\ OthersKept(e)
  BY <1>1, <1>4, <1>6, DeleteInv
<1>8. next[e] \in InTable' \cup {NULL}
  BY <1>5, <1>7 DEF OthersKept
<1>9. OpInv'
  BY <1>6, <1>8 DEF OpInv
<1> QED
  BY <1>7, <1>9 DEF LruInv

-----------------------------------------------------------------------------
(* Every step of the cache.                                                *)
LEMMA LruStep == LruInv /\ [Next]_vars => LruInv'
<1> SUFFICES ASSUME LruInv, [Next]_vars PROVE LruInv'
  OBVIOUS
<1>1. ASSUME NEW k \in Key, EntryLookup(k) PROVE LruInv'
  BY <1>1, LookupInv
<1>2. ASSUME NEW k \in Key, NEW w \in Weights, EntryCreate(k, w) PROVE LruInv'
  BY <1>2, CreateInv
<1>3. ASSUME NEW e \in Entry, EntryRelease(e) \/ EntryDelete(e) \/ InsertBegin(e)
      PROVE  LruInv'
  BY <1>3, ReleaseInv, EntryDeleteInv, InsertEndsInv
<1>4. CASE InsertEvictsWeight \/ InsertEvictsSize
  BY <1>4, EvictInv
<1>5. CASE InsertFails
  BY <1>5, InsertEndsInv
<1>6. CASE InsertMatches
  BY <1>6, MatchInv
<1>7. CASE InsertLinks
  BY <1>7, InsertLinksInv
<1>8. CASE EmptyBegin \/ EmptyNextBucket
  BY <1>8, EmptyMovesInv
<1>9. CASE EmptyDeletes
  BY <1>9, EmptyDeletesInv
<1>10. CASE UNCHANGED vars
  <2>1. /\ UNCHANGED <<allocated, entryVars, chainVars, refCount, pending, lru, held>>
        /\ op' = op
    BY <1>10 DEF vars
  <2>2. op' \in Ops
    BY <2>1 DEF LruInv, OpInv
  <2>3. CacheOk'
    BY <2>1, <2>2, OpStep DEF LruInv
  <2>4. OpInv'
    BY <2>1 DEF LruInv, OpInv, Fresh, InTable, entryVars, chainVars
  <2> QED
    BY <2>3, <2>4 DEF LruInv
<1> QED
  BY <1>1, <1>2, <1>3, <1>4, <1>5, <1>6, <1>7, <1>8, <1>9, <1>10 DEF Next

(* stx_cache_create: an empty cache.                                       *)
LEMMA LruStart == Init => LruInv
<1> SUFFICES ASSUME Init PROVE LruInv
  OBVIOUS
<1>1. InTable = {}
  BY DEF Init, InTable
<1>2. op \in Ops /\ op.step = "none" /\ op = NoOp
  BY OpFacts DEF Init
<1>3. lru \in ListState(LNode) /\ lru.next[LRU] = LRU /\ lru.prev[LRU] = LRU
  BY DEF Init, ListState, LNode
<1>4. LruWellFormed
  <2>1. {LRU} \cup {e \in InTable : refCount[e] = 0} = {LRU}
    BY <1>1
  <2> QED
    BY <1>3, <2>1, EmptyRing DEF LruWellFormed
<1>5. TypeOK
  BY <1>2, <1>3 DEF Init, TypeOK, Ops
<1>6. BucketInv
  BY <1>1 DEF Init, BucketInv, Rooted
<1>7. RefInv /\ NoDuplicates
  BY <1>1 DEF Init, RefInv, NoDuplicates
<1>8. SizeInv
  <2>1. Units(weight, {}) = {}
    BY DEF Units
  <2> QED
    BY <1>1, <2>1, FS_EmptySet, LruAssumption DEF Init, SizeInv, CapacityKept
<1>9. OpInv
  BY <1>2 DEF OpInv
<1> QED
  BY <1>4, <1>5, <1>6, <1>7, <1>8, <1>9 DEF LruInv, CacheOk

(* What is proved of the cache follows from the invariant.                 *)
LEMMA LruInvSuffices ==
  LruInv => HeldIsKept /\ BucketsWellLinked /\ LruWellFormed /\ CapacityKept /\ NoDuplicates
<1> SUFFICES ASSUME LruInv
             PROVE  HeldIsKept /\ BucketsWellLinked /\ LruWellFormed /\ CapacityKept
                    /\ NoDuplicates
  OBVIOUS
<1>1. /\ TypeOK /\ BucketInv /\ NoDuplicates /\ RefInv /\ SizeInv /\ LruWellFormed
  BY DEF LruInv, CacheOk
<1>2. HeldIsKept
  <2>1. InTable \subseteq Entry
    BY DEF InTable
  <2> QED
    BY <1>1, <2>1 DEF HeldIsKept, RefInv
<1>3. InTable = UNION {Chain(b) : b \in Bucket}
  <2>1. \A e \in InTable : Hash[key[e]] \in Bucket
    BY <1>1, LruAssumption DEF RefInv
  <2>2. \A b \in Bucket : Chain(b) = {e \in InTable : Hash[key[e]] = b}
    BY <1>1, ChainFacts
  <2>3. \A e \in InTable : \E b \in Bucket : e \in Chain(b)
    BY <2>1, <2>2
  <2> QED
    BY <2>2, <2>3
<1>4. ASSUME NEW e \in InTable
      PROVE  /\ e \in allocated
             /\ e \in Chain(Hash[key[e]])
             /\ e = IF pthis[e][1] = "table" THEN table[pthis[e][2]]
                                             ELSE next[pthis[e][2]]
  <2>1. e \in allocated /\ Hash[key[e]] \in Bucket
    BY <1>1, LruAssumption DEF RefInv
  <2>2. e \in Chain(Hash[key[e]])
    BY <1>1, <2>1, ChainFacts
  <2>3. Linked(e)
    BY <1>1 DEF BucketInv
  <2>4. CASE \E b \in Bucket : pthis[e] = <<"table", b>> /\ table[b] = e
    BY <2>1, <2>2, <2>4
  <2>5. CASE \E d \in InTable : pthis[e] = <<"next", d>> /\ next[d] = e
    BY <2>1, <2>2, <2>5
  <2> QED
    BY <2>3, <2>4, <2>5 DEF Linked
<1>5. BucketsWellLinked
  BY <1>1, <1>3, <1>4 DEF BucketsWellLinked
<1> QED
  BY <1>1, <1>2, <1>5 DEF SizeInv

(* A reference keeps its entry, and a deleted entry goes with its last     *)
(* reference, whatever the callers do between calls.                       *)
THEOREM ReferencesKeep == Spec => []HeldIsKept
BY LruStart, LruStep, LruInvSuffices, PTL DEF Spec

(* The buckets of the hash table stay well linked.                         *)
THEOREM BucketsCorrect == Spec => []BucketsWellLinked
BY LruStart, LruStep, LruInvSuffices, PTL DEF Spec

(* The lru list is one ring of exactly the unused entries of the table.    *)
THEOREM LruListCorrect == Spec => []LruWellFormed
BY LruStart, LruStep, LruInvSuffices, PTL DEF Spec

(* The limits on size and weight are kept, and both are counted exactly.   *)
THEOREM LimitsKept == Spec => []CapacityKept
BY LruStart, LruStep, LruInvSuffices, PTL DEF Spec

(* A key never has two entries that can be found.                          *)
THEOREM OneEntryPerKey == Spec => []NoDuplicates
BY LruStart, LruStep, LruInvSuffices, PTL DEF Spec

=============================================================================
