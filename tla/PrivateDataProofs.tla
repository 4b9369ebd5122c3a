------------------------- MODULE PrivateDataProofs --------------------------
(***************************************************************************)
(* Proofs about the two places where a thread leaves data with a           *)
(* destructor: the keys of key.c and the descriptor objects of io_win.c.   *)
(* They hold for any number of threads, keys, values and descriptors.      *)
(***************************************************************************)
EXTENDS Keys, Netfd, FiniteSetTheorems, SequenceTheorems,
        WellFoundedInduction, TLAPS

(* What a thread is executing in key.c.                                    *)
Doing == [op : {"none", "set", "cleanup", "exited"},
          of : Owner \cup {NoValue}, key : KeyIndex,
          value : Value \cup {NoValue}]

(* The inductive invariant of Keys: first the types.                       *)
KeyTypes ==
  /\ keyMax \in 0..KeysMax
  /\ destructors \subseteq 0..(keyMax - 1)
  /\ private \in [Owner -> [KeyIndex -> Value \cup {NoValue}]]
  /\ doing \in [Owner -> Doing]
  /\ destroyed \in [Value -> Nat]
  /\ given \in [Value -> (Owner \X KeyIndex) \cup {NoValue}]
  /\ raced \in BOOLEAN

(* Thread w is in the destructor of the value of u for k.                  *)
DestroyedBy(w, u, k) == doing[w].op \in {"set", "cleanup"}
                        /\ doing[w].of = u /\ doing[w].key = k

(* What is in the place of u for k was set for it.                         *)
PrivateGiven ==
  /\ \A u \in Owner, k \in KeyIndex :
       private[u][k] # NoValue => given[private[u][k]] = <<u, k>>
  /\ \A v \in Value, u \in Owner, k \in KeyIndex :
       given[v] = <<u, k>> => k < keyMax

(* A value on its way belongs to the call, and is not there yet; a thread  *)
(* cleans up its own values.                                               *)
ComingGiven ==
  \A w \in Owner :
    /\ doing[w].op = "set" =>
         /\ doing[w].of \in Owner
         /\ doing[w].value # NoValue =>
              /\ given[doing[w].value] = <<doing[w].of, doing[w].key>>
              /\ private[doing[w].of][doing[w].key] # doing[w].value
    /\ doing[w].op = "cleanup" => doing[w].of = w

(* One thread at a time is in the destructor of a value, which stays where *)
(* it is until that returns.                                               *)
OneDestructor ==
  \A w, u \in Owner, k \in KeyIndex : DestroyedBy(w, u, k) =>
    /\ k \in destructors /\ private[u][k] # NoValue
    /\ \A x \in Owner : DestroyedBy(x, u, k) => x = w

(* An exit leaves nothing to destroy behind.                               *)
CleanedUp ==
  \A u \in Owner, k \in destructors :
    doing[u].op = "exited" \/ Passed(u, k) => private[u][k] = NoValue

(* A value that waits for a destructor to return, and one in its place     *)
(* that no destructor has.                                                 *)
Coming(v) == \E w \in Owner : doing[w].op = "set" /\ doing[w].value = v
Stays(v, u, k) == private[u][k] = v /\ ~InDestructor(u, k)

(* How often a value was destroyed follows from where it is.               *)
Counts ==
  \A v \in Value, u \in Owner, k \in destructors : given[v] = <<u, k>> =>
    destroyed[v] = IF Coming(v) \/ Stays(v, u, k) THEN 0 ELSE 1

Unraced == PrivateGiven /\ ComingGiven /\ OneDestructor /\ CleanedUp /\ Counts

KeyInv == KeyTypes /\ (~raced => Unraced)

(* What the invariant says of a value that was never raced over is         *)
(* DestroyedOnce.                                                          *)
LEMMA KeyInvSuffices == KeyInv => DestroyedOnce
<1> SUFFICES ASSUME KeyInv, ~raced, NEW v \in Value, given[v] # NoValue,
                    given[v][2] \in destructors
             PROVE  LET u == given[v][1]
                        k == given[v][2]
                        inDestructor == InDestructor(u, k) /\ private[u][k] = v
                        coming == \E w \in Owner : doing[w].op = "set" /\ doing[w].value = v
                    IN  destroyed[v] = IF coming \/ (private[u][k] = v /\ ~inDestructor)
                                       THEN 0 ELSE 1
  BY DEF DestroyedOnce
<1> DEFINE u == given[v][1]
           k == given[v][2]
<1>1. u \in Owner /\ k \in destructors /\ given[v] = <<u, k>>
  BY DEF KeyInv, KeyTypes
<1>2. destroyed[v] = IF Coming(v) \/ Stays(v, u, k) THEN 0 ELSE 1
  BY <1>1 DEF KeyInv, Unraced, Counts
<1> QED
  BY <1>2 DEF Coming, Stays

(* A set of natural numbers that is not empty has a least element: the key *)
(* at which the loop of _st_thread_cleanup stops next.                     *)
LEMMA NatLeast ==
  ASSUME NEW S \in SUBSET Nat, S # {}
  PROVE  \E x \in S : \A y \in S : x <= y
<1> DEFINE R == {ss \in Nat \X Nat : ss[1] < ss[2]}
<1>1. IsWellFoundedOn(R, Nat)
  BY NatLessThanWellFounded DEF OpToRel
<1>2. \E x \in S : \A y \in S : ~ (<<y, x>> \in R)
  BY <1>1, WFMin, Zenon
<1>3. \A x, y \in Nat : y < x => <<y, x>> \in R
  OBVIOUS
<1>4. PICK x \in S : \A y \in S : ~ (<<y, x>> \in R)
  BY <1>2
<1> HIDE DEF R
<1>5. ASSUME NEW y \in S PROVE x <= y
  <2>1. x \in Nat /\ y \in Nat /\ ~(y < x)
    BY <1>3, <1>4
  <2> QED
    BY <2>1
<1> QED
  BY <1>5

(* The ranges of the keys that were created and of the values in their     *)
(* places.                                                                 *)
LEMMA KeyRange ==
  ASSUME KeyTypes
  PROVE  /\ KeyIndex \subseteq Nat /\ destructors \subseteq KeyIndex
         /\ keyMax \in Nat /\ \A k \in destructors : k < keyMax
         /\ \A u \in Owner, k \in KeyIndex : private[u][k] \in Value \cup {NoValue}
         /\ NoValue \notin Value
BY KeyAssumption DEF KeyTypes, KeyIndex

(* st_key_create keeps the invariant: no value was set for the new key.    *)
LEMMA CreateStable ==
  ASSUME KeyInv, NEW t \in Owner, NEW d \in BOOLEAN, KeyCreate(t, d)
  PROVE  KeyInv'
<1>1. KeyTypes'
  BY KeyAssumption DEF KeyInv, KeyTypes, KeyCreate
<1>2. ASSUME ~raced' PROVE Unraced'
  <2>1. /\ ~raced /\ PrivateGiven /\ ComingGiven /\ OneDestructor /\ CleanedUp /\ Counts
        /\ KeyTypes
    BY <1>2 DEF KeyInv, Unraced, KeyCreate
  <2>2. /\ keyMax \in Nat /\ keyMax' = keyMax + 1 /\ destructors \subseteq destructors'
        /\ destructors' \subseteq destructors \cup {keyMax}
        /\ UNCHANGED <<private, doing, destroyed, given, raced>>
    BY <2>1 DEF KeyCreate, KeyTypes
  <2>3. \A v \in Value, u \in Owner, k \in KeyIndex : given[v] = <<u, k>> => k # keyMax
    BY <2>1, <2>2, KeyRange DEF PrivateGiven
  <2>4. \A u \in Owner, k \in KeyIndex : k = keyMax => private[u][k] = NoValue
    BY <2>1, <2>2, <2>3, KeyRange DEF PrivateGiven, KeyTypes
  <2>5. PrivateGiven'
    BY <2>1, <2>2, KeyRange DEF PrivateGiven, KeyTypes
  <2>6. ComingGiven'
    BY <2>1, <2>2 DEF ComingGiven
  <2>7. OneDestructor'
    BY <2>1, <2>2 DEF OneDestructor, DestroyedBy
  <2>8. CleanedUp'
    <3>1. \A k \in destructors' : k \in KeyIndex
      BY <1>1, <2>2, KeyAssumption DEF KeyTypes, KeyIndex
    <3> QED
      BY <2>1, <2>2, <2>4, <3>1 DEF CleanedUp, Passed
  <2>9. Counts'
    <3>1. ASSUME NEW z \in Value, NEW y \in Owner, NEW j \in destructors', given[z] = <<y, j>>
          PROVE  j \in destructors
      BY <1>1, <2>2, <2>3, <3>1, KeyAssumption DEF KeyTypes, KeyIndex
    <3>2. \A z : Coming(z)' <=> Coming(z)
      BY <2>2 DEF Coming
    <3>3. \A z, y, j : Stays(z, y, j)' <=> Stays(z, y, j)
      BY <2>2 DEF Stays, InDestructor
    <3> QED
      BY <2>1, <2>2, <3>1, <3>2, <3>3 DEF Counts
  <2> QED
    BY <2>5, <2>6, <2>7, <2>8, <2>9 DEF Unraced
<1> QED
  BY <1>1, <1>2 DEF KeyInv

(* The destructor that st_thread_setspecific called returns, and the new   *)
(* value takes the place of the old one.                                   *)
LEMMA SetReturnsStable ==
  ASSUME KeyInv, NEW t \in Owner, SetReturns(t)
  PROVE  KeyInv'
<1> DEFINE u == doing[t].of
           k == doing[t].key
           v == doing[t].value
<1>1. /\ KeyTypes /\ doing[t].op = "set" /\ k \in KeyIndex /\ v \in Value \cup {NoValue}
      /\ private' = [private EXCEPT ![u][k] = v]
      /\ doing' = [doing EXCEPT ![t] = Running]
      /\ UNCHANGED <<keyMax, destructors, destroyed, given, raced>>
  BY DEF KeyInv, KeyTypes, SetReturns, Doing
<1>0. Running \in Doing /\ Running.op = "none"
  BY KeyAssumption DEF Running, Doing, KeyIndex
<1>2. KeyTypes'
  <2>1. doing' \in [Owner -> Doing]
    BY <1>0, <1>1 DEF KeyTypes
  <2>2. private' \in [Owner -> [KeyIndex -> Value \cup {NoValue}]]
    BY <1>1 DEF KeyTypes
  <2> QED
    BY <1>1, <2>1, <2>2 DEF KeyTypes
<1>3. ASSUME ~raced' PROVE Unraced'
  <2>1. /\ ~raced /\ PrivateGiven /\ ComingGiven /\ OneDestructor /\ CleanedUp /\ Counts
    BY <1>1, <1>3 DEF KeyInv, Unraced
  <2>2. /\ u \in Owner
        /\ v # NoValue => given[v] = <<u, k>> /\ private[u][k] # v
    BY <1>1, <2>1 DEF ComingGiven
  <2>3. \A x \in Owner : doing'[x] = IF x = t THEN Running ELSE doing[x]
    BY <1>1 DEF KeyTypes
  <2>4. \A x \in Owner, j \in KeyIndex :
          private'[x][j] = IF x = u /\ j = k THEN v ELSE private[x][j]
    BY <1>1, <2>2 DEF KeyTypes
  <2>5. DestroyedBy(t, u, k) /\ k \in destructors /\ private[u][k] # NoValue
    BY <1>1, <2>1, <2>2 DEF DestroyedBy, OneDestructor
  <2>6. \A x \in Owner : DestroyedBy(x, u, k) => x = t
    BY <1>1, <2>1, <2>2, <2>5 DEF OneDestructor
  <2> HIDE DEF u, k, v
  <2>7. PrivateGiven'
    <3>1. ASSUME NEW x \in Owner, NEW j \in KeyIndex, private'[x][j] # NoValue
          PROVE  given[private'[x][j]] = <<x, j>>
      BY <2>1, <2>2, <2>4, <3>1 DEF PrivateGiven
    <3> QED
      BY <1>1, <2>1, <3>1 DEF PrivateGiven
  <2>8. \A x, y \in Owner, j \in KeyIndex : DestroyedBy(x, y, j)' =>
          DestroyedBy(x, y, j) /\ ~(y = u /\ j = k)
    BY <1>0, <2>3, <2>6 DEF DestroyedBy
  <2>9. ComingGiven'
    BY <1>0, <1>1, <2>1, <2>3, <2>4, <2>6 DEF ComingGiven, DestroyedBy, KeyTypes, Doing
  <2>10. OneDestructor'
    BY <1>1, <2>1, <2>4, <2>8 DEF OneDestructor
  <2>11. CleanedUp'
    BY <1>0, <1>1, <2>1, <2>3, <2>4, <2>5, <2>2 DEF CleanedUp, Passed, KeyTypes
  <2>12. Counts'
    <3> SUFFICES ASSUME NEW z \in Value, NEW y \in Owner, NEW j \in destructors,
                        given[z] = <<y, j>>
                 PROVE  destroyed[z] = IF Coming(z)' \/ Stays(z, y, j)' THEN 0 ELSE 1
      BY <1>1 DEF Counts
    <3>0. j \in KeyIndex /\ destroyed[z] = IF Coming(z) \/ Stays(z, y, j) THEN 0 ELSE 1
      BY <1>1, <2>1, KeyRange DEF Counts, KeyTypes
    <3>1. CASE y = u /\ j = k
      <4>1. Coming(z) <=> z = v
        BY <1>1, <2>1, <2>2, <2>5, <2>6, <3>1, <3>0, KeyAssumption DEF Coming, ComingGiven, DestroyedBy, v, KeyTypes, Doing
      <4>2. ~Coming(z)'
        <5> SUFFICES ASSUME NEW x \in Owner, doing'[x].op = "set", doing'[x].value = z
                     PROVE  FALSE
          BY DEF Coming
        <5>1. x # t /\ doing[x].op = "set" /\ doing[x].value = z
          BY <1>0, <2>3
        <5>2. <<doing[x].of, doing[x].key>> = <<u, k>>
          BY <2>1, <3>1, <5>1, KeyAssumption DEF ComingGiven
        <5> QED
          BY <2>6, <5>1, <5>2 DEF DestroyedBy
      <4>3. ~Stays(z, y, j) /\ (Stays(z, y, j)' <=> z = v)
        BY <2>4, <2>5, <2>8, <2>2, <3>0, <3>1 DEF Stays, InDestructor, DestroyedBy
      <4> QED
        BY <3>0, <4>1, <4>2, <4>3
    <3>2. CASE ~(y = u /\ j = k)
      <4>1. Coming(z) <=> Coming(z)'
        BY <1>0, <1>1, <2>1, <2>2, <2>3, <3>2, KeyAssumption DEF Coming, v, u, k
      <4>2. Stays(z, y, j) <=> Stays(z, y, j)'
        BY <1>0, <2>3, <2>4, <3>2, <3>0 DEF Stays, InDestructor, u, k
      <4> QED
        BY <3>0, <4>1, <4>2
    <3> QED
      BY <3>1, <3>2
  <2> QED
    BY <2>7, <2>9, <2>10, <2>11, <2>12 DEF Unraced
<1> QED
  BY <1>2, <1>3 DEF KeyInv

(* st_thread_setspecific keeps the invariant, whether it calls the         *)
(* destructor of the old value or not.                                     *)
LEMMA SetStable ==
  ASSUME KeyInv, NEW t \in Owner, NEW u \in Owner, NEW k \in KeyIndex,
         NEW v \in Value \cup {NoValue}, SetSpecific(t, u, k, v)
  PROVE  KeyInv'
<1> DEFINE o == private[u][k]
           r == [op |-> "set", of |-> u, key |-> k, value |-> v]
<1>0. /\ KeyTypes /\ doing[t] = Running /\ doing[u].op # "exited" /\ k < keyMax
      /\ v # NoValue => given[v] \in {NoValue, <<u, k>>} /\ destroyed[v] = 0
      /\ v # NoValue /\ given[v] # NoValue => v = o
      /\ given' = IF v = NoValue THEN given ELSE [given EXCEPT ![v] = <<u, k>>]
      /\ UNCHANGED <<keyMax, destructors>>
      /\ o \in Value \cup {NoValue} /\ r \in Doing
      /\ v # NoValue => v \in Value
  BY DEF SetSpecific, KeyInv, KeyTypes, Doing
<1>1. \A z \in Value : given'[z] = IF z = v THEN <<u, k>> ELSE given[z]
  BY <1>0, KeyAssumption DEF KeyTypes
<1>2. given' \in [Value -> (Owner \X KeyIndex) \cup {NoValue}]
  BY <1>0 DEF KeyTypes
<1>3. CASE v # o /\ Destroys(u, k)
  <2>1. /\ doing' = [doing EXCEPT ![t] = r]
        /\ destroyed' = [destroyed EXCEPT ![o] = @ + 1]
        /\ raced' = (raced \/ InDestructor(u, k))
        /\ private' = private
        /\ o # NoValue /\ k \in destructors
    BY <1>3 DEF SetSpecific, Changed, Destructor, Destroys
  <2>2. KeyTypes'
    BY <1>0, <1>2, <2>1 DEF KeyTypes
  <2>3. ASSUME ~raced' PROVE Unraced'
    <3>1. /\ ~raced /\ PrivateGiven /\ ComingGiven /\ OneDestructor /\ CleanedUp
          /\ Counts /\ ~InDestructor(u, k)
      BY <2>1, <2>3 DEF KeyInv, Unraced
    <3>2. \A x \in Owner : doing'[x] = IF x = t THEN r ELSE doing[x]
      BY <1>0, <2>1 DEF KeyTypes
    <3>3. /\ r.op = "set" /\ r.of = u /\ r.key = k /\ r.value = v
          /\ doing[t].op = "none"
      BY <1>0 DEF Running
    <3>4. given[o] = <<u, k>>
      BY <2>1, <3>1 DEF PrivateGiven
    <3> HIDE DEF o, r
    <3>5. PrivateGiven'
      <4>1. ASSUME NEW x \in Owner, NEW j \in KeyIndex, private[x][j] # NoValue
            PROVE  given'[private[x][j]] = <<x, j>>
        <5>1. private[x][j] \in Value /\ given[private[x][j]] = <<x, j>>
          BY <1>0, <3>1, <4>1, KeyRange DEF PrivateGiven
        <5>2. private[x][j] # v
          BY <1>0, <1>3, <3>4, <5>1, KeyAssumption
        <5> QED
          BY <1>1, <5>1, <5>2
      <4>2. ASSUME NEW z \in Value, NEW x \in Owner, NEW j \in KeyIndex, given'[z] = <<x, j>>
            PROVE  j < keyMax
        BY <1>0, <1>1, <3>1, <4>2 DEF PrivateGiven
      <4> QED
        BY <1>0, <2>1, <4>1, <4>2 DEF PrivateGiven
    <3>6. ComingGiven'
      BY <1>0, <1>1, <1>3, <2>1, <3>1, <3>2, <3>3, KeyAssumption
         DEF ComingGiven, KeyTypes, Doing, o
    <3>7. \A x, y \in Owner, j \in KeyIndex : DestroyedBy(x, y, j)' <=>
            DestroyedBy(x, y, j) \/ (x = t /\ y = u /\ j = k)
      BY <3>2, <3>3 DEF DestroyedBy
    <3>8. OneDestructor'
      BY <1>0, <2>1, <3>1, <3>7 DEF OneDestructor, InDestructor, DestroyedBy, o
    <3>9. CleanedUp'
      BY <1>0, <2>1, <3>1, <3>2, <3>3 DEF CleanedUp, Passed
    <3>10. Counts'
      <4> SUFFICES ASSUME NEW z \in Value, NEW y \in Owner, NEW j \in destructors,
                          given'[z] = <<y, j>>
                   PROVE  destroyed'[z] = IF Coming(z)' \/ Stays(z, y, j)' THEN 0 ELSE 1
        BY <1>0 DEF Counts
      <4>0. j \in KeyIndex
        BY <1>0, KeyRange DEF KeyTypes
      <4>1. /\ Coming(z)' <=> Coming(z) \/ z = v
            /\ destroyed'[z] = IF z = o THEN destroyed[z] + 1 ELSE destroyed[z]
            /\ Stays(z, y, j)' <=> Stays(z, y, j) /\ ~(y = u /\ j = k)
        <5>1. Coming(z)' <=> Coming(z) \/ z = v
          BY <3>2, <3>3 DEF Coming
        <5>2. destroyed'[z] = IF z = o THEN destroyed[z] + 1 ELSE destroyed[z]
          BY <1>0, <2>1 DEF KeyTypes
        <5>3. InDestructor(y, j)' <=> InDestructor(y, j) \/ (y = u /\ j = k)
          BY <3>7, <4>0 DEF InDestructor, DestroyedBy
        <5> QED
          BY <5>1, <5>2, <5>3, <2>1 DEF Stays
      <4>2. CASE z = v
        BY <1>0, <1>3, <4>1, <4>2, <3>4, KeyAssumption DEF o
      <4>3. CASE z = o /\ z # v
        <5>1. y = u /\ j = k
          BY <1>1, <3>4, <4>3
        <5>2. ~Coming(z)
          BY <1>0, <3>1, <3>4, <4>3, KeyAssumption DEF Coming, ComingGiven, KeyTypes, Doing, o
        <5>3. Stays(z, y, j) /\ destroyed[z] = 0
          BY <3>1, <3>4, <4>3, <5>1, <5>2 DEF Stays, Counts, o
        <5> QED
          BY <4>1, <4>3, <5>1, <5>2, <5>3
      <4>4. CASE z # o /\ z # v
        <5>1. y = u /\ j = k => ~Stays(z, y, j)
          BY <4>4 DEF Stays, o
        <5> QED
          BY <1>1, <3>1, <4>1, <4>4, <5>1 DEF Counts
      <4> QED
        BY <4>2, <4>3, <4>4
    <3> QED
      BY <3>5, <3>6, <3>8, <3>9, <3>10 DEF Unraced
  <2> QED
    BY <2>2, <2>3 DEF KeyInv
<1>4. CASE ~(v # o /\ Destroys(u, k))
  <2>1. /\ private' = [private EXCEPT ![u][k] = v]
        /\ raced' = (raced \/ InDestructor(u, k) \/ Passed(u, k))
        /\ UNCHANGED <<doing, destroyed>>
    BY <1>4 DEF SetSpecific, Changed
  <2>2. KeyTypes'
    <3>1. private' \in [Owner -> [KeyIndex -> Value \cup {NoValue}]]
      BY <1>0, <2>1 DEF KeyTypes
    <3> QED
      BY <1>0, <1>2, <2>1, <3>1 DEF KeyTypes
  <2>3. ASSUME ~raced' PROVE Unraced'
    <3>1. /\ ~raced /\ PrivateGiven /\ ComingGiven /\ OneDestructor /\ CleanedUp
          /\ Counts /\ ~InDestructor(u, k) /\ ~Passed(u, k)
      BY <2>1, <2>3 DEF KeyInv, Unraced
    <3>2. \A x \in Owner, j \in KeyIndex :
            private'[x][j] = IF x = u /\ j = k THEN v ELSE private[x][j]
      BY <1>0, <2>1 DEF KeyTypes
    <3>3. o = NoValue \/ o = v \/ k \notin destructors
      BY <1>4 DEF Destroys
    <3>4. o # NoValue => given[o] = <<u, k>>
      BY <3>1 DEF PrivateGiven
    <3> HIDE DEF o, r
    <3>5. PrivateGiven'
      <4>1. ASSUME NEW x \in Owner, NEW j \in KeyIndex, private'[x][j] # NoValue
            PROVE  given'[private'[x][j]] = <<x, j>>
        <5>1. CASE x = u /\ j = k
          BY <1>0, <1>1, <3>2, <4>1, <5>1
        <5>2. CASE ~(x = u /\ j = k)
          <6>1. /\ private'[x][j] = private[x][j] /\ private[x][j] \in Value
                /\ given[private[x][j]] = <<x, j>>
            BY <1>0, <3>1, <3>2, <4>1, <5>2, KeyRange DEF PrivateGiven
          <6>2. private[x][j] # v
            BY <1>0, <3>4, <5>2, <6>1, KeyAssumption
          <6> QED
            BY <1>1, <6>1, <6>2
        <5> QED
          BY <5>1, <5>2
      <4>2. ASSUME NEW z \in Value, NEW x \in Owner, NEW j \in KeyIndex, given'[z] = <<x, j>>
            PROVE  j < keyMax
        BY <1>0, <1>1, <3>1, <4>2 DEF PrivateGiven
      <4> QED
        BY <1>0, <4>1, <4>2 DEF PrivateGiven
    <3>6. ComingGiven'
      BY <1>0, <1>1, <2>1, <3>1, <3>2, KeyAssumption
         DEF ComingGiven, KeyTypes, Doing, InDestructor, o
    <3>7. OneDestructor'
      BY <1>0, <2>1, <3>1, <3>2 DEF OneDestructor, DestroyedBy, InDestructor
    <3>8. CleanedUp'
      BY <1>0, <2>1, <3>1, <3>2, KeyRange DEF CleanedUp, Passed, KeyTypes
    <3>9. Counts'
      <4> SUFFICES ASSUME NEW z \in Value, NEW y \in Owner, NEW j \in destructors,
                          given'[z] = <<y, j>>
                   PROVE  destroyed[z] = IF Coming(z)' \/ Stays(z, y, j)' THEN 0 ELSE 1
        BY <1>0, <2>1 DEF Counts
      <4>0. j \in KeyIndex
        BY <1>0, KeyRange DEF KeyTypes
      <4>1. Coming(z)' <=> Coming(z)
        BY <2>1 DEF Coming
      <4>2. InDestructor(y, j)' <=> InDestructor(y, j)
        BY <2>1 DEF InDestructor
      <4>3. CASE z = v
        BY <1>0, <1>1, <3>1, <3>2, <4>0, <4>2, <4>3, KeyAssumption DEF Stays
      <4>4. CASE z # v
        <5>1. given[z] = <<y, j>>
          BY <1>1, <4>4
        <5>2. Stays(z, y, j)' <=> Stays(z, y, j)
          BY <1>0, <3>2, <3>3, <4>0, <4>2, <4>4, KeyAssumption DEF Stays, o
        <5> QED
          BY <3>1, <4>1, <5>1, <5>2 DEF Counts
      <4> QED
        BY <4>3, <4>4
    <3> QED
      BY <3>5, <3>6, <3>7, <3>8, <3>9 DEF Unraced
  <2> QED
    BY <2>2, <2>3 DEF KeyInv
<1> QED
  BY <1>3, <1>4

(* The exit of t comes to the keys from `from` on.                         *)
LEMMA CleanupStable ==
  ASSUME KeyTypes, ~raced => Unraced, NEW t \in Owner, NEW from \in Nat,
         Cleanup(t, from), UNCHANGED <<keyMax, destructors, given>>,
         \/ doing[t] = Running /\ from = 0 /\ UNCHANGED private
         \/ /\ doing[t].op = "cleanup" /\ from = doing[t].key + 1
            /\ private' = [private EXCEPT ![t][doing[t].key] = NoValue]
  PROVE  KeyInv'
<1> DEFINE ks == NextToDestroy(t, from)
           k  == CHOOSE x \in ks : \A y \in ks : x <= y
           r  == IF ks = {} THEN Exited
                 ELSE [op |-> "cleanup", of |-> t, key |-> k, value |-> NoValue]
           o  == private[t][k]
           g  == doing[t].key
           was == doing[t].op = "cleanup"
<1>1. ks \subseteq Nat /\ ks \subseteq KeyIndex /\ ks \subseteq destructors
  BY KeyRange DEF NextToDestroy, Destroys, KeyTypes
<1>2. ks # {} => k \in ks /\ \A y \in ks : k <= y
  <2>1. ks # {} => \E x \in ks : \A y \in ks : x <= y
    BY <1>1, NatLeast
  <2> QED
    BY <2>1
<1>3. /\ doing' = [doing EXCEPT ![t] = r]
      /\ ks = {} => UNCHANGED <<destroyed, raced>>
      /\ ks # {} => /\ destroyed' = [destroyed EXCEPT ![o] = @ + 1]
                    /\ raced' = (raced \/ InDestructor(t, k))
  BY DEF Cleanup, Destructor
<1>4. /\ r.op = (IF ks = {} THEN "exited" ELSE "cleanup")
      /\ ks # {} => r.of = t /\ r.key = k
      /\ r \in Doing
  BY <1>1, <1>2, KeyAssumption DEF Exited, Running, Doing, KeyIndex
<1> HIDE DEF k, r
<1>5. ks # {} => o \in Value /\ k \in KeyIndex /\ k \in destructors /\ k >= from
  BY <1>1, <1>2 DEF NextToDestroy, Destroys, KeyTypes
<1>6. g \in KeyIndex /\ (was \/ doing[t].op = "none")
  BY DEF KeyTypes, Doing, Running
<1>7. \A x \in Owner, j \in KeyIndex :
        private'[x][j] = IF was /\ x = t /\ j = g THEN NoValue ELSE private[x][j]
  BY <1>6 DEF KeyTypes, Running
<1>8. KeyTypes'
  <2>1. private' \in [Owner -> [KeyIndex -> Value \cup {NoValue}]]
    BY <1>6 DEF KeyTypes
  <2>2. destroyed' \in [Value -> Nat]
    BY <1>3, <1>5 DEF KeyTypes
  <2>2a. raced' \in BOOLEAN
    BY <1>3, Zenon DEF KeyTypes, InDestructor
  <2>3. doing' \in [Owner -> Doing]
    BY <1>3, <1>4 DEF KeyTypes
  <2> QED
    BY <2>1, <2>2, <2>2a, <2>3 DEF KeyTypes
<1>9. ASSUME ~raced' PROVE Unraced'
  <2>1. /\ ~raced /\ PrivateGiven /\ ComingGiven /\ OneDestructor /\ CleanedUp /\ Counts
        /\ ks # {} => ~InDestructor(t, k)
    <3>1. ~raced /\ (ks # {} => ~InDestructor(t, k))
      <4>1. CASE ks = {}
        BY <1>3, <1>9, <4>1
      <4>2. CASE ks # {}
        <5>1. raced' = (raced \/ InDestructor(t, k))
          BY <1>3, <4>2
        <5> QED
          BY <1>9, <4>2, <5>1
      <4> QED
        BY <4>1, <4>2
    <3> QED
      BY <3>1 DEF Unraced
  <2>2. \A x \in Owner : doing'[x] = IF x = t THEN r ELSE doing[x]
    BY <1>3 DEF KeyTypes
  <2>3. was => DestroyedBy(t, t, g) /\ g \in destructors /\ private[t][g] # NoValue
               /\ \A x \in Owner : DestroyedBy(x, t, g) => x = t
    <3>1. was => DestroyedBy(t, t, g)
      BY <2>1 DEF DestroyedBy, ComingGiven
    <3> QED
      BY <1>6, <2>1, <3>1 DEF OneDestructor
  <2>4. was => from = g + 1
    BY DEF Running
  <2>4a. ~was => from = 0
    OBVIOUS
  <2>5. ks # {} => ~(was /\ k = g)
    BY <1>1, <1>2, <1>5, <1>6, <2>4, KeyRange DEF KeyTypes
  <2> HIDE DEF o, g, was, ks
  <2>6. PrivateGiven'
    BY <1>7, <2>1 DEF PrivateGiven
  <2>7. ComingGiven'
    BY <1>4, <1>7, <1>8, <2>1, <2>2, KeyAssumption
       DEF ComingGiven, KeyTypes, Doing
  <2>8. \A x, y \in Owner, j \in KeyIndex : DestroyedBy(x, y, j)' <=>
          \/ x # t /\ DestroyedBy(x, y, j)
          \/ ks # {} /\ x = t /\ y = t /\ j = k
    BY <1>4, <2>2 DEF DestroyedBy
  <2>9. OneDestructor'
    BY <1>5, <1>7, <2>1, <2>3, <2>5, <2>8, KeyAssumption
       DEF OneDestructor, InDestructor, DestroyedBy, o
  <2>10. CleanedUp'
    <3> SUFFICES ASSUME NEW y \in Owner, NEW j \in destructors,
                        doing'[y].op = "exited" \/ Passed(y, j)'
                 PROVE  private'[y][j] = NoValue
      BY DEF CleanedUp
    <3>0. j \in KeyIndex /\ j \in Nat /\ j < keyMax /\ keyMax \in Nat
      BY KeyRange DEF KeyTypes
    <3>1. CASE y # t
      BY <1>7, <2>1, <2>2, <3>0, <3>1 DEF CleanedUp, Passed
    <3>2. CASE y = t
      <4>1. ks = {} \/ j < k
        BY <1>4, <2>2, <3>2 DEF Passed
      <4>2. j \notin ks
        BY <1>1, <1>2, <1>5, <3>0, <4>1, KeyRange
      <4>3. j < from \/ private[t][j] = NoValue
        BY <3>0, <4>2 DEF ks, NextToDestroy, Destroys
      <4>4. j < from => (was /\ j = g) \/ (was /\ j < g)
        BY <1>6, <2>4, <2>4a, <3>0, KeyRange DEF KeyTypes
      <4>5. was /\ j < g => private[t][j] = NoValue
        BY <2>1 DEF CleanedUp, Passed, was, g
      <4> QED
        BY <1>7, <3>0, <3>2, <4>3, <4>4, <4>5
    <3> QED
      BY <3>1, <3>2
  <2>11. Counts'
    <3> SUFFICES ASSUME NEW z \in Value, NEW y \in Owner, NEW j \in destructors,
                        given[z] = <<y, j>>
                 PROVE  destroyed'[z] = IF Coming(z)' \/ Stays(z, y, j)' THEN 0 ELSE 1
      BY DEF Counts
    <3>0. j \in KeyIndex /\ destroyed[z] = IF Coming(z) \/ Stays(z, y, j) THEN 0 ELSE 1
      BY <2>1, KeyRange DEF Counts, KeyTypes
    <3>1. Coming(z)' <=> Coming(z)
      BY <1>4, <1>6, <2>2 DEF Coming, was
    <3>2. ks # {} => given[o] = <<t, k>>
      BY <1>5, <2>1, KeyAssumption DEF PrivateGiven, o
    <3>3. destroyed'[z] = IF ks # {} /\ z = o THEN destroyed[z] + 1 ELSE destroyed[z]
      BY <1>3, <1>5 DEF KeyTypes
    <3>4. CASE ks # {} /\ z = o
      <4>1. y = t /\ j = k
        BY <3>2, <3>4
      <4>2. ~Coming(z)
        BY <2>1, <3>2, <3>4, KeyAssumption DEF Coming, ComingGiven, KeyTypes, Doing, o
      <4>3. Stays(z, y, j) /\ ~Stays(z, y, j)'
        BY <2>1, <2>8, <3>0, <3>4, <4>1 DEF Stays, o, InDestructor, DestroyedBy
      <4> QED
        BY <3>0, <3>1, <3>3, <3>4, <4>2, <4>3
    <3>5. CASE ~(ks # {} /\ z = o)
      <4>1. InDestructor(y, j) <=> \E x \in Owner : DestroyedBy(x, y, j)
        BY DEF InDestructor, DestroyedBy
      <4>2. InDestructor(y, j)' <=> \E x \in Owner : DestroyedBy(x, y, j)'
        BY DEF InDestructor, DestroyedBy
      <4>3. CASE was /\ y = t /\ j = g
        <5>1. ~Stays(z, y, j)
          BY <2>3, <4>1, <4>3 DEF Stays
        <5>2. ~Stays(z, y, j)'
          BY <1>7, <3>0, <4>3, KeyAssumption DEF Stays
        <5> QED
          BY <3>0, <3>1, <3>3, <3>5, <5>1, <5>2
      <4>4. CASE ks # {} /\ y = t /\ j = k
        <5>1. ~Stays(z, y, j) /\ ~Stays(z, y, j)'
          BY <2>8, <3>5, <3>0, <4>2, <4>4 DEF Stays, o
        <5> QED
          BY <3>0, <3>1, <3>3, <3>5, <5>1
      <4>5. CASE ~(was /\ y = t /\ j = g) /\ ~(ks # {} /\ y = t /\ j = k)
        <5>1. DestroyedBy(t, y, j) => was /\ y = t /\ j = g
          BY <1>6, <2>1 DEF DestroyedBy, was, g, ComingGiven
        <5>2. Stays(z, y, j)' <=> Stays(z, y, j)
          BY <1>7, <2>8, <3>0, <4>1, <4>2, <4>5, <5>1 DEF Stays
        <5> QED
          BY <3>0, <3>1, <3>3, <3>5, <5>2
      <4> QED
        BY <4>3, <4>4, <4>5
    <3> QED
      BY <3>4, <3>5
  <2> QED
    BY <2>6, <2>7, <2>9, <2>10, <2>11 DEF Unraced
<1> QED
  BY <1>8, <1>9 DEF KeyInv

(* A new thread starts with no values.                                     *)
LEMMA ThreadCreateStable ==
  ASSUME KeyInv, NEW t \in Owner, ThreadCreate(t)
  PROVE  KeyInv'
<1> DEFINE none == [k \in KeyIndex |-> NoValue]
<1>1. /\ KeyTypes /\ doing[t].op = "exited"
      /\ doing' = [doing EXCEPT ![t] = Running]
      /\ private' = [private EXCEPT ![t] = none]
      /\ UNCHANGED <<keyMax, destructors, destroyed, given, raced>>
  BY DEF KeyInv, ThreadCreate, Exited, Running
<1>0. Running \in Doing /\ Running.op = "none"
  BY KeyAssumption DEF Running, Doing, KeyIndex
<1>2. KeyTypes'
  <2>1. doing' \in [Owner -> Doing]
    BY <1>0, <1>1 DEF KeyTypes
  <2>2. private' \in [Owner -> [KeyIndex -> Value \cup {NoValue}]]
    BY <1>1 DEF KeyTypes
  <2> QED
    BY <1>1, <2>1, <2>2 DEF KeyTypes
<1>3. ASSUME ~raced' PROVE Unraced'
  <2>1. /\ ~raced /\ PrivateGiven /\ ComingGiven /\ OneDestructor /\ CleanedUp /\ Counts
    BY <1>1, <1>3 DEF KeyInv, Unraced
  <2>2. \A x \in Owner : doing'[x] = IF x = t THEN Running ELSE doing[x]
    BY <1>1 DEF KeyTypes
  <2>3. \A x \in Owner, j \in KeyIndex :
          private'[x][j] = IF x = t THEN NoValue ELSE private[x][j]
    BY <1>1 DEF KeyTypes
  <2>4. \A j \in destructors : private[t][j] = NoValue
    BY <1>1, <2>1 DEF CleanedUp
  <2>5. \A x, y \in Owner, j \in KeyIndex : DestroyedBy(x, y, j)' <=>
          DestroyedBy(x, y, j)
    BY <1>0, <1>1, <2>2 DEF DestroyedBy
  <2>6. PrivateGiven'
    <3>1. ASSUME NEW x \in Owner, NEW j \in KeyIndex, private'[x][j] # NoValue
          PROVE  given[private'[x][j]] = <<x, j>>
      BY <2>1, <2>3, <3>1 DEF PrivateGiven
    <3> QED
      BY <1>1, <2>1, <3>1 DEF PrivateGiven
  <2>7. ComingGiven'
    BY <1>0, <1>1, <2>1, <2>2, <2>3 DEF ComingGiven, KeyTypes, Doing
  <2>8. OneDestructor'
    BY <1>1, <2>1, <2>3, <2>4, <2>5 DEF OneDestructor
  <2>9. CleanedUp'
    BY <1>0, <1>1, <2>1, <2>2, <2>3, KeyRange DEF CleanedUp, Passed, KeyTypes
  <2>10. Counts'
    <3> SUFFICES ASSUME NEW z \in Value, NEW y \in Owner, NEW j \in destructors,
                        given[z] = <<y, j>>
                 PROVE  destroyed[z] = IF Coming(z)' \/ Stays(z, y, j)' THEN 0 ELSE 1
      BY <1>1 DEF Counts
    <3>0. j \in KeyIndex /\ destroyed[z] = IF Coming(z) \/ Stays(z, y, j) THEN 0 ELSE 1
      BY <1>1, <2>1, KeyRange DEF Counts, KeyTypes
    <3>1. Coming(z)' <=> Coming(z)
      BY <1>0, <1>1, <2>2 DEF Coming
    <3>2. InDestructor(y, j) <=> InDestructor(y, j)'
      BY <2>5, <3>0 DEF InDestructor, DestroyedBy
    <3>3. Stays(z, y, j)' <=> Stays(z, y, j)
      BY <2>3, <2>4, <3>0, <3>2, KeyAssumption DEF Stays
    <3> QED
      BY <3>0, <3>1, <3>3
  <2> QED
    BY <2>6, <2>7, <2>8, <2>9, <2>10 DEF Unraced
<1> QED
  BY <1>2, <1>3 DEF KeyInv

(* However many threads set, clear and exit in any order, a value that was *)
(* set for a key with a destructor is destroyed once, and at the latest    *)
(* when its thread is gone: st_thread_setspecific and _st_thread_cleanup   *)
(* (key.c) never both destroy a value and never forget one, unless two     *)
(* threads were at the same value at the same time.                        *)
THEOREM KeysCorrect == KeySpec => []DestroyedOnce
<1>1. KeyInit => KeyInv
  <2> SUFFICES ASSUME KeyInit PROVE KeyInv
    OBVIOUS
  <2>0. Running \in Doing /\ Running.op = "none"
    BY KeyAssumption DEF Running, Doing, KeyIndex
  <2>1. KeyTypes
    <3>1. private \in [Owner -> [KeyIndex -> Value \cup {NoValue}]]
      BY DEF KeyInit
    <3>2. /\ keyMax \in 0..KeysMax /\ destructors \subseteq 0..(keyMax - 1)
          /\ destroyed \in [Value -> Nat]
      BY KeyAssumption DEF KeyInit
    <3>3. doing \in [Owner -> Doing]
      BY <2>0 DEF KeyInit
    <3>4. given \in [Value -> (Owner \X KeyIndex) \cup {NoValue}] /\ raced \in BOOLEAN
      BY DEF KeyInit
    <3> QED
      BY <3>1, <3>2, <3>3, <3>4 DEF KeyTypes
  <2>2. \A t \in Owner : doing[t].op = "none"
    BY <2>0 DEF KeyInit
  <2>3. ComingGiven /\ OneDestructor
    BY <2>2 DEF ComingGiven, OneDestructor, DestroyedBy
  <2>4. PrivateGiven /\ CleanedUp /\ Counts
    BY KeyAssumption DEF KeyInit, PrivateGiven, CleanedUp, Counts
  <2> QED
    BY <2>1, <2>3, <2>4 DEF KeyInv, Unraced
<1>2. KeyInv /\ [KeyNext]_keyVars => KeyInv'
  <2> SUFFICES ASSUME KeyInv, [KeyNext]_keyVars PROVE KeyInv'
    OBVIOUS
  <2>1. CASE UNCHANGED keyVars
    BY <2>1 DEF keyVars, KeyInv, KeyTypes, Unraced, PrivateGiven, ComingGiven, OneDestructor, DestroyedBy,
        CleanedUp, Passed, Counts, Coming, Stays, InDestructor
  <2>2. ASSUME NEW t \in Owner, ThreadExit(t) \/ CleanupGoesOn(t)
        PROVE  KeyInv'
    <3>1. KeyTypes /\ (~raced => Unraced)
      BY DEF KeyInv
    <3>2. CASE ThreadExit(t)
      BY <3>1, <3>2, CleanupStable DEF ThreadExit
    <3>3. CASE CleanupGoesOn(t)
      <4>1. doing[t].key + 1 \in Nat
        BY <3>1, KeyRange DEF KeyTypes, Doing
      <4> QED
        BY <3>1, <3>3, <4>1, CleanupStable DEF CleanupGoesOn
    <3> QED
      BY <2>2, <3>2, <3>3
  <2> QED
    BY <2>1, <2>2, CreateStable, SetStable, SetReturnsStable, ThreadCreateStable
       DEF KeyNext, KeyStep
<1>3. KeyInv => DestroyedOnce
  BY KeyInvSuffices
<1> QED
  BY <1>1, <1>2, <1>3, PTL DEF KeySpec

-----------------------------------------------------------------------------
(* The inductive invariant of Netfd.                                       *)

(* The ranges of the descriptor objects and of what the threads do.        *)
ObjectFields == [inuse : BOOLEAN, osfd : OsFd \cup {Nobody},
                 private : Holder \cup {Nobody}]
UseFields == [op : {"none", "open", "set", "free"},
              obj : Object \cup {Nobody}, osfd : OsFd \cup {Nobody}]

NetfdTypes ==
  /\ freelist \in Seq(Object)
  /\ allocated \in SUBSET Object
  /\ netfd \in [Object -> ObjectFields]
  /\ using \in [Holder -> UseFields]
  /\ misused \in BOOLEAN
  /\ \A t \in Holder : \/ using[t] = NoUse
                       \/ using[t].op # "none" /\ using[t].obj \in allocated

(* A list without repetitions; an object on a list; one whose destructor   *)
(* runs.                                                                   *)
NoRepeat(q) == \A i, j \in 1..Len(q) : q[i] = q[j] => i = j
In(o, q) == \E i \in 1..Len(q) : q[i] = o
Ending(o) == \E t \in Holder : using[t].op = "free" /\ using[t].obj = o

(* The free list and the objects, whoever closes them.                     *)
ListInv ==
  /\ NoRepeat(freelist)
  /\ \A o \in Object :
       In(o, freelist) <=> o \in allocated /\ ~netfd[o].inuse /\ ~Ending(o)
  /\ \A t \in Holder : using[t].op = "free" => ~netfd[using[t].obj].inuse
  /\ \A t, u \in Holder : using[t].op = "free" /\ using[u].op = "free"
                          /\ using[t].obj = using[u].obj => t = u
  /\ \A o \in Object \ allocated : ~netfd[o].inuse

(* What a thread has open, as long as each closes its own only.            *)
OwnObject(t) ==
  /\ netfd[using[t].obj].osfd = using[t].osfd
  /\ netfd[using[t].obj].private \in {Nobody, t}
  /\ using[t].osfd \in osOpen
  /\ using[t].osfd \in OsFd
  /\ using[t].op # "free" => netfd[using[t].obj].inuse

Distinct == \A t, u \in Holder : using[t] # NoUse /\ using[u] # NoUse /\ t # u =>
              using[t].obj # using[u].obj /\ using[t].osfd # using[u].osfd

FreePrivate == \A o \in Object : ~netfd[o].inuse /\ ~Ending(o) =>
                  netfd[o].private = Nobody

OwnInv ==
  ~misused => /\ \A t \in Holder : using[t] # NoUse => OwnObject(t)
              /\ Distinct
              /\ FreePrivate

NetfdInv == NetfdTypes /\ ListInv /\ OwnInv

-----------------------------------------------------------------------------
(* An object at the head of a list.                                        *)
LEMMA Pushed ==
  ASSUME NEW q \in Seq(Object), NEW o \in Object
  PROVE  /\ <<o>> \o q \in Seq(Object)
         /\ \A x \in Object : In(x, <<o>> \o q) <=> x = o \/ In(x, q)
         /\ NoRepeat(q) /\ ~In(o, q) => NoRepeat(<<o>> \o q)
<1> DEFINE r == <<o>> \o q
<1>1. /\ r \in Seq(Object) /\ Len(r) = Len(q) + 1 /\ Len(q) \in Nat
      /\ r[1] = o
      /\ \A i \in 1..Len(q) : r[i + 1] = q[i]
      /\ \A i \in 1..Len(r) : i # 1 => i - 1 \in 1..Len(q) /\ r[i] = q[i - 1]
  OBVIOUS
<1> HIDE DEF r
<1>2. ASSUME NEW x \in Object
      PROVE  In(x, r) <=> x = o \/ In(x, q)
  <2>1. ASSUME In(x, r) PROVE x = o \/ In(x, q)
    BY <1>1, <2>1 DEF In
  <2>2. x = o => In(x, r)
    <3>1. 1 \in 1..Len(r)
      BY <1>1
    <3> QED
      BY <1>1, <3>1 DEF In
  <2>3. ASSUME In(x, q) PROVE In(x, r)
    <3>1. PICK i \in 1..Len(q) : q[i] = x
      BY <2>3 DEF In
    <3>2. i + 1 \in 1..Len(r) /\ r[i + 1] = x
      BY <1>1, <3>1
    <3> QED
      BY <3>2 DEF In
  <2> QED
    BY <2>1, <2>2, <2>3
<1>3. ASSUME NoRepeat(q), ~In(o, q) PROVE NoRepeat(r)
  <2> SUFFICES ASSUME NEW i \in 1..Len(r), NEW j \in 1..Len(r), r[i] = r[j]
               PROVE  i = j
    BY DEF NoRepeat
  <2>1. CASE i = 1 /\ j = 1
    BY <2>1
  <2>2. CASE i = 1 /\ j # 1
    BY <1>1, <1>3, <2>2 DEF In
  <2>3. CASE i # 1 /\ j = 1
    BY <1>1, <1>3, <2>3 DEF In
  <2>4. CASE i # 1 /\ j # 1
    <3>1. i - 1 = j - 1
      BY <1>1, <1>3, <2>4 DEF NoRepeat
    <3> QED
      BY <3>1
  <2> QED
    BY <2>1, <2>2, <2>3, <2>4
<1> QED
  BY <1>1, <1>2, <1>3 DEF r

(* A list of different objects without its head.                           *)
LEMMA Popped ==
  ASSUME NEW q \in Seq(Object), q # <<>>, NoRepeat(q)
  PROVE  /\ Tail(q) \in Seq(Object) /\ Head(q) \in Object
         /\ NoRepeat(Tail(q))
         /\ In(Head(q), q)
         /\ \A x \in Object : In(x, Tail(q)) <=> In(x, q) /\ x # Head(q)
<1> DEFINE r == Tail(q)
           h == Head(q)
<1>1. /\ r \in Seq(Object) /\ h \in Object /\ Len(q) \in Nat \ {0}
      /\ Len(r) = Len(q) - 1 /\ Len(r) \in Nat
      /\ h = q[1]
      /\ \A i \in 1..Len(r) : i + 1 \in 1..Len(q) /\ r[i] = q[i + 1]
      /\ \A i \in 1..Len(q) : i # 1 => i - 1 \in 1..Len(r) /\ q[i] = r[i - 1]
  OBVIOUS
<1> HIDE DEF r, h
<1>2. NoRepeat(r)
  <2> SUFFICES ASSUME NEW i \in 1..Len(r), NEW j \in 1..Len(r), r[i] = r[j]
               PROVE  i = j
    BY DEF NoRepeat
  <2>1. i + 1 = j + 1
    BY <1>1 DEF NoRepeat
  <2> QED
    BY <2>1
<1>3. 1 \in 1..Len(q)
  BY <1>1
<1>4. In(h, q)
  BY <1>1, <1>3 DEF In
<1>5. ASSUME NEW x \in Object
      PROVE  In(x, r) <=> In(x, q) /\ x # h
  <2>1. ASSUME In(x, r) PROVE In(x, q) /\ x # h
    <3>1. PICK i \in 1..Len(r) : r[i] = x
      BY <2>1 DEF In
    <3>2. i + 1 \in 1..Len(q) /\ q[i + 1] = x /\ i + 1 # 1
      BY <1>1, <3>1
    <3> QED
      BY <1>1, <1>3, <3>2 DEF In, NoRepeat
  <2>2. ASSUME In(x, q), x # h PROVE In(x, r)
    <3>1. PICK i \in 1..Len(q) : q[i] = x
      BY <2>2 DEF In
    <3>2. i # 1
      BY <1>1, <2>2, <3>1
    <3> QED
      BY <1>1, <3>1, <3>2 DEF In
  <2> QED
    BY <2>1, <2>2
<1> QED
  BY <1>1, <1>2, <1>4, <1>5 DEF r, h

(* A list of different objects is as long as the set of them.              *)
LEMMA DistinctCount ==
  ASSUME NEW q \in Seq(Object), NoRepeat(q)
  PROVE  Cardinality({q[i] : i \in 1..Len(q)}) = Len(q)
<1> DEFINE S == {q[i] : i \in 1..Len(q)}
           n == Len(q)
           f == [i \in 1..n |-> q[i]]
<1>1. n \in Nat
  OBVIOUS
<1>2. IsFiniteSet(1..n) /\ Cardinality(1..n) = n
  <2>1. 1 \in Int /\ n \in Int
    BY <1>1
  <2>2. /\ IsFiniteSet(1..n)
        /\ Cardinality(1..n) = IF 1 > n THEN 0 ELSE n - 1 + 1
    BY <2>1, FS_Interval
  <2> QED
    BY <1>1, <2>2
<1>3. f \in Bijection(1..n, S)
  <2>1. f \in Injection(1..n, S)
    <3>1. \A i, j \in 1..n : f[i] = f[j] => i = j
      BY DEF NoRepeat
    <3>2. f \in [1..n -> S]
      OBVIOUS
    <3> QED
      BY <3>1, <3>2 DEF Injection, IsInjective
  <2>2. f \in Surjection(1..n, S)
    BY DEF Surjection
  <2> QED
    BY <2>1, <2>2 DEF Bijection
<1> HIDE DEF f, S, n
<1>4. ExistsBijection(1..n, S)
  BY <1>3 DEF ExistsBijection
<1>5. Cardinality(1..n) = Cardinality(S)
  BY <1>2, <1>4, FS_Bijection
<1> QED
  BY <1>2, <1>5 DEF S, n

-----------------------------------------------------------------------------
(* _st_netfd_new takes the object off the free list, or a new one.         *)
LEMMA NewStable ==
  ASSUME NetfdInv, NEW t \in Holder, NEW d \in OsFd, NetfdNew(t, d)
  PROVE  NetfdInv'
<1>a. NetfdTypes /\ ListInv /\ OwnInv /\ using[t] = NoUse /\ d \notin osOpen
  BY DEF NetfdInv, NetfdNew
<1>1. PICK o \in IF freelist # <<>> THEN {Head(freelist)}
                                    ELSE Object \ allocated :
        /\ allocated' = allocated \cup {o}
        /\ netfd' = [netfd EXCEPT ![o].osfd = d, ![o].inuse = TRUE]
        /\ using' = [using EXCEPT ![t] =
             [op |-> "open", obj |-> o, osfd |-> d]]
  BY DEF NetfdNew
<1>2. /\ o \in Object
      /\ freelist' \in Seq(Object) /\ NoRepeat(freelist')
      /\ ~netfd[o].inuse /\ ~Ending(o)
      /\ \A x \in Object : In(x, freelist') <=> In(x, freelist) /\ x # o
  <2>1. CASE freelist # <<>>
    <3>1. freelist' = Tail(freelist) /\ o = Head(freelist)
      BY <1>1, <2>1 DEF NetfdNew
    <3>2. freelist \in Seq(Object) /\ NoRepeat(freelist)
      BY <1>a DEF NetfdTypes, ListInv
    <3>3. /\ freelist' \in Seq(Object) /\ o \in Object /\ NoRepeat(freelist')
          /\ In(o, freelist)
          /\ \A x \in Object : In(x, freelist') <=> In(x, freelist) /\ x # o
      BY <2>1, <3>1, <3>2, Popped
    <3> QED
      BY <1>a, <3>3 DEF ListInv
  <2>2. CASE freelist = <<>>
    <3>1. freelist' = <<>> /\ o \in Object \ allocated
      BY <1>1, <2>2 DEF NetfdNew
    <3>2. <<>> \in Seq(Object) /\ NoRepeat(<<>>)
      BY DEF NoRepeat
    <3>3. \A x \in Object : ~In(x, <<>>)
      BY DEF In
    <3>4. ~netfd[o].inuse
      BY <1>a, <3>1 DEF ListInv
    <3>5. ~Ending(o)
      BY <1>a, <3>1 DEF Ending, NetfdTypes, NoUse
    <3> QED
      BY <2>2, <3>1, <3>2, <3>3, <3>4, <3>5
  <2> QED
    BY <2>1, <2>2
<1>3. /\ netfd' \in [Object -> ObjectFields]
      /\ netfd'[o].inuse /\ netfd'[o].osfd = d
      /\ netfd'[o].private = netfd[o].private
      /\ \A x \in Object : x # o => netfd'[x] = netfd[x]
  BY <1>a, <1>1, <1>2 DEF NetfdTypes, ObjectFields
<1>4. /\ using' \in [Holder -> UseFields]
      /\ using'[t].op = "open" /\ using'[t].obj = o /\ using'[t].osfd = d
      /\ \A u \in Holder : u # t => using'[u] = using[u]
  BY <1>a, <1>1, <1>2 DEF NetfdTypes, UseFields
<1>5. \A x \in Object : Ending(x)' <=> Ending(x)
  BY <1>a, <1>4 DEF Ending, NoUse
<1>6. /\ allocated' = allocated \cup {o} /\ osOpen' = osOpen \cup {d}
      /\ misused' = misused
  BY <1>1 DEF NetfdNew
<1> HIDE DEF Ending
<1>7. NetfdTypes'
  BY <1>a, <1>2, <1>3, <1>4, <1>6 DEF NetfdTypes
<1>8. ListInv'
  <2>1. \A x \in Object :
          In(x, freelist') <=> x \in allocated' /\ ~netfd'[x].inuse /\ ~Ending(x)'
    BY <1>a, <1>2, <1>3, <1>5, <1>6 DEF ListInv
  <2>2. \A u \in Holder : using'[u].op = "free" =>
          u # t /\ using[u].op = "free" /\ using'[u] = using[u]
          /\ using[u].obj # o /\ using[u].obj \in Object
    BY <1>a, <1>2, <1>4 DEF Ending, NetfdTypes, NoUse
  <2>3. \A u \in Holder : using'[u].op = "free" => ~netfd'[using'[u].obj].inuse
    BY <1>a, <1>3, <2>2 DEF ListInv
  <2>4. \A u, w \in Holder : using'[u].op = "free" /\ using'[w].op = "free"
                             /\ using'[u].obj = using'[w].obj => u = w
    BY <1>a, <2>2 DEF ListInv
  <2>5. \A x \in Object \ allocated' : ~netfd'[x].inuse
    BY <1>a, <1>3, <1>6 DEF ListInv
  <2> QED
    BY <1>2, <2>1, <2>3, <2>4, <2>5 DEF ListInv
<1>9. OwnInv'
  <2> SUFFICES ASSUME ~misused
               PROVE  /\ \A u \in Holder : using'[u] # NoUse => OwnObject(u)'
                      /\ Distinct' /\ FreePrivate'
    BY <1>6 DEF OwnInv
  <2>a. /\ \A u \in Holder : using[u] # NoUse => OwnObject(u)
        /\ Distinct /\ FreePrivate
    BY <1>a DEF OwnInv
  <2>1. \A u \in Holder : using[u] # NoUse => using[u].obj \in Object
    BY <1>a DEF NetfdTypes
  <2>2. \A u \in Holder : using[u] # NoUse => using[u].obj # o
    BY <1>2, <2>a DEF OwnObject, Ending
  <2>3. ASSUME NEW u \in Holder, using'[u] # NoUse PROVE OwnObject(u)'
    <3>1. CASE u = t
      <4>1. netfd[o].private = Nobody
        BY <1>2, <2>a DEF FreePrivate
      <4> QED
        BY <1>3, <1>4, <1>6, <3>1, <4>1 DEF OwnObject
    <3>2. CASE u # t
      BY <1>3, <1>4, <1>6, <2>a, <2>1, <2>2, <2>3, <3>2 DEF OwnObject
    <3> QED
      BY <3>1, <3>2
  <2>4. Distinct'
    <3>1. \A u \in Holder : using[u] # NoUse => using[u].osfd # d
      BY <1>a, <2>a DEF OwnObject
    <3> QED
      BY <1>4, <2>a, <2>2, <3>1 DEF Distinct
  <2>5. FreePrivate'
    BY <1>3, <1>5, <2>a DEF FreePrivate
  <2> QED
    BY <2>3, <2>4, <2>5
<1> QED
  BY <1>7, <1>8, <1>9 DEF NetfdInv

(* st_netfd_setspecific and the destructor it calls.                       *)
LEMMA PrivateStable ==
  ASSUME NetfdInv, NEW t \in Holder, SetPrivate(t) \/ PrivateSet(t)
  PROVE  NetfdInv'
<1> DEFINE o == using[t].obj
<1>a. NetfdTypes /\ ListInv /\ OwnInv
  BY DEF NetfdInv
<1>1. /\ using[t].op \in {"open", "set"} /\ using[t] # NoUse
      /\ o \in allocated /\ o \in Object
  BY <1>a DEF SetPrivate, PrivateSet, NetfdTypes, NoUse
<1>2. \/ netfd' = netfd
      \/ netfd' = [netfd EXCEPT ![o].private = t]
  BY DEF SetPrivate, PrivateSet
<1>3. /\ netfd' \in [Object -> ObjectFields]
      /\ \A x \in Object : netfd'[x].inuse = netfd[x].inuse
                           /\ netfd'[x].osfd = netfd[x].osfd
      /\ \A x \in Object : x # o => netfd'[x] = netfd[x]
      /\ netfd'[o].private \in {netfd[o].private, t}
  <2>1. CASE netfd' = netfd
    BY <1>a, <2>1 DEF NetfdTypes
  <2>2. CASE netfd' = [netfd EXCEPT ![o].private = t]
    BY <1>a, <1>1, <2>2 DEF NetfdTypes, ObjectFields
  <2> QED
    BY <1>2, <2>1, <2>2
<1>4. \/ using' = using
      \/ using' = [using EXCEPT ![t].op = "set"]
      \/ using' = [using EXCEPT ![t].op = "open"]
  BY DEF SetPrivate, PrivateSet
<1>5. /\ using' \in [Holder -> UseFields]
      /\ using'[t].op \in {"open", "set"} /\ using'[t] # NoUse
      /\ \A u \in Holder : using'[u].obj = using[u].obj
                           /\ using'[u].osfd = using[u].osfd
      /\ \A u \in Holder : u # t => using'[u] = using[u]
  <2>1. CASE using' = using
    BY <1>a, <1>1, <2>1 DEF NetfdTypes
  <2>2. CASE using' = [using EXCEPT ![t].op = "set"]
    BY <1>a, <1>1, <2>2 DEF NetfdTypes, UseFields, NoUse
  <2>3. CASE using' = [using EXCEPT ![t].op = "open"]
    BY <1>a, <1>1, <2>3 DEF NetfdTypes, UseFields, NoUse
  <2> QED
    BY <1>4, <2>1, <2>2, <2>3
<1>6. UNCHANGED <<freelist, allocated, osOpen, misused>>
  BY DEF SetPrivate, PrivateSet
<1> HIDE DEF o
<1>7. /\ \A u \in Holder : using'[u].op = "free" <=> using[u].op = "free"
      /\ \A u \in Holder : using'[u] # NoUse <=> using[u] # NoUse
  BY <1>1, <1>5
<1>8. \A x \in Object : Ending(x)' <=> Ending(x)
  BY <1>5, <1>7 DEF Ending
<1>9. NetfdTypes'
  <2>1. \A u \in Holder : \/ using'[u] = NoUse
                          \/ using'[u].op # "none" /\ using'[u].obj \in allocated'
    BY <1>a, <1>1, <1>5, <1>6 DEF NetfdTypes, o
  <2> QED
    BY <1>a, <1>3, <1>5, <1>6, <2>1 DEF NetfdTypes
<1>10. ListInv'
  <2>1. \A u \in Holder : using[u].op = "free" => using[u].obj \in Object
    BY <1>a DEF NetfdTypes, NoUse
  <2> QED
    BY <1>a, <1>3, <1>5, <1>6, <1>7, <1>8, <2>1 DEF ListInv
<1>11. OwnInv'
  <2> SUFFICES ASSUME ~misused
               PROVE  /\ \A u \in Holder : using'[u] # NoUse => OwnObject(u)'
                      /\ Distinct' /\ FreePrivate'
    BY <1>6 DEF OwnInv
  <2>a. /\ \A u \in Holder : using[u] # NoUse => OwnObject(u)
        /\ Distinct /\ FreePrivate
    BY <1>a DEF OwnInv
  <2>1. \A u \in Holder : using[u] # NoUse => using[u].obj \in Object
    BY <1>a DEF NetfdTypes
  <2>2. \A u \in Holder : u # t /\ using[u] # NoUse => using[u].obj # o
    BY <1>1, <2>a DEF Distinct, o
  <2>3. netfd[o].inuse
    BY <1>1, <2>a DEF OwnObject, o
  <2>4. ASSUME NEW u \in Holder, using'[u] # NoUse PROVE OwnObject(u)'
    <3>1. CASE u = t
      BY <1>1, <1>3, <1>5, <1>6, <2>a, <3>1 DEF OwnObject, o
    <3>2. CASE u # t
      BY <1>3, <1>5, <1>6, <2>a, <2>1, <2>2, <2>4, <3>2 DEF OwnObject
    <3> QED
      BY <3>1, <3>2
  <2>5. Distinct'
    BY <1>5, <1>7, <2>a DEF Distinct
  <2>6. FreePrivate'
    BY <1>3, <1>8, <2>a, <2>3 DEF FreePrivate
  <2> QED
    BY <2>4, <2>5, <2>6
<1> QED
  BY <1>9, <1>10, <1>11 DEF NetfdInv

(* A close by the thread that has the object open, or one that is misuse.  *)
Rightly(t, o) ==
  \/ misused'
  \/ misused' = misused /\ using[t] # NoUse /\ using[t].obj = o

(* A close that calls the destructor of the private data: the object is    *)
(* out of use and not yet on the free list.                                *)
LEMMA ReleaseStable ==
  ASSUME NetfdInv, NEW t \in Holder, NEW o \in allocated, netfd[o].inuse,
         using[t].op # "free", Rightly(t, o), misused' \in BOOLEAN,
         Released(o), UNCHANGED <<osOpen, allocated>>,
         using' = [using EXCEPT ![t] =
                     [op |-> "free", obj |-> o, osfd |-> netfd[o].osfd]]
  PROVE  NetfdInv'
<1>a. NetfdTypes /\ ListInv /\ OwnInv /\ o \in Object
  BY DEF NetfdInv, NetfdTypes
<1>1. /\ netfd' \in [Object -> ObjectFields]
      /\ ~netfd'[o].inuse
      /\ netfd'[o].osfd = netfd[o].osfd
      /\ netfd'[o].private = netfd[o].private
      /\ \A x \in Object : x # o => netfd'[x] = netfd[x]
  BY <1>a DEF NetfdTypes, ObjectFields, Released
<1>2. netfd[o].osfd \in OsFd \cup {Nobody}
  BY <1>a DEF NetfdTypes, ObjectFields
<1>3. /\ using' \in [Holder -> UseFields]
      /\ using'[t].op = "free" /\ using'[t].obj = o
      /\ using'[t].osfd = netfd[o].osfd
      /\ \A u \in Holder : u # t => using'[u] = using[u]
  BY <1>a, <1>2 DEF NetfdTypes, UseFields
<1>4. freelist' = freelist
  BY DEF Released
<1>5. \A x \in Object : Ending(x)' <=> Ending(x) \/ x = o
  BY <1>3 DEF Ending
<1>6. \A u \in Holder : using[u].op = "free" =>
        using[u].obj # o /\ using[u].obj \in Object /\ u # t
  BY <1>a DEF ListInv, NetfdTypes, NoUse
<1>7. NetfdTypes'
  BY <1>a, <1>1, <1>3, <1>4 DEF NetfdTypes
<1>8. ListInv'
  <2>1. \A x \in Object :
          In(x, freelist') <=> x \in allocated' /\ ~netfd'[x].inuse /\ ~Ending(x)'
    BY <1>a, <1>1, <1>4, <1>5 DEF ListInv
  <2>2. \A u \in Holder : using'[u].op = "free" => ~netfd'[using'[u].obj].inuse
    BY <1>a, <1>1, <1>3, <1>6 DEF ListInv
  <2>3. \A u, w \in Holder : using'[u].op = "free" /\ using'[w].op = "free"
                             /\ using'[u].obj = using'[w].obj => u = w
    BY <1>a, <1>3, <1>6 DEF ListInv
  <2>4. \A x \in Object \ allocated' : ~netfd'[x].inuse
    BY <1>a, <1>1 DEF ListInv
  <2> QED
    BY <1>a, <1>4, <2>1, <2>2, <2>3, <2>4 DEF ListInv
<1>9. OwnInv'
  <2> SUFFICES ASSUME ~misused'
               PROVE  /\ \A u \in Holder : using'[u] # NoUse => OwnObject(u)'
                      /\ Distinct' /\ FreePrivate'
    BY DEF OwnInv
  <2>a. /\ \A u \in Holder : using[u] # NoUse => OwnObject(u)
        /\ Distinct /\ FreePrivate
        /\ using[t] # NoUse /\ using[t].obj = o
    BY <1>a DEF OwnInv, Rightly
  <2>1. \A u \in Holder : using[u] # NoUse => using[u].obj \in Object
    BY <1>a DEF NetfdTypes
  <2>2. \A u \in Holder : u # t /\ using[u] # NoUse => using[u].obj # o
    BY <2>a DEF Distinct
  <2>3. using'[t].osfd = using[t].osfd
    BY <1>3, <2>a DEF OwnObject
  <2>4. ASSUME NEW u \in Holder, using'[u] # NoUse PROVE OwnObject(u)'
    <3>1. CASE u = t
      BY <1>1, <1>3, <2>a, <2>3, <3>1 DEF OwnObject
    <3>2. CASE u # t
      BY <1>1, <1>3, <2>a, <2>1, <2>2, <2>4, <3>2 DEF OwnObject
    <3> QED
      BY <3>1, <3>2
  <2>5. Distinct'
    BY <1>3, <2>a, <2>3 DEF Distinct
  <2>6. FreePrivate'
    BY <1>1, <1>5, <2>a DEF FreePrivate
  <2> QED
    BY <2>4, <2>5, <2>6
<1> QED
  BY <1>7, <1>8, <1>9 DEF NetfdInv

(* The end of a close: the object returns to the free list and its         *)
(* descriptor is closed.                                                   *)
LEMMA GiveBackStable ==
  ASSUME NetfdInv, NEW t \in Holder, NEW o \in allocated,
         \/ netfd[o].inuse /\ using[t].op # "free"
         \/ using[t].op = "free" /\ using[t].obj = o,
         Rightly(t, o), misused' \in BOOLEAN,
         Freed(o), CloseSocketOf(o), UNCHANGED allocated,
         using' = [using EXCEPT ![t] = NoUse]
  PROVE  NetfdInv'
<1>a. NetfdTypes /\ ListInv /\ OwnInv /\ o \in Object
  BY DEF NetfdInv, NetfdTypes
<1>1. /\ netfd' \in [Object -> ObjectFields]
      /\ ~netfd'[o].inuse
      /\ netfd'[o].private = Nobody
      /\ \A x \in Object : x # o => netfd'[x] = netfd[x]
  BY <1>a DEF NetfdTypes, ObjectFields, Freed
<1>2. /\ using' \in [Holder -> UseFields] /\ using'[t] = NoUse
      /\ \A u \in Holder : u # t => using'[u] = using[u]
  BY <1>a DEF NetfdTypes, UseFields, NoUse
<1>3. \A u \in Holder : using[u].op = "free" /\ using[u].obj = o => u = t
  BY <1>a DEF ListInv
<1>4. \A x \in Object : Ending(x)' <=> Ending(x) /\ x # o
  <2>1. using'[t].op # "free"
    BY <1>2 DEF NoUse
  <2>2. using[t].op = "free" => using[t].obj = o
    OBVIOUS
  <2> QED
    BY <1>2, <1>3, <2>1, <2>2 DEF Ending
<1>5. ~In(o, freelist)
  BY <1>a DEF ListInv, Ending
<1>6. /\ freelist' \in Seq(Object) /\ NoRepeat(freelist')
      /\ \A x \in Object : In(x, freelist') <=> x = o \/ In(x, freelist)
  <2>1. freelist' = <<o>> \o freelist /\ freelist \in Seq(Object) /\ NoRepeat(freelist)
    BY <1>a DEF NetfdTypes, Freed, ListInv
  <2> QED
    BY <1>a, <1>5, <2>1, Pushed
<1>7. NetfdTypes'
  BY <1>a, <1>1, <1>2, <1>6 DEF NetfdTypes
<1>8. ListInv'
  <2>1. \A x \in Object :
          In(x, freelist') <=> x \in allocated' /\ ~netfd'[x].inuse /\ ~Ending(x)'
    BY <1>a, <1>1, <1>4, <1>6 DEF ListInv
  <2>2. \A u \in Holder : using'[u].op = "free" =>
          using'[u] = using[u] /\ using[u].obj \in Object
    BY <1>a, <1>2 DEF NetfdTypes, NoUse
  <2>3. \A u \in Holder : using'[u].op = "free" => ~netfd'[using'[u].obj].inuse
    BY <1>a, <1>1, <2>2 DEF ListInv
  <2>4. \A u, w \in Holder : using'[u].op = "free" /\ using'[w].op = "free"
                             /\ using'[u].obj = using'[w].obj => u = w
    BY <1>a, <2>2 DEF ListInv
  <2>5. \A x \in Object \ allocated' : ~netfd'[x].inuse
    BY <1>a, <1>1 DEF ListInv
  <2> QED
    BY <1>6, <2>1, <2>3, <2>4, <2>5 DEF ListInv
<1>9. OwnInv'
  <2> SUFFICES ASSUME ~misused'
               PROVE  /\ \A u \in Holder : using'[u] # NoUse => OwnObject(u)'
                      /\ Distinct' /\ FreePrivate'
    BY DEF OwnInv
  <2>a. /\ \A u \in Holder : using[u] # NoUse => OwnObject(u)
        /\ Distinct /\ FreePrivate
        /\ using[t] # NoUse /\ using[t].obj = o
    BY <1>a DEF OwnInv, Rightly
  <2>1. \A u \in Holder : using[u] # NoUse => using[u].obj \in Object
    BY <1>a DEF NetfdTypes
  <2>2. \A u \in Holder : u # t /\ using[u] # NoUse =>
          using[u].obj # o /\ using[u].osfd # using[t].osfd
    BY <2>a DEF Distinct
  <2>3. osOpen' = osOpen \ {using[t].osfd}
    BY <2>a DEF CloseSocketOf, OwnObject
  <2>4. ASSUME NEW u \in Holder, using'[u] # NoUse PROVE OwnObject(u)'
    BY <1>1, <1>2, <2>a, <2>1, <2>2, <2>3, <2>4 DEF OwnObject
  <2>5. Distinct'
    BY <1>2, <2>a DEF Distinct
  <2>6. FreePrivate'
    BY <1>1, <1>4, <2>a DEF FreePrivate
  <2> QED
    BY <2>4, <2>5, <2>6
<1> QED
  BY <1>7, <1>8, <1>9 DEF NetfdInv

(* st_netfd_close of an object that is not in use: _st_netfd_free_aux_data *)
(* and st_netfd_free do nothing, only the descriptor is closed.            *)
LEMMA SecondCloseStable ==
  ASSUME NetfdInv, NEW t \in Holder, NEW o \in allocated,
         ~netfd[o].inuse, using[t].op # "free",
         Rightly(t, o), misused' \in BOOLEAN,
         UNCHANGED <<netfd, freelist, allocated>>,
         using' = [using EXCEPT ![t] = NoUse]
  PROVE  NetfdInv'
<1>a. NetfdTypes /\ ListInv /\ OwnInv /\ o \in Object
  BY DEF NetfdInv, NetfdTypes
<1>1. misused'
  BY <1>a DEF Rightly, OwnInv, OwnObject
<1>2. /\ using' \in [Holder -> UseFields] /\ using'[t] = NoUse
      /\ \A u \in Holder : u # t => using'[u] = using[u]
  BY <1>a DEF NetfdTypes, UseFields, NoUse
<1>3. \A u \in Holder : using'[u].op = "free" <=> using[u].op = "free"
  BY <1>2 DEF NoUse
<1>4. \A u \in Holder : using'[u].op = "free" => using'[u] = using[u]
  BY <1>2, <1>3
<1>5. \A x \in Object : Ending(x)' <=> Ending(x)
  BY <1>3, <1>4 DEF Ending
<1>6. NetfdTypes'
  BY <1>a, <1>2 DEF NetfdTypes
<1>7. ListInv'
  BY <1>a, <1>3, <1>4, <1>5 DEF ListInv
<1> QED
  BY <1>1, <1>6, <1>7 DEF NetfdInv, OwnInv

(* st_netfd_close in its three cases.                                      *)
LEMMA CloseStable ==
  ASSUME NetfdInv, NEW t \in Holder, NEW o \in allocated, NetfdClose(t, o),
         using[t].op # "free", Rightly(t, o), misused' \in BOOLEAN
  PROVE  NetfdInv'
<1>1. CASE netfd[o].inuse /\ netfd[o].private # Nobody
  BY <1>1, ReleaseStable DEF NetfdClose
<1>2. CASE netfd[o].inuse /\ netfd[o].private = Nobody
  BY <1>2, GiveBackStable DEF NetfdClose
<1>3. CASE ~netfd[o].inuse
  BY <1>3, SecondCloseStable DEF NetfdClose
<1> QED
  BY <1>1, <1>2, <1>3

(* Every step keeps the invariant.                                         *)
LEMMA NetfdStep == NetfdInv /\ [NetfdNext]_netfdVars => NetfdInv'
<1> SUFFICES ASSUME NetfdInv, [NetfdNext]_netfdVars PROVE NetfdInv'
  OBVIOUS
<1>a. misused \in BOOLEAN /\ NetfdTypes
  BY DEF NetfdInv, NetfdTypes
<1>1. CASE UNCHANGED netfdVars
  BY <1>1 DEF netfdVars, NetfdInv, NetfdTypes, ListInv, OwnInv, OwnObject,
              Distinct, FreePrivate, Ending
<1>2. ASSUME NEW t \in Holder, NEW d \in OsFd, NetfdNew(t, d) PROVE NetfdInv'
  BY <1>2, NewStable
<1>3. ASSUME NEW t \in Holder, SetPrivate(t) \/ PrivateSet(t) PROVE NetfdInv'
  BY <1>3, PrivateStable
<1>4. ASSUME NEW t \in Holder, CloseOwn(t) PROVE NetfdInv'
  <2>1. /\ using[t].op = "open" /\ using[t] # NoUse
        /\ using[t].obj \in allocated
    BY <1>a, <1>4 DEF CloseOwn, NetfdTypes, NoUse
  <2>2. NetfdClose(t, using[t].obj) /\ misused' = misused
    BY <1>4 DEF CloseOwn
  <2> QED
    BY <1>a, <2>1, <2>2, CloseStable DEF Rightly
<1>5. ASSUME NEW t \in Holder, NEW o \in Object, CloseOther(t, o) PROVE NetfdInv'
  <2>1. /\ using[t].op # "free" /\ o \in allocated
        /\ NetfdClose(t, o) /\ misused' = TRUE
    BY <1>5 DEF CloseOther, NoUse
  <2>2. Rightly(t, o) /\ misused' \in BOOLEAN
    BY <2>1 DEF Rightly
  <2> QED
    BY <2>1, <2>2, CloseStable
<1>6. ASSUME NEW t \in Holder, DestructorReturns(t) PROVE NetfdInv'
  <2>1. using[t].op = "free" /\ using[t] # NoUse /\ using[t].obj \in allocated
    BY <1>a, <1>6 DEF DestructorReturns, NetfdTypes, NoUse
  <2>2. /\ Freed(using[t].obj) /\ CloseSocketOf(using[t].obj)
        /\ using' = [using EXCEPT ![t] = NoUse]
        /\ UNCHANGED <<allocated, misused>>
    BY <1>6 DEF DestructorReturns
  <2> QED
    BY <1>a, <2>1, <2>2, GiveBackStable DEF Rightly
<1> QED
  BY <1>1, <1>2, <1>3, <1>4, <1>5, <1>6 DEF NetfdNext

(* The invariant implies what the run checks.                              *)
LEMMA NetfdInvSuffices == NetfdInv => OwnDescriptor
<1> SUFFICES ASSUME NetfdInv PROVE OwnDescriptor
  OBVIOUS
<1>a. NetfdTypes /\ ListInv /\ OwnInv
  BY DEF NetfdInv
<1>1. FreelistExact
  <2> DEFINE listed == {freelist[i] : i \in 1..Len(freelist)}
             ending == {using[t].obj : t \in {u \in Holder : using[u].op = "free"}}
  <2>1. Cardinality(listed) = Len(freelist)
    BY <1>a, DistinctCount DEF NetfdTypes, ListInv
  <2>2. \A x : x \in listed <=> x \in Object /\ In(x, freelist)
    BY <1>a DEF In, NetfdTypes
  <2>3. \A x : x \in ending <=> Ending(x)
    BY DEF Ending
  <2>4. listed = {o \in allocated : ~netfd[o].inuse} \ ending
    BY <1>a, <2>2, <2>3 DEF ListInv, NetfdTypes
  <2> QED
    BY <2>1, <2>4 DEF FreelistExact
<1>2. ASSUME ~misused, NEW t \in Holder, using[t] # NoUse
      PROVE  /\ netfd[using[t].obj].osfd = using[t].osfd
             /\ netfd[using[t].obj].private \in {Nobody, t}
             /\ using[t].osfd \in osOpen
             /\ \A u \in Holder \ {t} : using[u].obj # using[t].obj
  <2>1. OwnObject(t) /\ Distinct
    BY <1>a, <1>2 DEF OwnInv
  <2>2. using[t].obj \in Object
    BY <1>a, <1>2 DEF NetfdTypes
  <2>3. \A u \in Holder : using[u] = NoUse => using[u].obj # using[t].obj
    BY <2>2, NetfdAssumption DEF NoUse
  <2> QED
    BY <1>2, <2>1, <2>3 DEF OwnObject, Distinct
<1> QED
  BY <1>1, <1>2 DEF OwnDescriptor

(* It holds at the start.                                                  *)
LEMMA NetfdStart == NetfdInit => NetfdInv
<1> SUFFICES ASSUME NetfdInit PROVE NetfdInv
  OBVIOUS
<1>1. NetfdTypes
  <2>1. freelist \in Seq(Object) /\ allocated \in SUBSET Object
    BY DEF NetfdInit
  <2>2. netfd \in [Object -> ObjectFields]
    BY DEF NetfdInit, ObjectFields, Unused
  <2>3. using \in [Holder -> UseFields] /\ \A t \in Holder : using[t] = NoUse
    BY DEF NetfdInit, UseFields, NoUse
  <2>4. misused \in BOOLEAN
    BY DEF NetfdInit
  <2> QED
    BY <2>1, <2>2, <2>3, <2>4 DEF NetfdTypes
<1>2. ListInv
  BY DEF NetfdInit, ListInv, NoRepeat, In, Ending, Unused, NoUse
<1>3. OwnInv
  BY DEF NetfdInit, OwnInv, Distinct, FreePrivate, Unused, NoUse
<1> QED
  BY <1>1, <1>2, <1>3 DEF NetfdInv

(* The descriptor a thread opened stays open, stays its own, and the       *)
(* object of it is handed to no second thread, for any number of threads,  *)
(* objects and descriptors and whichever object the free list of           *)
(* _st_netfd_new returns, as long as no thread closes an object it did not *)
(* open.                                                                   *)
THEOREM NetfdCorrect == NetfdSpec => []OwnDescriptor
<1> QED
  BY NetfdStart, NetfdStep, NetfdInvSuffices, PTL DEF NetfdSpec
=============================================================================
