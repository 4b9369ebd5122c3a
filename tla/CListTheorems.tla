---------------------------- MODULE CListTheorems ----------------------------
(***************************************************************************)
(* What the list macros of common.h do to a well-formed list.  The facts   *)
(* are about any number of lists that share one pool of link fields.       *)
(***************************************************************************)
EXTENDS CList, TLAPS

(* ST_INSERT_BEFORE yields pointers to existing link fields only.          *)
LEMMA InsertType ==
  ASSUME NEW Node, NEW L \in ListState(Node), NEW e \in Node, NEW l \in Node
  PROVE  InsertBefore(L, e, l) \in ListState(Node)
BY DEF ListState, InsertBefore

(* ST_REMOVE_LINK yields pointers to existing link fields only.            *)
LEMMA RemoveType ==
  ASSUME NEW Node, NEW L \in ListState(Node), NEW e \in Node
  PROVE  RemoveLink(L, e) \in ListState(Node)
BY DEF ListState, RemoveLink

(* Appending an element that is on no list of Q to a list of Q: Q grows    *)
(* by that element and stays circular.                                     *)
LEMMA InsertCircular ==
  ASSUME NEW Node, NULL \notin Node, NEW L \in ListState(Node),
         NEW Q \in SUBSET Node, Circular(L, Q),
         NEW l \in Q, NEW e \in Node, e \notin Q
  PROVE  Circular(InsertBefore(L, e, l), Q \cup {e})
BY DEF ListState, InsertBefore, Circular

(* Removing a member: what is left of Q is circular.                       *)
LEMMA RemoveCircular ==
  ASSUME NEW Node, NULL \notin Node, NEW L \in ListState(Node),
         NEW Q \in SUBSET Node, Circular(L, Q), NEW e \in Q
  PROVE  Circular(RemoveLink(L, e), Q \ {e})
BY DEF ListState, RemoveLink, Circular

(* Appending to one list leaves a disjoint one alone.                      *)
LEMMA InsertFrame ==
  ASSUME NEW Node, NULL \notin Node, NEW L \in ListState(Node),
         NEW Q \in SUBSET Node, Circular(L, Q), NEW l \in Q, NEW e \in Node,
         NEW R \in SUBSET Node, Circular(L, R),
         R \cap Q = {}, e \notin R
  PROVE  Circular(InsertBefore(L, e, l), R)
BY DEF ListState, InsertBefore, Circular

(* Removing from one list leaves a disjoint one alone.                     *)
LEMMA RemoveFrame ==
  ASSUME NEW Node, NULL \notin Node, NEW L \in ListState(Node),
         NEW Q \in SUBSET Node, Circular(L, Q), NEW e \in Q,
         NEW R \in SUBSET Node, Circular(L, R), R \cap Q = {}
  PROVE  Circular(RemoveLink(L, e), R)
BY DEF ListState, RemoveLink, Circular

(* A walk that starts on a circular list stays on it.                      *)
LEMMA ReachCircular ==
  ASSUME NEW Node, NEW L, NEW Q \in SUBSET Node, Circular(L, Q), NEW l \in Q
  PROVE  Reach(L, Node, l) \subseteq Q
BY DEF Reach, Circular

(* ST_INIT_CLIST: a head that points to itself is an empty list.           *)
LEMMA EmptyRing ==
  ASSUME NEW L, NEW h, L.next[h] = h, L.prev[h] = h
  PROVE  Ring(L, h, {h})
BY DEF Ring, Circular

(* Appending an element to a list keeps it one list.                       *)
LEMMA InsertRing ==
  ASSUME NEW Node, NULL \notin Node, NEW L \in ListState(Node), NEW h,
         NEW Q \in SUBSET Node, Ring(L, h, Q), h \in Q, NEW e \in Node, e \notin Q
  PROVE  Ring(InsertBefore(L, e, h), h, Q \cup {e})
<1> DEFINE M == InsertBefore(L, e, h)
           p == L.prev[h]
<1>1. Circular(L, Q) /\ p \in Q /\ p # NULL /\ L.next[p] = h /\ h \in Node
  BY DEF Ring, Circular
<1>2. Circular(M, Q \cup {e})
  BY <1>1, InsertCircular
<1>3. /\ M.next[p] = e
      /\ \A n \in Q : n # p => M.next[n] = L.next[n]
  BY <1>1 DEF InsertBefore, ListState
<1> HIDE DEF M, p
<1>4. ASSUME NEW S \in SUBSET (Q \cup {e}), h \in S, \A n \in S : M.next[n] \in S
      PROVE  S = Q \cup {e}
  <2> DEFINE T == S \ {e}
  <2>1. T \in SUBSET Q /\ h \in T
    BY <1>4
  <2>2. ASSUME NEW n \in T PROVE L.next[n] \in T
    <3>1. L.next[n] \in Q
      BY <1>1, <2>1 DEF Circular
    <3>2. CASE n = p
      BY <1>1, <2>1, <3>2
    <3>3. CASE n # p
      BY <1>3, <1>4, <2>1, <3>1, <3>3
    <3> QED
      BY <3>2, <3>3
  <2> HIDE DEF T
  <2>3. T = Q
    BY <2>1, <2>2 DEF Ring
  <2>4. p \in S /\ e \in S
    BY <1>1, <1>3, <1>4, <2>3 DEF T
  <2> QED
    BY <1>4, <2>3, <2>4 DEF T
<1> QED
  BY <1>2, <1>4 DEF Ring, M

(* Removing an element other than the head keeps the rest one list.        *)
LEMMA RemoveRing ==
  ASSUME NEW Node, NULL \notin Node, NEW L \in ListState(Node), NEW h,
         NEW Q \in SUBSET Node, Ring(L, h, Q), NEW e \in Q, e # h
  PROVE  Ring(RemoveLink(L, e), h, Q \ {e})
<1> DEFINE M == RemoveLink(L, e)
           p == L.prev[e]
           m == L.next[e]
<1>1. /\ Circular(L, Q) /\ p \in Q /\ p # NULL /\ m \in Q /\ m # NULL
      /\ L.next[p] = e /\ e \in Node
      /\ \A n \in Q : L.next[n] = e => n = p
  BY DEF Ring, Circular
<1>2. Circular(M, Q \ {e})
  BY <1>1, RemoveCircular
<1>3. /\ M.next[p] = m
      /\ \A n \in Q : n # p => M.next[n] = L.next[n]
  BY <1>1 DEF RemoveLink, ListState
<1> HIDE DEF M
<1>4. ASSUME NEW S \in SUBSET (Q \ {e}), h \in S, \A n \in S : M.next[n] \in S
      PROVE  S = Q \ {e}
  <2>1. CASE p \in S
    <3> DEFINE T == S \cup {e}
    <3>1. m \in S
      BY <1>3, <1>4, <2>1
    <3>2. T \in SUBSET Q /\ h \in T
      BY <1>4
    <3>3. \A n \in T : L.next[n] \in T
      BY <1>1, <1>3, <1>4, <3>1
    <3> HIDE DEF T
    <3>4. T = Q
      BY <3>2, <3>3 DEF Ring
    <3> QED
      BY <1>4, <3>4 DEF T
  <2>2. CASE p \notin S
    <3>1. \A n \in S : L.next[n] \in S
      BY <1>3, <1>4, <2>2
    <3>2. S = Q
      BY <1>4, <3>1 DEF Ring
    <3> QED
      BY <1>1, <2>2, <3>2
  <2> QED
    BY <2>1, <2>2
<1> QED
  BY <1>2, <1>4 DEF Ring, M

(* Writes to link fields off a list leave it alone.                        *)
LEMMA RingFrame ==
  ASSUME NEW L, NEW M, NEW h, NEW R, Ring(L, h, R),
         \A n \in R : M.next[n] = L.next[n] /\ M.prev[n] = L.prev[n]
  PROVE  Ring(M, h, R)
<1>1. Circular(M, R)
  BY DEF Ring, Circular
<1> QED
  BY <1>1 DEF Ring

(* Appending to one list leaves another one alone.                         *)
LEMMA InsertRingFrame ==
  ASSUME NEW Node, NULL \notin Node, NEW L \in ListState(Node),
         NEW Q \in SUBSET Node, Circular(L, Q), NEW l \in Q, NEW e \in Node,
         NEW R \in SUBSET Node, NEW h, Ring(L, h, R),
         R \cap Q = {}, e \notin R
  PROVE  Ring(InsertBefore(L, e, l), h, R)
<1>1. Circular(InsertBefore(L, e, l), R)
  BY InsertFrame DEF Ring
<1>2. \A n \in R : InsertBefore(L, e, l).next[n] = L.next[n]
  BY DEF ListState, InsertBefore, Circular
<1> QED
  BY <1>1, <1>2 DEF Ring

(* Removing from one list leaves another one alone.                        *)
LEMMA RemoveRingFrame ==
  ASSUME NEW Node, NULL \notin Node, NEW L \in ListState(Node),
         NEW Q \in SUBSET Node, Circular(L, Q), NEW e \in Q,
         NEW R \in SUBSET Node, NEW h, Ring(L, h, R), R \cap Q = {}
  PROVE  Ring(RemoveLink(L, e), h, R)
<1>1. Circular(RemoveLink(L, e), R)
  BY RemoveFrame DEF Ring
<1>2. \A n \in R : RemoveLink(L, e).next[n] = L.next[n]
  BY DEF ListState, RemoveLink, Circular
<1> QED
  BY <1>1, <1>2 DEF Ring

(* A walk from the head of a list meets all of it.                         *)
LEMMA ReachRing ==
  ASSUME NEW Node, NEW L, NEW h, NEW Q \in SUBSET Node, Ring(L, h, Q), h \in Q,
         NULL \notin Q
  PROVE  Reach(L, Node, h) = Q
<1>1. Reach(L, Node, h) \subseteq Q
  BY ReachCircular DEF Ring
<1>2. ASSUME NEW S \in SUBSET Node, h \in S,
             \A n \in S : L.next[n] \in S \cup {NULL}
      PROVE  Q \subseteq S
  <2> DEFINE T == S \cap Q
  <2>1. T \in SUBSET Q /\ h \in T
    BY <1>2
  <2>2. \A n \in T : L.next[n] \in T
    BY <1>2 DEF Ring, Circular
  <2> HIDE DEF T
  <2>3. T = Q
    BY <2>1, <2>2 DEF Ring
  <2> QED
    BY <2>3 DEF T
<1> QED
  BY <1>1, <1>2 DEF Reach

=============================================================================
