-------------------------------- MODULE CList --------------------------------
(***************************************************************************)
(* The intrusive circular lists of common.h (_st_clist_t and its macros).  *)
(* A list state L is a record of two functions: L.next and L.prev map      *)
(* every link field that exists to the link field it points to, or to      *)
(* NULL (a link field zeroed by memset or calloc).  One link field is on   *)
(* at most one list at a time only if the callers see to it: the macros    *)
(* write the pointers they are told to write, whatever list the element    *)
(* is on, so these operators do the same.                                  *)
(***************************************************************************)
EXTENDS Integers

CONSTANT NULL

(* The list states over the link fields in Node.                           *)
ListState(Node) == [next : [Node -> Node \cup {NULL}],
                    prev : [Node -> Node \cup {NULL}]]

(* ST_INSERT_BEFORE(_e, _l), which is also ST_APPEND_LINK: four pointer    *)
(* writes in the source's order; the write through (_l)->prev is guarded   *)
(* by the NULL test.                                                       *)
InsertBefore(L, e, l) ==
  LET p  == L.prev[l]
      n1 == [L.next EXCEPT ![e] = l]
  IN  [next |-> IF p # NULL THEN [n1 EXCEPT ![p] = e] ELSE n1,
       prev |-> [[L.prev EXCEPT ![e] = p] EXCEPT ![l] = e]]

(* A mutant of RemoveLink: the write through (_e)->next is forgotten.      *)
RemoveLinkForward(L, e) ==
  [L EXCEPT !.next = IF L.prev[e] # NULL
                     THEN [@ EXCEPT ![L.prev[e]] = L.next[e]] ELSE @]

(* ST_REMOVE_LINK(_e): the neighbours of _e are joined; the pointers of    *)
(* _e itself keep their old values.                                        *)
RemoveLink(L, e) ==
  LET p == L.prev[e]
      n == L.next[e]
  IN  [next |-> IF p # NULL THEN [L.next EXCEPT ![p] = n] ELSE L.next,
       prev |-> IF n # NULL THEN [L.prev EXCEPT ![n] = p] ELSE L.prev]

-----------------------------------------------------------------------------
(* The link fields in Q form circular lists among themselves: following a  *)
(* pointer never leaves Q, and next and prev undo each other.              *)
Circular(L, Q) ==
  \A n \in Q : /\ L.next[n] \in Q
               /\ L.prev[n] \in Q
               /\ L.prev[L.next[n]] = n
               /\ L.next[L.prev[n]] = n

(* The link fields in Q form one circular list with the head h: a set that *)
(* has the head and all that its members point to has all of Q.            *)
Ring(L, h, Q) ==
  /\ Circular(L, Q)
  /\ \A S \in SUBSET Q : h \in S /\ (\A n \in S : L.next[n] \in S) => S = Q

(* The elements met when walking L.next from l, l itself included, among   *)
(* the link fields in Node: the least set that is closed under next.       *)
Reach(L, Node, l) ==
  {n \in Node : \A S \in SUBSET Node :
     l \in S /\ (\A m \in S : L.next[m] \in S \cup {NULL}) => n \in S}

=============================================================================
