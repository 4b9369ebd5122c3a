----------------------------- MODULE SleepQueue ------------------------------
(***************************************************************************)
(* What the timeout heap of sched.c promises to its users: a set of        *)
(* threads with deadlines, of which `head` (_ST_SLEEPQ) is one that no     *)
(* other must expire before.  VProc uses the sleep queue in this form.     *)
(***************************************************************************)
EXTENDS Integers

CONSTANTS Thread, Dues, NULL

VARIABLES members, due, head

vars == <<members, due, head>>

(* The threads of M that may expire first.                                 *)
First(M, d) == {t \in M : \A u \in M : d[t] <= d[u]}
IsHead(h, M, d) == IF M = {} THEN h = NULL ELSE h \in First(M, d)

Init ==
  /\ members = {}
  /\ due = [t \in Thread |-> 0]
  /\ head = NULL

(* _ST_ADD_SLEEPQ on a thread that is not on the queue.                    *)
Add(t, d) ==
  /\ t \notin members
  /\ members' = members \cup {t}
  /\ due' = [due EXCEPT ![t] = d]
  /\ IsHead(head', members', due')

(* _ST_DEL_SLEEPQ on a member, the head or any other.                      *)
Del(t) ==
  /\ t \in members
  /\ members' = members \ {t}
  /\ due' = [due EXCEPT ![t] = 0]
  /\ IsHead(head', members', due')

Next == \E t \in Thread : Del(t) \/ \E d \in Dues : Add(t, d)

Spec == Init /\ [][Next]_vars

=============================================================================
