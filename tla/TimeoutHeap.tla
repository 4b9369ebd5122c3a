----------------------------- MODULE TimeoutHeap -----------------------------
(***************************************************************************)
(* The timeout heap of sched.c: a complete binary tree of threads, linked  *)
(* by thread->left and thread->right, in which thread->heap_index is the   *)
(* position of a thread (1 for the root, 2i and 2i+1 below i).  A place is *)
(* what the code keeps in a variable of type _st_thread_t**: Root is       *)
(* &_ST_SLEEPQ and <<t, "left">> is &t->left; ptr[p] is *p.  A call of     *)
(* _st_add_sleep_q or _st_del_sleep_q takes one step per iteration of its  *)
(* loops, so that what the loops preserve is an invariant of the module.   *)
(***************************************************************************)
EXTENDS Integers, FiniteSets

CONSTANTS Thread, Dues, Nil    \* Nil is the null pointer

ASSUME HeapAssumption == Nil \notin Thread /\ Dues \subseteq Nat

VARIABLES
  ptr,          \* what each place holds
  heap_index,   \* thread->heap_index
  due,          \* thread->due
  size,         \* _ST_SLEEPQ_SIZE
  onq,          \* the threads flagged _ST_FL_ON_SLEEPQ
  job           \* the call in progress: its local variables

heapVars == <<ptr, heap_index, due, size, onq, job>>

Root  == <<Nil, "root">>
Place == {Root} \cup (Thread \X {"left", "right"})

(* The indices met on the way from the root to n: the leading bits of n.   *)
(* The code counts the bits of n and then tests them from the top.         *)
Path(n) == {k \in 1..n : \E b \in 0..n : k = n \div 2^b}

(* The place below t that a step to index k of a path leads to.            *)
Child(t, k) == <<t, IF k % 2 = 1 THEN "right" ELSE "left">>

(* No call: the local variables are gone.  `head` is the root when the     *)
(* call began, a history value that nothing below reads.                   *)
NoJob == [call |-> "none", step |-> "none", thread |-> Nil, t |-> Nil,
          p |-> Root, index |-> 0, target |-> 0, head |-> Nil]

HeapInit ==
  /\ ptr = [p \in Place |-> Nil]
  /\ heap_index = [t \in Thread |-> 0] /\ due = [t \in Thread |-> 0]
  /\ size = 0 /\ onq = {} /\ job = NoJob

-----------------------------------------------------------------------------
(* heap_insert(job.t): it goes down the path to its own heap_index         *)
(* (job.target), and where it is due before the thread it meets the two    *)
(* change roles.                                                           *)
Inserting == job.step = "insert"
AtPlace   == ptr[job.p] = Nil \/ job.index = job.target
Met       == ptr[job.p]
NextOn(n) == {k \in Path(n) : k \div 2 = job.index}

GoBelow ==
  /\ Inserting /\ ~AtPlace /\ due[job.t] >= due[Met]
  /\ \E k \in NextOn(job.target) :
       job' = [job EXCEPT !.p = Child(Met, k), !.index = k]
  /\ UNCHANGED <<ptr, heap_index, due, size, onq>>

(* A mutant of TakePlace: the index of the new occupant is not set.        *)
TakePlaceKeepsIndex ==
  /\ Inserting /\ ~AtPlace /\ due[job.t] < due[Met]
  /\ ptr' = [ptr EXCEPT ![<<job.t, "left">>]  = ptr[<<Met, "left">>],
                        ![<<job.t, "right">>] = ptr[<<Met, "right">>],
                        ![job.p] = job.t]
  /\ \E k \in NextOn(job.target) :
       job' = [job EXCEPT !.t = Met, !.p = Child(job.t, k), !.index = k]
  /\ UNCHANGED <<heap_index, due, size, onq>>

TakePlace ==
  /\ Inserting /\ ~AtPlace /\ due[job.t] < due[Met]
  /\ ptr' = [ptr EXCEPT ![<<job.t, "left">>]  = ptr[<<Met, "left">>],
                        ![<<job.t, "right">>] = ptr[<<Met, "right">>],
                        ![job.p] = job.t]
  /\ heap_index' = [heap_index EXCEPT ![job.t] = job.index]
  /\ \E k \in NextOn(job.target) :
       job' = [job EXCEPT !.t = Met, !.p = Child(job.t, k), !.index = k]
  /\ UNCHANGED <<due, size, onq>>

(* The end of heap_insert: the last thread carried is stored, with the     *)
(* links l and r.  Into an empty heap it goes with the index it has.       *)
Settle(l, r) ==
  /\ Inserting /\ AtPlace
  /\ ptr' = [ptr EXCEPT ![job.p] = job.t, ![<<job.t, "left">>]  = l,
                                          ![<<job.t, "right">>] = r]
  /\ heap_index' = [heap_index EXCEPT
                      ![job.t] = IF ptr[Root] = Nil THEN @ ELSE job.index]

-----------------------------------------------------------------------------
(* _st_add_sleep_q: its callers add a thread that runs, so is on no queue. *)
AddSleepQ(t, d) ==
  /\ job = NoJob /\ t \notin onq
  /\ due' = [due EXCEPT ![t] = d]
  /\ onq' = onq \cup {t}
  /\ size' = size + 1
  /\ heap_index' = [heap_index EXCEPT ![t] = size + 1]
  /\ job' = [call |-> "add", step |-> "insert", thread |-> t, t |-> t,
             p |-> Root, index |-> 1, target |-> size + 1, head |-> ptr[Root]]
  /\ UNCHANGED ptr

AddDone ==
  /\ job.call = "add" /\ Settle(Nil, Nil)
  /\ job' = NoJob
  /\ UNCHANGED <<due, size, onq>>

-----------------------------------------------------------------------------
(* _st_del_sleep_q, of the head when it expires, of any thread when it is  *)
(* woken otherwise.  heap_delete first looks for the last element.         *)
DelSleepQ(t) ==
  /\ job = NoJob /\ t \in onq
  /\ job' = [call |-> "del", step |-> "find", thread |-> t, t |-> Nil,
             p |-> Root, index |-> 1, target |-> size, head |-> ptr[Root]]
  /\ UNCHANGED <<ptr, heap_index, due, size, onq>>

FindDown ==
  /\ job.step = "find"
  /\ \E k \in NextOn(job.target) :
       /\ ptr[Child(Met, k)] # Nil
       /\ job' = [job EXCEPT !.p = Child(Met, k), !.index = k]
  /\ UNCHANGED <<ptr, heap_index, due, size, onq>>

(* The loop ends with the bits, or before a child that is not there.       *)
Found ==
  /\ job.step = "find"
  /\ job.index # job.target =>
       \E k \in NextOn(job.target) : ptr[Child(Met, k)] = Nil

(* The end of heap_delete and of its caller.  The deadline and the index   *)
(* of a thread off the queue are not read again and are normalised to 0.   *)
Leave ==
  /\ onq' = onq \ {job.thread}
  /\ due' = [due EXCEPT ![job.thread] = 0]
  /\ heap_index' = [heap_index EXCEPT ![job.thread] = 0]
  /\ job' = NoJob

(* The thread to delete is the last element itself.                        *)
DeleteLast ==
  /\ Found /\ Met = job.thread
  /\ ptr' = [ptr EXCEPT ![job.p] = Nil, ![<<job.thread, "left">>]  = Nil,
                                        ![<<job.thread, "right">>] = Nil]
  /\ size' = size - 1
  /\ Leave

(* It is not: the last element, unlinked, is inserted at its index, and    *)
(* whichever thread ends there takes over its links.                       *)
UnlinkLast ==
  /\ Found /\ Met # job.thread
  /\ ptr' = [ptr EXCEPT ![job.p] = Nil]
  /\ size' = size - 1
  /\ heap_index' = [heap_index EXCEPT ![Met] = heap_index[job.thread]]
  /\ job' = [job EXCEPT !.step = "insert", !.t = Met, !.p = Root, !.index = 1,
                        !.target = heap_index[job.thread]]
  /\ UNCHANGED <<due, onq>>

Replace ==
  /\ job.call = "del"
  /\ Settle(ptr[<<job.thread, "left">>], ptr[<<job.thread, "right">>])
  /\ job' = [job EXCEPT !.step = "sift"]
  /\ UNCHANGED <<due, size, onq>>

(* "The younger child": the one due first, the right one if equal.         *)
Left    == ptr[<<job.t, "left">>]
Right   == ptr[<<job.t, "right">>]
Younger == IF Right = Nil \/ due[Left] < due[Right] THEN Left ELSE Right
TooLate == Left # Nil /\ due[job.t] > due[Younger]

(* job.t, stored at job.p, goes down while a child is due before it; the   *)
(* two exchange links and indices.                                         *)
SiftDown ==
  /\ job.step = "sift" /\ TooLate
  /\ LET t == job.t
         y == Younger
         side == IF y = Left THEN "left" ELSE "right"
         kept == IF y = Left THEN "right" ELSE "left"
     IN  /\ ptr' = [ptr EXCEPT ![job.p] = y, ![<<y, side>>] = t,
                               ![<<y, kept>>] = ptr[<<t, kept>>],
                               ![<<t, "left">>]  = ptr[<<y, "left">>],
                               ![<<t, "right">>] = ptr[<<y, "right">>]]
         /\ heap_index' = [heap_index EXCEPT ![t] = heap_index[y],
                                             ![y] = heap_index[t]]
         /\ job' = [job EXCEPT !.p = <<y, side>>]
  /\ UNCHANGED <<due, size, onq>>

(* A mutant of DeleteDone: a replacement is left where it was put.         *)
DeleteDoneEarly ==
  /\ job.step = "sift"
  /\ ptr' = [ptr EXCEPT ![<<job.thread, "left">>]  = Nil,
                        ![<<job.thread, "right">>] = Nil]
  /\ UNCHANGED size
  /\ Leave

DeleteDone ==
  /\ job.step = "sift" /\ ~TooLate
  /\ ptr' = [ptr EXCEPT ![<<job.thread, "left">>]  = Nil,
                        ![<<job.thread, "right">>] = Nil]
  /\ UNCHANGED size
  /\ Leave

HeapNext ==
  \/ \E t \in Thread : DelSleepQ(t) \/ \E d \in Dues : AddSleepQ(t, d)
  \/ GoBelow \/ TakePlace \/ AddDone
  \/ FindDown \/ DeleteLast \/ UnlinkLast \/ Replace \/ SiftDown \/ DeleteDone

HeapSpec == HeapInit /\ [][HeapNext]_heapVars

-----------------------------------------------------------------------------
(* The index that belongs to a place of the tree.                          *)
IndexOf(h, p) == IF p = Root THEN 1
                 ELSE 2 * h[p[1]] + (IF p[2] = "right" THEN 1 ELSE 0)

(* The places of a tree of the threads T.                                  *)
PlacesOf(T) == {Root} \cup (T \X {"left", "right"})

(* Between calls the tree is complete: it has the flagged threads at the   *)
(* indices 1 to size, one at each, every place holds the thread whose      *)
(* heap_index, which heap_insert and heap_delete navigate by, belongs to   *)
(* it, the places after the last are empty, and no thread is due before    *)
(* the one above it, at whatever place a deletion was.                     *)
HeapShape ==
  job = NoJob =>
    /\ size = Cardinality(onq)
    /\ {heap_index[t] : t \in onq} = 1..size
    /\ \A p \in PlacesOf(onq) :
         IF IndexOf(heap_index, p) <= size
         THEN ptr[p] \in onq /\ heap_index[ptr[p]] = IndexOf(heap_index, p)
         ELSE ptr[p] = Nil
    /\ \A p \in PlacesOf(onq) \ {Root} :
         ptr[p] # Nil => due[p[1]] <= due[ptr[p]]

(* The heap implements the sleep queue: an insertion adds one thread, a    *)
(* deletion removes just that thread wherever it is, all others stay, and  *)
(* _ST_SLEEPQ is always a thread with the smallest deadline.  A call takes *)
(* effect when it returns.                                                 *)
Adding == IF job.call = "add" THEN {job.thread} ELSE {}
Queue == INSTANCE SleepQueue
           WITH members <- onq \ Adding,
                due  <- [t \in Thread |-> IF t \in Adding THEN 0 ELSE due[t]],
                head <- IF job = NoJob THEN ptr[Root] ELSE job.head,
                NULL <- Nil
ImplementsSleepQueue == Queue!Spec

=============================================================================
