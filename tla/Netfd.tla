-------------------------------- MODULE Netfd --------------------------------
(***************************************************************************)
(* The descriptor objects of io_win.c: st_netfd_open and _close take them  *)
(* from a free list and give them back, with the private data a caller has *)
(* attached.  The destructor of that data is the program's code and may    *)
(* block (the one of stx_fileio.c does), so other threads run in the       *)
(* middle of st_netfd_close and st_netfd_setspecific.                      *)
(*                                                                         *)
(* A thread opens, uses and closes a descriptor of its own; one that       *)
(* closes the object of another, also one that is closed already, is       *)
(* `misused`.  A close that fails with EBUSY, and an open that fails,      *)
(* change nothing.                                                         *)
(***************************************************************************)
EXTENDS Integers, Sequences, FiniteSets

CONSTANTS
  Holder,     \* threads
  Nobody,     \* the null pointer: no object, descriptor or data
  Object,     \* objects that calloc can return
  OsFd        \* descriptors of the operating system

ASSUME NetfdAssumption == Nobody \notin Holder \cup Object \cup OsFd

VARIABLES
  freelist,   \* _st_netfd_freelist
  allocated,  \* the objects calloc has returned so far
  netfd,      \* the objects; private is the thread whose data it is
  osOpen,     \* descriptors that are open
  using,      \* what each thread has open, and the call it is in
  misused     \* history: a thread closed an object that it did not open

netfdVars == <<freelist, allocated, netfd, osOpen, using, misused>>

Unused == [inuse |-> FALSE, osfd |-> Nobody, private |-> Nobody]
NoUse  == [op |-> "none", obj |-> Nobody, osfd |-> Nobody]

NetfdInit ==
  /\ freelist = <<>> /\ allocated = {}
  /\ netfd = [o \in Object |-> Unused]
  /\ osOpen = {}
  /\ using = [t \in Holder |-> NoUse]
  /\ misused = FALSE

-----------------------------------------------------------------------------
(* _st_netfd_new for a descriptor the system has just given: the first     *)
(* object of the free list, or a new one when the list is empty.           *)
NetfdNew(t, d) ==
  /\ using[t] = NoUse /\ d \notin osOpen
  /\ \E o \in IF freelist # <<>> THEN {Head(freelist)}
                                 ELSE Object \ allocated :
       /\ allocated' = allocated \cup {o}
       /\ netfd' = [netfd EXCEPT ![o].osfd = d, ![o].inuse = TRUE]
       /\ using' = [using EXCEPT ![t] =
            [op |-> "open", obj |-> o, osfd |-> d]]
  /\ freelist' = IF freelist = <<>> THEN <<>> ELSE Tail(freelist)
  /\ osOpen' = osOpen \cup {d}
  /\ UNCHANGED misused

(* st_netfd_setspecific of new data: earlier data is destroyed first.      *)
SetPrivate(t) ==
  /\ using[t].op = "open"
  /\ IF netfd[using[t].obj].private # Nobody
     THEN using' = [using EXCEPT ![t].op = "set"] /\ UNCHANGED netfd
     ELSE netfd' = [netfd EXCEPT ![using[t].obj].private = t] /\ UNCHANGED using
  /\ UNCHANGED <<freelist, allocated, osOpen, misused>>

PrivateSet(t) ==
  /\ using[t].op = "set"
  /\ netfd' = [netfd EXCEPT ![using[t].obj].private = t]
  /\ using' = [using EXCEPT ![t].op = "open"]
  /\ UNCHANGED <<freelist, allocated, osOpen, misused>>

(* st_netfd_free up to the destructor: the object is no longer in use.     *)
(* Mutant: it is on the free list already.                                 *)
ReleasedEarly(o) ==
  /\ netfd' = [netfd EXCEPT ![o].inuse = FALSE]
  /\ freelist' = <<o>> \o freelist
Released(o) ==
  /\ netfd' = [netfd EXCEPT ![o].inuse = FALSE]
  /\ UNCHANGED freelist

(* The rest of st_netfd_free, and closesocket of the descriptor the object *)
(* has by then.                                                            *)
Freed(o) ==
  /\ netfd' = [netfd EXCEPT ![o].inuse = FALSE, ![o].private = Nobody]
  /\ freelist' = <<o>> \o freelist

CloseSocketOf(o) == osOpen' = osOpen \ {netfd[o].osfd}

(* st_netfd_close; an object that is not in use is not freed again.        *)
NetfdClose(t, o) ==
  /\ IF netfd[o].inuse /\ netfd[o].private # Nobody
     THEN /\ Released(o)
          /\ using' = [using EXCEPT ![t] =
               [op |-> "free", obj |-> o, osfd |-> netfd[o].osfd]]
          /\ UNCHANGED osOpen
     ELSE /\ IF netfd[o].inuse THEN Freed(o) ELSE UNCHANGED <<netfd, freelist>>
          /\ CloseSocketOf(o)
          /\ using' = [using EXCEPT ![t] = NoUse]
  /\ UNCHANGED allocated

CloseOwn(t) ==
  /\ using[t].op = "open"
  /\ NetfdClose(t, using[t].obj)
  /\ UNCHANGED misused

CloseOther(t, o) ==
  /\ using[t] = NoUse /\ o \in allocated
  /\ NetfdClose(t, o)
  /\ misused' = TRUE

DestructorReturns(t) ==
  LET o == using[t].obj IN
  /\ using[t].op = "free"
  /\ Freed(o)
  /\ CloseSocketOf(o)
  /\ using' = [using EXCEPT ![t] = NoUse]
  /\ UNCHANGED <<allocated, misused>>

NetfdNext ==
  \E t \in Holder :
    \/ \E d \in OsFd : NetfdNew(t, d)
    \/ SetPrivate(t) \/ PrivateSet(t) \/ CloseOwn(t) \/ DestructorReturns(t)
    \/ \E o \in Object : CloseOther(t, o)

NetfdSpec == NetfdInit /\ [][NetfdNext]_netfdVars

-----------------------------------------------------------------------------
(* The free list has every object that is neither in use nor in the hands  *)
(* of a destructor, once, however often objects are closed.                *)
FreelistExact ==
  LET listed == {freelist[i] : i \in 1..Len(freelist)}
      ending == {using[t].obj : t \in {u \in Holder : using[u].op = "free"}}
  IN  /\ Cardinality(listed) = Len(freelist)
      /\ listed = {o \in allocated : ~netfd[o].inuse} \ ending

(* An open connection keeps its own object, its own descriptor and its own *)
(* private data until its close has returned, through blocking destructors *)
(* and the reuse of objects: st_netfd_close reads fd->osfd after the       *)
(* object is back on the free list, and closes no descriptor of another    *)
(* thread.  The free list itself stays right even when objects are closed  *)
(* twice.                                                                  *)
OwnDescriptor ==
  /\ FreelistExact
  /\ ~misused => \A t \in Holder : using[t] # NoUse =>
       /\ netfd[using[t].obj].osfd = using[t].osfd
       /\ netfd[using[t].obj].private \in {Nobody, t}
       /\ using[t].osfd \in osOpen
       /\ \A u \in Holder \ {t} : using[u].obj # using[t].obj
=============================================================================
