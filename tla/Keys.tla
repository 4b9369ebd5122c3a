-------------------------------- MODULE Keys ---------------------------------
(***************************************************************************)
(* Thread-specific data of key.c: keys with destructors, the values each   *)
(* thread has for them, and their destruction when a value is replaced and *)
(* when the thread exits (_st_thread_cleanup, called by st_thread_exit).   *)
(*                                                                         *)
(* A destructor is the program's code and may block, so between its call   *)
(* and its return any other thread may run, also one that sets a value of  *)
(* the same thread: st_thread_setspecific takes the thread as a parameter. *)
(* Each value is a piece of memory that is set once, for one thread and    *)
(* one key; setting it again where it is already is allowed.               *)
(***************************************************************************)
EXTENDS Integers

CONSTANTS
  Owner,      \* threads
  Value,      \* pieces of memory
  NoValue,    \* the null pointer
  KeysMax     \* ST_KEYS_MAX

KeyIndex == 0..(KeysMax - 1)

ASSUME KeyAssumption ==
  /\ KeysMax \in Nat \ {0}
  /\ NoValue \notin Value \cup (Owner \X KeyIndex)

VARIABLES
  keyMax,       \* key_max
  destructors,  \* the keys that have one
  private,      \* private_data of each thread
  doing,        \* what each thread is executing
  destroyed,    \* history: how often each value was given to its destructor
  given,        \* history: the thread and key a value was set for
  raced         \* history: two threads were at the same value, or one set a value
                \* of a thread whose exit had passed its key

keyVars == <<keyMax, destructors, private, doing, destroyed, given, raced>>

Running == [op |-> "none", of |-> NoValue, key |-> 0, value |-> NoValue]
Exited  == [Running EXCEPT !.op = "exited"]

KeyInit ==
  /\ keyMax = 0 /\ destructors = {}
  /\ private = [t \in Owner |-> [k \in KeyIndex |-> NoValue]]
  /\ doing = [t \in Owner |-> Running]
  /\ destroyed = [v \in Value |-> 0]
  /\ given = [v \in Value |-> NoValue]
  /\ raced = FALSE

-----------------------------------------------------------------------------
(* st_key_create; without a free key it fails and changes nothing.         *)
KeyCreate(t, destructor) ==
  /\ doing[t] = Running /\ keyMax < KeysMax
  /\ keyMax' = keyMax + 1
  /\ destructors' = IF destructor THEN destructors \cup {keyMax} ELSE destructors
  /\ UNCHANGED <<private, doing, destroyed, given, raced>>

Destroys(u, k) == private[u][k] # NoValue /\ k \in destructors

(* A thread is in the destructor of the value of u for k; the exit of u    *)
(* is past k.                                                              *)
InDestructor(u, k) == \E w \in Owner : doing[w].op \in {"set", "cleanup"}
                                       /\ doing[w].of = u /\ doing[w].key = k
Passed(u, k) == doing[u].op = "cleanup" /\ k < doing[u].key

Destructor(u, k) ==
  /\ destroyed' = [destroyed EXCEPT ![private[u][k]] = @ + 1]
  /\ raced' = (raced \/ InDestructor(u, k))

(* st_thread_setspecific for thread u: the old value is destroyed before   *)
(* the new one takes its place.  Mutant: the same value set again counts   *)
(* as a change.                                                            *)
ChangedUntested(u, k, v) == TRUE
Changed(u, k, v) == v # private[u][k]

SetSpecific(t, u, k, v) ==
  /\ doing[t] = Running /\ doing[u].op # "exited" /\ k < keyMax
  /\ v # NoValue => given[v] \in {NoValue, <<u, k>>} /\ destroyed[v] = 0
  /\ v # NoValue /\ given[v] # NoValue => v = private[u][k]
  /\ given' = IF v = NoValue THEN given ELSE [given EXCEPT ![v] = <<u, k>>]
  /\ IF Changed(u, k, v) /\ Destroys(u, k)
     THEN /\ Destructor(u, k)
          /\ doing' = [doing EXCEPT ![t] =
               [op |-> "set", of |-> u, key |-> k, value |-> v]]
          /\ UNCHANGED private
     ELSE /\ private' = [private EXCEPT ![u][k] = v]
          /\ raced' = (raced \/ InDestructor(u, k) \/ Passed(u, k))
          /\ UNCHANGED <<doing, destroyed>>
  /\ UNCHANGED <<keyMax, destructors>>

SetReturns(t) ==
  LET d == doing[t] IN
  /\ d.op = "set"
  /\ private' = [private EXCEPT ![d.of][d.key] = d.value]
  /\ doing' = [doing EXCEPT ![t] = Running]
  /\ UNCHANGED <<keyMax, destructors, destroyed, given, raced>>

(* _st_thread_cleanup: key by key, up to the last key there is then.       *)
NextToDestroy(t, from) ==
  {k \in from..(keyMax - 1) : Destroys(t, k)}

Cleanup(t, from) ==
  LET ks == NextToDestroy(t, from)
      k  == CHOOSE x \in ks : \A y \in ks : x <= y
  IN  IF ks = {}
      THEN doing' = [doing EXCEPT ![t] = Exited] /\ UNCHANGED <<destroyed, raced>>
      ELSE /\ Destructor(t, k)
           /\ doing' = [doing EXCEPT ![t] =
                [op |-> "cleanup", of |-> t, key |-> k, value |-> NoValue]]

ThreadExit(t) ==
  /\ doing[t] = Running
  /\ Cleanup(t, 0)
  /\ UNCHANGED <<keyMax, destructors, private, given>>

CleanupGoesOn(t) ==
  LET d == doing[t] IN
  /\ d.op = "cleanup"
  /\ private' = [private EXCEPT ![t][d.key] = NoValue]
  /\ Cleanup(t, d.key + 1)
  /\ UNCHANGED <<keyMax, destructors, given>>

(* st_thread_create gives a new thread, in the place of one that has       *)
(* exited, empty private data.                                             *)
ThreadCreate(t) ==
  /\ doing[t] = Exited
  /\ doing' = [doing EXCEPT ![t] = Running]
  /\ private' = [private EXCEPT ![t] = [k \in KeyIndex |-> NoValue]]
  /\ UNCHANGED <<keyMax, destructors, destroyed, given, raced>>

KeyStep(t) ==
  \/ \E d \in BOOLEAN : KeyCreate(t, d)
  \/ \E u \in Owner, k \in KeyIndex, v \in Value \cup {NoValue} : SetSpecific(t, u, k, v)
  \/ SetReturns(t) \/ ThreadExit(t) \/ CleanupGoesOn(t) \/ ThreadCreate(t)

KeyNext == \E t \in Owner : KeyStep(t)

KeySpec == KeyInit /\ [][KeyNext]_keyVars

-----------------------------------------------------------------------------
(* A value of a key with a destructor is destroyed exactly once: not while *)
(* it can still be read, and by the time it can be read no more, its       *)
(* thread gone or the value replaced.  This is so unless a thread sets a   *)
(* value while another one is in the destructor of the old one, or sets    *)
(* one of a thread whose exit is past its key: that value is never freed.  *)
DestroyedOnce ==
  ~raced => \A v \in Value : given[v] # NoValue =>
    LET u == given[v][1]
        k == given[v][2]
        inDestructor == InDestructor(u, k) /\ private[u][k] = v
        coming == \E w \in Owner : doing[w].op = "set" /\ doing[w].value = v
    IN  k \in destructors =>
          destroyed[v] = IF coming \/ (private[u][k] = v /\ ~inDestructor)
                         THEN 0 ELSE 1
=============================================================================
