---------------------------- MODULE MCComponents -----------------------------
(***************************************************************************)
(* Small instances of the components that share no variable, for TLC: in   *)
(* every behaviour one of them moves and the others stay as they begin, so *)
(* the reachable states are those of each component by itself.  The        *)
(* resolver moves in two programs: one asks for every host, without time   *)
(* caching and until an entry expires ("dns"); one asks for a single host, *)
(* with time caching and beyond that ("clock").                            *)
(***************************************************************************)
EXTENDS TimeoutHeap, DnsCache, FileIo, Keys, Netfd, TLC

VARIABLE part   \* the component that moves

componentVars == <<part, heapVars, dnsVars, fileVars, keyVars, netfdVars>>

OneHost == \A t \in Caller : call[t].host \in {"ab", NoCaller}

Init ==
  /\ part \in {"heap", "dns", "clock", "file", "keys", "netfd"}
  /\ HeapInit /\ DnsInit /\ FileInit /\ KeyInit /\ NetfdInit

Next ==
  /\ UNCHANGED part
  /\ \/ part = "heap" /\ HeapNext
        /\ UNCHANGED <<dnsVars, fileVars, keyVars, netfdVars>>
     \/ /\ \/ part = "dns" /\ DnsNext /\ currTime' = 0 /\ second' < MaxTime
           \/ part = "clock" /\ DnsNext /\ OneHost'
        /\ UNCHANGED <<heapVars, fileVars, keyVars, netfdVars>>
     \/ part = "file" /\ FileNext
        /\ UNCHANGED <<heapVars, dnsVars, keyVars, netfdVars>>
     \/ part = "keys" /\ KeyNext
        /\ UNCHANGED <<heapVars, dnsVars, fileVars, netfdVars>>
     \/ part = "netfd" /\ NetfdNext
        /\ UNCHANGED <<heapVars, dnsVars, fileVars, keyVars>>

Spec == Init /\ [][Next]_componentVars

-----------------------------------------------------------------------------
(* Callers, users, owners and holders are the same two model values; ids   *)
(* and objects, ports and descriptors are two more pairs, and all six are  *)
(* the threads of the heap, so that exchanging the members of a pair is a  *)
(* symmetry of every component.                                            *)
Symmetry == Permutations(Caller) \cup Permutations(QueryId)
            \cup Permutations(Port)

(* One name is tried with a domain and as it is, the other only as it is.  *)
DotsOf == [h \in Host |-> IF h = "a.b" THEN 1 ELSE 0]
DomainList == <<1>>

(* The second request begins where the first one ends and is cut short by  *)
(* the end of the file.                                                    *)
RequestSet == {<<0, 2>>, <<2, 2>>}

=============================================================================
