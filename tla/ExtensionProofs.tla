-------------------------- MODULE ExtensionProofs ---------------------------
(***************************************************************************)
(* Proofs about the extensions: the resolver with its cache (dnscache.c,   *)
(* dnsres.c) and the file reader process (stx_fileio.c), for any number of *)
(* callers, hosts, servers and requests.                                   *)
(***************************************************************************)
EXTENDS DnsCache, FileIo, FiniteSetTheorems, SequenceTheorems, TLAPS

(* The smaller of two integers.                                            *)
LEMMA MinOfTwo ==
  ASSUME NEW a \in Int, NEW b \in Int
  PROVE  /\ Min({a, b}) \in {a, b}
         /\ Min({a, b}) <= a /\ Min({a, b}) <= b
<1>1. \E x \in {a, b} : \A y \in {a, b} : x <= y
  <2>1. CASE a <= b
    <3>1. \A y \in {a, b} : a <= y
      BY <2>1
    <3> QED
      BY <3>1
  <2>2. CASE ~(a <= b)
    <3>1. \A y \in {a, b} : b <= y
      BY <2>2
    <3> QED
      BY <3>1
  <2> QED
    BY <2>1, <2>2
<1>2. Min({a, b}) \in {a, b} /\ \A y \in {a, b} : Min({a, b}) <= y
  BY <1>1 DEF Min
<1> QED
  BY <1>2

-----------------------------------------------------------------------------
(* The inductive invariant of DnsCache: first the types.                   *)
Names == [host : Host \cup {NoCaller}, domain : Nat]
Calls == [host : Host \cup {NoCaller}, try : Nat, ns : Nat,
          id : QueryId \cup {NoCaller}, port : Port \cup {NoCaller},
          count : Nat, ok : BOOLEAN]
Answers == [name : Names, n : Int, fresh : BOOLEAN, ttl : Int]
Entries == [name : Names, n : Nat \ {0}, cur : Nat,
            expires : Int, good : Int]

DnsTypes ==
  /\ running \in Caller \cup {NoCaller}
  /\ place \in [Caller -> {"idle", "send", "receive", "copy", "done"}]
  /\ call \in [Caller -> Calls]
  /\ answer \in [Caller -> Answers]
  /\ asked \subseteq [port : Port \cup {NoCaller}, id : QueryId, name : Names]
  /\ addrList \in Names
  /\ dnsTtl \in Int
  /\ cacheOn \in BOOLEAN
  /\ dnsCache \in [Host -> Entries \cup {NoEntry}]
  /\ second \in Nat /\ currTime \in Nat

(* Two calls never have the same port, so that a reply to one of them is   *)
(* not received by the other.                                              *)
OwnPort ==
  \A t, u \in Caller : t # u /\ call[t].port = call[u].port =>
                       call[t].port = NoCaller

(* What is true of a call at each of its places.  In "copy" the static     *)
(* list and the static TTL are those of the answer this call has parsed,   *)
(* for no other thread has run since.                                      *)
AtHost(t)  == /\ call[t].host \in Host
              /\ call[t].try \in 1..Len(Tries(call[t].host))
Asking(t)  == call[t].port # NoCaller /\ answer[t].n <= 0
Replies(t) == \A q \in asked : q.port = call[t].port /\ q.id = call[t].id =>
                               q.name = Name(t)
Copying(t) == /\ running = t /\ cacheOn
              /\ call[t].count > 0 => /\ addrList = Name(t)
                                      /\ answer[t].ttl = dnsTtl
              /\ call[t].count = 0 => dnsTtl < 0
Answered(t) == answer[t].n > 0 => /\ answer[t].name.host = call[t].host
                                  /\ call[t].ok => answer[t].name = Name(t)

CallInv(t) ==
  /\ place[t] = "idle" => answer[t].n <= 0
  /\ place[t] # "idle" => AtHost(t)
  /\ place[t] \in {"send", "receive"} => Asking(t)
  /\ place[t] = "receive" => Replies(t)
  /\ place[t] = "copy" => Copying(t)
  /\ place[t] = "done" => Answered(t)
  /\ answer[t].fresh

(* The cache, and the clock by which its entries expire.                   *)
EntryInv(h) ==
  /\ dnsCache[h].cur < dnsCache[h].n
  /\ dnsCache[h].name.host = h
  /\ dnsCache[h].expires <= dnsCache[h].good

CacheInv ==
  /\ currTime <= second
  /\ IsFiniteSet(Cached) /\ Cardinality(Cached) <= MaxEntries
  /\ \A h \in Cached : EntryInv(h)

DnsInv == DnsTypes /\ OwnPort /\ (\A t \in Caller : CallInv(t)) /\ CacheInv

(* Every name that is tried for a host is the host, with or without a      *)
(* domain, and there is one.                                               *)
LEMMA TriesHost ==
  ASSUME NEW h \in Host
  PROVE  /\ Len(Tries(h)) \in Nat /\ Len(Tries(h)) >= 1
         /\ \A i \in 1..Len(Tries(h)) : Tries(h)[i] \in Names /\ Tries(h)[i].host = h
<1> DEFINE N == [host : {h}, domain : Nat]
           tried == IF DnsRch THEN Len(Domains) ELSE Min({1, Len(Domains)})
<1>1. AsIs(h) \in N
  BY DEF AsIs
<1>2. Domains \in Seq(Nat \ {0}) /\ Len(Domains) \in Nat
  BY DnsAssumption
<1>3. tried \in Nat /\ tried <= Len(Domains)
  <2>1. 1 \in Int /\ Len(Domains) \in Int
    BY <1>2
  <2>2. /\ Min({1, Len(Domains)}) \in {1, Len(Domains)}
        /\ Min({1, Len(Domains)}) <= 1 /\ Min({1, Len(Domains)}) <= Len(Domains)
    BY <2>1, MinOfTwo
  <2> QED
    BY <1>2, <2>2
<1>4. SearchList(h) \in Seq(N)
  <2>1. CASE Searched(h)
    <3>1. SearchList(h) = [i \in 1..tried |-> [host |-> h, domain |-> Domains[i]]]
      BY <2>1 DEF SearchList
    <3> HIDE DEF tried
    <3>2. \A i \in 1..tried : [host |-> h, domain |-> Domains[i]] \in N
      BY <1>2, <1>3
    <3> QED
      BY <1>3, <3>1, <3>2
  <2>2. CASE ~Searched(h)
    BY <2>2 DEF SearchList
  <2> QED
    BY <2>1, <2>2
<1> HIDE DEF N, tried
<1>5. <<AsIs(h)>> \in Seq(N) /\ Len(<<AsIs(h)>>) = 1
  BY <1>1
<1>6. /\ SearchList(h) \o <<AsIs(h)>> \in Seq(N)
      /\ Len(SearchList(h) \o <<AsIs(h)>>) = Len(SearchList(h)) + 1
  BY <1>4, <1>5, ConcatProperties
<1>7. /\ <<AsIs(h)>> \o SearchList(h) \in Seq(N)
      /\ Len(<<AsIs(h)>> \o SearchList(h)) = 1 + Len(SearchList(h))
  BY <1>4, <1>5, ConcatProperties
<1>8. Tries(h) \in Seq(N) /\ Len(Tries(h)) >= 1 /\ Len(Tries(h)) \in Nat
  BY <1>4, <1>6, <1>7, LenProperties DEF Tries
<1>9. \A i \in 1..Len(Tries(h)) : Tries(h)[i] \in N
  BY <1>8, ElementOfSeq
<1>10. N \subseteq Names /\ \A x \in N : x.host = h
  BY DEF N, Names
<1> QED
  BY <1>8, <1>9, <1>10

(* A step of one caller leaves the calls of the others as they were.       *)
LEMMA OthersKept ==
  ASSUME DnsInv, NEW t \in Caller, running \in {t, NoCaller},
         \A u \in Caller : u # t => /\ place'[u] = place[u]
                                    /\ call'[u] = call[u]
                                    /\ answer'[u] = answer[u],
         \A q \in asked' : \/ q \in asked
                           \/ q.port = call[t].port /\ call[t].port # NoCaller
  PROVE  \A u \in Caller : u # t => CallInv(u)'
<1> SUFFICES ASSUME NEW u \in Caller, u # t PROVE CallInv(u)'
  OBVIOUS
<1>1. CallInv(u) /\ place[u] # "copy"
  BY DnsAssumption DEF DnsInv, CallInv, Copying
<1>2. call[t].port # NoCaller => call[u].port # call[t].port
  BY DEF DnsInv, OwnPort
<1>3. Name(u)' = Name(u) /\ (AtHost(u) => AtHost(u)') /\ (Asking(u) => Asking(u)')
      /\ (Answered(u) => Answered(u)')
  BY DEF Name, AtHost, Asking, Answered
<1>4. Replies(u) => Replies(u)'
  BY <1>2, <1>3 DEF Replies
<1> QED
  BY <1>1, <1>3, <1>4 DEF CallInv

(* What the places of one caller say is enough for all.                    *)
LEMMA CallerKept ==
  ASSUME DnsInv, NEW t \in Caller, running \in {t, NoCaller},
         NEW STATE p, NEW STATE c, NEW STATE a,
         place' = [place EXCEPT ![t] = p],
         call' = [call EXCEPT ![t] = c],
         answer' = [answer EXCEPT ![t] = a],
         p \in {"idle", "send", "receive", "copy", "done"},
         c \in Calls, a \in Answers,
         c.port \in {call[t].port, NoCaller}
            \/ \A u \in Caller : call[u].port # c.port,
         \A q \in asked' : \/ q \in asked
                           \/ q.port = call[t].port /\ call[t].port # NoCaller,
         CallInv(t)'
  PROVE  /\ \A u \in Caller : CallInv(u)'
         /\ OwnPort'
         /\ place' \in [Caller -> {"idle", "send", "receive", "copy", "done"}]
         /\ call' \in [Caller -> Calls]
         /\ answer' \in [Caller -> Answers]
<1>0. DnsTypes /\ OwnPort
  BY DEF DnsInv
<1>1. /\ \A u \in Caller : call'[u] = IF u = t THEN c ELSE call[u]
      /\ \A u \in Caller : place'[u] = IF u = t THEN p ELSE place[u]
      /\ \A u \in Caller : answer'[u] = IF u = t THEN a ELSE answer[u]
  BY <1>0 DEF DnsTypes
<1>2. \A u \in Caller : u # t => CallInv(u)'
  BY <1>1, OthersKept
<1>3. place' \in [Caller -> {"idle", "send", "receive", "copy", "done"}]
  BY <1>0 DEF DnsTypes
<1>4. call' \in [Caller -> Calls]
  BY <1>0 DEF DnsTypes
<1>5. answer' \in [Caller -> Answers]
  BY <1>0 DEF DnsTypes
<1>6. OwnPort'
  BY <1>0, <1>1 DEF OwnPort
<1> QED
  BY <1>2, <1>3, <1>4, <1>5, <1>6

(* A step that touches no call.                                            *)
LEMMA CallsKept ==
  ASSUME DnsInv, UNCHANGED <<place, call, answer>>, asked' \subseteq asked,
         \/ \A t \in Caller : place[t] # "copy"
         \/ UNCHANGED <<running, cacheOn, addrList, dnsTtl>>
  PROVE  (\A u \in Caller : CallInv(u)') /\ OwnPort'
<1>1. ASSUME NEW u \in Caller PROVE CallInv(u)'
  <2>1. CallInv(u)
    BY DEF DnsInv
  <2>2. /\ AtHost(u) => AtHost(u)'
        /\ Asking(u) => Asking(u)'
        /\ Answered(u) => Answered(u)'
        /\ Replies(u) => Replies(u)'
    BY DEF AtHost, Asking, Answered, Replies, Name
  <2>3. place[u] = "copy" /\ Copying(u) => Copying(u)'
    BY DEF Copying, Name
  <2> QED
    BY <2>1, <2>2, <2>3 DEF CallInv
<1>2. OwnPort'
  BY DEF DnsInv, OwnPort
<1> QED
  BY <1>1, <1>2

(* The clocks move, the cache stays.                                       *)
LEMMA CacheKept ==
  ASSUME CacheInv, dnsCache' = dnsCache, currTime' <= second'
  PROVE  CacheInv'
BY DEF CacheInv, Cached, EntryInv

(* The local variables of a call, changed.                                 *)
LEMMA CallChanges ==
  ASSUME NEW r \in Calls, NEW n \in Nat, NEW k \in Nat
  PROVE  /\ r.try \in Nat /\ r.ns \in Nat
         /\ [r EXCEPT !.ns = k, !.id = NoCaller] \in Calls
         /\ [r EXCEPT !.try = n, !.ns = k, !.id = NoCaller] \in Calls
<1>1. r.try \in Nat /\ r.ns \in Nat
  BY DEF Calls
<1>2. CASE r.ok = TRUE
  BY <1>1, <1>2 DEF Calls
<1>3. CASE r.ok = FALSE
  BY <1>1, <1>3 DEF Calls
<1>4. r.ok \in BOOLEAN
  BY DEF Calls
<1> QED
  BY <1>2, <1>3, <1>4

(* What a call returns, changed.                                           *)
LEMMA AnswerChanges ==
  ASSUME NEW x \in Answers, NEW m \in Names, NEW k \in Int, NEW ttl \in Int
  PROVE  /\ [x EXCEPT !.ttl = ttl, !.name = m, !.n = k] \in Answers
         /\ [x EXCEPT !.name = m, !.n = k] \in Answers
<1>1. x.fresh \in BOOLEAN
  BY DEF Answers
<1>2. CASE x.fresh = TRUE
  BY <1>2 DEF Answers
<1>3. CASE x.fresh = FALSE
  BY <1>3 DEF Answers
<1> QED
  BY <1>1, <1>2, <1>3

(* A query that has failed: the call goes on with the next server or the   *)
(* next name, or fails.                                                    *)
LEMMA GoesOn ==
  ASSUME DnsInv, NEW t \in Caller, running \in {t, NoCaller},
         place[t] \in {"send", "receive"},
         NextServer(t) \/ NextName(t) \/ CloseAndReturn(t, FALSE, 0)
  PROVE  \E p \in {"send", "done"}, c \in Calls :
           /\ place' = [place EXCEPT ![t] = p]
           /\ call' = [call EXCEPT ![t] = c]
           /\ running' \in {t, NoCaller}
           /\ c.host = call[t].host
           /\ c.try \in 1..Len(Tries(c.host))
           /\ IF p = "send" THEN c.port = call[t].port ELSE c.port = NoCaller
<1> DEFINE Goal(p, c) == /\ place' = [place EXCEPT ![t] = p]
                         /\ call' = [call EXCEPT ![t] = c]
                         /\ running' \in {t, NoCaller}
                         /\ c.host = call[t].host
                         /\ c.try \in 1..Len(Tries(c.host))
                         /\ IF p = "send" THEN c.port = call[t].port ELSE c.port = NoCaller
<1>0. /\ call \in [Caller -> Calls] /\ call[t] \in Calls
      /\ call[t].host \in Host /\ call[t].try \in 1..Len(Tries(call[t].host))
  BY DEF DnsInv, DnsTypes, CallInv, AtHost
<1>1. Len(Tries(call[t].host)) \in Nat
  BY <1>0, TriesHost
<1>2. CASE CloseAndReturn(t, FALSE, 0)
  <2> DEFINE c == [call[t] EXCEPT !.port = NoCaller, !.id = NoCaller, !.ok = FALSE, !.count = 0]
  <2>1. c \in Calls /\ c.host = call[t].host /\ c.try = call[t].try /\ c.port = NoCaller
    BY <1>0 DEF Calls
  <2>2. call' = [call EXCEPT ![t] = c]
    BY <1>0, <1>2 DEF CloseAndReturn
  <2>3. place' = [place EXCEPT ![t] = "done"] /\ running' = t
    BY <1>2 DEF CloseAndReturn, AfterClose, Goto
  <2> HIDE DEF c
  <2>4. Goal("done", c)
    BY <1>0, <2>1, <2>2, <2>3
  <2> QED
    BY <2>1, <2>4
<1>3. CASE NextServer(t) /\ call[t].ns < NsCount
  <2> DEFINE c == [call[t] EXCEPT !.ns = @ + 1, !.id = NoCaller]
  <2>0. c \in Calls
    <3>1. call[t].ns \in Nat
      BY <1>0 DEF Calls
    <3>2. call[t].ns + 1 \in Nat
      BY <3>1
    <3> QED
      BY <1>0, <3>2, CallChanges
  <2>1. c.host = call[t].host /\ c.try = call[t].try /\ c.port = call[t].port
    BY <1>0 DEF Calls
  <2>2. call' = [call EXCEPT ![t] = c]
    BY <1>0, <1>3 DEF NextServer
  <2>3. place' = [place EXCEPT ![t] = "send"] /\ running' = NoCaller
    BY <1>3 DEF NextServer, WaitsAt, Goto
  <2> HIDE DEF c
  <2>4. Goal("send", c)
    BY <1>0, <2>1, <2>2, <2>3
  <2> QED
    BY <2>0, <2>4
<1>4. CASE NextName(t) /\ call[t].try < Len(Tries(call[t].host))
  <2> DEFINE c == [call[t] EXCEPT !.try = @ + 1, !.ns = 1, !.id = NoCaller]
  <2>0. c \in Calls
    <3>1. call[t].try \in Nat
      BY <1>0 DEF Calls
    <3>2. call[t].try + 1 \in Nat /\ 1 \in Nat
      BY <3>1
    <3> QED
      BY <1>0, <3>2, CallChanges
  <2>1. c.host = call[t].host /\ c.try = call[t].try + 1 /\ c.port = call[t].port
    BY <1>0 DEF Calls
  <2>2. call' = [call EXCEPT ![t] = c]
    BY <1>0, <1>4 DEF NextName
  <2>3. place' = [place EXCEPT ![t] = "send"] /\ running' = NoCaller
    BY <1>4 DEF NextName, WaitsAt, Goto
  <2> HIDE DEF c
  <2>4. c.try \in 1..Len(Tries(c.host))
    BY <1>0, <1>1, <1>4, <2>1
  <2>5. Goal("send", c)
    BY <2>1, <2>2, <2>3, <2>4
  <2> QED
    BY <2>0, <2>5
<1> QED
  BY <1>2, <1>3, <1>4 DEF NextServer, NextName

(* After such a failure the call has no answer, whatever was parsed.       *)
LEMMA FailedQuery ==
  ASSUME DnsInv, NEW t \in Caller, running \in {t, NoCaller},
         place[t] \in {"send", "receive"},
         NextServer(t) \/ NextName(t) \/ CloseAndReturn(t, FALSE, 0),
         NEW STATE a, a \in Answers, a.n <= 0, a.fresh,
         answer' = [answer EXCEPT ![t] = a],
         asked' \subseteq asked,
         addrList' \in Names, dnsTtl' \in Int,
         UNCHANGED <<storeVars, timeVars>>
  PROVE  DnsInv'
<1>0. DnsTypes /\ CallInv(t) /\ CacheInv
  BY DEF DnsInv
<1>1. PICK p \in {"send", "done"}, c \in Calls :
           /\ place' = [place EXCEPT ![t] = p]
           /\ call' = [call EXCEPT ![t] = c]
           /\ running' \in {t, NoCaller}
           /\ c.host = call[t].host
           /\ c.try \in 1..Len(Tries(c.host))
           /\ IF p = "send" THEN c.port = call[t].port ELSE c.port = NoCaller
  BY GoesOn
<1>2. call'[t] = c /\ place'[t] = p /\ answer'[t] = a
  BY <1>0, <1>1 DEF DnsTypes
<1>3. CallInv(t)'
  <2>1. AtHost(t)'
    BY <1>0, <1>1, <1>2 DEF CallInv, AtHost
  <2>2. p = "send" => Asking(t)'
    BY <1>0, <1>1, <1>2 DEF CallInv, Asking
  <2>3. Answered(t)'
    <3>1. ~(answer'[t].n > 0)
      BY <1>2 DEF Answers
    <3> QED
      BY <3>1 DEF Answered
  <2> QED
    BY <1>2, <2>1, <2>2, <2>3 DEF CallInv
<1>4. /\ \A u \in Caller : CallInv(u)'
      /\ OwnPort'
      /\ place' \in [Caller -> {"idle", "send", "receive", "copy", "done"}]
      /\ call' \in [Caller -> Calls]
      /\ answer' \in [Caller -> Answers]
  BY <1>1, <1>3, CallerKept
<1>5. CacheInv'
  BY <1>0, CacheKept DEF storeVars, timeVars, CacheInv
<1>6. DnsTypes'
  BY <1>0, <1>1, <1>4 DEF DnsTypes, storeVars, timeVars
<1> QED
  BY <1>4, <1>5, <1>6 DEF DnsInv

(* lookup_entry finds the host.                                            *)
LEMMA HitStep ==
  ASSUME DnsInv, NEW t \in Caller, NEW h \in Host, NEW rotate \in BOOLEAN,
         LookupHit(t, h, rotate)
  PROVE  DnsInv'
<1>0. DnsTypes /\ CallInv(t) /\ CacheInv
  BY DEF DnsInv
<1> DEFINE e == dnsCache[h]
           a == [name |-> e.name, n |-> IF rotate THEN 1 ELSE e.n,
                 fresh |-> StTime <= e.good, ttl |-> 0]
           c == [NoCall EXCEPT !.host = h]
<1>1. /\ running \in {t, NoCaller} /\ running' = t
      /\ place[t] = "idle" /\ h \in Cached /\ StTime <= e.expires
      /\ answer' = [answer EXCEPT ![t] = a]
      /\ call' = [call EXCEPT ![t] = c]
      /\ place' = [place EXCEPT ![t] = "done"]
      /\ UNCHANGED <<asked, listVars, cacheOn, timeVars>>
  BY DEF LookupHit, At, Valid, Goto
<1>2. e \in Entries /\ EntryInv(h)
  BY <1>0, <1>1 DEF DnsTypes, Cached, CacheInv
<1>3. /\ e.name \in Names /\ e.n \in Nat \ {0} /\ e.expires \in Int /\ e.good \in Int
      /\ e.cur \in Nat /\ e.cur < e.n /\ e.name.host = h
      /\ e.expires <= e.good
  BY <1>2 DEF Entries, EntryInv
<1>4. StTime \in Int /\ StTime <= e.good
  BY <1>0, <1>1, <1>3 DEF StTime, DnsTypes
<1>5. a \in Answers /\ a.name.host = h /\ a.fresh
  <2> DEFINE n == IF rotate THEN 1 ELSE e.n
  <2>1. (StTime <= e.good) = TRUE
    BY <1>4
  <2>2. n \in Int
    BY <1>3
  <2> HIDE DEF n
  <2>3. [name |-> e.name, n |-> n, fresh |-> TRUE, ttl |-> 0] \in Answers
    BY <1>3, <2>2 DEF Answers
  <2>4. a = [name |-> e.name, n |-> n, fresh |-> TRUE, ttl |-> 0]
    BY <2>1 DEF n
  <2> QED
    BY <1>3, <2>3, <2>4
<1>6. c \in Calls /\ c.host = h /\ c.try = 1 /\ c.port = NoCaller /\ c.ok = FALSE
  BY DEF Calls, NoCall
<1>7. Len(Tries(h)) \in Nat /\ Len(Tries(h)) >= 1
  BY TriesHost
<1> HIDE DEF a, c
<1>8. call'[t] = c /\ place'[t] = "done" /\ answer'[t] = a
  BY <1>0, <1>1 DEF DnsTypes
<1>9. CallInv(t)'
  <2>1. AtHost(t)'
    BY <1>6, <1>7, <1>8 DEF AtHost
  <2>2. Answered(t)'
    BY <1>5, <1>6, <1>8 DEF Answered
  <2> QED
    BY <1>5, <1>8, <2>1, <2>2 DEF CallInv
<1>10. /\ \A u \in Caller : CallInv(u)'
      /\ OwnPort'
      /\ place' \in [Caller -> {"idle", "send", "receive", "copy", "done"}]
      /\ call' \in [Caller -> Calls]
      /\ answer' \in [Caller -> Answers]
  BY <1>1, <1>5, <1>6, <1>9, CallerKept
<1>11. CacheInv' /\ dnsCache' \in [Host -> Entries \cup {NoEntry}]
  <2>1. CASE rotate
    <3> DEFINE f == [e EXCEPT !.cur = (@ + 1) % e.n]
    <3>1. dnsCache' = [dnsCache EXCEPT ![h] = f]
      BY <1>0, <2>1 DEF LookupHit, DnsTypes
    <3>2. (e.cur + 1) % e.n \in 0..(e.n - 1)
      BY <1>3
    <3>3. f \in Entries /\ f.cur < f.n /\ f.name.host = h /\ f.expires <= f.good
      BY <1>2, <1>3, <3>2 DEF Entries
    <3> HIDE DEF f
    <3>4. f # NoEntry
      BY <3>3 DEF NoEntry, Entries
    <3>5. \A g \in Host : dnsCache'[g] = IF g = h THEN f ELSE dnsCache[g]
      BY <1>0, <3>1 DEF DnsTypes
    <3>6. Cached' = Cached
      BY <1>1, <3>4, <3>5 DEF Cached
    <3>7. \A g \in Cached' : EntryInv(g)'
      BY <1>0, <3>3, <3>5, <3>6 DEF CacheInv, EntryInv, Cached
    <3> QED
      BY <1>0, <1>1, <3>1, <3>3, <3>6, <3>7 DEF CacheInv, DnsTypes, timeVars
  <2>2. CASE ~rotate
    <3>1. dnsCache' = dnsCache
      BY <2>2 DEF LookupHit
    <3> QED
      BY <1>0, <1>1, <3>1, CacheKept DEF timeVars, CacheInv, DnsTypes
  <2> QED
    BY <2>1, <2>2
<1>12. DnsTypes'
  BY <1>0, <1>1, <1>10, <1>11 DEF DnsTypes, listVars, timeVars
<1> QED
  BY <1>10, <1>11, <1>12 DEF DnsInv

(* lookup_entry does not find the host.                                    *)
LEMMA MissStep ==
  ASSUME DnsInv, NEW t \in Caller, NEW h \in Host, LookupMiss(t, h)
  PROVE  DnsInv'
<1>0. DnsTypes /\ CallInv(t) /\ CacheInv
  BY DEF DnsInv
<1>1. /\ running \in {t, NoCaller} /\ place[t] = "idle"
      /\ dnsCache' = IF cacheOn THEN [dnsCache EXCEPT ![h] = NoEntry] ELSE dnsCache
      /\ UNCHANGED <<answer, asked, listVars, cacheOn, timeVars>>
  BY DEF LookupMiss, At
<1>2. PICK p \in (Port \ {call[u].port : u \in Caller}) \cup {NoCaller} :
        /\ call' = [call EXCEPT ![t] = [NoCall EXCEPT !.host = h, !.port = p]]
        /\ IF p = NoCaller THEN Goto(t, "done") /\ running' = t ELSE WaitsAt(t, "send")
  BY DEF LookupMiss
<1> DEFINE c == [NoCall EXCEPT !.host = h, !.port = p]
           next == IF p = NoCaller THEN "done" ELSE "send"
<1>3. c \in Calls /\ c.host = h /\ c.try = 1 /\ c.port = p
  BY DEF Calls, NoCall
<1>4. Len(Tries(h)) \in Nat /\ Len(Tries(h)) >= 1
  BY TriesHost
<1>5. answer' = [answer EXCEPT ![t] = answer[t]] /\ answer[t] \in Answers
  BY <1>0, <1>1 DEF DnsTypes
<1>6. place' = [place EXCEPT ![t] = next] /\ running' \in {t, NoCaller}
  BY <1>2 DEF WaitsAt, Goto
<1> HIDE DEF c
<1>7. call'[t] = c /\ place'[t] = next /\ answer'[t] = answer[t]
  BY <1>0, <1>1, <1>2, <1>6 DEF DnsTypes, c
<1>8. CallInv(t)'
  <2>1. AtHost(t)'
    BY <1>3, <1>4, <1>7 DEF AtHost
  <2>2. answer[t].n <= 0 /\ answer[t].n \in Int /\ answer[t].fresh
    BY <1>0, <1>1, <1>5 DEF CallInv, Answers
  <2>3. p # NoCaller => Asking(t)'
    BY <1>3, <1>7, <2>2 DEF Asking
  <2>4. Answered(t)'
    BY <1>7, <2>2 DEF Answered
  <2> QED
    BY <1>7, <2>1, <2>2, <2>3, <2>4 DEF CallInv
<1>9. /\ \A u \in Caller : CallInv(u)'
      /\ OwnPort'
      /\ place' \in [Caller -> {"idle", "send", "receive", "copy", "done"}]
      /\ call' \in [Caller -> Calls]
      /\ answer' \in [Caller -> Answers]
  <2>1. c.port \in {call[t].port, NoCaller} \/ \A u \in Caller : call[u].port # c.port
    BY <1>2, <1>3
  <2>2. call' = [call EXCEPT ![t] = c]
    BY <1>2 DEF c
  <2>3. \A q \in asked' : q \in asked
    BY <1>1
  <2> QED
    BY <1>1, <1>3, <1>5, <1>6, <1>8, <2>1, <2>2, <2>3, CallerKept
<1>10. dnsCache' \in [Host -> Entries \cup {NoEntry}]
  BY <1>0, <1>1 DEF DnsTypes
<1>11. CacheInv'
  <2>1. Cached' \subseteq Cached /\ \A g \in Cached' : dnsCache'[g] = dnsCache[g]
    BY <1>0, <1>1 DEF Cached, DnsTypes
  <2>2. IsFiniteSet(Cached') /\ Cardinality(Cached') <= Cardinality(Cached)
    BY <1>0, <2>1, FS_Subset DEF CacheInv
  <2>3. Cardinality(Cached') <= MaxEntries
    BY <1>0, <2>2, FS_CardinalityType, DnsAssumption DEF CacheInv
  <2>4. \A g \in Cached' : EntryInv(g)'
    BY <1>0, <2>1 DEF CacheInv, EntryInv
  <2> QED
    BY <1>0, <1>1, <2>2, <2>3, <2>4 DEF CacheInv, timeVars
<1>12. DnsTypes'
  BY <1>0, <1>1, <1>6, <1>9, <1>10 DEF DnsTypes, listVars, timeVars
<1> QED
  BY <1>9, <1>11, <1>12 DEF DnsInv

(* A query goes out: of the queries still in flight with its port, none    *)
(* has its id.                                                             *)
LEMMA SendStep ==
  ASSUME DnsInv, NEW t \in Caller, SendQuery(t)
  PROVE  DnsInv'
<1>0. DnsTypes /\ CallInv(t) /\ CacheInv
  BY DEF DnsInv
<1>1. /\ running \in {t, NoCaller} /\ running' = NoCaller
      /\ place[t] = "send" /\ place' = [place EXCEPT ![t] = "receive"]
      /\ UNCHANGED <<answer, listVars, storeVars, timeVars>>
  BY DEF SendQuery, At, WaitsAt, Goto
<1>2. PICK i \in QueryId \ {q.id : q \in asked} :
        /\ asked' = asked \cup {[port |-> call[t].port, id |-> i, name |-> Name(t)]}
        /\ call' = [call EXCEPT ![t].id = i]
  BY DEF SendQuery
<1> DEFINE c == [call[t] EXCEPT !.id = i]
           new == [port |-> call[t].port, id |-> i, name |-> Name(t)]
<1>3. call[t] \in Calls /\ AtHost(t) /\ Asking(t)
  BY <1>0, <1>1 DEF DnsTypes, CallInv
<1>4. c \in Calls
  <2>1. CASE call[t].ok = TRUE
    BY <1>3, <2>1 DEF Calls
  <2>2. CASE call[t].ok = FALSE
    BY <1>3, <2>2 DEF Calls
  <2>3. call[t].ok \in BOOLEAN
    BY <1>3 DEF Calls
  <2> QED
    BY <2>1, <2>2, <2>3
<1>5. c.host = call[t].host /\ c.try = call[t].try /\ c.port = call[t].port /\ c.id = i
  BY <1>3 DEF Calls
<1>6. call' = [call EXCEPT ![t] = c]
  BY <1>0, <1>2 DEF DnsTypes
<1> HIDE DEF c
<1>7. call'[t] = c /\ place'[t] = "receive" /\ answer'[t] = answer[t]
  BY <1>0, <1>1, <1>6 DEF DnsTypes
<1>8. Name(t)' = Name(t) /\ Name(t) \in Names
  <2>1. Name(t) \in Names
    BY <1>3, TriesHost DEF Name, AtHost
  <2> QED
    BY <1>5, <1>7, <2>1 DEF Name
<1>9. answer' = [answer EXCEPT ![t] = answer[t]] /\ answer[t] \in Answers
  BY <1>0, <1>1 DEF DnsTypes
<1>10. call[t].port \in Port \cup {NoCaller}
  BY <1>3 DEF Calls
<1>11. asked' \subseteq [port : Port \cup {NoCaller}, id : QueryId, name : Names]
  BY <1>0, <1>2, <1>8, <1>10 DEF DnsTypes
<1>12. CallInv(t)'
  <2>1. AtHost(t)' /\ Asking(t)'
    BY <1>3, <1>5, <1>7 DEF AtHost, Asking
  <2>2. Replies(t)'
    BY <1>2, <1>5, <1>7, <1>8 DEF Replies
  <2>3. answer'[t].fresh
    BY <1>0, <1>7 DEF CallInv
  <2> QED
    BY <1>7, <2>1, <2>2, <2>3 DEF CallInv
<1>13. /\ \A u \in Caller : CallInv(u)'
      /\ OwnPort'
      /\ place' \in [Caller -> {"idle", "send", "receive", "copy", "done"}]
      /\ call' \in [Caller -> Calls]
      /\ answer' \in [Caller -> Answers]
  <2>1. \A q \in asked' : \/ q \in asked
                          \/ q.port = call[t].port /\ call[t].port # NoCaller
    BY <1>2, <1>3 DEF Asking
  <2> QED
    BY <1>1, <1>4, <1>5, <1>6, <1>9, <1>12, <2>1, CallerKept
<1>14. CacheInv'
  BY <1>0, <1>1, CacheKept DEF storeVars, timeVars, CacheInv
<1>15. DnsTypes'
  BY <1>0, <1>1, <1>11, <1>13 DEF DnsTypes, listVars, storeVars, timeVars
<1> QED
  BY <1>13, <1>14, <1>15 DEF DnsInv

(* What parse_answer leaves of a reply to the query of this iteration.     *)
LEMMA ParsedAnswer ==
  ASSUME DnsInv, NEW t \in Caller, NEW q \in asked, NEW ttls \in Records, NEW n,
         Arrives(t, q), IdMatches(t, q), Parsed(q, ttls, n)
  PROVE  /\ running \in {t, NoCaller} /\ place[t] = "receive" /\ asked' \subseteq asked
         /\ q.name = Name(t) /\ q.name \in Names /\ q.name.host = call[t].host
         /\ addrList' \in Names /\ dnsTtl' \in Int
         /\ Len(ttls) \in Nat
         /\ dnsTtl' = Ruling(ttls) /\ (Len(ttls) = 0 => dnsTtl' < 0)
         /\ cacheOn /\ n > 0 => addrList' = q.name
<1>0. DnsTypes /\ CallInv(t)
  BY DEF DnsInv, DnsTypes
<1>1. running \in {t, NoCaller} /\ place[t] = "receive" /\ asked' \subseteq asked
  BY DEF Arrives, At
<1>2. q.name = Name(t)
  BY <1>0, <1>1 DEF Arrives, IdMatches, CallInv, Replies
<1>3. q.name \in Names /\ q.name.host = call[t].host
  BY <1>0, <1>1, <1>2, TriesHost DEF CallInv, AtHost, Name
<1>4. dnsTtl' = Ruling(ttls)
  BY DEF Parsed, TtlParsed
<1>5. ttls \in Seq(Int) /\ Len(ttls) \in Nat
  <2>1. PICK k \in 0..MaxAddrs : ttls \in [1..k -> Ttls]
    BY DEF Records
  <2>2. Ttls \subseteq Int /\ k \in Nat
    BY DnsAssumption
  <2>3. ttls \in [1..k -> Int]
    BY <2>1, <2>2
  <2>4. ttls \in Seq(Int)
    BY <2>2, <2>3
  <2> QED
    BY <2>4
<1>6. Ruling(ttls) \in Int /\ (Len(ttls) = 0 => Ruling(ttls) < 0)
  <2>1. CASE ttls = <<>>
    BY <2>1 DEF Ruling
  <2>2. CASE ttls # <<>>
    <3>1. Len(ttls) # 0
      BY <1>5, <2>2, EmptySeq
    <3>2. Len(ttls) \in 1..Len(ttls)
      BY <1>5, <3>1
    <3>3. ttls[Len(ttls)] \in Int
      BY <1>5, <3>2, ElementOfSeq
    <3> QED
      BY <2>2, <3>1, <3>3 DEF Ruling
  <2> QED
    BY <2>1, <2>2
<1>7. addrList' = IF cacheOn /\ n > 0 THEN q.name ELSE addrList
  BY DEF Parsed
<1>8. addrList' \in Names
  BY <1>0, <1>3, <1>7 DEF DnsTypes
<1> QED
  BY <1>1, <1>2, <1>3, <1>4, <1>5, <1>6, <1>7, <1>8

(* A good reply: the call returns its addresses, or copies them into the   *)
(* cache first.                                                            *)
LEMMA GoodStep ==
  ASSUME DnsInv, NEW t \in Caller, GoodReply(t)
  PROVE  DnsInv'
<1>0. DnsTypes /\ CallInv(t) /\ CacheInv
  BY DEF DnsInv
<1>1. PICK q \in asked, ttls \in Records :
        /\ Arrives(t, q) /\ IdMatches(t, q)
        /\ Parsed(q, ttls, Len(ttls))
        /\ CloseAndReturn(t, TRUE, Len(ttls))
        /\ answer' = [answer EXCEPT ![t].ttl = Ruling(ttls),
                        ![t].name = IF cacheOn THEN @ ELSE q.name,
                        ![t].n = IF cacheOn THEN @ ELSE Len(ttls)]
  BY DEF GoodReply
<1>2. UNCHANGED <<storeVars, timeVars>>
  BY DEF GoodReply
<1> DEFINE n == Len(ttls)
           ttl == Ruling(ttls)
<1>3. /\ running \in {t, NoCaller} /\ place[t] = "receive" /\ asked' \subseteq asked
      /\ q.name = Name(t) /\ q.name \in Names /\ q.name.host = call[t].host
      /\ addrList' \in Names /\ dnsTtl' \in Int
      /\ n \in Nat
      /\ dnsTtl' = ttl /\ (n = 0 => dnsTtl' < 0)
      /\ cacheOn /\ n > 0 => addrList' = q.name
  BY <1>1, ParsedAnswer
<1>a. /\ call' = [call EXCEPT ![t].port = NoCaller, ![t].id = NoCaller,
                              ![t].ok = TRUE, ![t].count = n]
      /\ running' = t
      /\ place' = [place EXCEPT ![t] = IF cacheOn THEN "copy" ELSE "done"]
  BY <1>1 DEF CloseAndReturn, AfterClose, Goto
<1> DEFINE m == IF cacheOn THEN answer[t].name ELSE q.name
           k == IF cacheOn THEN answer[t].n ELSE n
           a == [answer[t] EXCEPT !.ttl = ttl, !.name = m, !.n = k]
<1>4. answer' = [answer EXCEPT ![t] = a]
  BY <1>0, <1>1 DEF DnsTypes
<1> HIDE DEF n, ttl
<1>5. /\ a \in Answers /\ a.fresh /\ a.ttl = ttl
      /\ ~cacheOn => a.n = n /\ a.name = q.name
  <2>0. answer[t] \in Answers
    BY <1>0 DEF DnsTypes
  <2>1. answer[t].fresh = TRUE
    BY <1>0, <2>0 DEF CallInv, Answers
  <2>2. m \in Names /\ k \in Int /\ ttl \in Int
    BY <1>3, <2>0 DEF Answers
  <2>3. ~cacheOn => k = n /\ m = q.name
    OBVIOUS
  <2> HIDE DEF m, k
  <2>4. a \in Answers
    BY <2>0, <2>2, AnswerChanges
  <2>5. a.ttl = ttl /\ a.name = m /\ a.n = k /\ a.fresh = answer[t].fresh
    BY <2>0 DEF Answers
  <2> HIDE DEF a
  <2> QED
    BY <2>1, <2>3, <2>4, <2>5
<1> HIDE DEF a
<1> DEFINE c == [call[t] EXCEPT !.port = NoCaller, !.id = NoCaller, !.ok = TRUE, !.count = n]
           next == IF cacheOn THEN "copy" ELSE "done"
<1>6. call[t] \in Calls /\ AtHost(t)
  BY <1>0, <1>3 DEF DnsTypes, CallInv
<1>7. /\ c \in Calls /\ c.host = call[t].host /\ c.try = call[t].try /\ c.port = NoCaller
      /\ c.count = n
  BY <1>3, <1>6 DEF Calls
<1>8. call' = [call EXCEPT ![t] = c]
  BY <1>0, <1>a DEF DnsTypes
<1>9. running' = t /\ place' = [place EXCEPT ![t] = next]
  BY <1>a
<1> HIDE DEF c
<1>10. call'[t] = c /\ place'[t] = next /\ answer'[t] = a
  BY <1>0, <1>4, <1>8, <1>9 DEF DnsTypes
<1>11. Name(t)' = Name(t) /\ cacheOn' = cacheOn
  BY <1>2, <1>7, <1>10 DEF Name, storeVars
<1>12. CallInv(t)'
  <2>1. AtHost(t)'
    BY <1>6, <1>7, <1>10 DEF AtHost
  <2>2. cacheOn => Copying(t)'
    BY <1>3, <1>5, <1>7, <1>9, <1>10, <1>11 DEF Copying
  <2>3. ~cacheOn => Answered(t)'
    BY <1>3, <1>5, <1>7, <1>10, <1>11 DEF Answered
  <2> QED
    BY <1>5, <1>10, <2>1, <2>2, <2>3 DEF CallInv
<1>13. /\ \A u \in Caller : CallInv(u)'
      /\ OwnPort'
      /\ place' \in [Caller -> {"idle", "send", "receive", "copy", "done"}]
      /\ call' \in [Caller -> Calls]
      /\ answer' \in [Caller -> Answers]
  <2>1. next \in {"idle", "send", "receive", "copy", "done"}
    OBVIOUS
  <2> HIDE DEF next
  <2> QED
    BY <1>3, <1>4, <1>5, <1>7, <1>8, <1>9, <1>12, <2>1, CallerKept
<1>14. CacheInv'
  BY <1>0, <1>2, CacheKept DEF storeVars, timeVars, CacheInv
<1>15. DnsTypes'
  BY <1>0, <1>2, <1>3, <1>9, <1>13 DEF DnsTypes, storeVars, timeVars
<1> QED
  BY <1>13, <1>14, <1>15 DEF DnsInv

(* The entry that insert_entry may add, and the entries it may drop.       *)
LEMMA InsertKeeps ==
  ASSUME DnsInv, NEW t \in Caller, Copying(t), AtHost(t), dnsTtl > 0,
         InsertEntry(t), UNCHANGED timeVars
  PROVE  CacheInv' /\ dnsCache' \in [Host -> Entries \cup {NoEntry}]
<1>0. DnsTypes /\ CacheInv /\ call[t] \in Calls
  BY DEF DnsInv, DnsTypes
<1> DEFINE host == call[t].host
           e == NewEntry(t)
<1>1. PICK kept \in SUBSET Cached, stored \in BOOLEAN :
        /\ stored => Cardinality(kept \ {host}) < MaxEntries
        /\ dnsCache' = [h \in Host |->
             IF stored /\ h = host THEN e
             ELSE IF h \in kept THEN dnsCache[h] ELSE NoEntry]
  BY DEF InsertEntry
<1>2. call[t].count \in Nat \ {0} /\ addrList = Name(t) /\ answer[t].ttl = dnsTtl
  BY <1>0 DEF Calls, Copying, DnsTypes
<1>3. host \in Host /\ Name(t) \in Names /\ Name(t).host = host
  BY TriesHost DEF AtHost, Name
<1>4. /\ StTime \in Int /\ StTime <= second /\ second \in Int
      /\ dnsTtl \in Int
  BY <1>0 DEF StTime, DnsTypes, CacheInv
<1>5. e \in Entries
  BY <1>2, <1>3, <1>4 DEF NewEntry, Entries
<1>6. e.cur < e.n /\ e.name.host = host /\ e.expires <= e.good
  BY <1>2, <1>3, <1>4 DEF NewEntry
<1> HIDE DEF e, host
<1>7. e # NoEntry
  BY <1>5 DEF Entries, NoEntry
<1>8. \A h \in Host : dnsCache'[h] = IF stored /\ h = host THEN e
                                    ELSE IF h \in kept THEN dnsCache[h] ELSE NoEntry
  BY <1>1
<1>9. dnsCache' \in [Host -> Entries \cup {NoEntry}]
  BY <1>0, <1>1, <1>5 DEF DnsTypes
<1>10. Cached' \subseteq (kept \ {host}) \cup (IF stored THEN {host} ELSE kept)
  BY <1>8 DEF Cached
<1>11. IsFiniteSet(kept) /\ Cardinality(kept) <= MaxEntries /\ Cardinality(kept) \in Nat
  <2>1. IsFiniteSet(kept) /\ Cardinality(kept) <= Cardinality(Cached)
    BY <1>0, FS_Subset DEF CacheInv
  <2> QED
    BY <1>0, <2>1, FS_CardinalityType, DnsAssumption DEF CacheInv
<1>12. IsFiniteSet(Cached') /\ Cardinality(Cached') <= MaxEntries
  <2>1. CASE stored
    <3> DEFINE K == kept \ {host}
    <3>1. IsFiniteSet(K) /\ Cardinality(K) \in Nat
      BY <1>11, FS_Subset, FS_CardinalityType
    <3>2. Cardinality(K) < MaxEntries /\ host \notin K
      BY <1>1, <2>1
    <3> HIDE DEF K
    <3>3. IsFiniteSet(K \cup {host}) /\ Cardinality(K \cup {host}) = Cardinality(K) + 1
      BY <3>1, <3>2, FS_AddElement
    <3>4. Cached' \subseteq K \cup {host}
      BY <1>10, <2>1 DEF K
    <3>5. IsFiniteSet(Cached') /\ Cardinality(Cached') <= Cardinality(K \cup {host})
      BY <3>3, <3>4, FS_Subset
    <3> QED
      BY <3>1, <3>2, <3>3, <3>5, FS_CardinalityType, DnsAssumption
  <2>2. CASE ~stored
    <3>1. Cached' \subseteq kept
      BY <1>10, <2>2
    <3>2. IsFiniteSet(Cached') /\ Cardinality(Cached') <= Cardinality(kept)
      BY <1>11, <3>1, FS_Subset
    <3> QED
      BY <1>11, <3>2, FS_CardinalityType, DnsAssumption
  <2> QED
    BY <2>1, <2>2
<1>13. \A h \in Cached' : EntryInv(h)'
  <2> SUFFICES ASSUME NEW h \in Cached' PROVE EntryInv(h)'
    OBVIOUS
  <2>1. h \in Host /\ dnsCache'[h] # NoEntry
    BY DEF Cached
  <2>2. CASE stored /\ h = host
    BY <1>6, <1>8, <2>1, <2>2 DEF EntryInv
  <2>3. CASE ~(stored /\ h = host)
    <3>1. h \in Cached /\ dnsCache'[h] = dnsCache[h]
      BY <1>8, <2>1, <2>3
    <3> QED
      BY <1>0, <3>1 DEF CacheInv, EntryInv
  <2> QED
    BY <2>2, <2>3
<1> QED
  BY <1>0, <1>9, <1>12, <1>13 DEF CacheInv, timeVars

(* The answer is copied out of the static list and cached.                 *)
LEMMA CopyStep ==
  ASSUME DnsInv, NEW t \in Caller, CopyAnswer(t)
  PROVE  DnsInv'
<1>0. DnsTypes /\ CallInv(t) /\ CacheInv
  BY DEF DnsInv
<1> DEFINE a == [answer[t] EXCEPT !.name = addrList, !.n = call[t].count]
<1>a. place[t] = "copy" /\ running = t
  BY <1>0 DEF CopyAnswer, At, CallInv, Copying
<1>1. /\ running = t /\ place[t] = "copy" /\ place' = [place EXCEPT ![t] = "done"]
      /\ answer' = [answer EXCEPT ![t] = a]
      /\ IF dnsTtl > 0 THEN InsertEntry(t) ELSE UNCHANGED dnsCache
      /\ UNCHANGED <<running, call, asked, listVars, cacheOn, timeVars>>
  BY <1>0, <1>a DEF CopyAnswer, Goto, DnsTypes
<1>2. call[t] \in Calls /\ AtHost(t) /\ Copying(t) /\ call[t].count \in Nat
  BY <1>0, <1>1 DEF DnsTypes, CallInv, Calls
<1>3. a \in Answers /\ a.n = call[t].count /\ a.name = addrList /\ a.fresh
  <2>0. answer[t] \in Answers
    BY <1>0 DEF DnsTypes
  <2>1. answer[t].fresh = TRUE
    BY <1>0, <2>0 DEF CallInv, Answers
  <2>2. addrList \in Names /\ call[t].count \in Int /\ answer[t].ttl \in Int
    BY <1>0, <1>2, <2>0 DEF DnsTypes, Answers
  <2>3. a \in Answers
    BY <2>0, <2>2, AnswerChanges
  <2>4. a.name = addrList /\ a.n = call[t].count /\ a.fresh = answer[t].fresh
    BY <2>0 DEF Answers
  <2> HIDE DEF a
  <2> QED
    BY <2>1, <2>3, <2>4
<1>4. call' = [call EXCEPT ![t] = call[t]]
  BY <1>0, <1>1 DEF DnsTypes
<1> HIDE DEF a
<1>5. call'[t] = call[t] /\ place'[t] = "done" /\ answer'[t] = a
  BY <1>0, <1>1 DEF DnsTypes
<1>6. Name(t)' = Name(t) /\ Name(t).host = call[t].host
  BY <1>2, <1>5, TriesHost DEF Name, AtHost
<1>7. CallInv(t)'
  <2>1. AtHost(t)'
    BY <1>2, <1>5 DEF AtHost
  <2>2. Answered(t)'
    BY <1>2, <1>3, <1>5, <1>6 DEF Answered, Copying
  <2> QED
    BY <1>3, <1>5, <2>1, <2>2 DEF CallInv
<1>8. /\ \A u \in Caller : CallInv(u)'
      /\ OwnPort'
      /\ place' \in [Caller -> {"idle", "send", "receive", "copy", "done"}]
      /\ call' \in [Caller -> Calls]
      /\ answer' \in [Caller -> Answers]
  BY <1>1, <1>2, <1>3, <1>4, <1>7, CallerKept
<1>9. CacheInv' /\ dnsCache' \in [Host -> Entries \cup {NoEntry}]
  <2>1. CASE dnsTtl > 0
    BY <1>1, <1>2, <2>1, InsertKeeps
  <2>2. CASE ~(dnsTtl > 0)
    BY <1>0, <1>1, <2>2, CacheKept DEF CacheInv, timeVars, DnsTypes
  <2> QED
    BY <2>1, <2>2
<1>10. DnsTypes'
  BY <1>0, <1>1, <1>8, <1>9 DEF DnsTypes, listVars, timeVars
<1> QED
  BY <1>8, <1>9, <1>10 DEF DnsInv

(* The call returns.                                                       *)
LEMMA ReturnStep ==
  ASSUME DnsInv, NEW t \in Caller, Return(t)
  PROVE  DnsInv'
<1>0. DnsTypes /\ CallInv(t) /\ CacheInv
  BY DEF DnsInv
<1>1. /\ running \in {t, NoCaller} /\ running' = NoCaller
      /\ place' = [place EXCEPT ![t] = "idle"]
      /\ call' = [call EXCEPT ![t] = NoCall]
      /\ answer' = [answer EXCEPT ![t] = Failure]
      /\ UNCHANGED <<asked, listVars, storeVars, timeVars>>
  BY DEF Return, At, WaitsAt, Goto
<1>2. NoCall \in Calls /\ NoCall.port = NoCaller
  BY DEF NoCall, Calls
<1>3. Failure \in Answers /\ Failure.n <= 0 /\ Failure.fresh
  BY DEF Failure, Answers, NoName, Names
<1>4. CallInv(t)'
  BY <1>0, <1>1, <1>3 DEF CallInv, DnsTypes
<1>5. /\ \A u \in Caller : CallInv(u)'
      /\ OwnPort'
      /\ place' \in [Caller -> {"idle", "send", "receive", "copy", "done"}]
      /\ call' \in [Caller -> Calls]
      /\ answer' \in [Caller -> Answers]
  BY <1>1, <1>2, <1>3, <1>4, CallerKept
<1>6. CacheInv'
  BY <1>0, <1>1, CacheKept DEF storeVars, timeVars, CacheInv
<1>7. DnsTypes'
  BY <1>0, <1>1, <1>5 DEF DnsTypes, listVars, storeVars, timeVars
<1> QED
  BY <1>5, <1>6, <1>7 DEF DnsInv

(* Every step of a caller keeps the invariant.                             *)
LEMMA CallerStepInv ==
  ASSUME DnsInv, NEW t \in Caller, CallerStep(t)
  PROVE  DnsInv'
<1>0. /\ DnsTypes /\ CallInv(t) /\ CacheInv /\ NoCaller \notin Caller
      /\ answer[t] \in Answers /\ answer = [answer EXCEPT ![t] = answer[t]]
  BY DnsAssumption DEF DnsInv, DnsTypes
<1>a. ASSUME place[t] \in {"send", "receive"}
      PROVE  answer[t].n <= 0 /\ answer[t].fresh
  BY <1>0, <1>a DEF CallInv, Asking
<1>b. ASSUME UNCHANGED <<place, call, answer>>, asked' \subseteq asked,
             running' \in Caller \cup {NoCaller}, cacheOn' \in BOOLEAN,
             \/ \A u \in Caller : place[u] # "copy"
             \/ UNCHANGED <<running, cacheOn>>,
             UNCHANGED <<listVars, dnsCache, second>>,
             currTime' \in Nat, currTime' <= second
      PROVE  DnsInv'
  <2>1. (\A u \in Caller : CallInv(u)') /\ OwnPort'
    BY <1>b, CallsKept DEF listVars
  <2>2. CacheInv'
    BY <1>0, <1>b, CacheKept
  <2>3. DnsTypes'
    BY <1>0, <1>b DEF DnsTypes, listVars
  <2> QED
    BY <2>1, <2>2, <2>3 DEF DnsInv
<1>c. currTime \in Nat /\ second \in Nat /\ currTime <= second
  BY <1>0 DEF DnsTypes, CacheInv
<1>2. CASE DnsCacheInit(t)
  <2>1. /\ UNCHANGED <<running, place, call, answer, asked, listVars, dnsCache, timeVars>>
        /\ cacheOn' \in BOOLEAN
        /\ \A u \in Caller : place[u] # "copy"
    BY <1>2 DEF DnsCacheInit
  <2> QED
    BY <1>0, <1>b, <1>c, <2>1 DEF timeVars, DnsTypes
<1>3. CASE DropReply(t)
  <2>1. UNCHANGED <<running, place, call, answer, listVars, storeVars, timeVars>>
    BY <1>3 DEF DropReply
  <2>2. asked' \subseteq asked
    BY <1>3 DEF DropReply, Arrives
  <2> QED
    BY <1>0, <1>b, <1>c, <2>1, <2>2 DEF storeVars, timeVars, DnsTypes
<1>4. ASSUME NEW on \in BOOLEAN, TimecacheSet(t, on) PROVE DnsInv'
  <2>1. /\ UNCHANGED <<running, place, call, answer, asked, listVars, storeVars, second>>
        /\ currTime' = IF on THEN second ELSE 0
    BY <1>4 DEF TimecacheSet
  <2>2. currTime' \in Nat /\ currTime' <= second
    BY <1>c, <2>1
  <2> QED
    BY <1>0, <1>b, <1>c, <2>1, <2>2 DEF storeVars, DnsTypes
<1>5. CASE MakeQueryFails(t) \/ IoFails(t) \/ Interrupted(t)
  <2>1. /\ running \in {t, NoCaller} /\ place[t] \in {"send", "receive"}
        /\ NextServer(t) \/ NextName(t) \/ CloseAndReturn(t, FALSE, 0)
        /\ UNCHANGED <<answer, asked, listVars, storeVars, timeVars>>
    BY <1>5 DEF MakeQueryFails, IoFails, Interrupted, At
  <2>2. /\ answer' = [answer EXCEPT ![t] = answer[t]] /\ asked' \subseteq asked
        /\ addrList' \in Names /\ dnsTtl' \in Int
    BY <1>0, <2>1 DEF listVars, DnsTypes
  <2> QED
    BY <1>0, <1>a, <2>1, <2>2, FailedQuery
<1>6. CASE BadReply(t)
  <2>1. /\ running \in {t, NoCaller} /\ place[t] \in {"send", "receive"} /\ asked' \subseteq asked
        /\ NextServer(t)
        /\ UNCHANGED <<answer, listVars, storeVars, timeVars>>
    BY <1>6 DEF BadReply, Arrives, At
  <2>2. /\ answer' = [answer EXCEPT ![t] = answer[t]]
        /\ addrList' \in Names /\ dnsTtl' \in Int
    BY <1>0, <2>1 DEF listVars, DnsTypes
  <2> QED
    BY <1>0, <1>a, <2>1, <2>2, FailedQuery
<1>7. CASE BrokenReply(t)
  <2>a. PICK q \in asked, ttls \in Records :
          /\ Arrives(t, q) /\ IdMatches(t, q)
          /\ \E n \in {Len(ttls), Len(ttls) - 1} \cap Nat : Parsed(q, ttls, n)
    BY <1>7 DEF BrokenReply
  <2>1. PICK n \in {Len(ttls), Len(ttls) - 1} \cap Nat : Parsed(q, ttls, n)
    BY <2>a
  <2>2. NextServer(t) /\ UNCHANGED <<answer, storeVars, timeVars>>
    BY <1>7 DEF BrokenReply
  <2>3. /\ running \in {t, NoCaller} /\ place[t] = "receive" /\ asked' \subseteq asked
        /\ addrList' \in Names /\ dnsTtl' \in Int
    BY <2>a, <2>1, ParsedAnswer
  <2>4. answer' = [answer EXCEPT ![t] = answer[t]]
    BY <1>0, <2>2
  <2> QED
    BY <1>0, <1>a, <2>2, <2>3, <2>4, FailedQuery
<1> QED
  BY <1>2, <1>3, <1>4, <1>5, <1>6, <1>7, HitStep, MissStep, SendStep, GoodStep,
     CopyStep, ReturnStep DEF CallerStep

(* The invariant holds in every reachable state.                           *)
LEMMA DnsInvariance ==
  DnsSpec => []DnsInv
<1>1. DnsInit => DnsInv
  <2> SUFFICES ASSUME DnsInit PROVE DnsInv
    OBVIOUS
  <2>0. /\ NoCall \in Calls /\ NoCall.port = NoCaller /\ NoName \in Names
        /\ Failure \in Answers /\ Failure.n <= 0 /\ Failure.fresh
    BY DEF NoCall, Calls, NoName, Names, Failure, Answers
  <2>1. DnsTypes
    <3>1. call \in [Caller -> Calls]
      BY <2>0 DEF DnsInit
    <3>2. answer \in [Caller -> Answers]
      BY <2>0 DEF DnsInit
    <3>3. addrList \in Names
      BY <2>0 DEF DnsInit
    <3>4. dnsCache \in [Host -> Entries \cup {NoEntry}]
      BY DEF DnsInit
    <3>5. /\ running \in Caller \cup {NoCaller} /\ cacheOn \in BOOLEAN
          /\ place \in [Caller -> {"idle", "send", "receive", "copy", "done"}]
          /\ asked \subseteq [port : Port \cup {NoCaller}, id : QueryId, name : Names]
      BY DEF DnsInit
    <3>6. dnsTtl \in Int /\ second \in Nat /\ currTime \in Nat
      BY DEF DnsInit
    <3> QED
      BY <3>1, <3>2, <3>3, <3>4, <3>5, <3>6 DEF DnsTypes
  <2>2. OwnPort /\ \A t \in Caller : CallInv(t)
    BY <2>0 DEF DnsInit, OwnPort, CallInv
  <2>3. Cached = {}
    BY DEF DnsInit, Cached
  <2>4. CacheInv
    BY <2>3, FS_EmptySet, DnsAssumption DEF DnsInit, CacheInv
  <2> QED
    BY <2>1, <2>2, <2>4 DEF DnsInv
<1>2. DnsInv /\ [DnsNext]_dnsVars => DnsInv'
  <2> SUFFICES ASSUME DnsInv, [DnsNext]_dnsVars PROVE DnsInv'
    OBVIOUS
  <2>0. DnsTypes /\ CacheInv
    BY DEF DnsInv
  <2>1. CASE ReplyLost \/ Tick \/ CheckClock \/ UNCHANGED dnsVars
    <3>1. /\ UNCHANGED <<running, place, call, answer, listVars, storeVars>>
          /\ asked' \subseteq asked
          /\ second' \in Nat /\ currTime' \in Nat /\ currTime' <= second'
      BY <2>0, <2>1 DEF ReplyLost, Tick, CheckClock, dnsVars, listVars, storeVars, timeVars,
         DnsTypes, CacheInv
    <3>2. (\A u \in Caller : CallInv(u)') /\ OwnPort'
      BY <3>1, CallsKept DEF listVars, storeVars
    <3>3. CacheInv'
      BY <2>0, <3>1, CacheKept DEF storeVars
    <3>4. DnsTypes'
      BY <2>0, <3>1 DEF DnsTypes, listVars, storeVars
    <3> QED
      BY <3>2, <3>3, <3>4 DEF DnsInv
  <2> QED
    BY <2>1, CallerStepInv DEF DnsNext
<1> QED
  BY <1>1, <1>2, PTL DEF DnsSpec

(* Whatever is lost, late, repeated or overtaken, and however the calls of *)
(* several threads interleave around the static address list, a call       *)
(* returns the answer to its own question.                                 *)
THEOREM OwnAnswerCorrect ==
  DnsSpec => []OwnAnswer
<1>1. DnsInv => OwnAnswer
  BY DEF DnsInv, CallInv, Answered, OwnAnswer
<1> QED
  BY <1>1, DnsInvariance, PTL

(* No address is served, by the clock that st_time shows, past the TTL     *)
(* that its own answer came with: the TTL that is static and that other    *)
(* calls overwrite is never taken from another answer, with time caching   *)
(* or without.                                                             *)
THEOREM FreshnessCorrect ==
  DnsSpec => []FreshWhenServed
<1>1. DnsInv => FreshWhenServed
  BY DEF DnsInv, CallInv, FreshWhenServed
<1> QED
  BY <1>1, DnsInvariance, PTL

(* The cache keeps to its size, every entry is its host's, and the index   *)
(* that lookup_entry rotates is that of an address.                        *)
THEOREM CacheUsable ==
  DnsSpec => []CachedUsable
<1>1. DnsInv => CachedUsable
  <2> SUFFICES ASSUME DnsInv PROVE CachedUsable
    OBVIOUS
  <2>1. Cardinality(Cached) <= MaxEntries
    BY DEF DnsInv, CacheInv
  <2>2. ASSUME NEW h \in Cached
        PROVE  dnsCache[h].cur \in 0..(dnsCache[h].n - 1) /\ dnsCache[h].name.host = h
    <3>1. EntryInv(h) /\ dnsCache[h] \in Entries
      BY DEF DnsInv, CacheInv, DnsTypes, Cached
    <3>2. dnsCache[h].cur \in Nat /\ dnsCache[h].n \in Nat
      BY <3>1 DEF Entries
    <3> QED
      BY <3>1, <3>2 DEF EntryInv
  <2> QED
    BY <2>1, <2>2 DEF CachedUsable
<1> QED
  BY <1>1, DnsInvariance, PTL

-----------------------------------------------------------------------------
(* The inductive invariant of FileIo: the types, and what holds on any     *)
(* descriptor.  The file is ahead of the reader's own count by `shift`.    *)
Commands == [offset : 0..FileLen, n : 0..MaxRead]
Locals   == [offset : 0..FileLen, n : 0..MaxRead, sent : BOOLEAN, ret : Int,
             alone : BOOLEAN]
Word     == [kind : {"size", "data"}, value : Int]
Places   == {"idle", "command", "size", "data", "done", "ending", "waitpid"}
Reading  == {"command", "size", "data", "done"}

FileTypes ==
  /\ onCpu \in User \cup {NoUser}
  /\ at \in [User -> Places]
  /\ request \in [User -> Locals]
  /\ got \in [User -> Seq(Word)]
  /\ fdOpen \in BOOLEAN /\ hasReader \in BOOLEAN
  /\ control \in Seq(Commands) /\ out \in Seq(Word) /\ section \in Seq(Word)

UserInv(u) ==
  /\ at[u] # "done" => got[u] = <<>>
  /\ at[u] \in Reading => request[u].n > 0
  /\ at[u] \in {"command", "ending"} => request[u].sent = FALSE
  /\ at[u] = "data" => request[u].ret \in 1..request[u].n

ReaderInv ==
  /\ shift \in Nat /\ filePos \in 0..FileLen
  /\ hasReader => /\ fdOpen /\ child \in {"command", "size", "data", "gone"}
                  /\ pos \in Nat /\ filePos = pos + shift
  /\ ~hasReader => child = "none"

(* The section of the file that the reader takes a call to ask for.        *)
Wanted(o, n) == [i \in 1..Min({n, FileLen - o}) |-> Data(o + i - 1)]
Section(u) == Wanted(request[u].offset + shift, request[u].n)
InFile(u)  == request[u].offset + shift \in 0..FileLen

(* What is in the two pipes and in the reader process while a call is      *)
(* alone: no answer, or the command or some part of the answer of this     *)
(* call, and of no other.                                                  *)
Silent == /\ out = <<>>
          /\ child \in {"command", "gone"} \/ (child = "data" /\ section = <<>>)
Quiet  == Silent /\ (control = <<>> \/ child = "gone")

Expecting(u) ==
  LET S == Section(u)
      n == <<Size(Len(S))>>
  IN  \/ Silent /\ child # "gone" /\ control = <<[offset |-> request[u].offset,
                                                  n |-> request[u].n]>>
      \/ child = "gone" /\ out = <<>>
      \/ /\ InFile(u)
         /\ \/ control = <<>> /\ child = "size" /\ section = S /\ out = <<>>
            \/ control = <<>> /\ child = "data" /\ section = S /\ out = n
            \/ control = <<>> /\ child = "command" /\ out = n \o S
            \/ child = "gone" /\ out \in {n, n \o S}

Receiving(u) ==
  LET S == Section(u)
  IN  /\ InFile(u) /\ request[u].ret = Len(S)
      /\ \/ control = <<>> /\ child = "data" /\ section = S /\ out = <<>>
         \/ control = <<>> /\ child = "command" /\ out = S
         \/ child = "gone" /\ out \in {<<>>, S}

Ending(u) == /\ Silent
             /\ \/ control = <<End>>
                \/ child = "gone"
                \/ control = <<>> /\ ~request[u].sent

Stage(u) ==
  /\ at[u] \in {"command", "ending"} => Quiet
  /\ at[u] = "size" => IF request[u].sent THEN Expecting(u) ELSE Quiet
  /\ at[u] = "data" => Receiving(u)
  /\ at[u] = "done" => got[u] = <<>> \/ (Quiet /\ got[u] = Section(u))
  /\ at[u] = "waitpid" => Ending(u)

PipeInv ==
  \A u \in User : request[u].alone => Active = {u} /\ hasReader /\ Stage(u)

FileInv == FileTypes /\ (\A u \in User : UserInv(u)) /\ ReaderInv /\ PipeInv

(* A section that a call asks for.                                         *)
LEMMA WantedFacts ==
  ASSUME NEW o \in 0..FileLen, NEW n \in 0..MaxRead
  PROVE  LET S == Wanted(o, n) IN
         /\ S \in Seq(Word)
         /\ Len(S) = Min({n, FileLen - o}) /\ Len(S) \in 0..n /\ o + Len(S) \in 0..FileLen
<1> DEFINE k == Min({n, FileLen - o})
           S == Wanted(o, n)
<1>0. FileLen \in Nat /\ MaxRead \in Nat /\ n \in Int /\ FileLen - o \in Int /\ o \in Int
      /\ n >= 0 /\ FileLen - o >= 0
  BY FileAssumption
<1>1. k \in {n, FileLen - o} /\ k <= n /\ k <= FileLen - o
  BY <1>0, MinOfTwo
<1>2. S = [i \in 1..k |-> Data(o + i - 1)]
  BY DEF Wanted
<1> HIDE DEF k, S
<1>3. k \in Nat /\ k \in 0..n /\ o + k \in 0..FileLen
  BY <1>0, <1>1
<1>4. \A i \in 1..k : Data(o + i - 1) \in Word
  BY <1>0, <1>3 DEF Data, Word
<1>5. S \in Seq(Word) /\ Len(S) = k
  BY <1>2, <1>3, <1>4
<1> QED
  BY <1>3, <1>5 DEF k, S

(* All of a sequence, and the rest after it.                               *)
LEMMA WholeSeq ==
  ASSUME NEW S, NEW s \in Seq(S)
  PROVE  Words(s, Len(s)) = s /\ Rest(s, Len(s)) = <<>>
<1>1. Len(s) \in Int /\ Len(s) \in Nat
  OBVIOUS
<1>2. Min({Len(s), Len(s)}) = Len(s)
  BY <1>1, MinOfTwo
<1>3. SubSeq(s, 1, Len(s)) = s
  BY SubSeqFull
<1>4. SubSeq(s, Len(s) + 1, Len(s)) = <<>>
  BY <1>1, SubSeqEmpty
<1> QED
  BY <1>2, <1>3, <1>4 DEF Words, Rest

(* A sequence that one word was put in front of.                           *)
LEMMA FrontWord ==
  ASSUME NEW S, NEW s \in Seq(S), NEW e \in S
  PROVE  Head(<<e>> \o s) = e /\ Tail(<<e>> \o s) = s
<1> DEFINE t == <<e>> \o s
<1>1. t \in Seq(S) /\ Len(t) = Len(s) + 1 /\ Len(s) \in Nat
  OBVIOUS
<1>2. t[1] = e /\ \A i \in 1..Len(s) : t[i + 1] = s[i]
  OBVIOUS
<1> HIDE DEF t
<1>3. Head(t) = e /\ Tail(t) \in Seq(S) /\ Len(Tail(t)) = Len(s)
  BY <1>1, <1>2
<1>4. \A i \in 1..Len(s) : Tail(t)[i] = s[i]
  BY <1>1, <1>2
<1>5. Tail(t) = s
  BY <1>3, <1>4, SeqEqual
<1> QED
  BY <1>3, <1>5 DEF t

(* The local variables of a call, changed.                                 *)
LEMMA LocalChanges ==
  ASSUME NEW r \in Locals
  PROVE  /\ \A x \in Int : [r EXCEPT !.ret = x] \in Locals
         /\ [r EXCEPT !.sent = TRUE] \in Locals
         /\ [r EXCEPT !.alone = FALSE] \in Locals
<1>1. r.sent \in BOOLEAN /\ r.alone \in BOOLEAN
  BY DEF Locals
<1>2. CASE r.sent = TRUE /\ r.alone = TRUE
  BY <1>2 DEF Locals
<1>3. CASE r.sent = TRUE /\ r.alone = FALSE
  BY <1>3 DEF Locals
<1>4. CASE r.sent = FALSE /\ r.alone = TRUE
  BY <1>4 DEF Locals
<1>5. CASE r.sent = FALSE /\ r.alone = FALSE
  BY <1>5 DEF Locals
<1> QED
  BY <1>1, <1>2, <1>3, <1>4, <1>5

(* A step of one thread leaves the calls of the others as they were.       *)
LEMMA UsersKept ==
  ASSUME FileInv, NEW u \in User,
         NEW STATE p, NEW STATE r, NEW STATE g,
         at' = [at EXCEPT ![u] = p], request' = [request EXCEPT ![u] = r],
         got' = [got EXCEPT ![u] = g],
         p \in Places, r \in Locals, g \in Seq(Word),
         p # "done" => g = <<>>, p \in Reading => r.n > 0,
         p \in {"command", "ending"} => r.sent = FALSE,
         p = "data" => r.ret \in 1..r.n
  PROVE  /\ at' \in [User -> Places] /\ request' \in [User -> Locals]
         /\ got' \in [User -> Seq(Word)]
         /\ \A v \in User : UserInv(v)'
         /\ \A v \in User : at'[v] = IF v = u THEN p ELSE at[v]
         /\ \A v \in User : request'[v] = IF v = u THEN r ELSE request[v]
         /\ \A v \in User : got'[v] = IF v = u THEN g ELSE got[v]
<1>0. FileTypes /\ \A v \in User : UserInv(v)
  BY DEF FileInv
<1>1. /\ \A v \in User : at'[v] = IF v = u THEN p ELSE at[v]
      /\ \A v \in User : request'[v] = IF v = u THEN r ELSE request[v]
      /\ \A v \in User : got'[v] = IF v = u THEN g ELSE got[v]
  BY <1>0 DEF FileTypes
<1>2. at' \in [User -> Places]
  BY <1>0 DEF FileTypes
<1>3. request' \in [User -> Locals]
  BY <1>0 DEF FileTypes
<1>4. got' \in [User -> Seq(Word)]
  BY <1>0 DEF FileTypes
<1>5. ASSUME NEW v \in User PROVE UserInv(v)'
  <2>1. UserInv(v)
    BY <1>0
  <2>2. CASE v = u
    BY <1>1, <2>2 DEF UserInv
  <2>3. CASE v # u
    BY <1>1, <2>1, <2>3 DEF UserInv
  <2> QED
    BY <2>2, <2>3
<1> QED
  BY <1>1, <1>2, <1>3, <1>4, <1>5

(* While one call goes on no other is alone, so the pipes are as they      *)
(* should be if they are for this one.                                     *)
LEMMA PipeKept ==
  ASSUME FileInv, NEW u \in User, at[u] # "idle", NEW STATE p, NEW STATE r,
         \A v \in User : at'[v] = IF v = u THEN p ELSE at[v],
         \A v \in User : request'[v] = IF v = u THEN r ELSE request[v],
         hasReader' = hasReader, r.alone => request[u].alone,
         request[u].alone /\ r.alone /\ Stage(u) => p # "idle" /\ Stage(u)'
  PROVE  PipeInv'
<1> SUFFICES ASSUME NEW v \in User, request'[v].alone
             PROVE  Active' = {v} /\ hasReader' /\ Stage(v)'
  BY DEF PipeInv
<1>1. CASE v = u
  <2>1. r.alone /\ request[u].alone
    BY <1>1
  <2>2. Active = {u} /\ hasReader /\ Stage(u)
    BY <2>1 DEF FileInv, PipeInv
  <2>3. p # "idle" /\ Stage(u)'
    BY <2>1, <2>2
  <2>4. Active' = {u}
    BY <2>2, <2>3 DEF Active
  <2> QED
    BY <1>1, <2>2, <2>3, <2>4
<1>2. CASE v # u
  <2>1. request[v].alone
    BY <1>2
  <2>2. Active = {v}
    BY <2>1 DEF FileInv, PipeInv
  <2>3. u \in Active
    BY DEF Active
  <2> QED
    BY <1>2, <2>2, <2>3
<1> QED
  BY <1>1, <1>2

(* The command goes out.                                                   *)
LEMMA WriteCommandInv ==
  ASSUME FileInv, NEW u \in User, WriteCommand(u)
  PROVE  FileInv'
<1>0. FileTypes /\ UserInv(u) /\ ReaderInv
  BY DEF FileInv
<1> DEFINE r == [request[u] EXCEPT !.sent = TRUE]
           cmd == [offset |-> request[u].offset, n |-> request[u].n]
<1>1. /\ onCpu' = onCpu /\ at[u] = "command" /\ child # "gone"
      /\ at' = [at EXCEPT ![u] = "size"] /\ control' = Append(control, cmd)
      /\ UNCHANGED <<got, fdOpen, hasReader, out, readerVars, shift>>
  BY DEF WriteCommand, To
<1>2. request[u] \in Locals
  BY <1>0 DEF FileTypes
<1>3. r \in Locals
  BY <1>2, LocalChanges
<1>4. /\ r.offset = request[u].offset /\ r.n = request[u].n /\ r.sent = TRUE
      /\ r.alone = request[u].alone
  BY <1>2 DEF Locals
<1>5. request' = [request EXCEPT ![u] = r] /\ got' = [got EXCEPT ![u] = got[u]]
  BY <1>0, <1>1 DEF WriteCommand, FileTypes
<1>6. got[u] = <<>> /\ got[u] \in Seq(Word) /\ request[u].n > 0
  BY <1>0, <1>1 DEF UserInv, FileTypes, Reading
<1> HIDE DEF r
<1>7. /\ at' \in [User -> Places] /\ request' \in [User -> Locals]
      /\ got' \in [User -> Seq(Word)]
      /\ \A v \in User : UserInv(v)'
      /\ \A v \in User : at'[v] = IF v = u THEN "size" ELSE at[v]
      /\ \A v \in User : request'[v] = IF v = u THEN r ELSE request[v]
  BY <1>1, <1>3, <1>4, <1>5, <1>6, UsersKept DEF Places
<1>8. cmd \in Commands
  BY <1>2 DEF Locals, Commands
<1>9. control \in Seq(Commands)
  BY <1>0 DEF FileTypes
<1> HIDE DEF cmd
<1>10. control' \in Seq(Commands)
  BY <1>1, <1>8, <1>9
<1>11. Stage(u) => Stage(u)'
  <2> SUFFICES ASSUME Stage(u) PROVE Expecting(u)'
    BY <1>4, <1>7 DEF Stage
  <2>1. Silent /\ control = <<>>
    BY <1>1 DEF Stage, Quiet
  <2>2. Silent'
    BY <1>1, <2>1 DEF Silent, readerVars
  <2>3. control' = <<cmd>>
    BY <1>1, <2>1
  <2>4. cmd = [offset |-> request'[u].offset, n |-> request'[u].n]
    BY <1>4, <1>7 DEF cmd
  <2> QED
    BY <1>1, <2>2, <2>3, <2>4 DEF Expecting, readerVars
<1>12. PipeInv'
  BY <1>1, <1>4, <1>7, <1>11, PipeKept
<1>13. FileTypes'
  BY <1>0, <1>1, <1>7, <1>10 DEF FileTypes, readerVars
<1>14. ReaderInv'
  BY <1>0, <1>1 DEF ReaderInv, readerVars
<1> QED
  BY <1>7, <1>12, <1>13, <1>14 DEF FileInv

(* A step of a call that changes neither its variables nor the pipes: the  *)
(* command is not written, or the wait for the answer is given up because  *)
(* the reader is gone, or by an interrupt.                                 *)
LEMMA PlaceStep ==
  ASSUME FileInv, NEW u \in User, onCpu' = onCpu,
         NEW STATE p, at' = [at EXCEPT ![u] = p],
         UNCHANGED <<request, got, fdOpen, hasReader, control, out, readerVars, shift>>,
         \/ at[u] = "command" /\ p = "size"
         \/ at[u] \in {"size", "data"} /\ p = "done"
  PROVE  FileInv'
<1>0. FileTypes /\ UserInv(u) /\ ReaderInv
  BY DEF FileInv
<1>1. /\ request[u] \in Locals /\ request' = [request EXCEPT ![u] = request[u]]
      /\ got[u] = <<>> /\ got[u] \in Seq(Word) /\ got' = [got EXCEPT ![u] = got[u]]
      /\ request[u].n > 0 /\ p \in {"size", "done"}
  BY <1>0 DEF FileTypes, UserInv, Reading
<1>2. /\ at' \in [User -> Places] /\ request' \in [User -> Locals]
      /\ got' \in [User -> Seq(Word)]
      /\ \A v \in User : UserInv(v)'
      /\ \A v \in User : at'[v] = IF v = u THEN p ELSE at[v]
      /\ \A v \in User : request'[v] = IF v = u THEN request[u] ELSE request[v]
  BY <1>1, UsersKept DEF Places
<1>3. Stage(u) => Stage(u)'
  <2> SUFFICES ASSUME Stage(u) PROVE Stage(u)'
    OBVIOUS
  <2>1. CASE at[u] = "command" /\ p = "size"
    <3>1. Quiet => Quiet'
      BY DEF Quiet, Silent, readerVars
    <3>2. Quiet' /\ request'[u].sent = FALSE
      BY <1>0, <2>1, <3>1 DEF Stage, UserInv
    <3> QED
      BY <1>2, <2>1, <3>2 DEF Stage
  <2>2. CASE p = "done"
    BY <1>1, <1>2, <2>2 DEF Stage
  <2> QED
    BY <2>1, <2>2
<1>a. at[u] # "idle" /\ p # "idle" /\ hasReader' = hasReader
  BY <1>1
<1>4. PipeInv'
  BY <1>2, <1>3, <1>a, PipeKept
<1>5. FileTypes'
  BY <1>0, <1>2 DEF FileTypes, readerVars
<1>6. ReaderInv'
  BY <1>0 DEF ReaderInv, readerVars
<1> QED
  BY <1>2, <1>4, <1>5, <1>6 DEF FileInv

(* The size is read.                                                       *)
LEMMA ReadSizeInv ==
  ASSUME FileInv, NEW u \in User, ReadSize(u)
  PROVE  FileInv'
<1>0. FileTypes /\ UserInv(u) /\ ReaderInv
  BY DEF FileInv
<1>1. /\ onCpu' = onCpu /\ at[u] = "size" /\ out # <<>> /\ out' = Tail(out)
      /\ UNCHANGED <<got, fdOpen, hasReader, control, readerVars, shift>>
  BY DEF ReadSize
<1>2. PICK ret \in SizeRead(Head(out)) :
        /\ request' = [request EXCEPT ![u].ret = ret]
        /\ at' = [at EXCEPT ![u] = IF ret \in 1..request[u].n THEN "data" ELSE "done"]
  BY DEF ReadSize, To
<1> DEFINE r == [request[u] EXCEPT !.ret = ret]
           p == IF ret \in 1..request[u].n THEN "data" ELSE "done"
<1>3. request[u] \in Locals /\ request[u].n \in Nat /\ request[u].n > 0 /\ MaxRead \in Nat
  BY <1>0, <1>1, FileAssumption DEF FileTypes, Locals, UserInv, Reading
<1>4. out \in Seq(Word) /\ Head(out) \in Word /\ Tail(out) \in Seq(Word)
  BY <1>0, <1>1 DEF FileTypes
<1>5. ret \in Int
  BY <1>2, <1>3, <1>4 DEF SizeRead, Word
<1>6. r \in Locals
  BY <1>3, <1>5, LocalChanges
<1>a. /\ r.offset = request[u].offset /\ r.n = request[u].n
      /\ r.alone = request[u].alone /\ r.ret = ret
  BY <1>3 DEF Locals
<1>7. /\ request' = [request EXCEPT ![u] = r] /\ got' = [got EXCEPT ![u] = got[u]]
      /\ got[u] = <<>> /\ got[u] \in Seq(Word)
  BY <1>0, <1>1, <1>2 DEF FileTypes, UserInv
<1>8. p \in Places /\ at' = [at EXCEPT ![u] = p] /\ p \in {"data", "done"}
      /\ (p = "data" => ret \in 1..request[u].n)
  BY <1>2 DEF Places
<1> HIDE DEF r, p
<1>9. /\ at' \in [User -> Places] /\ request' \in [User -> Locals]
      /\ got' \in [User -> Seq(Word)]
      /\ \A v \in User : UserInv(v)'
      /\ \A v \in User : at'[v] = IF v = u THEN p ELSE at[v]
      /\ \A v \in User : request'[v] = IF v = u THEN r ELSE request[v]
      /\ \A v \in User : got'[v] = IF v = u THEN got[u] ELSE got[v]
  BY <1>1, <1>3, <1>6, <1>a, <1>7, <1>8, UsersKept
<1>10. Stage(u) => Stage(u)'
  <2> SUFFICES ASSUME Stage(u) PROVE Stage(u)'
    OBVIOUS
  <2> DEFINE S == Section(u)
             n == <<Size(Len(S))>>
  <2>1. request[u].sent /\ Expecting(u)
    BY <1>1 DEF Stage, Quiet, Silent
  <2>2. InFile(u)
    BY <1>1, <2>1 DEF Expecting, Silent
  <2>3. S \in Seq(Word) /\ Len(S) \in 0..request[u].n
    BY <1>3, <2>2, WantedFacts DEF Section, Locals, InFile
  <2>4. Section(u)' = S /\ InFile(u)'
    BY <1>1, <1>a, <1>9, <2>2 DEF Section, InFile
  <2>5. \/ control = <<>> /\ child = "data" /\ section = S /\ out = n
        \/ control = <<>> /\ child = "command" /\ out = n \o S
        \/ child = "gone" /\ out \in {n, n \o S}
    BY <1>1, <2>1 DEF Expecting, Silent
  <2> HIDE DEF S
  <2>6. Size(Len(S)) \in Word
    BY <2>3, <1>3 DEF Size, Word
  <2>7. n \in Seq(Word) /\ Head(n) = Size(Len(S)) /\ Tail(n) = <<>>
    BY <2>6
  <2>8. Head(n \o S) = Size(Len(S)) /\ Tail(n \o S) = S
    BY <2>3, <2>6, FrontWord
  <2>9. Head(out) = Size(Len(S)) /\ ((out = n /\ out' = <<>>) \/ (out = n \o S /\ out' = S))
    BY <1>1, <2>5, <2>7, <2>8
  <2>10. ret = Len(S)
    BY <1>2, <2>9 DEF SizeRead, Size
  <2>11. CASE p = "data"
    <3>1. Receiving(u)'
      BY <1>1, <1>a, <1>9, <2>4, <2>5, <2>9, <2>10 DEF Receiving, readerVars
    <3> QED
      BY <1>9, <2>11, <3>1 DEF Stage
  <2>12. CASE p = "done"
    BY <1>7, <1>9, <2>12 DEF Stage
  <2> QED
    BY <1>8, <2>11, <2>12
<1>11. p # "idle" /\ at[u] # "idle" /\ hasReader' = hasReader
  BY <1>1, <1>8
<1>b. r.alone => request[u].alone
  BY <1>a
<1>c. /\ \A v \in User : at'[v] = IF v = u THEN p ELSE at[v]
      /\ \A v \in User : request'[v] = IF v = u THEN r ELSE request[v]
  BY <1>9
<1>12. PipeInv'
  BY <1>c, <1>10, <1>11, <1>b, PipeKept
<1>13. FileTypes'
  BY <1>0, <1>1, <1>4, <1>9 DEF FileTypes, readerVars
<1>14. ReaderInv'
  BY <1>0, <1>1 DEF ReaderInv, readerVars
<1> QED
  BY <1>9, <1>12, <1>13, <1>14 DEF FileInv

(* The data are read.                                                      *)
LEMMA ReadDataInv ==
  ASSUME FileInv, NEW u \in User, ReadData(u)
  PROVE  FileInv'
<1>0. FileTypes /\ UserInv(u) /\ ReaderInv
  BY DEF FileInv
<1> DEFINE k == request[u].ret
           g == Words(out, k)
<1>1. /\ onCpu' = onCpu /\ at[u] = "data" /\ out # <<>>
      /\ at' = [at EXCEPT ![u] = "done"] /\ got' = [got EXCEPT ![u] = g]
      /\ out' = Rest(out, k)
      /\ UNCHANGED <<request, fdOpen, hasReader, control, readerVars, shift>>
  BY DEF ReadData, To
<1>2. /\ request[u] \in Locals /\ request[u].n \in Nat /\ request[u].n > 0
      /\ out \in Seq(Word)
  BY <1>0, <1>1, FileAssumption DEF FileTypes, Locals, UserInv, Reading
<1>3. k \in 1..request[u].n
  BY <1>0, <1>1 DEF UserInv
<1>4. k \in Nat /\ k > 0 /\ k \in Int /\ Len(out) \in Int /\ Len(out) \in Nat
  BY <1>2, <1>3
<1>5. g \in Seq(Word) /\ Rest(out, k) \in Seq(Word)
  <2> DEFINE m == Min({k, Len(out)})
  <2>1. m \in {k, Len(out)} /\ m <= Len(out)
    BY <1>4, MinOfTwo
  <2> HIDE DEF m
  <2>2. m \in Nat /\ m <= Len(out)
    BY <1>4, <2>1
  <2>3. /\ SubSeq(out, 1, m) \in Seq(Word)
        /\ SubSeq(out, m + 1, Len(out)) \in Seq(Word)
    BY <1>2, <1>4, <2>2
  <2> QED
    BY <2>3 DEF Words, Rest, m
<1> HIDE DEF g
<1>6. request' = [request EXCEPT ![u] = request[u]]
  BY <1>0, <1>1 DEF FileTypes
<1>7. /\ at' \in [User -> Places] /\ request' \in [User -> Locals]
      /\ got' \in [User -> Seq(Word)]
      /\ \A v \in User : UserInv(v)'
      /\ \A v \in User : at'[v] = IF v = u THEN "done" ELSE at[v]
      /\ \A v \in User : request'[v] = IF v = u THEN request[u] ELSE request[v]
      /\ \A v \in User : got'[v] = IF v = u THEN g ELSE got[v]
  BY <1>1, <1>2, <1>5, <1>6, UsersKept DEF Places
<1>8. Stage(u) => Stage(u)'
  <2> SUFFICES ASSUME Stage(u) PROVE Stage(u)'
    OBVIOUS
  <2> DEFINE S == Section(u)
  <2>1. Receiving(u)
    BY <1>1 DEF Stage
  <2>2. /\ k = Len(S) /\ out = S
        /\ child = "gone" \/ (control = <<>> /\ child = "command")
    BY <1>1, <2>1 DEF Receiving
  <2>3. Section(u)' = S
    BY <1>1 DEF Section
  <2> HIDE DEF S
  <2>4. g = S /\ Rest(out, k) = <<>>
    BY <1>2, <2>2, WholeSeq DEF g
  <2>5. Quiet'
    BY <1>1, <2>2, <2>4 DEF Quiet, Silent, readerVars
  <2> QED
    BY <1>7, <2>3, <2>4, <2>5 DEF Stage
<1>9. PipeInv'
  BY <1>1, <1>7, <1>8, PipeKept
<1>10. FileTypes'
  BY <1>0, <1>1, <1>5, <1>7 DEF FileTypes, readerVars
<1>11. ReaderInv'
  BY <1>0, <1>1 DEF ReaderInv, readerVars
<1> QED
  BY <1>7, <1>9, <1>10, <1>11 DEF FileInv

(* A call that has not begun.                                              *)
LEMMA NoRequestFacts == NoRequest \in Locals /\ <<>> \in Seq(Word)
<1>1. FileLen \in Nat /\ MaxRead \in Nat
  BY FileAssumption
<1>2. 0 \in 0..FileLen /\ 0 \in 0..MaxRead
  BY <1>1
<1> QED
  BY <1>2 DEF NoRequest, Asked, Locals

(* stx_file_read returns.                                                  *)
LEMMA ReadReturnsInv ==
  ASSUME FileInv, NEW u \in User, ReadReturns(u)
  PROVE  FileInv'
<1>0. FileTypes /\ UserInv(u) /\ ReaderInv
  BY DEF FileInv
<1>1. /\ onCpu' = onCpu /\ at[u] = "done"
      /\ at' = [at EXCEPT ![u] = "idle"] /\ got' = [got EXCEPT ![u] = <<>>]
      /\ request' = [request EXCEPT ![u] = NoRequest]
      /\ UNCHANGED <<fdOpen, hasReader, control, out, readerVars, shift>>
  BY DEF ReadReturns, To
<1>2. /\ at' \in [User -> Places] /\ request' \in [User -> Locals]
      /\ got' \in [User -> Seq(Word)]
      /\ \A v \in User : UserInv(v)'
      /\ \A v \in User : at'[v] = IF v = u THEN "idle" ELSE at[v]
      /\ \A v \in User : request'[v] = IF v = u THEN NoRequest ELSE request[v]
  BY <1>1, NoRequestFacts, UsersKept DEF Places, Reading
<1>3. ~NoRequest.alone
  BY DEF NoRequest, Asked
<1>4. PipeInv'
  BY <1>1, <1>2, <1>3, PipeKept
<1>5. FileTypes'
  BY <1>0, <1>1, <1>2 DEF FileTypes, readerVars
<1>6. ReaderInv'
  BY <1>0, <1>1 DEF ReaderInv, readerVars
<1> QED
  BY <1>2, <1>4, <1>5, <1>6 DEF FileInv

(* A thread gets or gives up the processor.                                *)
LEMMA CpuStep ==
  ASSUME FileInv, NEW u \in User, ResumeUser(u) \/ BlockUser(u)
  PROVE  FileInv'
<1>0. FileTypes /\ (\A v \in User : UserInv(v)) /\ ReaderInv /\ PipeInv
  BY DEF FileInv
<1>1. UNCHANGED <<at, request, got, fdOpen, hasReader, control, out, readerVars, shift>>
  BY DEF ResumeUser, BlockUser, userVars
<1>2. onCpu' \in User \cup {NoUser}
  BY DEF ResumeUser, BlockUser
<1>3. \A v \in User : UserInv(v)'
  BY <1>0, <1>1 DEF UserInv
<1>4. FileTypes' /\ ReaderInv'
  BY <1>0, <1>1, <1>2 DEF FileTypes, ReaderInv, readerVars
<1>5. PipeInv'
  BY <1>0, <1>1 DEF PipeInv, Active, Stage, Quiet, Silent, Expecting,
                    Receiving, Ending, Section, InFile, readerVars
<1> QED
  BY <1>3, <1>4, <1>5 DEF FileInv

(* The program opens the file, and it may be anywhere in it.               *)
LEMMA OpenFileInv ==
  ASSUME FileInv, NEW u \in User, OpenFile(u)
  PROVE  FileInv'
<1>0. FileTypes /\ (\A v \in User : UserInv(v)) /\ ReaderInv /\ PipeInv
  BY DEF FileInv
<1>1. /\ ~fdOpen /\ fdOpen' = TRUE /\ filePos' \in 0..FileLen
      /\ UNCHANGED <<onCpu, at, request, got, hasReader, control, out, child, pos,
                     section, shift>>
  BY FileAssumption DEF OpenFile, userVars
<1>2. ~hasReader
  BY <1>0, <1>1 DEF ReaderInv
<1>3. \A v \in User : UserInv(v)'
  BY <1>0, <1>1 DEF UserInv
<1>4. FileTypes' /\ ReaderInv'
  BY <1>0, <1>1, <1>2 DEF FileTypes, ReaderInv
<1>5. PipeInv'
  BY <1>0, <1>1, <1>2 DEF PipeInv
<1> QED
  BY <1>3, <1>4, <1>5 DEF FileInv

(* stx_file_read is called; the first call forks the reader, which takes   *)
(* the file to be at its beginning.                                        *)
LEMMA FileReadInv ==
  ASSUME FileInv, NEW u \in User, NEW q \in Requests, FileRead(u, q[1], q[2])
  PROVE  FileInv'
<1>0. FileTypes /\ (\A v \in User : UserInv(v)) /\ ReaderInv
  BY DEF FileInv
<1> DEFINE r == Asked(q[1], q[2], Undisturbed)
           old(v) == [request[v] EXCEPT !.alone = FALSE]
<1>1. /\ onCpu' = onCpu /\ at[u] = "idle" /\ fdOpen /\ hasReader' = TRUE
      /\ IF hasReader THEN UNCHANGED <<child, pos>> ELSE child' = "command" /\ pos' = 0
      /\ shift' = IF hasReader THEN shift ELSE filePos
      /\ at' = [at EXCEPT ![u] = "command"]
      /\ request' = [v \in User |-> IF v = u THEN r ELSE old(v)]
      /\ UNCHANGED <<got, fdOpen, control, out, filePos, section>>
  BY DEF FileRead, To
<1>2. q[1] \in 0..FileLen /\ q[2] \in 0..MaxRead /\ q[2] > 0
      /\ FileLen \in Nat /\ MaxRead \in Nat
  BY FileAssumption
<1>3. r \in Locals /\ r.n > 0 /\ r.sent = FALSE /\ (r.alone <=> Undisturbed)
  <2> DEFINE b == Undisturbed
  <2>1. b \in BOOLEAN
    BY DEF Undisturbed
  <2>2. r = [offset |-> q[1], n |-> q[2], sent |-> FALSE, ret |-> -1, alone |-> b]
    BY DEF Asked
  <2> HIDE DEF r, b
  <2>3. r \in Locals
    BY <1>2, <2>1, <2>2 DEF Locals
  <2>4. r.n = q[2] /\ r.sent = FALSE /\ r.alone = b
    BY <2>2
  <2> QED
    BY <1>2, <2>3, <2>4 DEF b
<1>4. ASSUME NEW v \in User
      PROVE  /\ old(v) \in Locals /\ old(v).n = request[v].n /\ old(v).alone = FALSE
             /\ old(v).sent = request[v].sent /\ old(v).ret = request[v].ret
  <2>1. request[v] \in Locals
    BY <1>0 DEF FileTypes
  <2>2. old(v) \in Locals
    BY <2>1, LocalChanges
  <2>3. /\ old(v).n = request[v].n /\ old(v).alone = FALSE
        /\ old(v).sent = request[v].sent /\ old(v).ret = request[v].ret
    BY <2>1 DEF Locals
  <2> QED
    BY <2>2, <2>3
<1> HIDE DEF r, old
<1>5. /\ \A v \in User : at'[v] = IF v = u THEN "command" ELSE at[v]
      /\ \A v \in User : request'[v] = IF v = u THEN r ELSE old(v)
  BY <1>0, <1>1 DEF FileTypes
<1>6. at' \in [User -> Places] /\ request' \in [User -> Locals]
  <2>1. at' \in [User -> Places]
    BY <1>0, <1>1 DEF FileTypes, Places
  <2>2. request' \in [User -> Locals]
    BY <1>1, <1>3, <1>4
  <2> QED
    BY <2>1, <2>2
<1>7. ASSUME NEW v \in User PROVE UserInv(v)'
  <2>1. UserInv(v)
    BY <1>0
  <2>2. CASE v = u
    BY <1>1, <1>3, <1>5, <2>1, <2>2 DEF UserInv
  <2>3. CASE v # u
    <3>1. at'[v] = at[v] /\ got'[v] = got[v] /\ request'[v] = old(v)
      BY <1>1, <1>5, <2>3
    <3> QED
      BY <1>4, <2>1, <3>1 DEF UserInv
  <2> QED
    BY <2>2, <2>3
<1>8. PipeInv'
  <2> SUFFICES ASSUME NEW v \in User, request'[v].alone
               PROVE  Active' = {v} /\ hasReader' /\ Stage(v)'
    BY DEF PipeInv
  <2>1. v = u /\ Undisturbed
    BY <1>3, <1>4, <1>5
  <2>2. Active' = {u}
    BY <1>5, <2>1 DEF Undisturbed, Active
  <2>3. Quiet'
    <3>1. CASE hasReader
      BY <1>0, <1>1, <2>1, <3>1 DEF Undisturbed, ReaderInv, Quiet, Silent
    <3>2. CASE ~hasReader
      BY <1>0, <1>1, <2>1, <3>2 DEF Undisturbed, ReaderInv, Quiet, Silent
    <3> QED
      BY <3>1, <3>2
  <2>4. Stage(u)'
    BY <1>5, <2>3 DEF Stage
  <2> QED
    BY <1>1, <2>1, <2>2, <2>4
<1>9. FileTypes'
  BY <1>0, <1>1, <1>6 DEF FileTypes
<1>10. ReaderInv'
  BY <1>0, <1>1, <1>2 DEF ReaderInv
<1> QED
  BY <1>7, <1>8, <1>9, <1>10 DEF FileInv

(* st_netfd_close begins; without a reader it is done at once.             *)
LEMMA CloseFileInv ==
  ASSUME FileInv, NEW u \in User, CloseFile(u)
  PROVE  FileInv'
<1>0. FileTypes /\ (\A v \in User : UserInv(v)) /\ ReaderInv /\ PipeInv
  BY DEF FileInv
<1>1. /\ Active = {}
      /\ UNCHANGED <<onCpu, got, hasReader, control, out, child, pos, filePos,
                     section, shift>>
  BY DEF CloseFile, readerVars
<1>2. \A v \in User : at[v] = "idle" /\ got[v] = <<>> /\ ~request[v].alone
  BY <1>0, <1>1 DEF Active, UserInv, PipeInv
<1>3. CASE hasReader
  <2> DEFINE r == Asked(0, 0, Undisturbed)
  <2>1. /\ at' = [at EXCEPT ![u] = "ending"] /\ fdOpen' = fdOpen
        /\ request' = [request EXCEPT ![u] = r]
    BY <1>3 DEF CloseFile, To
  <2>2. r \in Locals /\ r.sent = FALSE /\ (r.alone <=> Undisturbed)
    <3> DEFINE b == Undisturbed
    <3>1. b \in BOOLEAN
      BY DEF Undisturbed
    <3>2. r = [offset |-> 0, n |-> 0, sent |-> FALSE, ret |-> -1, alone |-> b]
      BY DEF Asked
    <3>3. 0 \in 0..FileLen /\ 0 \in 0..MaxRead
      BY FileAssumption
    <3> HIDE DEF r, b
    <3>4. r \in Locals
      BY <3>1, <3>2, <3>3 DEF Locals
    <3>5. r.alone = b /\ r.sent = FALSE
      BY <3>2
    <3> QED
      BY <3>4, <3>5 DEF b
  <2> HIDE DEF r
  <2>3. /\ got' = [got EXCEPT ![u] = <<>>] /\ <<>> \in Seq(Word)
    BY <1>0, <1>1, <1>2 DEF FileTypes
  <2>4. /\ at' \in [User -> Places] /\ request' \in [User -> Locals]
        /\ got' \in [User -> Seq(Word)]
        /\ \A v \in User : UserInv(v)'
        /\ \A v \in User : at'[v] = IF v = u THEN "ending" ELSE at[v]
        /\ \A v \in User : request'[v] = IF v = u THEN r ELSE request[v]
    BY <2>1, <2>2, <2>3, UsersKept DEF Places, Reading
  <2>5. FileTypes' /\ ReaderInv'
    BY <1>0, <1>1, <2>1, <2>4 DEF FileTypes, ReaderInv
  <2>6. Active' = {u}
    BY <1>2, <2>4 DEF Active
  <2>7. Undisturbed => Quiet'
    BY <1>0, <1>1, <1>3 DEF Undisturbed, ReaderInv, Quiet, Silent
  <2>8. Undisturbed => Stage(u)'
    BY <2>4, <2>7 DEF Stage
  <2>9. PipeInv'
    BY <1>1, <1>2, <1>3, <2>2, <2>4, <2>6, <2>8 DEF PipeInv
  <2> QED
    BY <2>4, <2>5, <2>9 DEF FileInv
<1>4. CASE ~hasReader
  <2>1. fdOpen' = FALSE /\ at' = at /\ request' = request
    BY <1>4 DEF CloseFile
  <2>2. \A v \in User : UserInv(v)'
    BY <1>0, <1>1, <2>1 DEF UserInv
  <2>3. FileTypes' /\ ReaderInv'
    BY <1>0, <1>1, <1>4, <2>1 DEF FileTypes, ReaderInv
  <2>4. PipeInv'
    BY <1>2, <2>1 DEF PipeInv
  <2> QED
    BY <2>2, <2>3, <2>4 DEF FileInv
<1> QED
  BY <1>3, <1>4

(* The end command is written, or its write fails.                         *)
LEMMA EndStep ==
  ASSUME FileInv, NEW u \in User, WriteEnd(u) \/ EndFails(u)
  PROVE  FileInv'
<1>0. FileTypes /\ UserInv(u) /\ ReaderInv
  BY DEF FileInv
<1> DEFINE sent == [request[u] EXCEPT !.sent = TRUE]
<1>1. /\ onCpu' = onCpu /\ at[u] = "ending"
      /\ at' = [at EXCEPT ![u] = "waitpid"]
      /\ UNCHANGED <<got, fdOpen, hasReader, out, readerVars, shift>>
  BY DEF WriteEnd, EndFails, To
<1>2. /\ request[u] \in Locals
      /\ got[u] = <<>> /\ got[u] \in Seq(Word) /\ got' = [got EXCEPT ![u] = got[u]]
  BY <1>0, <1>1 DEF FileTypes, UserInv
<1>3. sent \in Locals
  BY <1>2, LocalChanges
<1>4. sent.alone = request[u].alone /\ sent.sent = TRUE
  BY <1>2 DEF Locals
<1>5. /\ WriteEnd(u) => request' = [request EXCEPT ![u] = sent]
      /\ EndFails(u) => request' = [request EXCEPT ![u] = request[u]]
  BY <1>0 DEF WriteEnd, EndFails, FileTypes
<1> HIDE DEF sent
<1>6. control' \in Seq(Commands)
  <2>1. control \in Seq(Commands)
    BY <1>0 DEF FileTypes
  <2>2. End \in Commands
    BY FileAssumption DEF End, Commands
  <2>3. control' \in {control, Append(control, End)}
    BY DEF WriteEnd, EndFails
  <2> QED
    BY <2>1, <2>2, <2>3
<1>7. /\ at' \in [User -> Places] /\ request' \in [User -> Locals]
      /\ got' \in [User -> Seq(Word)]
      /\ \A v \in User : UserInv(v)'
      /\ PipeInv'
  <2>1. CASE WriteEnd(u)
    <3>1. /\ at' \in [User -> Places] /\ request' \in [User -> Locals]
          /\ got' \in [User -> Seq(Word)]
          /\ \A v \in User : UserInv(v)'
          /\ \A v \in User : at'[v] = IF v = u THEN "waitpid" ELSE at[v]
          /\ \A v \in User : request'[v] = IF v = u THEN sent ELSE request[v]
      BY ZenonT(60), <1>1, <1>2, <1>3, <1>5, <2>1, UsersKept DEF Places, Reading
    <3>2. Stage(u) => Stage(u)'
      <4> SUFFICES ASSUME Stage(u) PROVE Ending(u)'
        BY <3>1 DEF Stage
      <4>1. Quiet
        BY <1>1 DEF Stage
      <4>2. Silent'
        BY <1>1, <4>1 DEF Quiet, Silent, readerVars
      <4>3. control = <<>> /\ control' = Append(control, End)
        BY <2>1, <4>1 DEF WriteEnd, Quiet
      <4>4. control' = <<End>>
        BY <4>3
      <4> QED
        BY <4>2, <4>4 DEF Ending
    <3>3. PipeInv'
      BY <1>1, <1>4, <3>1, <3>2, PipeKept
    <3> QED
      BY <3>1, <3>3
  <2>2. CASE EndFails(u)
    <3>1. /\ at' \in [User -> Places] /\ request' \in [User -> Locals]
          /\ got' \in [User -> Seq(Word)]
          /\ \A v \in User : UserInv(v)'
          /\ \A v \in User : at'[v] = IF v = u THEN "waitpid" ELSE at[v]
          /\ \A v \in User : request'[v] = IF v = u THEN request[u] ELSE request[v]
      BY ZenonT(60), <1>1, <1>2, <1>5, <2>2, UsersKept DEF Places, Reading
    <3>2. (request[u].alone /\ Stage(u)) => Stage(u)'
      <4> SUFFICES ASSUME Stage(u) PROVE Ending(u)'
        BY <3>1 DEF Stage
      <4>1. Quiet
        BY <1>1 DEF Stage
      <4>2. Silent' /\ control' = control /\ child' = child
        BY <1>1, <2>2, <4>1 DEF EndFails, Quiet, Silent, readerVars
      <4>3. request'[u].sent = FALSE
        BY <1>0, <1>1, <3>1 DEF UserInv
      <4> QED
        BY <4>1, <4>2, <4>3 DEF Ending, Quiet
    <3>3. PipeInv'
      BY <1>1, <3>1, <3>2, PipeKept
    <3> QED
      BY <3>1, <3>3
  <2> QED
    BY <2>1, <2>2
<1>8. FileTypes'
  BY <1>0, <1>1, <1>6, <1>7 DEF FileTypes, readerVars
<1>9. ReaderInv'
  BY <1>0, <1>1 DEF ReaderInv, readerVars
<1> QED
  BY <1>7, <1>8, <1>9 DEF FileInv

(* The reader is gone and the descriptor is closed.                        *)
LEMMA WaitpidReturnsInv ==
  ASSUME FileInv, NEW u \in User, WaitpidReturns(u)
  PROVE  FileInv'
<1>0. FileTypes /\ UserInv(u) /\ PipeInv
  BY DEF FileInv
<1>1. /\ onCpu' = onCpu /\ at[u] = "waitpid" /\ at' = [at EXCEPT ![u] = "idle"]
      /\ fdOpen' = FALSE /\ hasReader' = FALSE /\ control' = <<>> /\ out' = <<>>
      /\ child' = "none" /\ pos' = 0 /\ filePos' = 0 /\ section' = <<>> /\ shift' = 0
      /\ request' = [request EXCEPT ![u] = NoRequest] /\ got' = got
  BY DEF WaitpidReturns, To
<1>2. got' = [got EXCEPT ![u] = <<>>]
  BY <1>0, <1>1 DEF FileTypes, UserInv
<1>3. /\ at' \in [User -> Places] /\ request' \in [User -> Locals]
      /\ got' \in [User -> Seq(Word)]
      /\ \A v \in User : UserInv(v)'
      /\ \A v \in User : request'[v] = IF v = u THEN NoRequest ELSE request[v]
  BY <1>1, <1>2, NoRequestFacts, UsersKept DEF Places, Reading
<1>4. FileTypes'
  <2>1. control' \in Seq(Commands) /\ out' \in Seq(Word) /\ section' \in Seq(Word)
    BY <1>1
  <2>2. onCpu' \in User \cup {NoUser} /\ fdOpen' \in BOOLEAN /\ hasReader' \in BOOLEAN
    BY <1>0, <1>1 DEF FileTypes
  <2> QED
    BY <1>3, <2>1, <2>2 DEF FileTypes
<1>5. ReaderInv'
  BY <1>1, FileAssumption DEF ReaderInv
<1>6. \A v \in User : ~request'[v].alone
  <2>1. u \in Active
    BY <1>1 DEF Active
  <2>2. \A v \in User : v # u => ~request[v].alone
    BY <1>0, <2>1 DEF PipeInv
  <2>3. ~NoRequest.alone
    BY DEF NoRequest, Asked
  <2> QED
    BY <1>3, <2>2, <2>3
<1>7. PipeInv'
  BY <1>6 DEF PipeInv
<1> QED
  BY <1>3, <1>4, <1>5, <1>7 DEF FileInv

(* A step of the reader process: what the threads see of it is that the    *)
(* pipes stay as they should be.                                           *)
LEMMA ReaderStep ==
  ASSUME FileInv, hasReader,
         UNCHANGED <<onCpu, at, request, got, fdOpen, hasReader>>,
         control' \in Seq(Commands), out' \in Seq(Word), section' \in Seq(Word),
         child' \in {"command", "size", "data", "gone"},
         shift' \in Nat, pos' \in Nat, filePos' = pos' + shift', filePos' \in 0..FileLen,
         Quiet => Quiet' /\ shift' = shift,
         \A u \in User : Ending(u) => Ending(u)',
         \A u \in User : request[u].n > 0 /\ Expecting(u) => Expecting(u)',
         \A u \in User : Receiving(u) => Receiving(u)'
  PROVE  FileInv'
<1>0. FileTypes /\ (\A v \in User : UserInv(v)) /\ ReaderInv /\ PipeInv
  BY DEF FileInv
<1>1. FileTypes' /\ ReaderInv'
  BY <1>0 DEF FileTypes, ReaderInv
<1>2. \A v \in User : UserInv(v)'
  BY <1>0 DEF UserInv
<1>3. ASSUME NEW u \in User, Stage(u) PROVE Stage(u)'
  <2>1. Quiet => Section(u)' = Section(u)
    BY DEF Section
  <2>2. at[u] = "size" => request[u].n > 0
    BY <1>0 DEF UserInv, Reading
  <2> QED
    BY <1>3, <2>1, <2>2 DEF Stage
<1>4. Active' = Active
  BY DEF Active
<1>5. PipeInv'
  BY <1>0, <1>3, <1>4 DEF PipeInv
<1> QED
  BY <1>1, <1>2, <1>5 DEF FileInv

(* The reader process reads a section of the file: where the command says, *)
(* or that much further on if it did not have to seek.                     *)
LEMMA ChildReadsInv ==
  ASSUME FileInv, ChildReads
  PROVE  FileInv'
<1>0. FileTypes /\ ReaderInv
  BY DEF FileInv
<1> DEFINE c == Head(control)
<1>1. /\ child = "command" /\ control # <<>> /\ c.n > 0
      /\ control' = Tail(control) /\ child' = "size"
      /\ shift' = IF pos # c.offset THEN 0 ELSE shift
      /\ UNCHANGED <<onCpu, at, request, got, fdOpen, hasReader, out>>
  BY DEF ChildReads, userVars
<1>2. /\ hasReader /\ pos \in Nat /\ shift \in Nat /\ filePos = pos + shift
      /\ filePos \in 0..FileLen /\ FileLen \in Nat
  BY <1>0, <1>1, FileAssumption DEF ReaderInv
<1>3. control \in Seq(Commands) /\ c \in Commands /\ Tail(control) \in Seq(Commands)
  BY <1>0, <1>1 DEF FileTypes
<1>4. c.offset \in 0..FileLen /\ c.n \in 0..MaxRead
  BY <1>3 DEF Commands
<1>5. /\ SeekTo(c.offset) = c.offset + shift'
      /\ c.offset + shift' \in 0..FileLen /\ shift' \in Nat
  BY <1>1, <1>2, <1>4 DEF SeekTo
<1> DEFINE first == c.offset + shift'
           nb == Min({c.n, FileLen - first})
<1>6. section' = Wanted(first, c.n) /\ filePos' = first + nb /\ pos' = c.offset + nb
  BY <1>5 DEF ChildReads, PosAfter, Wanted
<1> HIDE DEF c
<1>7. first \in 0..FileLen
  BY <1>5
<1> HIDE DEF first
<1>8. /\ Wanted(first, c.n) \in Seq(Word) /\ nb \in 0..c.n /\ first + nb \in 0..FileLen
  BY <1>4, <1>7, WantedFacts
<1> HIDE DEF nb
<1>9. pos' \in Nat /\ filePos' = pos' + shift'
  <2>1. nb \in Nat /\ c.offset \in Nat
    BY <1>2, <1>4, <1>8
  <2> QED
    BY <1>5, <1>6, <2>1 DEF first
<1>10. ASSUME NEW u \in User, Expecting(u) PROVE Expecting(u)'
  <2> DEFINE d == [offset |-> request[u].offset, n |-> request[u].n]
  <2>1. control = <<d>> /\ out = <<>>
    BY <1>1, <1>10 DEF Expecting, Silent
  <2>2. c = d /\ control' = <<>>
    BY <1>1, <2>1 DEF c
  <2>3. c.offset = request'[u].offset /\ c.n = request'[u].n
    BY <1>1, <2>2
  <2>4. section' = Section(u)' /\ InFile(u)'
    BY <1>6, <1>7, <2>3 DEF Section, InFile, first
  <2> QED
    BY <1>1, <2>1, <2>2, <2>4 DEF Expecting
<1>11. ~Quiet /\ \A u \in User : ~Receiving(u)
  BY <1>1 DEF Quiet, Receiving
<1>12. ASSUME NEW u \in User, Ending(u) PROVE Ending(u)'
  <2>1. control # <<End>>
    <3>1. End.n = 0 /\ Head(<<End>>) = End
      BY DEF End
    <3> QED
      BY <1>1, <3>1 DEF c
  <2> QED
    BY <1>1, <1>12, <2>1 DEF Ending
<1>13. section' \in Seq(Word) /\ filePos' \in 0..FileLen /\ control' \in Seq(Commands)
  BY <1>1, <1>3, <1>6, <1>8
<1> QED
  BY <1>0, <1>1, <1>2, <1>5, <1>9, <1>10, <1>11, <1>12, <1>13, ReaderStep DEF FileTypes

(* It writes the size of what it has read.                                 *)
LEMMA ChildWritesSizeInv ==
  ASSUME FileInv, ChildWritesSize
  PROVE  FileInv'
<1>0. FileTypes /\ ReaderInv
  BY DEF FileInv
<1>1. /\ child = "size" /\ child' = "data" /\ out' = Append(out, Size(Len(section)))
      /\ UNCHANGED <<onCpu, at, request, got, fdOpen, hasReader, control, pos, filePos,
                     section, shift>>
  BY DEF ChildWritesSize, userVars
<1>2. /\ hasReader /\ pos \in Nat /\ shift \in Nat /\ filePos = pos + shift
      /\ filePos \in 0..FileLen
  BY <1>0, <1>1 DEF ReaderInv
<1>3. Size(Len(section)) \in Word /\ out \in Seq(Word)
  BY <1>0 DEF FileTypes, Size, Word
<1>4. out' \in Seq(Word)
  BY <1>1, <1>3
<1>5. ASSUME NEW u \in User, Expecting(u) PROVE Expecting(u)'
  <2>1. control = <<>> /\ section = Section(u) /\ out = <<>> /\ InFile(u)
    BY <1>1, <1>5 DEF Expecting, Silent
  <2>2. out' = <<Size(Len(section))>>
    BY <1>1, <2>1
  <2>3. Section(u)' = Section(u) /\ (InFile(u) => InFile(u)')
    BY <1>1 DEF Section, InFile
  <2> QED
    BY <1>1, <2>1, <2>2, <2>3 DEF Expecting
<1>6. ~Quiet /\ \A u \in User : ~Ending(u) /\ ~Receiving(u)
  BY <1>1 DEF Quiet, Ending, Silent, Receiving
<1> QED
  BY <1>0, <1>1, <1>2, <1>4, <1>5, <1>6, ReaderStep DEF FileTypes

(* It writes the data.                                                     *)
LEMMA ChildWritesDataInv ==
  ASSUME FileInv, ChildWritesData
  PROVE  FileInv'
<1>0. FileTypes /\ ReaderInv
  BY DEF FileInv
<1>1. /\ child = "data" /\ child' = "command" /\ out' = out \o section
      /\ section' = <<>>
      /\ UNCHANGED <<onCpu, at, request, got, fdOpen, hasReader, control, pos, filePos,
                     shift>>
  BY DEF ChildWritesData, userVars
<1>2. /\ hasReader /\ pos \in Nat /\ shift \in Nat /\ filePos = pos + shift
      /\ filePos \in 0..FileLen
  BY <1>0, <1>1 DEF ReaderInv
<1>3. out \in Seq(Word) /\ section \in Seq(Word) /\ out' \in Seq(Word)
  BY <1>0, <1>1 DEF FileTypes
<1>4. out = <<>> => out' = section
  BY <1>1, <1>3, ConcatEmptySeq
<1>5. Silent => Silent'
  BY <1>1, <1>4 DEF Silent
<1>6. ASSUME NEW u \in User, Expecting(u) PROVE Expecting(u)'
  <2>1. Section(u)' = Section(u) /\ (InFile(u) => InFile(u)')
    BY <1>1 DEF Section, InFile
  <2> QED
    BY <1>1, <1>5, <1>6, <2>1 DEF Expecting
<1>7. ASSUME NEW u \in User, Receiving(u) PROVE Receiving(u)'
  <2>1. Section(u)' = Section(u) /\ (InFile(u) => InFile(u)')
    BY <1>1 DEF Section, InFile
  <2> QED
    BY <1>1, <1>4, <1>7, <2>1 DEF Receiving
<1>8. (Quiet => Quiet') /\ \A u \in User : Ending(u) => Ending(u)'
  BY <1>1, <1>5 DEF Quiet, Ending
<1>9. section' \in Seq(Word)
  BY <1>1
<1> QED
  BY <1>0, <1>1, <1>2, <1>3, <1>6, <1>7, <1>8, <1>9, ReaderStep DEF FileTypes

(* It ends, told to by the command of length zero, or fails.               *)
LEMMA ChildGoneInv ==
  ASSUME FileInv, ChildEnds \/ ChildFails
  PROVE  FileInv'
<1>0. FileTypes /\ ReaderInv
  BY DEF FileInv
<1>1. /\ child \in {"command", "size", "data"} /\ child' = "gone"
      /\ UNCHANGED <<onCpu, at, request, got, fdOpen, hasReader, out, pos, filePos,
                     section, shift>>
  BY DEF ChildEnds, ChildFails, userVars
<1>2. /\ hasReader /\ pos \in Nat /\ shift \in Nat /\ filePos = pos + shift
      /\ filePos \in 0..FileLen
  BY <1>0, <1>1 DEF ReaderInv
<1>3. control \in Seq(Commands)
  BY <1>0 DEF FileTypes
<1>4. control' \in Seq(Commands)
  <2>1. CASE ChildEnds
    <3>1. control # <<>> /\ control' = Tail(control)
      BY <2>1 DEF ChildEnds
    <3> QED
      BY <1>3, <3>1
  <2>2. CASE ChildFails
    BY <1>3, <2>2 DEF ChildFails
  <2> QED
    BY <2>1, <2>2
<1>5. ASSUME NEW u \in User, request[u].n > 0, Expecting(u) PROVE Expecting(u)'
  <2>1. Section(u)' = Section(u) /\ (InFile(u) => InFile(u)')
    BY <1>1 DEF Section, InFile
  <2>2. LET S == Section(u)
            n == <<Size(Len(S))>>
        IN  out \in {<<>>, n, n \o S}
    BY <1>5 DEF Expecting, Silent
  <2>3. out = <<>> \/ InFile(u)
    BY <1>5 DEF Expecting, Silent
  <2> QED
    BY <1>1, <2>1, <2>2, <2>3 DEF Expecting
<1>6. ASSUME NEW u \in User, Receiving(u) PROVE Receiving(u)'
  <2>1. Section(u)' = Section(u) /\ (InFile(u) => InFile(u)')
    BY <1>1 DEF Section, InFile
  <2> QED
    BY <1>1, <1>6, <2>1 DEF Receiving
<1>7. (Quiet => Quiet') /\ \A u \in User : Ending(u) => Ending(u)'
  BY <1>1 DEF Quiet, Ending, Silent
<1> QED
  BY <1>0, <1>1, <1>2, <1>4, <1>5, <1>6, <1>7, ReaderStep DEF FileTypes

(* Every step of the file extension.                                       *)
LEMMA FileStep ==
  ASSUME FileInv, [FileNext]_fileVars
  PROVE  FileInv'
<1>1. ASSUME NEW u \in User, UserStep(u) PROVE FileInv'
  <2>1. CASE ResumeUser(u) \/ BlockUser(u)
    BY <2>1, CpuStep
  <2>2. CASE OpenFile(u)
    BY <2>2, OpenFileInv
  <2>3. CASE \E r \in Requests : FileRead(u, r[1], r[2])
    BY <2>3, FileReadInv
  <2>4. CASE WriteCommand(u)
    BY <2>4, WriteCommandInv
  <2>5. CASE WriteFails(u)
    <3>1. /\ onCpu' = onCpu /\ at[u] = "command" /\ at' = [at EXCEPT ![u] = "size"]
          /\ UNCHANGED <<request, got, fdOpen, hasReader, control, out, readerVars, shift>>
      BY <2>5 DEF WriteFails, To
    <3> QED
      BY <3>1, PlaceStep
  <2>6. CASE ReadSize(u)
    BY <2>6, ReadSizeInv
  <2>7. CASE ReadData(u)
    BY <2>7, ReadDataInv
  <2>8. CASE EndOfPipe(u) \/ ReadInterrupted(u)
    <3>1. /\ onCpu' = onCpu /\ at[u] \in {"size", "data"} /\ at' = [at EXCEPT ![u] = "done"]
          /\ UNCHANGED <<request, got, fdOpen, hasReader, control, out, readerVars, shift>>
      BY <2>8 DEF EndOfPipe, ReadInterrupted, To
    <3> QED
      BY <3>1, PlaceStep
  <2>9. CASE ReadReturns(u)
    BY <2>9, ReadReturnsInv
  <2>10. CASE CloseFile(u)
    BY <2>10, CloseFileInv
  <2>11. CASE WriteEnd(u) \/ EndFails(u)
    BY <2>11, EndStep
  <2>12. CASE WaitpidReturns(u)
    BY <2>12, WaitpidReturnsInv
  <2> QED
    BY <1>1, <2>1, <2>2, <2>3, <2>4, <2>5, <2>6, <2>7, <2>8, <2>9, <2>10, <2>11,
       <2>12 DEF UserStep
<1>2. CASE ChildReads
  BY <1>2, ChildReadsInv
<1>3. CASE ChildWritesSize
  BY <1>3, ChildWritesSizeInv
<1>4. CASE ChildWritesData
  BY <1>4, ChildWritesDataInv
<1>5. CASE ChildEnds \/ ChildFails
  BY <1>5, ChildGoneInv
<1>6. CASE UNCHANGED fileVars
  <2>1. UNCHANGED <<onCpu, at, request, got, fdOpen, hasReader, control, out, child,
                    pos, filePos, section, shift>>
    BY <1>6 DEF fileVars, userVars, readerVars
  <2>2. FileTypes' /\ (\A u \in User : UserInv(u)') /\ ReaderInv'
    BY <2>1 DEF FileInv, FileTypes, UserInv, ReaderInv
  <2>3. PipeInv'
    BY <2>1 DEF FileInv, PipeInv, Active, Stage, Quiet, Silent, Expecting,
                Receiving, Ending, Section, InFile
  <2> QED
    BY <2>2, <2>3 DEF FileInv
<1> QED
  BY <1>1, <1>2, <1>3, <1>4, <1>5, <1>6 DEF FileNext, ChildStep

(* The first state: nothing is open and nobody reads.                      *)
LEMMA FileStart == FileInit => FileInv
<1> SUFFICES ASSUME FileInit PROVE FileInv
  OBVIOUS
<1>1. /\ at \in [User -> Places] /\ request \in [User -> Locals]
      /\ got \in [User -> Seq(Word)]
  BY NoRequestFacts DEF FileInit, Places
<1>2. FileTypes
  <2>1. control \in Seq(Commands) /\ out \in Seq(Word) /\ section \in Seq(Word)
    BY DEF FileInit
  <2>2. onCpu \in User \cup {NoUser} /\ fdOpen \in BOOLEAN /\ hasReader \in BOOLEAN
    BY DEF FileInit
  <2> QED
    BY <1>1, <2>1, <2>2 DEF FileTypes
<1>3. \A u \in User : UserInv(u)
  BY DEF FileInit, UserInv, Reading
<1>4. ReaderInv
  BY FileAssumption DEF FileInit, ReaderInv
<1>5. PipeInv
  BY DEF FileInit, PipeInv, NoRequest, Asked
<1> QED
  BY <1>2, <1>3, <1>4, <1>5 DEF FileInv

(* For every number of threads, requests and pipe sizes, wherever the file *)
(* was when the reader was forked, and whatever calls were cut short or    *)
(* overlapped before: a call that finds the pipes empty and stays alone    *)
(* gets all of the section it asked for, at the offset that the reader's   *)
(* count stands for.                                                       *)
THEOREM SectionCorrect ==
  FileSpec => []OwnSection
<1>1. FileInit => FileInv
  BY FileStart
<1>2. FileInv /\ [FileNext]_fileVars => FileInv'
  BY FileStep
<1>3. FileInv => OwnSection
  <2> SUFFICES ASSUME FileInv, NEW u \in User, at[u] = "done", got[u] # <<>>,
                      request[u].alone
               PROVE  got[u] = Section(u)
    BY DEF OwnSection, Section, Wanted
  <2>1. Stage(u)
    BY DEF FileInv, PipeInv
  <2> QED
    BY <2>1 DEF Stage
<1> QED
  BY <1>1, <1>2, <1>3, PTL DEF FileSpec

(* And the waitpid of the destructor ends, whatever calls were cut short   *)
(* or overlapped before, if the end command was written and none of their  *)
(* answers was left to fill the pipe.                                      *)
THEOREM WaitpidCorrect ==
  FileSpec => []WaitpidEnds
<1>1. FileInit => FileInv
  BY FileStart
<1>2. FileInv /\ [FileNext]_fileVars => FileInv'
  BY FileStep
<1>3. FileInv => WaitpidEnds
  <2> SUFFICES ASSUME FileInv, NEW u \in User, at[u] = "waitpid",
                      request[u].sent, request[u].alone, ReaderStuck
               PROVE  FALSE
    BY DEF WaitpidEnds
  <2>1. Ending(u)
    BY DEF FileInv, PipeInv, Stage
  <2>2. control = <<End>> \/ child = "gone"
    BY <2>1 DEF Ending
  <2>3. PipeSize \in Nat
    BY FileAssumption
  <2>4. child = "data" => Len(out) + Len(section) = 0
    BY <2>1 DEF Ending, Silent
  <2>5. child # "size"
    BY <2>1 DEF Ending, Silent
  <2> QED
    BY SMTT(60), <2>2, <2>3, <2>4, <2>5 DEF ReaderStuck
<1> QED
  BY <1>1, <1>2, <1>3, PTL DEF FileSpec
=============================================================================
