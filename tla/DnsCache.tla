------------------------------ MODULE DnsCache -------------------------------
(***************************************************************************)
(* The resolver of extensions/dnsres.c behind the cache of dnscache.c,     *)
(* called by several threads.  A thread gives the processor up in          *)
(* st_sendto and st_recvfrom and nowhere else in a call: `running` is the  *)
(* thread that is past them and keeps it, which is all that protects the   *)
(* static address list and the static TTL the threads share.  The cache is *)
(* the map that LruCache keeps: no caller holds an entry while it blocks,  *)
(* so every use of it is one step.                                         *)
(*                                                                         *)
(* Queries go out by UDP.  `asked` has the queries that may still be       *)
(* answered: a reply may be lost, late, repeated or overtaken, and one     *)
(* that is late may meet another call's socket that was given the same     *)
(* port.  A host is a name after lower-casing.  Waiting for a reply has no *)
(* end but a reply, an interrupt or an error: a timeout of st_recvfrom     *)
(* makes it wait again.                                                    *)
(***************************************************************************)
EXTENDS Integers, Sequences, FiniteSetsExt

CONSTANTS
  Caller,      \* threads that resolve names
  NoCaller,    \* none of them runs: the idle thread does
  Host,
  Dots,        \* number of dots in a host
  TrailingDot, \* the hosts that end in a dot
  NDots, DefNames, DnsRch, Domains,   \* _res.ndots, options and dnsrch
  NsCount,     \* _res.nscount
  QueryId,     \* ids of res_mkquery
  Port,        \* local ports of UDP sockets
  Ttls,        \* TTLs of address records
  MaxAddrs,    \* bound: addresses in an answer
  MaxEntries,  \* max_size of the cache
  MaxTime      \* bound: the last second of a behaviour

ASSUME DnsAssumption ==
  /\ NoCaller \notin Caller
  /\ Dots \in [Host -> Nat] /\ TrailingDot \subseteq Host
  /\ NDots \in Nat /\ {DefNames, DnsRch} \subseteq BOOLEAN
  /\ Domains \in Seq(Nat \ {0}) /\ NsCount \in Nat \ {0}
  /\ Ttls \subseteq Int /\ MaxAddrs \in Nat
  /\ MaxEntries \in Nat \ {0} /\ MaxTime \in Nat \ {0}

VARIABLES
  running,     \* the thread that executes
  place,       \* where each call is
  call,        \* its local variables
  answer,      \* what it has returned; as history, whether it was still good and
               \* with which TTL it came
  asked,       \* queries to which a reply may still come
  addrList,    \* addr_list: to which question its addresses are the answer
  dnsTtl,      \* _stx_dns_ttl
  cacheOn,     \* _stx_dns_cache # NULL
  dnsCache,    \* what the cache has for a host
  second,      \* time(NULL)
  currTime     \* _st_curr_time, 0 when time caching is off

dnsVars == <<running, place, call, answer, asked, addrList, dnsTtl, cacheOn,
             dnsCache, second, currTime>>

-----------------------------------------------------------------------------
(* The names to ask for, in order: a name with enough dots is tried as it  *)
(* is first, any other name last.                                          *)
AsIs(h) == [host |-> h, domain |-> 0]

Searched(h) == \/ Dots[h] = 0 /\ DefNames
               \/ Dots[h] > 0 /\ h \notin TrailingDot /\ DnsRch

SearchList(h) ==
  LET tried == IF DnsRch THEN Len(Domains) ELSE Min({1, Len(Domains)})
  IN  IF Searched(h)
      THEN [i \in 1..tried |-> [host |-> h, domain |-> Domains[i]]]
      ELSE <<>>

Tries(h) == IF Dots[h] >= NDots THEN <<AsIs(h)>> \o SearchList(h)
                                ELSE SearchList(h) \o <<AsIs(h)>>

NoName  == [host |-> NoCaller, domain |-> 0]
NoEntry == [n |-> 0]
NoCall  == [host |-> NoCaller, try |-> 1, ns |-> 1,
            id |-> NoCaller, port |-> NoCaller, count |-> 0, ok |-> FALSE]
Failure == [name |-> NoName, n |-> -1, fresh |-> TRUE, ttl |-> 0]

Cached == {h \in Host : dnsCache[h] # NoEntry}
Name(t) == Tries(call[t].host)[call[t].try]

(* st_time: with time caching, the second in which the idle thread last    *)
(* looked.                                                                 *)
StTime == IF currTime # 0 THEN currTime ELSE second

DnsInit ==
  /\ running = NoCaller
  /\ place  = [t \in Caller |-> "idle"]
  /\ call   = [t \in Caller |-> NoCall]
  /\ answer = [t \in Caller |-> Failure]
  /\ asked = {}
  /\ addrList = NoName
  /\ dnsTtl = 0
  /\ cacheOn = FALSE
  /\ dnsCache = [h \in Host |-> NoEntry]
  /\ second = 1
  /\ currTime = 0

-----------------------------------------------------------------------------
timeVars  == <<second, currTime>>
storeVars == <<cacheOn, dnsCache>>
listVars  == <<addrList, dnsTtl>>

(* The thread has the processor, or may be given it: the scheduler hands  *)
(* it to any thread, woken or not, for the loops of st_sendto and          *)
(* st_recvfrom look again.                                                 *)
At(t, p) == running \in {t, NoCaller} /\ place[t] = p
Goto(t, p) == place' = [place EXCEPT ![t] = p]

(* The thread comes to a place where it may give the processor up.         *)
WaitsAt(t, p) == Goto(t, p) /\ running' = NoCaller

(* stx_dns_cache_init, called before the program resolves names.           *)
DnsCacheInit(t) ==
  /\ At(t, "idle") /\ ~cacheOn
  /\ \A u \in Caller : place[u] = "idle"
  /\ cacheOn' = TRUE
  /\ UNCHANGED <<running, place, call, answer, asked, listVars, dnsCache,
                 timeVars>>

(* An entry is good up to and including the second in which it expires.    *)
Valid(h) == h \in Cached /\ StTime <= dnsCache[h].expires

(* lookup_entry that finds the host: one address in turn (rotate), or the  *)
(* list.  `fresh` is history: the addresses are still good.                *)
LookupHit(t, h, rotate) ==
  LET e == dnsCache[h] IN
  /\ At(t, "idle") /\ cacheOn /\ Valid(h)
  /\ answer' = [answer EXCEPT ![t] =
       [name |-> e.name, n |-> IF rotate THEN 1 ELSE e.n,
        fresh |-> StTime <= e.good, ttl |-> 0]]
  /\ dnsCache' = IF rotate
                 THEN [dnsCache EXCEPT ![h].cur = (@ + 1) % e.n]
                 ELSE dnsCache
  /\ call' = [call EXCEPT ![t] = [NoCall EXCEPT !.host = h]]
  /\ Goto(t, "done") /\ running' = t
  /\ UNCHANGED <<asked, listVars, cacheOn, timeVars>>

(* lookup_entry that does not: an expired entry is deleted, and the call   *)
(* opens a socket for its queries or fails.                                *)
LookupMiss(t, h) ==
  /\ At(t, "idle") /\ ~(cacheOn /\ Valid(h))
  /\ dnsCache' = IF cacheOn THEN [dnsCache EXCEPT ![h] = NoEntry]
                            ELSE dnsCache
  /\ \E p \in (Port \ {call[u].port : u \in Caller}) \cup {NoCaller} :
       /\ call' = [call EXCEPT ![t] =
            [NoCall EXCEPT !.host = h, !.port = p]]
       /\ IF p = NoCaller THEN Goto(t, "done") /\ running' = t
                          ELSE WaitsAt(t, "send")
  /\ UNCHANGED <<answer, asked, listVars, cacheOn, timeVars>>

(* CLOSE_AND_RETURN: closing the socket does not give the processor up.    *)
(* Mutant: it does.                                                        *)
AfterCloseYields(t) == NoCaller
AfterClose(t) == t

CloseAndReturn(t, ok, n) ==
  /\ running' = AfterClose(t)
  /\ Goto(t, IF ok /\ cacheOn THEN "copy" ELSE "done")
  /\ call' = [call EXCEPT ![t].port = NoCaller, ![t].id = NoCaller,
                          ![t].ok = ok, ![t].count = n]

(* On to the next name if there is one, or to the next server for this     *)
(* name.                                                                   *)
NextName(t) ==
  IF call[t].try < Len(Tries(call[t].host))
  THEN /\ WaitsAt(t, "send")
       /\ call' = [call EXCEPT ![t].try = @ + 1, ![t].ns = 1, ![t].id = NoCaller]
  ELSE CloseAndReturn(t, FALSE, 0)

NextServer(t) ==
  IF call[t].ns < NsCount
  THEN /\ WaitsAt(t, "send")
       /\ call' = [call EXCEPT ![t].ns = @ + 1, ![t].id = NoCaller]
  ELSE NextName(t)

(* res_mkquery gives up on the name.                                       *)
MakeQueryFails(t) ==
  /\ At(t, "send")
  /\ NextName(t)
  /\ UNCHANGED <<answer, asked, listVars, storeVars, timeVars>>

(* A query goes out, with an id that no query still in flight has.         *)
SendQuery(t) ==
  /\ At(t, "send")
  /\ \E i \in QueryId \ {q.id : q \in asked} :
       /\ asked' = asked \cup {[port |-> call[t].port, id |-> i,
                                name |-> Name(t)]}
       /\ call' = [call EXCEPT ![t].id = i]
  /\ WaitsAt(t, "receive")
  /\ UNCHANGED <<answer, listVars, storeVars, timeVars>>

(* An error of st_sendto or st_recvfrom, an empty datagram included.       *)
IoFails(t) ==
  /\ At(t, "send") \/ At(t, "receive")
  /\ NextServer(t)
  /\ UNCHANGED <<answer, asked, listVars, storeVars, timeVars>>

(* An interrupt by another thread ends the whole call.                     *)
Interrupted(t) ==
  /\ At(t, "send") \/ At(t, "receive")
  /\ CloseAndReturn(t, FALSE, 0)
  /\ UNCHANGED <<answer, asked, listVars, storeVars, timeVars>>

(* A datagram arrives; the query may be answered once more later.          *)
Arrives(t, q) ==
  /\ At(t, "receive")
  /\ q \in asked /\ q.port = call[t].port
  /\ asked' \in {asked, asked \ {q}}

(* The reply is the one to the query of this iteration.  Mutant: not       *)
(* tested.                                                                 *)
IdUntested(t, q) == TRUE
IdMatches(t, q) == q.id = call[t].id

(* The reply to another query is dropped.                                  *)
DropReply(t) ==
  /\ \E q \in asked : Arrives(t, q) /\ ~IdMatches(t, q)
  /\ UNCHANGED <<running, place, call, answer, listVars, storeVars, timeVars>>

(* A reply that is too short, that reports an error or has no answers.     *)
BadReply(t) ==
  /\ \E q \in asked : Arrives(t, q) /\ IdMatches(t, q)
  /\ NextServer(t)
  /\ UNCHANGED <<answer, listVars, storeVars, timeVars>>

(* The TTL that an answer goes by is that of its last address record.      *)
Ruling(ttls) == IF ttls = <<>> THEN -1 ELSE ttls[Len(ttls)]

(* The static TTL after parse_answer has met address records with these    *)
(* TTLs.  Mutants: without any the TTL of an earlier answer is left; one   *)
(* that an earlier answer has set stands.                                  *)
TtlNotReset(ttls) == IF ttls = <<>> THEN dnsTtl ELSE Ruling(ttls)
TtlSetOnce(ttls)  == IF ttls # <<>> /\ dnsTtl > 0 THEN dnsTtl ELSE Ruling(ttls)
TtlParsed(ttls)   == Ruling(ttls)

(* The address records of an answer, as far as there is room for them.     *)
Records == UNION {[1..n -> Ttls] : n \in 0..MaxAddrs}

(* parse_answer of these records, of which it copies n: into the static    *)
(* list when there is a cache, else into the caller's own.                 *)
Parsed(q, ttls, n) ==
  /\ dnsTtl' = TtlParsed(ttls)
  /\ addrList' = IF cacheOn /\ n > 0 THEN q.name ELSE addrList

GoodReply(t) ==
  /\ \E q \in asked, ttls \in Records :
       LET n == Len(ttls) IN
       /\ Arrives(t, q) /\ IdMatches(t, q)
       /\ Parsed(q, ttls, n)
       /\ CloseAndReturn(t, TRUE, n)
       /\ answer' = [answer EXCEPT ![t].ttl = Ruling(ttls),
            ![t].name = IF cacheOn THEN @ ELSE q.name,
            ![t].n = IF cacheOn THEN @ ELSE n]
  /\ UNCHANGED <<storeVars, timeVars>>

(* parse_answer fails, before a record or at the address in it: then the   *)
(* TTL of that record is set already.                                      *)
BrokenReply(t) ==
  /\ \E q \in asked, ttls \in Records :
       /\ Arrives(t, q) /\ IdMatches(t, q)
       /\ \E n \in {Len(ttls), Len(ttls) - 1} \cap Nat : Parsed(q, ttls, n)
  /\ NextServer(t)
  /\ UNCHANGED <<answer, storeVars, timeVars>>

(* insert_entry: a TTL of 0 is not cached.  `good` is history: the last    *)
(* second, by the true clock, that the answer of this very call is good.   *)
NewEntry(t) ==
  [name |-> addrList, n |-> call[t].count, cur |-> 0,
   expires |-> StTime + dnsTtl, good |-> second + answer[t].ttl]

(* Which of the other entries stay depends on sizes and weights; when the  *)
(* new one does not fit, the others may be gone all the same.              *)
InsertEntry(t) ==
  \E kept \in SUBSET Cached, stored \in BOOLEAN :
    /\ stored => Cardinality(kept \ {call[t].host}) < MaxEntries
    /\ dnsCache' = [h \in Host |->
         IF stored /\ h = call[t].host THEN NewEntry(t)
         ELSE IF h \in kept THEN dnsCache[h] ELSE NoEntry]

(* The rest of _stx_dns_cache_getaddrlist.                                 *)
CopyAnswer(t) ==
  /\ At(t, "copy")
  /\ answer' = [answer EXCEPT ![t] =
       [@ EXCEPT !.name = addrList, !.n = call[t].count]]
  /\ IF dnsTtl > 0 THEN InsertEntry(t) ELSE UNCHANGED dnsCache
  /\ Goto(t, "done")
  /\ UNCHANGED <<running, call, asked, listVars, cacheOn, timeVars>>

Return(t) ==
  /\ At(t, "done")
  /\ WaitsAt(t, "idle")
  /\ call' = [call EXCEPT ![t] = NoCall]
  /\ answer' = [answer EXCEPT ![t] = Failure]
  /\ UNCHANGED <<asked, listVars, storeVars, timeVars>>

(* A query that will not be answered any more; when that is settled shows  *)
(* only while nobody executes.                                             *)
ReplyLost ==
  /\ running = NoCaller
  /\ \E q \in asked : asked' = asked \ {q}
  /\ UNCHANGED <<running, place, call, answer, listVars, storeVars, timeVars>>

(* st_timecache_set                                                        *)
TimecacheSet(t, on) ==
  /\ At(t, "idle")
  /\ currTime' = IF on THEN second ELSE 0
  /\ UNCHANGED <<running, place, call, answer, asked, listVars, storeVars,
                 second>>

(* Time passes; the idle thread fetches it again when a second has gone.   *)
Tick ==
  /\ second < MaxTime
  /\ second' = second + 1
  /\ UNCHANGED <<running, place, call, answer, asked, listVars, storeVars,
                 currTime>>

CheckClock ==
  /\ running = NoCaller /\ currTime # 0
  /\ currTime' = second
  /\ UNCHANGED <<running, place, call, answer, asked, listVars, storeVars,
                 second>>

CallerStep(t) ==
  \/ DnsCacheInit(t)
  \/ \E h \in Host : LookupMiss(t, h) \/ \E r \in BOOLEAN : LookupHit(t, h, r)
  \/ MakeQueryFails(t) \/ SendQuery(t)
  \/ IoFails(t) \/ Interrupted(t)
  \/ DropReply(t) \/ BadReply(t) \/ GoodReply(t) \/ BrokenReply(t)
  \/ CopyAnswer(t) \/ Return(t)
  \/ \E on \in BOOLEAN : TimecacheSet(t, on)

DnsNext == (\E t \in Caller : CallerStep(t)) \/ ReplyLost \/ Tick \/ CheckClock

DnsSpec == DnsInit /\ [][DnsNext]_dnsVars

-----------------------------------------------------------------------------
(* What a call returns is the answer to the question it asked last, or     *)
(* what the cache has for its host: never another thread's addresses out   *)
(* of the static list, nor those of a late reply to an earlier question.   *)
OwnAnswer ==
  \A t \in Caller : place[t] = "done" /\ answer[t].n > 0 =>
    /\ answer[t].name.host = call[t].host
    /\ call[t].ok => answer[t].name = Name(t)

(* Addresses out of the cache are no older, by the clock the library shows *)
(* (st_time), than the TTL of the last record of the answer they came in:  *)
(* never than the TTL of another answer, although TTL and list are static, *)
(* other calls parse answers while this one waits, and the clock may be    *)
(* set to a cached time or back to the true one at any moment.             *)
FreshWhenServed ==
  \A t \in Caller : place[t] = "done" => answer[t].fresh

(* An entry of the cache has an address at the index lookup_entry will     *)
(* read, and belongs to its host.                                          *)
CachedUsable ==
  /\ Cardinality(Cached) <= MaxEntries
  /\ \A h \in Cached : /\ dnsCache[h].cur \in 0..(dnsCache[h].n - 1)
                       /\ dnsCache[h].name.host = h
=============================================================================
