------------------------------ MODULE LruCache -------------------------------
(***************************************************************************)
(* The cache of extensions/lrucache.c: a hash table of reference-counted   *)
(* entries, of which the unused ones are on a list in the order of their   *)
(* last use.  A call of it does not give the processor up, so calls of     *)
(* different threads do not overlap, but the references that threads hold  *)
(* between calls do.  The loops of insert and empty are one step per       *)
(* iteration.                                                              *)
(*                                                                         *)
(* An entry is the piece of memory it lives in, which may be allocated     *)
(* again once it is freed.  `pthis` points to the pointer to the entry:    *)
(* <<"table", b>> is &table[b] and <<"next", e>> is &e->next.              *)
(*                                                                         *)
(* The callers follow the protocol of dnscache.c: they release what they   *)
(* hold, and delete an entry they hold, one they have just looked up and   *)
(* released, or one they could not insert.  Statistics are left out.       *)
(***************************************************************************)
EXTENDS CList, FiniteSets

CONSTANTS
  Entry,       \* memory for entries
  LRU,         \* list head cache->lru_list
  Key,
  HashSize,    \* cache->hash_size
  Hash,        \* key_hash_fn modulo hash_size
  Weights,     \* weights of the entries callers create
  MaxSize,     \* cache->max_size
  MaxWeight,   \* cache->max_weight
  MaxRefs      \* bound: references held to one entry at a time

Bucket == 0..(HashSize - 1)
LNode  == Entry \cup {LRU}
Places == ({"table"} \X Bucket) \cup ({"next"} \X Entry)

ASSUME LruAssumption ==
  /\ NULL \notin LNode \cup Key \cup Places
  /\ LRU \notin Entry
  /\ HashSize \in Nat \ {0}
  /\ Hash \in [Key -> Bucket]
  /\ Weights \subseteq Nat \ {0}
  /\ MaxSize \in Nat \ {0} /\ MaxWeight \in Nat /\ MaxRefs \in Nat

VARIABLES
  allocated,   \* entries that exist
  key, weight, next, pthis, refCount, pending,   \* their fields
  table,       \* cache->table
  lru,         \* lru_link of every entry and the list head
  curSize, curWeight,
  held,        \* references the callers hold
  op           \* the call with a loop that is being executed

entryVars == <<key, weight>>
chainVars == <<table, next, pthis, curSize, curWeight>>
vars == <<allocated, entryVars, chainVars, refCount, pending, lru, held, op>>

NoOp == [step |-> "none", entry |-> NULL, bucket |-> 0]

Init ==
  /\ allocated = {}
  /\ key = [e \in Entry |-> NULL]
  /\ weight = [e \in Entry |-> 0]
  /\ next = [e \in Entry |-> NULL]
  /\ pthis = [e \in Entry |-> NULL]
  /\ refCount = [e \in Entry |-> 0]
  /\ pending = [e \in Entry |-> FALSE]
  /\ table = [b \in Bucket |-> NULL]
  /\ lru = LET p == [n \in LNode |-> IF n = LRU THEN LRU ELSE NULL]
           IN  [next |-> p, prev |-> p]
  /\ curSize = 0
  /\ curWeight = 0
  /\ held = [e \in Entry |-> 0]
  /\ op = NoOp

Idle    == op = NoOp
InTable == {e \in Entry : pthis[e] # NULL}
Fresh   == {e \in allocated : pthis[e] = NULL}

(* The entries of a bucket, found along `next`.                            *)
From(e)  == IF e = NULL THEN {} ELSE Reach([next |-> next], Entry, e)
Chain(b) == From(table[b])

(* What the loop over the bucket of k stops at: the first entry for k that *)
(* is not to be deleted.                                                   *)
Matches(e, k) == ~pending[e] /\ key[e] = k
Found(k) ==
  LET hits == {e \in Chain(Hash[k]) : Matches(e, k)}
  IN  {e \in hits : hits \subseteq From(e)}

-----------------------------------------------------------------------------
(* STX_CLIST_APPEND_LINK and STX_CLIST_REMOVE_LINK on the lru list; unlike *)
(* their namesakes in common.h they test no pointer, and the callers pass  *)
(* none that is NULL.                                                      *)
AppendLru(e) == InsertBefore(lru, e, LRU)
RemoveLru(L, e) == RemoveLink(L, e)

(* A mutant of NextPthis: the entry behind is not told.                    *)
NextPthisKept(e) == [pthis EXCEPT ![e] = NULL]
NextPthis(e) == IF next[e] = NULL THEN [pthis EXCEPT ![e] = NULL]
                ELSE [pthis EXCEPT ![next[e]] = pthis[e], ![e] = NULL]

(* The weight without an entry.  Mutant: the weight is not given back.     *)
WeightKept(e)    == curWeight
WeightWithout(e) == curWeight - weight[e]

(* An entry of the table is unlinked from its bucket; its memory is gone   *)
(* when the handler ends.                                                  *)
Unlink(e) ==
  LET place == pthis[e]
      next1 == IF place[1] = "next" THEN [next EXCEPT ![place[2]] = next[e]]
                                    ELSE next
  IN  /\ table' = IF place[1] = "table"
                  THEN [table EXCEPT ![place[2]] = next[e]] ELSE table
      /\ next' = [next1 EXCEPT ![e] = NULL]
      /\ pthis' = NextPthis(e)
      /\ curSize' = curSize - 1
      /\ curWeight' = WeightWithout(e)

(* The memory of an entry is given back; a later calloc finds it zeroed.   *)
Free(e, refs) ==
  /\ allocated' = allocated \ {e}
  /\ key' = [key EXCEPT ![e] = NULL]
  /\ weight' = [weight EXCEPT ![e] = 0]
  /\ pending' = [pending EXCEPT ![e] = FALSE]
  /\ refCount' = [refs EXCEPT ![e] = 0]

(* The test of stx_cache_entry_delete.  Mutant: it is left out.            *)
InUseUntested(refs, e) == FALSE
InUse(refs, e) == refs[e] > 0

(* stx_cache_entry_delete, in a handler that has left the lru list as L    *)
(* and the reference counts as refs.                                       *)
Delete(e, L, refs) ==
  IF InUse(refs, e)
  THEN /\ pending' = [pending EXCEPT ![e] = TRUE]
       /\ lru' = L
       /\ refCount' = refs
       /\ UNCHANGED <<allocated, entryVars, chainVars>>
  ELSE /\ Free(e, refs)
       /\ IF pthis[e] # NULL
          THEN /\ Unlink(e)
               /\ LET R == RemoveLru(L, e)
                  IN  lru' = [next |-> [R.next EXCEPT ![e] = NULL],
                              prev |-> [R.prev EXCEPT ![e] = NULL]]
          ELSE lru' = L /\ UNCHANGED chainVars

-----------------------------------------------------------------------------
(* stx_cache_entry_create.                                                 *)
EntryCreate(k, w) ==
  /\ Idle
  /\ \E e \in Entry \ allocated :
       /\ allocated' = allocated \cup {e}
       /\ key' = [key EXCEPT ![e] = k]
       /\ weight' = [weight EXCEPT ![e] = w]
  /\ UNCHANGED <<chainVars, refCount, pending, lru, held, op>>

(* The lru list when an entry is looked up.  Mutant: the use count is not  *)
(* tested.                                                                 *)
LruWithoutAny(e) == RemoveLru(lru, e)
LruWithout(e) == IF refCount[e] = 0 THEN RemoveLru(lru, e) ELSE lru

(* stx_cache_entry_lookup of a key that is found.                          *)
EntryLookup(k) ==
  /\ Idle
  /\ \E e \in Found(k) :
       /\ held[e] < MaxRefs
       /\ lru' = LruWithout(e)
       /\ refCount' = [refCount EXCEPT ![e] = @ + 1]
       /\ held' = [held EXCEPT ![e] = @ + 1]
  /\ UNCHANGED <<allocated, entryVars, chainVars, pending, op>>

(* Whether the last release also deletes.                                  *)
DeletesLate(e) == pending[e]

(* stx_cache_entry_release by a holder.                                    *)
EntryRelease(e) ==
  LET refs == [refCount EXCEPT ![e] = @ - 1]
      L    == IF refs[e] = 0 THEN AppendLru(e) ELSE lru
  IN  /\ Idle
      /\ held[e] > 0
      /\ held' = [held EXCEPT ![e] = @ - 1]
      /\ IF refs[e] = 0 /\ DeletesLate(e)
         THEN Delete(e, L, refs)
         ELSE /\ refCount' = refs
              /\ lru' = L
              /\ UNCHANGED <<allocated, entryVars, chainVars, pending>>
      /\ UNCHANGED op

(* stx_cache_entry_delete by a holder, by one that has just looked the key *)
(* up and released it, or by one that could not insert the entry.          *)
EntryDelete(e) ==
  /\ Idle
  /\ held[e] > 0 \/ e \in Fresh \/ (e \in InTable /\ e \in Found(key[e]))
  /\ Delete(e, lru, refCount)
  /\ UNCHANGED <<held, op>>

-----------------------------------------------------------------------------
(* stx_cache_entry_insert is called with a new entry.                      *)
InsertBegin(e) ==
  /\ Idle
  /\ e \in Fresh
  /\ op' = [NoOp EXCEPT !.step = "weigh", !.entry = e]
  /\ UNCHANGED <<allocated, entryVars, chainVars, refCount, pending, lru, held>>

TooHeavy == curWeight + weight[op.entry] > MaxWeight
LruEmpty == lru.next[LRU] = LRU

(* Its first loop: the cache would be too heavy, so the least recently     *)
(* used entry goes.                                                        *)
InsertEvictsWeight ==
  /\ op.step = "weigh"
  /\ TooHeavy /\ ~LruEmpty
  /\ Delete(lru.next[LRU], lru, refCount)
  /\ UNCHANGED <<held, op>>

(* The cache has too many entries: one goes.                               *)
InsertEvictsSize ==
  /\ op.step = "weigh"
  /\ ~TooHeavy /\ curSize >= MaxSize /\ ~LruEmpty
  /\ Delete(lru.next[LRU], lru, refCount)
  /\ op' = [op EXCEPT !.step = "match"]
  /\ UNCHANGED held

(* All entries are in use: -1, and the entry stays with the caller.        *)
InsertFails ==
  /\ op.step = "weigh"
  /\ TooHeavy \/ curSize >= MaxSize
  /\ LruEmpty
  /\ op' = NoOp
  /\ UNCHANGED <<allocated, entryVars, chainVars, refCount, pending, lru, held>>

(* The older entries with the key of a new one.  Mutant: none is looked    *)
(* for.                                                                    *)
NotLookedFor(k) == {}
Duplicate(k) == Found(k)

(* There is room; the entry with the same key, if any, is deleted.         *)
InsertMatches ==
  /\ \/ op.step = "match"
     \/ op.step = "weigh" /\ ~TooHeavy /\ curSize < MaxSize
  /\ op' = [op EXCEPT !.step = "link"]
  /\ LET old == Duplicate(key[op.entry])
     IN  IF old = {}
         THEN UNCHANGED <<allocated, entryVars, chainVars, refCount, pending,
                          lru>>
         ELSE \E e \in old : Delete(e, lru, refCount)
  /\ UNCHANGED held

(* The entry becomes the head of its bucket, with one reference.           *)
InsertLinks ==
  /\ op.step = "link"
  /\ LET e == op.entry
         b == Hash[key[e]]
     IN  /\ next' = [next EXCEPT ![e] = table[b]]
         /\ table' = [table EXCEPT ![b] = e]
         /\ pthis' = IF table[b] = NULL
                     THEN [pthis EXCEPT ![e] = <<"table", b>>]
                     ELSE [pthis EXCEPT ![e] = <<"table", b>>,
                                        ![table[b]] = <<"next", e>>]
         /\ refCount' = [refCount EXCEPT ![e] = @ + 1]
         /\ held' = [held EXCEPT ![e] = @ + 1]
         /\ curSize' = curSize + 1
         /\ curWeight' = curWeight + weight[e]
  /\ op' = NoOp
  /\ UNCHANGED <<allocated, entryVars, pending, lru>>

-----------------------------------------------------------------------------
(* stx_cache_empty: bucket after bucket, entry after entry; the next entry *)
(* is read before the current one is deleted.                              *)
EmptyBegin ==
  /\ Idle
  /\ op' = [step |-> "empty", entry |-> table[0], bucket |-> 0]
  /\ UNCHANGED <<allocated, entryVars, chainVars, refCount, pending, lru, held>>

EmptyDeletes ==
  /\ op.step = "empty"
  /\ op.entry # NULL
  /\ Delete(op.entry, lru, refCount)
  /\ op' = [op EXCEPT !.entry = next[op.entry]]
  /\ UNCHANGED held

EmptyNextBucket ==
  /\ op.step = "empty"
  /\ op.entry = NULL
  /\ op' = IF op.bucket + 1 < HashSize
           THEN [op EXCEPT !.entry = table[op.bucket + 1], !.bucket = @ + 1]
           ELSE NoOp
  /\ UNCHANGED <<allocated, entryVars, chainVars, refCount, pending, lru, held>>

Next ==
  \/ \E k \in Key : EntryLookup(k) \/ \E w \in Weights : EntryCreate(k, w)
  \/ \E e \in Entry : EntryRelease(e) \/ EntryDelete(e) \/ InsertBegin(e)
  \/ InsertEvictsWeight
  \/ InsertEvictsSize
  \/ InsertFails
  \/ InsertMatches
  \/ InsertLinks
  \/ EmptyBegin
  \/ EmptyDeletes
  \/ EmptyNextBucket

Spec == Init /\ [][Next]_vars

-----------------------------------------------------------------------------
(* Every variable has its type.                                            *)
TypeOK ==
  /\ allocated \subseteq Entry
  /\ key \in [Entry -> Key \cup {NULL}]
  /\ weight \in [Entry -> Weights \cup {0}]
  /\ next \in [Entry -> Entry \cup {NULL}]
  /\ pthis \in [Entry -> Places \cup {NULL}]
  /\ refCount \in [Entry -> Nat]
  /\ pending \in [Entry -> BOOLEAN]
  /\ table \in [Bucket -> Entry \cup {NULL}]
  /\ lru \in ListState(LNode)
  /\ curSize \in Nat /\ curWeight \in Nat
  /\ held \in [Entry -> Nat]
  /\ op.step \in {"none", "weigh", "match", "link", "empty"}
  /\ op.entry \in Entry \cup {NULL}
  /\ op.bucket \in Bucket

(* A reference keeps its entry: what a caller holds is never freed under   *)
(* it by a deletion, an eviction, a replacement or the release of another  *)
(* caller, and the use count is the number of references held.  An entry   *)
(* whose deletion was asked for goes with its last reference: it is never  *)
(* left behind where nobody can find it.                                   *)
HeldIsKept ==
  /\ \A e \in Entry : refCount[e] = held[e] /\ (held[e] > 0 => e \in InTable)
  /\ \A e \in InTable : pending[e] => held[e] > 0

(* The buckets are well linked: an entry is in the bucket of its key, once, *)
(* and `pthis` is the pointer to it, so unlinking finds its predecessor;   *)
(* no bucket leads to freed memory.                                        *)
BucketsWellLinked ==
  /\ TypeOK
  /\ InTable = UNION {Chain(b) : b \in Bucket}
  /\ \A e \in InTable :
       /\ e \in allocated
       /\ e \in Chain(Hash[key[e]])
       /\ e = IF pthis[e][1] = "table" THEN table[pthis[e][2]]
                                       ELSE next[pthis[e][2]]

(* The lru list is a well-linked list of exactly the entries of the table  *)
(* that nobody uses, so what is evicted is in the table and unused.        *)
LruWellFormed ==
  Ring(lru, LRU, {LRU} \cup {e \in InTable : refCount[e] = 0})

(* The units of weight that the entries in E of the weights w bring in.    *)
Units(w, E) == UNION {{e} \X (1..w[e]) : e \in E}

(* Size and weight are those of the entries in the table, and the limits   *)
(* of the cache are kept, whatever part of them is pending.                *)
CapacityKept ==
  /\ curSize = Cardinality(InTable) /\ curSize <= MaxSize
  /\ curWeight = Cardinality(Units(weight, InTable)) /\ curWeight <= MaxWeight

(* "Don't add duplicate entries in the cache": a key has one entry that    *)
(* can be found, while others may still be in use but pending.             *)
NoDuplicates ==
  \A d, e \in InTable : key[d] = key[e] /\ ~pending[d] /\ ~pending[e] => d = e

=============================================================================
