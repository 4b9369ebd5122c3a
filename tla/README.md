# State Threads on Windows fibers: a TLA+ development

The repository is a port of the State Threads library to Windows: cooperative
threads on top of fibers, one OS thread, a `select` loop for sockets, a few
extensions and example programs. This directory models the library, the
extensions and the example server, checks them with TLC, and proves the main
safety properties of all of them with TLAPS.

## 1. Inventory

| part | source | state | operations | modelled in |
|---|---|---|---|---|
| intrusive lists | `common.h` | `next`, `prev` of every link field | `ST_INSERT_BEFORE`, `ST_APPEND_LINK`, `ST_REMOVE_LINK` | `CList` |
| virtual processor | `sched.c`, `common.h`, `md.h`, `fiber/` | run, zombie and sleep queue, `_st_this_thread`, `last_clock`, state and flags of every thread | `st_init`, `_st_vp_schedule`, idle loops, `_st_vp_check_clock`, create, exit, join, interrupt, sleep | `VProc`, `Sync` |
| condition variables | `sync.c` | a wait queue each | `st_cond_wait`, `timedwait`, `signal`, `broadcast`, `destroy` | `Sync` |
| mutexes | `sync.c` | owner and wait queue | `st_mutex_lock`, `trylock`, `unlock` | `Sync` |
| timeout heap | `sched.c` | a binary tree through the thread objects | `heap_insert`, `heap_delete` | `TimeoutHeap`, abstractly `SleepQueue` |
| stack pool | `stk.c` | the free list | `_st_stack_new`, `_st_stack_free` | `VProc` |
| event system | `event.c` | the `fd_set`s of each group, a count per descriptor and direction, `maxfd`, `size` | `pollset_add`, `pollset_del`, `dispatch`, `fd_close` | `NetIo` |
| socket calls | `io_win.c`, `st_poll` in `sched.c` | the poll request of each blocked call (`pollq`, on its stack) | open, close, accept, connect, poll, read, write and their variants | `NetIo` |
| LRU cache | `extensions/lrucache.c` | hash chains, LRU list, reference counts, size and weight | create, lookup, release, insert, delete, empty | `LruCache` |
| descriptor objects | `io_win.c` | the free list, the objects and their private data | open, close, `st_netfd_setspecific` | `Netfd` |
| keys | `key.c` | destructors, values of each thread | create, set, cleanup at exit | `Keys` |
| DNS cache, resolver | `extensions/dns*.c` | cached answers; a static address list and TTL; a socket and an id per call | lookup, resolve with the names and servers to try | `DnsCache` |
| time functions | `sync.c` | `_st_curr_time` | `st_time`, `st_timecache_set` | `DnsCache` |
| file I/O extension | `extensions/stx_fileio.c` | two pipes, the reader process with its position | `stx_file_read`, the destructor with `waitpid` | `FileIo` |
| example server, threads | `examples/server.c` | `WAIT_THREADS`, `BUSY_THREADS` of each process | throttling, `start_threads`, `handle_connections` | `ThreadPool` |
| example server, processes | `examples/server.c` | `vp_pids`, signal masks, the signal pipe of each process | watchdog, signal handlers, `process_signals` | `Server` |
| other examples | `examples/proxy.c`, `res.c`, tests | | | no (section 8) |

How the parts interact. There is no parallelism: one fiber executes at a time
and gives the processor up only inside `_st_vp_schedule`, or when
`_st_thread_main` swaps out at its end. Every blocking call writes the thread's
state, links it into the queue of what it waits for, possibly into the timeout
heap, and calls `_st_vp_schedule`; a wake-up (signal, unlock, interrupt, expired
deadline, ready descriptor) takes it out of the heap, appends it to the run
queue, and leaves it on the wait queue until it resumes. When the run queue is
empty, the idle thread calls `select` for each group of descriptors and then
looks at the clock. Nothing but these conventions keeps the pointers right, and
the thread object itself lives inside the stack that its exit puts on the free
list.

What is hard here, and where the properties are aimed:

* *Two wake-ups for one thread.* Between a wake-up and the resumption of the
  thread any other event may hit it again: an interrupt and the hand-over of a
  mutex, a timeout and a signal, a ready descriptor and a timeout. Each wake-up
  path must notice the earlier one, or the run queue is corrupted, a signal is
  lost, or a mutex has an owner that does not know it.
* *Memory that lives in another object.* Thread objects live in stack segments
  that are reused, poll requests in stack frames, termination condition
  variables on the heap with two parties that may free them.
* *Liveness.* Only the idle loops look at the clock and at the sockets, so
  progress depends on the threads giving the processor up.
* *Pointer structures after long sequences of calls.* The timeout heap and the
  cache's chains go through pointers to pointers; a slip shows only much later.
* *Static variables across blocking calls.* All threads resolve names into one
  static address list and hand the TTL over in a static variable; what protects
  them is that the processor changes hands only at certain calls.
* *An unreliable network.* Replies to DNS queries are lost, late, repeated, or
  arrive at a socket that has got the port of an earlier one.
* *Other processes.* The file reader and the server processes fail on their own,
  forks fail, signals arrive at any time, and `waitpid` stops every thread.
* *Callbacks that block.* Destructors of thread-specific values and of a
  descriptor's private data are the program's code; other threads run before
  they return.

`PROJECT.json` lists the hazards line by line with the properties that cover
them.

## 2. The modules

    CList <- VProc <- Sync <- SyncInv <- MCSync, SyncProofs
      |               Sync <- NetIo <- MCNetIo, NetIoProofs
      |-- CListTheorems <- SyncProofs <- NetIoProofs
      |-- CListTheorems <- LruProofs
      |-- LruCache <- MCLruCache, LruProofs
    SleepQueue <- (refinement) TimeoutHeap <- HeapProofs
    TimeoutHeap, DnsCache, FileIo, Keys, Netfd <- MCComponents
    DnsCache, FileIo <- ExtensionProofs
    Keys, Netfd <- PrivateDataProofs
    ThreadPool <- Server <- ServerProofs

**CList** has the list macros as operators on a record of two pointer functions.
They perform the writes of the macros, whatever list the element is on, so a
wrong call corrupts the lists of the model as it would corrupt those of the
program. `Circular(L, Q)` says that the link fields in `Q` are linked among
themselves and `next` and `prev` undo each other; `Ring(L, h, Q)` that they are
moreover *one* list: whoever walks it from the head `h` meets all of `Q`. The
run queue, the wait queues, the queue of I/O requests and the lru list of the
cache are rings.

**VProc** is the virtual processor. A step is the code between two switches, or
one iteration of a loop; `fiber` is the fiber that executes, `pc[f]` the place
where a fiber goes on, `current` is `_st_this_thread` (not the same: the native
fiber executes with `_st_this_thread` naming a thread that has exited). A member
of `Thread` is a *slot*: a stack segment with the thread object in it, which
carries several threads one after the other. Clock values are relative to
`last_clock`, so the state stays finite however long the program runs, and the
timeout heap is a set: `TimeoutHeap` shows that this is what it implements.
`MainKind` is what the program's `main` does after creating its threads: sleep
while threads are active (`examples/lookupdns.cpp`), `st_idle_thread_run`, or sleep
on for ever.

**Sync** adds condition variables, mutexes, thread exit and join: `wlinks` are
the wait queues, `obj[t]` the object of the blocking call `t` is in, `iter` the
loop variable of a signal or unlock loop. Two variables are history: `held[t]`
is the set of mutexes `t` has been told it has (its `st_mutex_lock` returned 0
and it has not called unlock), `signalled` the waiters woken by a signal.

**NetIo** adds `st_poll`, the select event system and the socket calls. A
channel is a descriptor with a direction; `fdset` are the bits that are on in
the *persistent* sets that the code hands to `select` itself, so `select`
overwrites them. Sockets and `select` are external: a channel may become ready
at any time. The sets are those of Winsock, where empty sets make `select` fail
at once.

**TimeoutHeap** has `heap_insert` and `heap_delete` pointer by pointer; a place
(`_st_thread_t**`) is a pair of a thread and a field. One iteration of a loop is
one step, and `job` has the local variables of the call in progress, so what the
loops keep can be said as an invariant. **SleepQueue** is what a user of the heap
may rely on: a set with deadlines and a head that is one of the earliest; in the
refinement a call takes effect when it returns.

**LruCache** has the cache of `lrucache.c`; `pthis` (`stx_cache_entry_t**`) is a
pair again. Callers hold references between calls and follow the protocol of
`dnscache.c`.

**Netfd** has the descriptor objects: the free list, the `inuse` flag, private
data whose destructor may block in the middle of `st_netfd_close`. `misused` is
history: somebody closed an object that he did not open.

**Keys** has thread-specific data. Between the call of a destructor and its
return other threads run; `raced` is history: a thread set a value while another
one was in the destructor of the old one, or for a thread whose exit was past
that key. `destroyed` and `given` count what became of each value.

**DnsCache** has the resolver behind the cache, for several threads. `running`
is the thread that executes; it gives the processor up in `st_sendto` and
`st_recvfrom` and at no other place. `asked` has the queries to which a reply may
still come, any number of times, in any order or never. The cache is a map here
(no caller holds an entry while it blocks); `LruCache` has its pointers. An
answer is the sequence of the TTLs of its address records. `answer[t].ttl` and
`good` of an entry are history: the TTL of this very answer, whatever is in the
static variable when it is used, and the last second, by the true clock, that the
answer is good; `fresh` is whether it still was when it was served.

**FileIo** has one descriptor of `stx_fileio.c`: the threads that read it, the two
pipes with their capacities, and the reader process with the position it
remembers and the position the file has. Two history variables: `alone`, of a
call, says that no other call was active when it began nor has begun since, and
that no command and no answer of an earlier one was under way; `shift` is how far
the file is ahead of the position the reader believes it to have.

**ThreadPool** counts the threads of each server process by what they do, next
to the counters the program keeps; **Server** adds the processes: the watchdog
with its table, fork and its failures, pending and blocked signals, the pipe that
turns signals into words. A signal handler is a step of its own. `termed` is
history: the watchdog ended on SIGTERM; `failed` in a pool: a thread it wanted
could not be created.

**SyncInv** has the inductive invariants of `Sync`. The theorems, with the other
inductive invariants, are in **CListTheorems** (lists), **SyncProofs** (scheduler,
condition variables, mutexes, joins), **HeapProofs** (timeout heap),
**NetIoProofs** (socket I/O), **LruProofs** (cache), **PrivateDataProofs** (keys and descriptor objects), **ExtensionProofs**
(DNS cache and file extension) and **ServerProofs** (example server).

The MC modules define constants and symmetry sets. `MCComponents` is
the sum of five components without a common variable: `part` says which one
moves, the others keep their initial values, so the reachable states are
those of each component by itself, and an invariant of one is an invariant of
the sum. The resolver moves in two programs, which keep it small enough: `dns`
(two names, no time caching, two seconds) and `clock` (one name, time caching,
three seconds). Sharing model values between the components makes one symmetry set
serve all of them.

`map` in `PROJECT.json` gives the lines of code for every definition.

## 3. The runs

| run | instance | asks |
|---|---|---|
| `mutexes` | 3 threads, 1 mutex | `MutexSafety`, `OwnerKnows` (never EINTR and owner, never 0 and not owner), `NoLostThread`, `ActiveCount`, `FreeStacksUnused`, the inductive invariant `IInv` |
| `condvars` | 3 threads, 1 condition variable, native fiber in `st_idle_thread_run`, timeouts 0 and 2, clock steps -1, 0, 1, 3 | `WaitqWellFormed`, `WokenForAReason` (no signal spent on a thread that timed out), `TimeoutNotStale`, `SleepqConsistent` |
| `joins` | 3 threads, joinable or not, 1 termination condition variable | `OneJoiner`, `TermCondInUse` |
| `progress` | 2 threads, mutex and condition variable, main that sleeps on, explicit `st_thread_exit` | `RunnableRuns`, `DeadlineNoticed`, `MutexGranted` |
| `net` | 2 threads, 3 channels of 2 descriptors in 2 groups | `IoqWellFormed`, `CountsExact`, `ClosedNotPolled`, `IoWaitWoken`, `RunqWellFormed` |
| `ioprogress` | 2 threads, 1 channel, transfers of up to two parts | `IoCompletes` |
| `cache` | 4 entries, 2 keys in one of two buckets, weights 1 and 3, limits 3 and 4 | `HeldIsKept`, `BucketsWellLinked`, `LruWellFormed`, `CapacityKept`, `NoDuplicates` |
| `components` | heap: 6 threads, 3 deadlines | `HeapShape`, `ImplementsSleepQueue` (refinement) |
| | DNS: 2 threads, 2 names of which one is tried twice, answers of up to 2 addresses with TTLs 0 and 1, 2 ids, 2 ports, a cache of one entry, 3 seconds | `OwnAnswer` (nobody gets the addresses of another question), `FreshWhenServed` (nor with the TTL of another answer), `CachedUsable` |
| | file: 2 threads, a file of 3 words that begins at offset 0 or 1, 2 requests, pipes for one command and for 3 words | `OwnSection`, `WaitpidEnds` |
| | keys: 2 threads, 2 keys, 3 values | `DestroyedOnce` |
| | descriptors: 2 threads, 2 objects, 2 OS descriptors | `OwnDescriptor` |
| `server` | 2 processes, 3 kinds of signals of which 3 are sent, pipes of one word, at most 2 threads a process with 1 spare | `PlaceFound`, `SpareKept`, `PoolCounts`, `TermReachesAll`, `VpReplaced` |
| `joined_dead` | 2 threads | violation, section 7 |
| `read_timeout` | 1 thread, 1 channel | violation, section 7 |
| `connect_spins` | 2 threads, 1 channel | violation, section 7 |

Deadlock is checked in every run. A program that has ended stutters (`Ended`,
`AllGone`); anything else in which no step is possible would be a deadlock of the
scheduler.

Why these bounds are enough. Three threads are the least number at which one
thread acts on a queue with two waiters of which one was already woken: all the
loops over wait queues are then exercised with an element to pass over and one
to take, and a queue loses its first, its middle and its last element. One
object suffices because no call touches two (a join touches a condition variable
of its own). Timeouts of one unit and a clock that moves by 0 or 1 give every
order of expiry and other wake-ups, since deadlines are compared only with each
other and with now; `condvars` adds a deadline that is over at once, a jump past
both, and a clock set back. Two descriptors in two groups are needed for a request that
spans two `select` calls and for a descriptor forgotten while another is
reported. Six threads give the heap three levels, so deletion moves the last
element up as well as down and both kinds of child appear on the path; with one
step per iteration.
In the cache, three of four entries fit, so insertion evicts, replaces, fails on
weight and fails on size; chains of three need every case of unlinking.

In `components`, two threads are enough for one to run in the middle of the
other's call. With two ids, two ports and two names the reply to an earlier
query of the same call, of an earlier call and of the other thread's call can
each arrive at the wrong moment; two addresses of TTL 0 or 1 are the least with
which the TTL of another answer, or of another record, makes a difference, and an
address is served in turn; three seconds let an entry of TTL 1 be
served in its last second and expire, with the cached time on or off. The second
file request starts where the first one ends (no seek) and is cut short by the
end of the file; a file that begins at offset 1 is read from the wrong place until
the first seek; the answer pipe holds one answer, so a left-over answer fills
it. Two keys and three values allow a value to be replaced, set for another
thread, and left behind by an exit that is past its key. In `server`, two
processes are the least number with a table in which a wrong place could be
found, and reuse of pids; three signals meet any states of a process being
forked, and a pipe of one word lets a signal find it full while the signal thread
does not run.

The bounds by name: `MaxDue` (no deadline lies further ahead than this after the
clock was set back), `CountBound` (a thread calls `st_thread_exit` itself only
while the active count is positive, as each such call lowers the count twice),
`MaxRefs` (references held to one cache entry), `MaxLen` (parts of one
transfer), `MaxTime` (the last second of a behaviour), `MaxAddrs` (addresses in
an answer), `MaxSignals` (signals sent to the watchdog). `PipeSize`,
`ControlSize` and `PipeWords` are capacities of real pipes, made small.

## 4. Fairness

`FairSpec` (and `FairIoSpec` for `NetIo`) assume what the OS and a cooperative
program guarantee and nothing more:

* weak fairness of the next-state relation: the OS thread goes on executing;
* strong fairness of `GiveUp` and `TryBlock`: a thread does not compute for
  ever, it makes a blocking call (or ends) again and again. This is the contract
  of every cooperative scheduler; without it nothing else runs;
* strong fairness of `ClockMoves`: the clock does not stand still at every
  check.

Nothing is assumed of the sockets: a channel may never become ready, and
`FairIoSpec` leaves the steps of the environment out of its weak fairness. The
conditions under which progress holds are part of the properties:
`DeadlineNoticed` needs the idle thread to get the processor infinitely often
(threads that keep each other runnable keep every sleeper waiting, which is how
the library works), and `MutexGranted` needs owners to let go.

`ServerSpec` assumes that the OS lets every process go on: weak fairness of the
watchdog's steps (a fork may fail every time), of the start of a server process,
and of the delivery of a signal that is not blocked; and strong
fairness of `Reap`, since `wait` reports every dead child in the end, whatever
handlers run in between. Connections, and signals from the operator, are not
assumed to come. Nothing is assumed of `ProcessSignals`: the thread that reads the
signal pipe is one of the cooperative threads of its process, and on this library
the others need not let it run, since `st_accept` returns ETIME at once when no
connection is pending (`io_win.c:302`) and `handle_connections`
(`server.c:814`) then calls it again. So the property about SIGTERM,
`TermReachesAll`, is that it reaches the pipe of every process that is alive, for
good, and not that the process reads it.

## 5. What is proved

Every theorem below is about every behaviour of a specification and every value
of its constants that satisfies the named assumptions: any number of threads,
objects, entries, requests, processes. The assumptions (`VProcAssumption`,
`SyncAssumption`, `NetIoAssumption`, `LruAssumption`, `KeyAssumption`,
`NetfdAssumption`, `DnsAssumption`, `FileAssumption`, `PoolAssumption`,
`ServerAssumption`) say that the constants are distinct and of the right kind and
that limits are not absurd (no timeout exceeds `MaxDue`, a cache has room, there
is a process and a socket); TLC evaluates them in the runs. A hypothesis beyond
these is part of the theorem and named here.

Each theorem has the form `Spec => []P`, and hardly any `P` is inductive by
itself: it says nothing about the moments between two steps of a loop, or about
what a later step will rely on. So each component has an inductive invariant;
TLC checks it on a small instance as well (that of the component's run, or a smaller one).

### Scheduler, condition variables, mutexes, joins (`SyncProofs`)

Any timeouts, any behaviour of the clock. The theorems differ in the programs
they are about:

| theorem | property | programs |
|---|---|---|
| `WaitQueuesCorrect` | `WaitqWellFormed`: every wait queue is one list of exactly the threads in a blocking call on it | all |
| `SleepQueueCorrect` | `SleepqConsistent`: the sleep-queue flag is right, only blocked threads have a deadline | all |
| `MutualExclusion`, `NoOrphanOwner` | `MutexSafety`, `OwnerKnows`: `held` and `owner` agree, but for owners about to be told or just letting go | all |
| `WakeUpReasons` | `WokenForAReason`: a woken waiter has a reason, no signal is spent on one that timed out | all |
| `TimeoutReports` | `TimeoutNotStale`: a timeout belongs to the wait that reports it | all |
| `NoThreadLost` | `NoLostThread`: whatever a blocked thread waits for, something that can still wake it knows of it | all |
| `SingleJoiner` | `OneJoiner`: no two threads wait to join the same thread | all |
| `TermCondKept` | `TermCondInUse`: no termination condition variable is freed under a joiner or a thread that will signal it | all |
| `NoNullLink` | `LinksSet`: the scheduler follows no NULL pointer and no link to a slot never handed out | all |
| `RunQueueCorrect` | `RunqWellFormed`: the run queue is one list of exactly the RUNNABLE threads | `Joinable = {FALSE}` |
| `TypeCorrect` | `TypeOK` | `Joinable = {FALSE}`, `ExplicitExit = FALSE` |
| `StackPoolCorrect` | `FreeStacksUnused`: no segment on the free list carries a thread that has not ended | the same |
| `CountCorrect` | `ActiveCount` | the same, and `MainKind # "forever"` |

The hypotheses are not for the convenience of the proof: `RunqWellFormed`,
`FreeStacksUnused` and `ActiveCount` fail in the programs that are left out
(section 7). `TypeOK` is among them because it includes the pointers of the free
list, into which a thread that exits twice is linked twice.

There are three inductive invariants, each on top of the one before it.

**`Core`** holds for every program (`CoreInvariance`), so it must not mention the
run queue, the free list or the count, which joins and repeated exits spoil. What
makes that possible is that `_st_vp_schedule` protects itself: whatever link it
finds at the head of the run queue, it goes on in a thread that is RUNNABLE, in
the idle thread, or not at all (`ScheduleControl`). So `Core` is about the control
state, the timeouts, the calls in progress, the joins and the wait queues:

* `ThreadControl` ties the place a fiber is at to its thread's state. Without it
  a resumed waiter could be one that is still LOCK_WAIT. A thread that has ended
  may be RUNNABLE again, since `st_thread_join` makes it so;
* `LockInv` says that a waiter that is awake and does not own the mutex was
  interrupted. Together with `ThreadControl` it makes the return of
  `st_mutex_lock` right;
* `LoopInv` says that the loop variable of signal and unlock stays on the queue
  that is walked and that the unlocking thread owns the mutex until it is handed
  over. The exit of a joinable thread walks the queue of its condition variable
  in the same way;
* `JoinInv` says that a termination condition variable belongs to one thread
  object and is not freed as long as that object names it, that a joiner names
  one that is not freed, and that no two joiners name the same. The last part is
  more than `OneJoiner`, which counts only those that wait: it includes a joiner
  that has passed the test and has not blocked yet, and one that was woken and
  will test again. It holds because nothing else runs between the test and the
  wait, and because a woken joiner goes on without giving the processor up.
  The exit frees the variable only if its queue is empty, which by
  `WaitqWellFormed` means that nobody is in a wait on it (`NobodyWaits`).

`NoThreadLost` adds `WaitInv`. A mutex that is waited for must never be left
without an owner, and `st_mutex_unlock` could do so only by coming to the end of
the queue past a waiter it should have taken. `NonePassed` excludes it: every
waiter still in LOCK_WAIT lies ahead of the loop variable, where *ahead* is the
least set that has the loop variable and goes on along `next` to the head. This
is where it matters that a wait queue is one ring and not several.

`NoNullLink` needs only that the link fields of the list heads, the idle thread
and the used slots point to one another: insertion and removal keep such a set
closed, wherever the element is linked. It is what is left of the run queue in a
program whose joins have tangled it with the zombie queue.

**`RunInv`** is for programs without joinable threads (`RunInvariance`): nobody
joins, a thread that has ended stays so (`NotJoinable`), and the run queue is
intact.

**`IInv`** is for programs whose threads, besides, end by returning from their
start function (`Invariance`): each exits once (`ReturnsOnly`), and the free list
holds exactly the dead segments (`FreeListInv`), so `st_thread_create` takes no
slot that is in use and `CreateOverLiveThread` is never enabled. `CountCorrect`
adds `CountInv`: when `main` waits for its threads, the idle thread runs only
while threads are active, so it never leaves its loop and the count is never
lowered for it.

A list is described by facts about one link and its neighbours (`Circular`) and
by a least set (`Ring`), never by recursion. The lemmas of `CListTheorems` say
that `InsertBefore` adds an element to a ring, `RemoveLink` takes one away,
operations on one list leave the others alone, and a walk from the head meets
exactly the ring. The proof that a step keeps the invariant goes action by action and,
below, by the named parts of the invariant.

### Timeout heap (`HeapProofs`)

No hypotheses. `HeapCorrect` (`HeapShape`) and `HeapRefinement`
(`ImplementsSleepQueue`): for any number of threads and any deadlines the heap is
a complete, indexed and ordered tree between calls, and it implements
`SleepQueue`, which is what `VProc` uses for it.

`HeapInv` says, for each kind of step, which threads are in the tree, where the
call is in it, and what the order lacks: while a thread is carried down
(`Carrying`) the tree has all others, in order, and the one carried is not due
before the one above its place; while a replacement goes down (`WhenSifting`) it
may be due after those below it, and nothing else is out of order. `Tree` speaks
of indices instead of paths: the threads have the indices 1 to `n`, each its own,
and a place holds the thread of its index. This is what `heap_index` and the bits
of `heap_delete` rely on, and it turns four pointer writes into a statement about
the places whose index changed (`TakeOver`, `PutLast`, `RemoveLast`, `Exchange`).

For the refinement, every step inside a call must stutter, and a step that ends
one must add or remove just that thread and leave at the root a thread that is
due first. The latter is `RootFirst`: in an ordered tree nothing is due before the
root. Along a path that would be an induction; instead, of the threads that are
due before the root take one with the least index; the one above it has a lower
index and is not due later, so it is due before the root as well.

### Socket I/O (`NetIoProofs`)

Hypotheses: `MainKind # "idle_run"` and `ExplicitExit = FALSE`.

| theorem | property |
|---|---|
| `IoqCorrect` | `IoqWellFormed`: the queue of requests is one list of exactly the requests flagged `on_ioq`, each of a thread that is still inside `st_poll` |
| `CountersCorrect` | `CountsExact`: the counter of a channel is the number of queued requests that name it, and a bit is on only for a counted descriptor |
| `CloseCorrect` | `ClosedNotPolled`: no queued request and no bit names a closed descriptor |
| `IoWaitCorrect` | `IoWaitWoken`: a thread in IO_WAIT has a queued request and a deadline, and only blocked threads have one |
| `IoRunQueueCorrect` | `RunqWellFormed` again, with `_st_select_dispatch` inserting as well |

`IoInv` is `IoQueue` (the list, the counters, the descriptors of requests),
`IoCtl` (places and states as above, requests, timeouts) and `RunqWellFormed`.
The part that carries the argument is `Attentive`. `dispatch` makes the thread of
a request runnable without looking at its state, so a thread whose timeout has
put it on the run queue could be inserted a second time. It is not, because the
only caller is the idle thread, the scheduler takes the idle thread only when the
run queue is empty (`IdleLast`), and a thread that is taken off the run queue
takes its request off the ioq before it does anything else: while the idle thread
is before or inside dispatch, every request belongs to a thread that is still in
IO_WAIT. When `main` calls `st_idle_thread_run` there is a second caller and the
argument fails, as does the property (section 7); hence the hypothesis.

### LRU cache (`LruProofs`)

No hypotheses. `ReferencesKeep` (`HeldIsKept`), `BucketsCorrect`
(`BucketsWellLinked`), `LruListCorrect` (`LruWellFormed`), `LimitsKept`
(`CapacityKept`) and `OneEntryPerKey` (`NoDuplicates`). `LruInv` is

* `BucketInv`: `pthis` and what it points at undo each other, and every nonempty
  set of entries has one whose predecessor is outside (`Rooted`), so that a chain
  has no cycle away from its bucket;
* `RefInv`: counted references are those that are held, and only on entries of
  the table;
* `SizeInv`: size and weight are those of the table. Weight is counted as the
  number of `Units`, pairs of an entry and a number up to its weight, so that a
  sum over a set needs no recursion;
* `OpInv`: what the loops of insert and empty rely on from one step to the next.
  After evicting, the new entry fits and still fits after an entry of the same
  key was removed; when it is linked, every other entry of its key is pending.

### Keys and descriptor objects (`PrivateDataProofs`)

`KeysCorrect` (`DestroyedOnce`) and `NetfdCorrect` (`OwnDescriptor`), without
hypotheses. `KeyInv` says how often a value was destroyed from where it is now
(`Counts`), which needs that one thread at a time is in the destructor of a value
(`OneDestructor`) and that a value on its way is not there yet (`ComingGiven`).
`NetfdInv` says that the free list has every object that is allocated and not in
use, once (`ListInv`, whoever closes what), and that open objects and OS
descriptors are distinct as long as each thread closes its own (`OwnInv`).

### DNS cache and file extension (`ExtensionProofs`)

`OwnAnswerCorrect` (`OwnAnswer`), `FreshnessCorrect` (`FreshWhenServed`) and
`CacheUsable` (`CachedUsable`), without hypotheses. `DnsInv` rests on two facts.
Two calls never share a port, and a reply that comes to a call with the id it
waits for is to the name it asks for (`OwnPort`, `Replies`), although the port
may have belonged to an earlier call. And the static address list and TTL are
still those of this call's answer when they are copied (`Copying`), for the
thread has not given the processor up in between. `FreshnessCorrect` needs also
that an entry expires no later than it is good (`EntryInv`): the time it is made
at by `st_time` is not ahead of the true one.

`SectionCorrect` (`OwnSection`) and `WaitpidCorrect` (`WaitpidEnds`), without
hypotheses: for every start of the file, and also after calls that were cut short
or overlapped. `ReaderInv` says that the file is always `shift` ahead of
the reader's own position. `PipeInv` says, for each place a call that is `alone`
may be at, what the two pipes and the reader process hold (`Expecting`,
`Receiving`, `Ending`): nothing, or the command or a part of the answer of this
one call. What is needed for a call to be alone is that the earlier ones have left
nothing behind, which is a state of the pipes and not of their history.

### Example server (`ServerProofs`)

For any number of processes, any limits and any signals:

* `PoolCorrect`: `PoolCounts`. It is inductive once the types are added
  (`PoolInv`), and it rests on `set_thread_throttling`: that the spare threads of
  one process fit under its limit (`Limits`) holds because both totals are
  rounded up by the same division, which keeps their order
  (`CeilDivMonotone`). The step that needs care is the head of the loop, which a
  thread may reach with one spare thread too many (`LoopHeadCounted`);
* `PlaceCorrect`: `PlaceFound`. It says nothing of the places that name no
  process, and so it is not inductive: were a stale pid left in the table, a
  fork could return that pid and the new process would have two places.
  `PlaceInv` adds that a place names a process that does not exist only between
  `wait` and `fork`, when it is the place that was found; and that, while the
  first processes are forked, the places behind them are empty;
* `SpareCorrect`: `SpareKept`. `SpareInv` joins the two invariants, since a
  process begins to serve only at the end of its start, and adds that a pool that
  serves has a thread left and enough spare ones unless one could not be created.

### Only model-checked

* Liveness: `RunnableRuns`, `DeadlineNoticed`, `MutexGranted`, `IoCompletes`,
  `TermReachesAll`, `VpReplaced`. Fairness and `ENABLED` are beyond the prover.
* That a call on the timeout heap comes to its end: the proofs say what holds if
  it does, TLC that it never gets stuck (deadlock is checked).

The library's induction theorems have an operator for a parameter, which the
provers cannot instantiate. Where an induction was needed it was put in terms of
sets: least closed sets for lists (`Ring`, `NonePassed`), sets without an escape
for chains (`Rooted`), and the least element of a set of numbers, from
`WFMin` and `NatLessThanWellFounded`.

## 6. Modelling decisions

* `SwitchToFiber` to the fiber that executes returns at once. This decides what
  `st_thread_exit` does (section 7).
* A fiber whose start routine returns ends its OS thread (`DeadFiberResumed`).
  Where the program overwrites a live thread object (`CreateOverLiveThread`), or
  follows a link to a list head as if it were a thread, nothing is said of what
  comes after: the model stops there (`EXITED`).
* Calls that fail and change nothing (EDEADLK, EPERM, EBUSY, EINVAL, and on
  Windows `st_accept` without a pending connection) are stuttering.
* A thread gives its mutexes back before it ends. The library has no rule for a
  mutex whose owner is gone.
* `_st_stack_new` takes the first free segment that is large enough; sizes are
  abstracted, so any segment may be it, or none.
* When `select` fails on empty sets, `errno` is whatever an earlier call left,
  EBADF included, so both branches are possible.
* `seldt->size` only grows by notifications (see below); its one use is a test
  for a positive value, and the model keeps just that.
* In `DnsCache`, `FileIo` and `Keys` the scheduler is any choice of the next
  thread at the places where a call may block: what they rely on is only where
  that is. `VProc` and `Sync` say how the choice is really made.
* A query id is fresh among the queries in flight. `res_mkquery` numbers its
  queries, so two that are equal lie 65536 queries apart.
* An expired timeout of `st_recvfrom` is no step of `DnsCache`, because the code
  only waits again (`read_timeout`).
* A command and an answer of `FileIo` are written whole (they are shorter than
  `PIPE_BUF`), requests are at most `FILEREADER_MAX_READ` long, and nobody closes
  a descriptor that another thread is reading.
* A server process that dies takes its threads with it; why it dies is left open.

## 7. What the code does that its comments do not say

Three runs show a disagreement between the code and what the repository says.

* `joined_dead`. `st_thread_join` puts the zombie on the run queue, and its
  comment says that "When it gets scheduled later, it will do the clean up"
  (`sched.c:249`). But the switch in `st_thread_exit` (`sched.c:205`) goes to the
  exiting thread's own fiber instead of scheduling another, so the thread has
  cleaned up at once and its fiber is finished; scheduling it ends the OS thread.
* `read_timeout`. `st_netfd_poll` returns 0 when `st_poll` times out, and the
  read and write loops try again with the full timeout. The "Request read
  timeout" of the example server (`examples/server.c:46`) never ends a call on a
  silent connection.
* `connect_spins`. The comment in `st_connect` says "Wait until the socket becomes
  writable" (`io_win.c:341`), but every path of the loop goes back to `connect` or
  returns before that wait, so a connection in progress keeps the OS thread busy
  and starves every other thread.

Met while modelling, part of the models, without a run of their own:

* A joinable thread's segment goes to the free list while its object is still on
  the zombie queue (`sched.c:211`). A new thread in that slot is on two lists
  through one link field. This is why `RunqWellFormed` is about programs without
  joinable threads; section 5 says what remains true with them.
* A thread that calls `st_thread_exit` returns from it, returns from its start
  function, and exits a second time: the active count falls by two
  (`sched.c:193`) and the segment is linked into the free list twice. `progress`
  includes such threads.
* With a `main` that sleeps on after the last thread has ended, the idle thread
  leaves its loop and exits too, the count becomes -1, and the next schedule
  resumes the finished idle fiber.
* `select` is given the persistent sets and overwrites them (`event.c:292`): a
  descriptor that is not ready is forgotten until its request is added again. The
  timeout of one unit that `st_poll` uses even without a timeout makes that
  happen; `IoCompletes` shows that it is enough.
* `dispatch` makes a thread runnable without looking at its state
  (`event.c:356`). With the idle thread as its only caller this is safe, because
  expired threads run before the next dispatch (`net`); when `main` also calls
  `st_idle_thread_run`, a timed-out thread can be inserted twice.
* `size` of a group is not decreased for a notified request (`event.c:152`), so
  it overflows after 2^31 of them.
* `st_usleep` leaves the interrupt flag set when it is woken by an interrupt
  (`sync.c:75`), so the next blocking call returns EINTR as well.
* The native fiber sleeps in the name of `_st_this_thread`, which names the
  thread that ran last (`sync.c:57`).
* `st_poll` without a timeout sleeps for one unit and returns 0
  (`sched.c:53`). The read and write loops go round again; `proxy.c`
  (`examples/proxy.c:405`) takes 0 for the end and closes an idle connection.
* `st_accept` returns ETIME at once when no connection is pending
  (`io_win.c:302`); the loop of `handle_connections` calls it again without giving
  the processor up. The thread of a server process that reads its signals may then
  never run, and the process does not end on SIGTERM; this is why `ServerSpec` has
  no fairness for it.
* The resolver waits for a lost reply without end, since a timeout only makes
  `st_recvfrom` wait again; the next server is never asked (`dnsres.c:96`).
* An answer without an address record makes the resolver return 0 with no
  addresses (`dnsres.c:65`).
* An insertion into the cache that fails in the end has evicted the unused
  entries before (`lrucache.c:216`).
* The TTL of the last address record stands for all addresses of an answer
  (`dnsres.c:52`), so an address whose record had a shorter one is served beyond
  it. In answers whose records agree, as those of one name should, it is each
  one's own. And `FreshWhenServed` measures by `st_time`: with time caching an
  answer is served longer, by the true clock, as long as the cached time lags.
* The file reader counts its position from 0 although the file may have been
  positioned elsewhere before (`stx_fileio.c:46`). Until its first seek every
  section it reads lies that much further on than the offset it was asked for.
  `OwnSection` allows for this distance (`shift`) and for no other.
* A file read that is interrupted after its command went out leaves its answer
  in the pipe, and the next call takes it for its own (`stx_fileio.c:139`); two
  overlapping calls mix their answers. `OwnSection` says that the harm ends with
  them: a call that finds nothing under way gets its own section.
* If the end command is interrupted, or left-over answers fill the pipe,
  `waitpid` in the destructor never returns and all threads stop
  (`stx_fileio.c:97`). When the program itself dies, the reader waits for ever,
  because it holds the other end of its own control pipe (`stx_fileio.c:52`).
* A value set while another thread is in the destructor of the old one may be
  destroyed twice, and one set for a thread whose exit is past the key is never
  destroyed (`key.c:33`). `DestroyedOnce` is stated without these.
* While the destructor of a descriptor's private data blocks, the descriptor is
  still open but has passed the test of `fd_close`; a thread that begins to poll
  it then has it closed under it (`io_win.c:204`).
* When `fork` fails, the place of the dead process stays empty
  (`examples/server.c:588`), so their number is constant only as long as it
  succeeds. `VpReplaced` allows for it.
* A signal between `wait` and the blocking of signals is forwarded to the pid of
  a process that has just been reaped (`examples/server.c:612`).
* A signal that finds the pipe of a process full ends that process with its
  sessions (`examples/server.c:685`); the watchdog replaces it.

## 8. Not modelled

In the core: failing allocations and a failing `createFiber` (what a scheduler
does with a thread without a fiber is outside what the code defines); return
values of threads; POLLPRI, which goes the same way as the other events; a
descriptor named twice in one request; the error table of `io_win.c`;
`st_writev`, a sequence of writes; `st_set_utime_function`.

In the extensions: statistics and traversal of the cache; the bytes of DNS
packets (a reply is right, broken, an error, or another query's); reads longer
than `FILEREADER_MAX_READ` and a write to a pipe that is cut in two.

In the examples: options, logs, user ids, sessions' requests and the daemon
start of `server.c`, which change nothing the models speak of; several listening
sockets (one stands for all, they share nothing but the limits) and
`-S`; `proxy.c`, which keeps no state of its own but a buffer inside one loop;
`res.c`, an older form of `dnsres.c` without the cache; the test programs. What
their `main` does with the virtual processor is `MainKind`.

Generated files and project files (`vs/`) have no behaviour.

## 9. Plan

Done, in this order: lists, virtual processor, synchronisation with the end of
threads, timeout heap and its refinement, socket I/O, LRU cache; the invariant
of `Sync` and its proof; then keys, descriptor objects, DNS cache, file
extension, the server's thread pools and processes; then the proofs of the safety
invariants of all these; then the invariant of `Sync` for every program, with
joins and explicit exits, and the proof of the timeout heap and its refinement.
Every invariant that a run checks is now proved.

Next:

1. Abstract specifications: a monitor (mutex and condition variable without
   queues) that `Sync` implements, and a map with references for `LruCache`, to
   replace the map inside `DnsCache`.
2. Failing allocations in `st_thread_create`.
