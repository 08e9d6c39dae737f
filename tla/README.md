# TLA+ models of SBCL's run-time system

SBCL is a Common Lisp implementation: a compiler, a run-time library written in
Lisp and a C run-time with garbage collectors.  Mistakes are most costly, and least
likely to be found by testing, in the code that several threads execute at
once or that a collection may interrupt at any instruction: locks and queues, the
protocol that stops all threads, the allocators and collectors, hash tables keyed
by address, the life of threads, timers and finalizers.  This directory models that
part, and the arithmetic, whose case analyses are as hard to cover by tests.  TLC
checks the models on small instances; TLAPS proves the central facts about some of
them for instances of any size.

Paths below are relative to the repository.  Unless a module says otherwise the
models follow the default 64-bit Linux build: futexes, bit-packed mutexes, threads
stopped by `SIG_STOP_FOR_GC`, the copying collector.

## Inventory

| Component | State | Operations | What is hard | What makes it correct |
|---|---|---|---|---|
| Mutex, `src/code/target-thread.lisp`, `thread.lisp` | one word: owner tid and futex state 0/1/2 | `GRAB-MUTEX`, `%TRY-MUTEX`, `RELEASE-MUTEX` | a 32-bit CAS on half of a 64-bit word; a plain store in the release; timeouts, EINTR and unwinding in the wait | exclusion; the owner half is exact; no lost wake-up; every waiter returns |
| Deadlock detection, same files | `thread-waiting-for` of every thread | `WITH-DEADLOCKS`, `CHECK-DEADLOCK` | a graph that changes while it is walked | a deadlock that stands is told |
| Condition variable, same files | a token word, a mutex of the user | `CONDITION-WAIT`, `-NOTIFY`, `-BROADCAST` | release and sleep are two steps; deadlines with or without the mutex; the cleanup that hands a wake-up on | the mutex is held on a T return and never leaked; no lost wake-up |
| Semaphore, same file | count, waitcount, mutex, queue | `WAIT-ON-SEMAPHORE`, `TRY-SEMAPHORE`, `SIGNAL-SEMAPHORE` | waitcount changes outside the mutex; timeouts after a wake-up; requests of different sizes | units are conserved; waitcount is exact up to the deadlines due on entry; a unit reaches a thread that waits for one (where others wait for more it need not, see *Findings*) |
| Reader/writer lock, `src/code/rwlock.lisp` | state word, writer tid, pending counts and wake words under a mutex | `rwlock-rdlock`, `-wrlock`, `-unlock`, try variants | announce and sleep against unlock and wake; the tid is written after the word | exclusion; an exact word; no lost wake-up; writers preferred |
| Reader/writer spin lock, same file | one word: readers or a mark, and waiting writers | `rwspinlock-rdlock`, `-wrlock`, unlocks | the count shares its half with the writer's mark; a half-word store in the unlock | exclusion up to the cap; writers get in |
| Queue, `contrib/sb-concurrency/queue.lisp` | linked list, head, tail | `ENQUEUE`, `DEQUEUE` | the tail is a plain store after the CAS; nodes are cleared after the head has moved on | FIFO, each value once; progress |
| Timers, `src/code/timer.lisp` | a priority queue under a lock, interruptors, the system timer | `SCHEDULE-TIMER`, `UNSCHEDULE-TIMER`, the alarm's handler, rescheduling | unscheduling and rescheduling while the function runs or is on its way to its thread | an alarm is set for what is queued; an unscheduled timer stays quiet; what is due leaves the queue |
| Threads, `target-thread.lisp`, `src/runtime/thread.c`, `save.lisp`, `cold-init.lisp` | thread structures, `*ALL-THREADS*`, `*JOINABLE-THREADS*`, sessions, results | `MAKE-THREAD`, `JOIN-THREAD`, `INTERRUPT-THREAD`, `TERMINATE-THREAD`, `EXIT`, callbacks from foreign threads | memory of the dead is reused by whoever makes the next thread; signalling a thread that exits | memory has one owner; joins tell the truth; `EXIT` exits |
| Finalizers, `src/code/final.lisp`, `gc-common.c` | the store, rehash list, triggered list, run flag | `FINALIZE`, `CANCEL-FINALIZATION`, `scan_finalizers`, the finalizer thread | the collector takes nodes out of a table that threads are filling; the thread starts, sleeps, is called by `POST-GC` and is stopped | a finalizer is in one place until it has run once; a cancelled one never runs; a stop finds the thread that runs |
| Stop the world, `src/runtime/stop-the-world.c`, `interrupt.c`, `gengc.inc`, `thread.c`, `src/code/gc.lisp`, `sysmacs.lisp` | per-thread state, semaphores and flags; two locks; the list of threads | `SUB-GC`, `gc_stop_the_world`, `gc_start_the_world`, the stop handler, pseudo-atomic sections, `WITHOUT-GCING`, attach and detach | signals at any instruction; nested deferral; threads that come and go; competing collectors | the collector runs alone; nothing deferred is lost; no deadlock |
| Safepoints, `src/runtime/safepoint.c` | the GC phase, traps, per-thread CSP | the phase transitions, calls into and out of foreign code, thruptions | the same protocol in the build that polls | as above; nothing is left armed |
| Page allocator, `src/runtime/gencgc.c`, `alloc.c` | page table, open regions | `lisp_alloc`, large and code allocation, closing regions | pages shared by regions and zeroed on demand | objects do not overlap; memory promised zero is zero; exact accounts |
| Arenas, `src/runtime/arena.c`, `src/code/arena.lisp` | blocks, huge objects, a lock | switch, allocate, extend, rewind (modelled); create, hide, unhide, destroy (not) | a shared bump pointer without a lock; a lock held while a handler decides | the collector sees every pointer an arena holds |
| Copying collector, `gencgc.c`, `gc-common.c` | heap, page table, card marks, pins, weak objects | `collect_garbage` and all below it | ambiguous roots, pinned pages, cards, ephemerons | the program never notices; old-to-young pointers are remembered; weak references are broken for the dead only |
| Mark-region collector, `mark-region.c`, `pmrgc.c`, `incremental-compact.c` | lines with generations, mark bits, cards | tracing, sweeping, promotion, compaction | sticky marks, freshly allocated lines, evacuation | as above; line and page tables are exact |
| Hash tables, `src/code/target-hash-table.lisp`, `gc-common.c` | pairs, chains, hash vector, stamp | `GETHASH`, `PUTHASH`, `REMHASH`, `CLRHASH`, grow, rehash, adaptation | keys move under concurrent readers, one of which rebuilds the chains; weak tables lose pairs between two steps | lookups tell the truth; every operation ends |
| Lock-free table, `src/code/solist.lisp`, `target-lflist.lisp` | marked list, vector of bins | insert, delete, find, doubling | deletion in two steps, helping, lazy bins | each call takes effect once |
| Hopscotch tables, `src/runtime/hopscotch.c` | cells, hop masks, cached storage | put, get, insert, delete, reset | displacement chains, growth within growth | holds what was put |
| Integers, ratios, complexes, `src/code/bignum.lisp`, `numbers.lisp`, `irrat.lisp`, `float.lisp` | digit vectors | the generic operations | carries, sign digits, padding words, quotient guesses, fixnum edges | exact and canonical results |
| Deadlines, `src/code/deadline.lisp` | one dynamic binding per thread | `WITH-DEADLINE`, `SIGNAL-DEADLINE` | signalled at any wait, handled, deferred or unwound | part of `Mutex`, `Waitqueue`, `Semaphore` |
| Deferred interrupts, `src/runtime/interrupt.c` | flags of a thread | `interrupt_handle_pending` | a stop between the test and the act | part of `StopTheWorld` |
| FRLock, gate, mailbox; trees and hash sets; compiler, CLOS, streams | - | - | - | see *Not modelled* |

Interactions.  The condition variable and the semaphore call the mutex and are
interrupted by deadlines; the reader/writer lock uses a mutex and futexes of its
own; all of them run with interrupts masked except in the futex wait, where a
signal handler may run and unwind.  Timers interrupt threads; threads that exit are
joined through semaphores.  The collector stops all of them between any two
instructions outside a pseudo-atomic section; as it only delays locks and queues it
needs no place in their models, but it does change page tables, hash tables and
finalizer stores, and is part of those.

The hazards met in this code are listed at their lines in `PROJECT.json`, each
with the properties that would catch it.

## Modules

```
Lock  <--implements-- Mutex  <-- MutexProofs          MCLocks (Mutex, Deadlock,
  ^ promise used by                                     RWLock, RWSpinlock)
  +---- Waitqueue  <-- WaitqueueProofs                MCMonitors (Waitqueue, Semaphore,
          ^ promise used by                             Queue, Timer over PriorityQueue)
          +---- Semaphore
RWLock  <-- RWLockProofs
RWSpinlock  <-- RWSpinlockProofs                      Counting: lemmas of three proof modules
FIFO  <--implements-- Queue  <-- QueueProofs
StopTheWorld  <-- StopTheWorldProofs                  MCStopTheWorld, MCStops (+ Safepoint)
Pages  <-- PageAlloc  <-- Arena                       MCArena
  ^------- Gencgc                                     MCCollectors (Gencgc + MarkRegion)
HashTable, SOList                                     MCTables
Threads  <-- ThreadsProofs                            MCThreads (Threads + Finalizers)
Bignum, Rational, Hopscotch                           MCSequential
```

In each concurrent module `pc[t]` is the place of thread `t` in the code, every
access to shared memory and every entry to and return from a blocking call is an
action, and an action carries the name of the Lisp or C function, or of the step, it
models; `map` in `PROJECT.json` gives the lines.

An MC module often runs several components as a *sum*: a behaviour belongs to one of
them from its first state to its last, the variables of the others keep their initial
values (or `Idle`), and the next-state relation is the disjunction.  Nothing is
shared and nothing is constrained: the states of the sum are the disjoint union of
the states of the parts.  A fairness condition on an action of one part and one on
an action of the other are written as one condition on either, which is the same
thing since only one of the two is ever enabled in a behaviour.

**Lock** is what callers of a mutex rely on: ownership passes only through
"free" and is given up after the body was left.

**Mutex** models `GRAB-MUTEX` and `RELEASE-MUTEX`.  `word` is the record of the
two halves of `mutex-%state`.  `FirstCas` and `Recas` are the 64-bit CASes,
`MarkContended` the 32-bit one on the futex half, `AtomicDecf` and `ClearWord`
the two halves of a release.  A sleeper can be woken (`FutexWakeOne` chooses
one), time out, be interrupted (`Eintr`) and be unwound by a handler (`Unwind`,
followed by the `NLX-PROTECT` cleanup).  Recursive attempts and releases by a
thread that is not the owner are included.

**Deadlock** models threads that take mutexes in any order, announce what they
wait for, and walk owners and waits from there; the re-check under
`**DEADLOCK-LOCK**`, timed waits and handlers that hide a wait are included.

**Waitqueue** models `%CONDITION-WAIT` and its two notifiers with the client the
docstring presents as correct (`POP-DATA`, `PUSH-DATA`).  `token` is the futex
word; it is set to the waiter's identity before the mutex is released, and
cleared by a notification.  The mutex is that of `Lock`.  Consumers may pass a
`:TIMEOUT`, or run under `WITH-DEADLINE`.  The history variable `kept` counts the
consumers that gave up after a notification, so that `NoLostWakeup` can say that
this is the only way to lose one.

**Semaphore** models `%DECREMENT-SEMAPHORE` and `SIGNAL-SEMAPHORE` on top of
`Lock` and of what `Waitqueue` shows of the wait queue.  `waitcount` is a word
(modulo `WordSize`) because one path decrements it below zero.  `status` is the
notification object; `added`, `taken` and `slips` are history variables.

**RWLock** and **RWSpinlock** model the two locks of `rwlock.lisp`.  A CAS loop
is one step where a failed round has no effect; a section guarded by the
internal mutex is one step where only its single write to the state word can be
seen from outside.  In `RWSpinlock` the mask is a constant so that the cap can be
reached.

**FIFO** is a linearizable queue.  **Queue** models the CAS queue; nodes are
numbered in the order of linking, `last` is a history variable.

**PriorityQueue** has the binary heap of the timers as operators on sequences.
**Timer** has the scheduler lock, the system timer, the inboxes of the threads and
the stack of what interrupted what in each of them.

**StopTheWorld** models a collection from the trigger to the restart.  A signal
handler, `interrupt_handle_pending`, `maybe_gc` and `SUB-GC` nest, so the place
to return to is kept on `stack`.  `state`, `nrWait/nrSem` and `nsWait/nsSem` are
`state_word` and the two pairs of wait count and semaphore; `linked` is
`all_threads`; `sigPending` is what the kernel holds; the other flags carry the
names of the code.  A handler may run at any place where the signal is not
blocked, in particular between the end of a pseudo-atomic section and the trap
for its deferred work.  Threads attach (`Attach`, `LinkThread`) and leave
(`Unregister`, `MarkDead`, `UnlinkThread`, `ClearSignal`).

**Safepoint** models the other build: the phases of `gc_state`, the page that
Lisp polls, the word that guards the way out of foreign code, and thruptions.

**Pages** is the page table with its operations as functions from heaps to heaps;
**PageAlloc** lets threads allocate from it; **Gencgc** is the copying collector over
it.  **Arena** adds one arena: its blocks and huge objects, the claims on the current
block by CAS, the lock with its futex (`ARENA_MUTEX_ACQUIRE_GC_MAYBE`), the handler's
answer (it allows, throws or returns NIL, after which the lock is released twice), and
`extend_lisp_arena` as the sequence of its reads and writes.  **MarkRegion** has its own page table with lines.
In both collectors memory is a function from addresses to objects, with the
identity of each object and of what the program stored in its slots as history.

**HashTable** has one writer, any number of readers and the collector; `map` is the
abstract contents.  A table that is not weak is
also checked never to reach the `AVER` and the report of corruption in
`GROW-HASH-TABLE`.  **SOList** has any number of threads; `seen` is what each key
was during a call.  In `SO-DELETE` (`solist.lisp:269`) it is the swing that succeeds
after which the list is searched once more, as CAS returns the old value.  **Hopscotch**, **Bignum** and **Rational** are sequential: a state
is the operands or the table, a step one call, and the properties compare results
with mathematics or with an abstract map.

**Threads** and **Finalizers** follow scripts of calls, one per thread.  In `Threads`
a script may join a Lisp thread, a foreign thread (which has no semaphore and no
result: `ReadSemaphore`) or the caller itself (an error: `JoinSelf`).  `ScriptsAssumption`
says what a script is: MAKE-THREAD makes a thread that was not there before, and a
foreign thread only calls into Lisp.  `Finalizers` begins before the finalizer thread
does: `FinalizerThreadStart` claims `*FINALIZER-THREAD*` and creates it, and a stop may
come while it is being started.  A collection ends in `POST-GC` or, where `maybe_gc`
does not call it (`gc-common.c:2269-2278`: interrupts disabled, or a thread about to
exit), without (`SkipPostGC`); the finalizer thread may also learn of the dead later, or
not at all.

## Runs

| Run | Instance | What it shows |
|---|---|---|
| `locks` | mutex: 3 threads, 2 calls each; deadlocks: 3 threads, 3 mutexes in opposite orders; reader/writer lock: 2 readers, 2 writers, one of them calling twice; spin lock: 3 readers, 2 writers, mask 3 | exclusion, no lost wake-up, refinement of `Lock`, every thread that goes to wait returns; a deadlock that stands is told to some thread of it; exclusion of both reader/writer locks, a writer tid that is never a bystander's, an exact word of the spin lock, no sleeper forgotten; a pending writer keeps new readers out; every call locks; some writer spins in |
| `monitors` | 3 consumers (one timed, one with a deadline), 2 producers; 3 waiters and 2 signallers: for 1 unit each, for 2, 1 and 1, and the same with timeouts and deadlines; 2 enqueuers, 2 dequeuers, 3 items; 2 threads, a repeating and a one-shot timer | mutex discipline on every way out, a sleeper's token is its own until it is notified, no wake-up lost except to a notified consumer that returns NIL; units are conserved, `waitcount` is off by exactly the deadlines due on entry; data reach sleeping consumers, and units sleeping threads unless another waits for more than there are; the shape of the queue's list, private values, refinement of `FIFO`, every `ENQUEUE` returns; an alarm is on its way whenever a timer is queued, no start after `UNSCHEDULE-TIMER`, what is due leaves the queue |
| `stw_three` | 3 threads, 1 operation each, also from inside `WITHOUT-GCING` | the collector runs alone, no `lose()` is reached, no stop or deferred request outlives its collection, with a collector, a competitor and a thread that comes or goes; no deadlock |
| `stops` | 2 threads with several operations, in each of the two builds | at safepoints the world is stopped and nothing is left armed; in both builds stopped threads resume, and with signals the world comes to a stop |
| `alloc` | 2 threads on the heap; 2 in the arena with a handler that allows or throws; 1 in the arena with one that refuses | no overlap, zeroed memory, exact accounts, what is in the arena is scanned |
| `collectors` | 12 programs for the copying, 10 for the mark-region collector, operands free | the graph is kept, cards remember, books are exact, weak means dead |
| `sequential` | operands around the ends of 1 to 4 digits of 6 bits and of fixnums; 4 keys with colliding hashes | exact and canonical results; the table holds what was put |
| `tables` | 12 scripts with readers and collections; 2 threads on the list | lookups tell the truth, tables fit together, calls take effect once and end |
| `threads` | 5 scripts for threads, 3 for finalizers | one owner for memory, true joins, nothing goes wrong; one place for a finalizer; `EXIT` exits; the finalizer thread starts and stops when told to, runs the hooks, and what has died once `POST-GC` follows the last collection |
| `hash_weak` | as `tables` | **violated**, see *Findings* |
| `denial` | 2 threads in the arena with a handler that refuses | **violated**, see *Findings* |
| `fixnum` | as `sequential`, with the ratios 16/3 and 3/16 where 15 is the largest fixnum | **violated**, see *Findings* |

**Bounds.**  `MaxCalls`, `MaxPushes`, `MaxSignals`, `MaxItems`, `Ops`, `Budgets`,
`MaxGCs`, `MaxTime` and the scripts bound how often threads begin an operation; none
of them restricts an operation that has begun.  A second operation lets a thread
meet the traces of its own earlier call (a word left marked as contended, a stale
token or serial, a signal pending from the last collection, a dead thread's
memory).  The sleepers of a futex are interchangeable, so three threads give an
owner, a sleeper and one that is about to sleep or barges in.  Three items put a node
behind the head, one at it and one after it.  `ReaderMask = 3` with three readers
reaches the cap of 2^32 - 2 readers; `WordSize = 8` exceeds the number of waiters, so
that `waitcount` can wrap only below zero, as in the code.  In `stops` the interesting
nests (a stop inside a pseudo-atomic section inside `WITHOUT-GCING`, a collection
deferred twice) need two operations of one thread; `stw_three` has two competing
collectors and a bystander.  Pages of a few words make every object span cards or
pages; the programs of `collectors` were chosen so that each shape of object is
allocated, promoted, pinned, written to between mark and store, and lost.  Nine pages
keep the programs of the mark-region collector off the last page, which is never swept
(see *Findings*).  Digits of
six bits with fixnums of the same width reach every carry and quotient-guess case
within four digits.  Tables of 2 to 4 pairs grow, adapt their hash function and are
rehashed within a few calls.  Where a theorem is listed below it removes the bounds.
Deadlock checking is off where the program simply ends after the bounded number of
calls or where a waiter may rightly wait for ever (a consumer without data).
`stw_three` has it on: the end of all operations is an action of its own there.

**Symmetry** is used in `stw_three` only, over threads that no constant tells
apart; the other instances are checked for liveness, which excludes it, or are
small.

**Fairness** is weak fairness of the steps a running thread takes by itself, per
thread: the operating system runs every runnable thread.  Nothing is assumed of
timeouts, interrupts, unwinding, spurious wake-ups and of beginning a call.
Beyond that
- `Mutex`, `Waitqueue`, `RWLock`, `RWSpinlock`: who holds the lock lets it go;
- `Waitqueue` and `Semaphore`: `WaitStep` and `WaiterStep` are disjunctions of
  the steps from waking to the re-acquisition and on.  Waiting for the mutex is
  only weakly fair, so nothing rests on a hand-over the futex does not give.
  A deadline handler that runs ends some time, by returning or by unwinding;
- `Queue`: for all threads.  This is more than lock-freedom allows to assume:
  an enqueuer that stopped between its CAS and its store of the tail would make
  the others spin, as `ENQUEUE` does not help a lagging tail forward;
- `StopTheWorld`: `Continue(t)`, and in addition delivery of a signal that is not
  blocked, as a thread that polls `in_gc_lock` for a full collection would
  otherwise be allowed to poll for ever;
- no strong fairness is assumed anywhere: the futex mutex allows barging, so a thread
  at a lock is only promised it if it is free from some time on.  It is enough, as the
  threads of an instance make finitely many calls and so cannot hold a lock for ever in
  turn.  Where calls are not bounded the properties ask for less: a thread that
  competes for the mutex of a semaphore may compete for ever, and of the writers that
  wait for the spin lock some one gets it;
- `Finalizers`: a collection ends, with or without `POST-GC`; that `POST-GC` is called is
  not assumed.  What is promised of the dead is promised when it was;
- `Timer`: the clock goes on and signals are delivered; `Safepoint`: foreign code
  inside `WITHOUT-GCING` returns.

**Mutants.**  For each property of each passing run `PROJECT.json` names a mutant
of a modelled definition, of the kind a change to the code could introduce (a
dropped guard, a missing reset, two steps swapped), and TLC finds the property
violated in it.  A mutated form is defined directly before the definition it
would replace.

## Findings

**hash_weak** (`target-hash-table.lisp:1860`).  `GROW-HASH-TABLE` takes a table whose
count is 0 for a new one and reads its size, negated, from the cache.  A weak table
whose pairs the collector culls between `TRANSFER-CULLED-CELLS` and
`GROW-HASH-TABLE` has count 0 too, and its cache holds an index: the new size is 0 or
negative.  The comment there says "For new tables, CACHE holds the desired initial
size."

**denial** (`arena.lisp:357`).  A handler that returns NIL has the arena's lock released in
the cleanup form (`:334`) and again in the branch that signals the error (`:357`).  The
second release can take the lock from a thread that holds it, and then two threads are
in `extend_lisp_arena` (`arena.c:300-320`) at once, link their blocks behind the same
one, and one block is lost to the collector's walk.  The comment at `arena.c:343` says
"Mutex forces exactly one thread to decide."; that at `:468`, "Trace all objects below the
free pointer, unless hidden".

**fixnum** (`numbers.lisp:338`).  Minus `MOST-NEGATIVE-FIXNUM` is a bignum.  A ratio with it
as numerator or denominator can have a product that is a fixnum, but its case in
`*-BY-FIXNUM-TO-FIXNUM` calls `ERR`, which asserts that the product is a fixnum, expects
the assertion to fail, and runs on into `(sb-impl::unreachable)`.

Disagreements between the code and its comments that were met while modelling and
have no run of their own:

- `target-thread.lisp:1529`: `SIGNAL-SEMAPHORE` notifies as many waiters as there are units,
  whichever they are.  With threads that wait for two units and for one, the wake-up for
  a single unit can go to the thread that needs two; it sleeps again, and the thread that
  needs one sleeps on beside a unit.  The docstring of `WAIT-ON-SEMAPHORE` says (`:1491`)
  "Else blocks until the semaphore can be decremented."  `SleepersAreServed` states what
  does hold.
- `target-thread.lisp:1221`: a consumer woken by `CONDITION-NOTIFY` whose `:TIMEOUT`
  is used up returns NIL and keeps the wake-up, where unwinding would pass it on;
  "Ergo, no lost wakeup" holds up to `kept` only.
- `target-thread.lisp:1453`: a deadline due on entry to `WAIT-ON-SEMAPHORE` unwinds
  through a decrement of `waitcount` before its increment (`slips` counts these).
- `target-thread.lisp:586-592`: one deadlock may be reported by two of its threads (the
  comment excludes it), as the links are looked at one after the other; a handler that hides its wait
  (`thread.lisp:143-169`) can make a check miss a cycle, which the next wait reports;
  `CHECK-DEADLOCK` signals with interrupts enabled and `**DEADLOCK-LOCK**` released
  only by unwinding.
- `safepoint.c:212`: a thread that waits for `GC_QUIET` and is scheduled after the
  phase has wrapped to `GC_NONE` sleeps until the next collection.
- `gc.lisp:224`: `SUB-GC` compares the epoch with `*GC-PENDING*` instead of
  `*GC-EPOCH*`, so a competing thread returns "a GC has occurred" when none has.
- `gencgc.c:4112-4117`: the finalizer thread's run flag is read, tested and stored; in
  the build with safepoints a stop in between is undone.
- `mark-region.c:839-841`: the last claim stops one page early, so the last page of
  dynamic space is never swept.
- `bignum.lisp:2161-2174`: the remainder is normalised with a length below that of its
  buffer, so the word cleared "to avoid a crash in GC" (`:303`) is not the padding
  word; the assertion at `:801` can fail for operands of unequal length.
- `timer.lisp:293-295`: the docstring of `UNSCHEDULE-TIMER` promises that no trigger is
  unfinished; one of a repeating timer can be.  `:331` may `INCF` a time that is NIL;
  `:67-76` only sifts down on removal from the middle of the heap.
- `save.lisp:350`: a thread created by a dying thread can still run when the image is
  saved.
- `target-hash-table.lisp:2230-2240`: a reader can count probes across a rehash and
  report corruption; cells culled between the transfer and the removal of weakness
  (`:2030`) are unused until the next rehash.

## Proofs

The theorems hold for every value of the constants that satisfies the named
assumptions: any number of threads, calls, items, operations and collections.  The set
of threads need not be finite in `MutexProofs`, `QueueProofs`, `ThreadsProofs` and
`StopTheWorldProofs`; `RWLock`, `RWSpinlock` and `Waitqueue` assume it finite because
their words count threads.  For `RWLock`, `RWSpinlock` and `Queue`, which the runs use as
instances, the assumption is a hypothesis of each theorem, and the MC module evaluates it
for its instance; for the others it is an `ASSUME`.  Every inductive invariant below was first checked by TLC
on the instances of the runs.

**MutexProofs.**  Exclusion is not inductive by itself: a thread between its CAS and
its store must be known to be the owner the word names.  `IInv` of `Mutex` is the
conjunction of
`OwnerNamesHolder`, `OwnedIsLocked`, `StoreIsPrivate` (the plain store of
`RELEASE-MUTEX` overwrites nobody's acquisition), `NoOrphanWord` and `NoLostWakeup`.
From it follow `MutexTypeOK`, `MutexExclusion`, `MutexNoLostWakeup`,
`MutexStoreIsPrivate` and the refinement `MutexImplementsLock`, where the CAS is
`Acquire`, the call of `RELEASE-MUTEX` is `Leave` and the atomic decrement is `GiveUp`.

**QueueProofs.**  `ListIsWhole`, `TailIsLast` and `TakenIsPrivate` are inductive
together with `LocalsInStep` (what a thread has read is old but was true) and
`ValuesInPlace`.  The key lemma is `LinkAtLast`: a CAS that succeeds links to the last
node, however old the tail was that it was computed from.  `QueueImplementsFIFO` takes
as linearization points the CAS of the CDR for `ENQUEUE`, and for `DEQUEUE` the CAS of
the head or the read of a CDR that is NIL.

**Counting** has what the other proofs need about the number of threads at a place: a
step of one thread changes it by one, or not at all.

**RWLockProofs.**  The state word and the pending words are exact (`StateExact`,
`PendingExact`, `TidExact`); with `WriterAlone` this gives `RWLockExclusion`.  `RWLockNoLostWakeup` needs
to know *who answers* for a sleeper: `WritersAnsweredFor` and `ReadersAnsweredFor` say
that while somebody sleeps a writer is active, or a thread is between its unlock and
the wake-up, or the sleeper is `Fresh` (the wake word has changed since it was read, so
that the futex does not let it sleep).  A theorem about one of the two kinds does not
go through without the other, as an unlock chooses between them.
`RWLockWriterPreferred` is an action property: no step lets a reader in past a pending
writer.

**RWSpinlockProofs.**  `SpinExclusion` is exclusion together with an exact word, and
both are inductive with `SeenIsFit`: what a thread has read, and will compare with, is
a word it may act on.  `RWSpinlockNoNewReaders` is an action property.

**WaitqueueProofs.**  `WaitIsSound` has two halves.  That the mutex is given back is
inductive on the places.  That no wake-up is lost compares numbers: the consumers on
their way to the data (`Acting`) and those that kept a wake-up (`kept`) are together at
least as many as the data, while somebody sleeps; `PushesBoundData` keeps the counts
in range.  A notification moves one consumer from the sleepers to `Acting`, a pop takes
one datum and one actor away.

**StopTheWorldProofs.**  `IInv` of `StopTheWorld` has five parts besides the types.
- `StacksFit`: which place can be inside of a call that returns where, and the same for
  every frame on the stack.  Without it nothing is known after a return.
- `PlacesTell`: the place and the place it returns to determine whether the thread is
  linked, pseudo-atomic or inside `WITHOUT-GCING`, and restrict its state.
- `CollectorInStep`: the owner of `all_threads_lock` is the one collector, what it has
  still to do is linked, and what it has ticked off is not running.
- `StopsInStep`: a stop that was sent and not acknowledged is in the kernel, noted in a
  flag, or in the handler, never in two of these, and the collector that sent it waits
  for it (`Awaited`).  This is why a deferred stop cannot be forgotten or be met by a
  thread that runs after the collection.
- `FlagsInStep`: what is put off is put off to a place that is still ahead.

A step of a thread that is not collecting is reduced to that thread by `OthersKeep`; a
step of the collector to the collector by `CollectorStep`.  Control moves in three ways
(`JumpMoves`, `CallMoves`, `ReturnMoves`), so that no action has to be argued about
with its stack.  The theorems `StopTheWorldStops`, `StopTheWorldNeverLoses` and
`StopTheWorldLeavesNothing` are stated for a start from any set of threads inside
`WITHOUT-GCING`, `StopTheWorldSafe` for `Spec`.

**ThreadsProofs.**  `ThreadsSound` is for any set of threads, finite or not, any set of
thread structures and any scripts that satisfy `ScriptsAssumption`.  `ThreadsAreSound` is
far from inductive: that an OS thread runs alone on its structure depends on who else
holds the address, which may be the instance of a dead thread, a thread in the middle
of `PRIMITIVE-JOIN`, a creator that keeps it for the thread it is about to start, or the
recycle bin of foreign threads.  `IInv` is the conjunction of
- `PlacesTell`: the place of a thread determines the state of its OS thread, where its
  address is (`%PRIMITIVE-THREAD` or the stash), whether it has its semaphore, whether it
  was signalled, and what its result is.  It is stated separately for threads made by
  MAKE-THREAD, for the main thread, which never gets to HANDLE-THREAD-EXIT, and for
  foreign threads;
- `CallsTell`: where a thread is in its calls and where it goes back to from
  %DISPOSE-THREAD-STRUCTS; who waits for a result waits for a thread that has begun, and
  who reads one reads that of a thread in `Final`;
- `MakesAreNew`: a thread that is still to be made is untouched, and only one call makes
  it;
- `MemoryIsOwned`: every structure has one use;
- `ListIsExact`: `*ALL-THREADS*` has exactly the threads that are not disposed of, under
  their addresses.  The AVERs of DELETE-FROM-ALL-THREADS and UPDATE-ALL-THREADS follow
  from this and the previous part (`FoundOnce`, `FoundNever`);
- `JoinedOnce`: a finished thread is on `*JOINABLE-THREADS*` or in the hands of one other
  thread, so that no address is joined, freed or reused twice;
- `ResultsAreFinal`: a result that was given is that of a thread that is done.

Most actions touch one thread or two and move no memory.  These are `Quiet`, and
`QuietKeeps` reduces them to what they do to `Tells` and `CallTells` of the threads
concerned; the rest (`PrimitiveJoin`, `PthreadJoin`, `AllocThread`, `LockCreate`, `Attach`,
`Detach` ...) have a lemma each with one step per conjunct.  The attempt to prove
`JoinsAreTrue` showed that `JOIN-THREAD` of a foreign thread had been modelled without
the `:FOREIGN` branch (`target-thread.lisp:2305`), and that of the caller itself without the
error (`:2291`); the model has both now.

**Only model-checked.**  Liveness (fairness and ENABLED are out of the prover's reach).
Modules with recursive operators (`HashTable`, `Bignum`, `Rational`, `Deadlock`,
`Hopscotch`, `Timer`, `Gencgc`, `MarkRegion`).  Properties that add up a number of
terms over a set or fold over one, which takes an induction over data (`Conservation`
of `Semaphore`, the accounts of `PageAlloc`).  `Safepoint`, `Finalizers`,
`SOList`, `PageAlloc` and `Arena` have no proofs.

## Not modelled

The map names about 9,300 of the 58,218 lines of C in the repository, 16.0 %, and about
9,330 lines of Lisp besides.  What is left out of the C runtime is listed in
`components` and below; the largest parts are the immobile space,
the Windows port, most of the signal handling, the loading of cores and the debugging
monitor.

- Builds without futexes, `NONSTOP_FOREIGN_CALL`, Windows, other collectors' platform
  code.
- `RELEASE-MUTEX` with `:IF-NOT-OWNER :FORCE`; an interrupt that unwinds a thread
  asleep in the reader/writer lock, which leaves its announcement behind
  (`rwlock.lisp:110`); the errors "Too many readers" (2^29 of them, `rwlock.lisp:92`) and
  "unlock without lock" (`:162`).
- Arenas: `NEW-ARENA`, `HIDE-ARENA`, `UNHIDE-ARENA` and `DESTROY-ARENA`, and more than one
  arena.
- the branch of `RESCHEDULE-TIMER` for a target thread that has died
  (`timer.lisp:325-327`); the join of the finalizer thread by `%EXIT-OTHER-THREADS` in
  `Threads` (`Finalizers` has the stop with its join).
- `ISQRT`; code objects and address-sensitive tables in `Gencgc`.
- The arithmetic on times and deadlines; memory order (sequential consistency is
  assumed, as the code puts barriers where it relies on order).
- FRLock, gate and mailbox of sb-concurrency; balanced trees and hash sets; `MAPHASH`
  and the wrappers of synchronized tables; `FINALIZERS-REINIT`; `target-lfhash`.
- The compiler, CLOS, streams, the reader and the printer: sequential code over large
  data, out of a model checker's reach.

## Plan

Done: the models and runs above, and the proofs listed.  What would come next:
1. `Safepoint`: `WorldIsStopped` and `NothingLeftArmed`, with an invariant that says
   which threads each phase count stands for;
2. `SOList`: the shape of the marked list;
3. `PageAlloc`: `NoOverlap`, from disjoint open regions and the page lock;
4. models of the immobile space and of the loading of cores, which the map does not
   reach.
