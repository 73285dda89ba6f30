# TLA+ models and proofs of the Operating Systems (234123) wet exercises

The repository holds four independent programs, each an answer to a course
exercise:

* **HW1** patches a Linux 2.4 kernel: a process can restrict which system calls
  another may use, and violations are logged.
* **HW2** patches the O(1) scheduler of the same kernel: a policy `SCHED_SHORT`.
* **HW3** is a C++ program: Conway's game of life on a pool of threads that are
  fed through a producer-consumer queue.
* **HW4** is a user-space `malloc`, `free` and `realloc` on top of `sbrk`.

This directory keeps a TLA+ specification beside each of them. Every definition
that models code is translated from the source; its file and lines are in `map`
of `PROJECT.json`. TLC checks each model on small instances. TLAPS proves, for
all sizes, every safety property of each of them: of the queue and the threaded game
that runs on it, the restrictions with their memory, the ring of logged violations,
the scheduler on one processor and the run queues of several with their locks, the
process tree, the credentials of processes and what they share, and both allocators.

## 1. Inventory

| Component | Source | State | Operations | Specified in |
|---|---|---|---|---|
| Producer-consumer queue | `HW3/PCQueue.hpp` | `std::queue`, one mutex, two condition variables, three counters | `push`, `pop` and their lock and unlock helpers | `PCQueue`, against `FifoQueue` |
| Life computation | `HW3/Life_Thread.cpp` 28-90, `Game.cpp` 125-136 | none (pure) | neighbour window, rule, cut of the board into jobs | `LifeThread`, against `Board` |
| Game and workers | `HW3/Game.cpp`, `Life_Thread.cpp`, `Thread.hpp`, `Job.cpp` | two matrices and the pointers to them, counter of finished jobs, `finished`, tile history, jobs, threads | `run`, `_init_game`, `_step`, `_destroy_game`, `thread_workload` | `Game`, against `Life` |
| System call restrictions | `HW1/.../hw1_syscalls.c`, `restrict.c`, `entry.S`, `fork.c`, `exit.c` | per task: level, list and its length, log and its length; kernel memory | `sc_restrict`, `set_proc_restriction`, `syscall_check`, `get_process_log` (its allocation and copy), fork, exit, `release_task` | `Restrict` |
| Log of violations | `restrict.c`, `hw1_syscalls.c` 70-121 | ring of 100 records, number of violations | `syscall_check`, `get_process_log` | `ProcessLog` |
| Process tree | `HW1/kernel/fork.c`, `exit.c`, `HW2/kernel/sys.c` 842-958 | task list with parents, groups, sessions, thread groups, tracers, status of stopped tasks; `last_pid`, `next_safe` | `get_pid`, `do_fork`, `do_exit`, `sys_wait4` with its reports of zombies and stopped children, `setpgid`, `setsid` | `ProcessTree` |
| Credentials | `HW2/kernel/sys.c` 374-806, `fork.c`, `HW1/kernel/exit.c` | per task four user and four group ids, capabilities, the user it is charged to; per user two counts | the set\*id calls, `prctl`, fork, exit, release, `reparent_to_init` | `Credentials` |
| Shared structures of tasks | `HW1/kernel/fork.c`, `exit.c`, `HW2/kernel/sched.c` 476-508 | per task pointers to files, file system context, signal handlers and memory; the counts in them; lazy TLB mode; the completion of `vfork` | `do_fork` with a failure at each copy, `do_exit`, `exec`, `daemonize`, `context_switch` | `Sharing`, composed with `Credentials` in `Process` |
| Scheduler | `HW2/kernel/sched.c`, `fork.c` | run queue: arrays `active`, `expired`, `short_pr` with bitmaps; per task policy, priorities, time | tick, `schedule`, wake-up, sleep, yield, nice, `setscheduler`, fork, exit, the queries about SHORT processes | `Sched` |
| Scheduler, several processors | `HW2/kernel/sched.c` | per processor a run queue and its lock, current task, migration queue; per task `cpu`, `cpus_allowed` | wake-up with fast migration, `load_balance`, `set_cpus_allowed`, migration threads, exit, `context_switch`, `wait_task_inactive` | `SchedSMP` |
| Allocator with reuse | `HW4/malloc_2.cpp` | list of blocks, statistics | `malloc`, `calloc`, `free`, `realloc` | `Malloc2`, against `Allocator` |
| Allocator with splitting | `HW4/malloc_3.cpp` | the same, blocks are split, merged and grown | `malloc`, `free`, `realloc`, split, connect, wilderness | `Malloc3`, against `Allocator` |
| Not modelled | see section 7 | | | |

How they interact. HW3: the main thread pushes `Job` pointers into the queue,
workers pop them, write one matrix and count themselves under `global_lock`;
the main thread spins on the counter, swaps the matrices and goes on. HW1: the
entry path of every system call asks `syscall_check` about the calling task;
lists and logs hang on the task structure, which `fork.c` creates and
`release_task` destroys. Fork and exit also give the same child its ids, its
charge to a user and its counts in what tasks share, in one sequence of steps
that can fail at each. HW2: the fork, exit and wake-up paths call into the
scheduler; system calls change a task's policy and priority while it is queued;
processors put tasks on each other's run queues and pull them off.
HW4 has a single caller and no concurrency.

What is hard:

* **HW3** – threads may be preempted anywhere; condition variables wake up
  spuriously; both `*_lock()` helpers return with the mutex *held*, so a queue
  designed as a readers-writers monitor runs as one critical section; the main
  thread reads the counter without the lock and runs ahead of the last worker.
* **HW1, HW2** – on one processor the kernel is not preempted: a handler
  is atomic but where it sleeps (`kmalloc(GFP_KERNEL)`, copies from and to user
  memory, waiting for a child). All the interleavings in the models come from
  these points and from timer ticks and wake-ups.
* **HW1** – ownership of the two arrays over fork, override, exit and release;
  allocations that fail; index arithmetic over a ring that turns.
* **Process tree** – pids wrap around and get reused while groups, sessions and
  half-made children still hold them; parents die in any order; a stopped child
  is reported to one parent and resumed by another.
* **Sharing** – a child starts as a byte copy of its parent, with all its
  pointers, and takes its own counts one copy after the other; a task without
  memory runs on the page tables of whoever ran before it.
* **HW2** – a queue, a bitmap and four fields of a task have to agree, through
  a dozen operations that move tasks by hand.
* **HW2 on several processors** – two locks at a time, one of which may have to
  be released to keep their order; fields of a task that others read unlocked.
* **Credentials** – capabilities follow from ids that five calls change, and
  what is allowed depends on saved ids set long before.
* **HW4** – merging and splitting with six statistics kept by increments, in
  unsigned arithmetic.

`hazards` of `PROJECT.json` lists each of these at its line, with the properties
that would notice it going wrong, or the reason why none does yet.

## 2. Modules

| Module | Kind | Extends or instantiates |
|---|---|---|
| `FifoQueue` | abstract: a FIFO queue, atomic `Push` and `Pop` | |
| `PCQueue` | the code's queue, a step at each point of preemption | `Fifo == INSTANCE FifoQueue` |
| `PCQueueProofs` | proofs | `PCQueue`, `TLAPS` |
| `Board` | reference: boards, neighbourhood, rule | |
| `LifeThread` | the code's operators on boards | `Board` |
| `Life` | abstract: the sequential game, a generation at a time | `LifeThread` |
| `Game` | main thread, workers, matrices, with the detailed queue | `pcq == INSTANCE PCQueue`, `Sequential == INSTANCE Life` |
| `GameProofs` | proofs, of `LifeThread` too | `Game`, `queue == INSTANCE PCQueueProofs` |
| `ProcessLog` | the ring of violations | |
| `Restrict` | restrictions and who owns memory | |
| `RestrictProofs` | proofs, of `ProcessLog` too | `Restrict` and `ProcessLog`, side by side |
| `ProcessTree`, `ProcessTreeProofs` | fork, exit, wait, groups and sessions; proofs | |
| `Sched`, `SchedProofs` | run queue and policies; proofs | |
| `SchedSMP`, `SchedSMPProofs` | several run queues: locks, wake-ups, balancing, migration; proofs | |
| `Credentials` | ids, capabilities, processes charged to users | |
| `Sharing` | what tasks share, with its counts; memory and its borrowers; `vfork` | |
| `Process` | the life of processes: one child, made by both modules | `Credentials`, `sharing == INSTANCE Sharing` |
| `ProcessProofs` | proofs, of `Credentials` and `Sharing` too | `Process` |
| `Allocator` | abstract: disjoint blocks, owned by a caller | |
| `AllocInfo` | what the two allocators define alike: blocks, statistics | `Contract == INSTANCE Allocator` |
| `Malloc2`, `Malloc3` | the two allocators | `AllocInfo` |
| `MallocProofs` | proofs, of both | `Malloc3`, `second == INSTANCE Malloc2` |
| `MC...` | the small instances that TLC runs | |

Operators with the comment `MUTANT` are no part of the specification. They are
wrong variants of the definition that follows them, named in `mutants` of
`PROJECT.json`; for each property there is one with which TLC finds the property
violated.

### How state and actions correspond to the code

**PCQueue.** `items` is the `std::queue`; the counters keep their names. A
condition variable is the set of threads asleep on it: `Signal` removes one, if
any, `Broadcast` all, and a thread that was removed must still take the mutex
(`Reacquire`) and test its `while` again. One action per point where another
thread can come in: taking the mutex, the test and the sleep, the access to the
queue, the unlock with its wake-ups. `SpuriousWakeup` is POSIX's.

**Game.** `main_pc` and `worker_pc` name the place in `run()` and
`thread_workload()`. A call of `push` or `pop` goes through every step of
`PCQueue` and has returned when `queue_pc` is `"idle"`. `finished_thread_counter++`
is a load and a store, so that a lost update could be seen. `Computed` and
`mats[curr_matrix]` are the refinement mapping to `Life`.

**Restrict.** The fields that HW1 added to `task_struct` are functions of the
task. Kernel memory is a set of `Blocks`, each free, uninitialised, a log or a
list. `sys_sc_restrict()` is cut at each allocation and at the copy
(`ScRestrictFree`, `ScRestrictList`, `ScRestrictLog`, `ScRestrictCopy`, and the
failures of the allocations). `policy` is history: the list that the last
successful call set, which `EnforcesPolicy` compares with what the check does.
`sys_get_process_log()` is `GetProcessLog` up to its `kmalloc`, `GetProcessLogCopy`
and `GetProcessLogReturn` around the copy to the caller; what the records say is
the business of `ProcessLog`. Nothing keeps other tasks off the target of a call that
sleeps: it runs, forks, exits and is called for again. `crossed` is history: a second
`sc_restrict()` met the first, or a task was released that a sleeping call works on.

**ProcessLog.** A record is the number of the violation that wrote it, so
"latest, oldest first" is a comparison of numbers. The two copying loops are
the operators `FirstLoop` and `SecondLoop`, with the arithmetic of the code.
`AskForLog` is `sys_get_process_log()` up to the allocation, `CopyLog` the rest of
it; `ring` and `logged` are `log_list` and `log_list_size` of one process, under
names that `Restrict`, which has those of all tasks, leaves free.

**ProcessTree.** A task structure is free, an embryo (copied at `fork.c:618`,
in no list yet), running, stopped or a zombie. `do_fork` is `ForkStart` up to
the copies that sleep, then `ForkLink` or `ForkFail`; `do_exit` is `ExitStart`
(line 511) and `ExitNotify`, with everything of `exit_notify()` in one step, in
the code's order (`Forgotten`, `OwnGroup`, `Released`, `Stayed`); `sys_wait4` is
`Wait4`, `Repeat` after a wake-up, and `Reap` or `Report` after the copies to the
caller. Of the status of a stopped task (`exit_code`) the model keeps whether it
is still to be reported, and whether the present parent was told (`notify_parent`).
Any number of threads of a group may be in `sys_wait4`; when one of them finds a zombie
that another has found and not yet released, `"shared"` in `excused` notes it, and
`released` notes the release of a task that is not a zombie any more.
`get_pid()` is `Found`: the quick path of line 103, or the scan as "the first
pid tried that no listed task uses". Signals and `ptrace`, which live outside
`src/`, are external actions.

**Sched.** `rq.arrays` holds the three arrays with `nr_active`, bitmap and
queues. Each function of `sched.c` is an operator on `[task, rq]`, with its
name, and the actions are the entry points. What is measured in time (the bonus
for sleeping, interactivity, starvation of the expired) is a free choice.

**SchedSMP.** `op[c]` is the place in the code where processor `c` is. A step
ends where a lock is awaited or data of other processors is read without one:
`load_balance()` is the choice of a queue, `TryLock`, `LockBusiest`, `LockThis`
and `Pull`; a migration thread's turn is `NextRequest`, `ChooseDest`,
`LockFirst`, `LockSecond`, `Move`. A processor that spins and holds no lock is
one that has not begun. Priorities are left open, but that a migration thread
runs first and idle last, and so are the former queue lengths that smooth the
balance. `need_resched` is kept for idle processors only: others may be
rescheduled at any time. A task of `Mortal` may exit: `schedule()` is cut between
the unlock and the switch when the previous task is a zombie (`Pick`, then
`ContextSwitch`), which is what `ReleaseTask` has to wait for (`Inactive`, `sched.c:326`).
`overtaken` and `unnoticed` are history (below).

**Credentials.** The fields of `task_struct` keep their names; a set\*id call is
one step, because the kernel is not preempted in it. `do_fork` charges the user
first (`ForkStart`), then sleeps, then links the child or fails. `reach` is
history: the ids that a process had when it lost its last capability. `capset()`
and `exec` are external, with the sets that they can leave.

**Sharing, Process.** `pc[t]` is the place of a task in `do_fork()` (the copy that
comes next), in `do_exit()`, or asleep in `vfork`. `ForkStart` is the byte copy of
line 618: the child is an `"embryo"` whose pointers are its parent's. `Copy`,
`CopyMm` and `CopyNamespace` give it its own structures or counts, each may fail,
and `ForkFail` runs from the label that belongs to the place reached (lines
803-822). `mms` holds `mm_users` and `mm_count`, `Switch` is `context_switch()` of
`sched.c` with the borrowing of page tables, `lazy` what `start_lazy_tlb()`
returned. `done[p]` is the completion on the stack of a parent in `vfork`,
`lender` is history: whose memory a child runs in. `Process` joins the steps of
both modules where the code has one function for both (`ForkStarts`, `ForkFails`,
`ForkLinks`, `Exits`, `Releases`, `Executes`); the child is the same variable.
Memory contents, descriptor tables and address spaces are not there.

**AllocInfo, Malloc2, Malloc3.** `heap` is a record: the list of blocks in address order,
`brk` and the statistics that the interface reports (`MetaDataBytes` is one of them;
the field `num_meta_data_bytes`, which nothing reads, is not there); `owned` maps the pointers that callers hold to the
sizes they asked for. Each function of the code is an operator from a heap to a
heap, an action is one call by the program. `Unsigned` chooses the arithmetic
of `size - req - sizeof(node)`.

## 3. Properties

The type invariant of each module is a conjunct of one of its properties
(`TilesByGeneration`, `OneOwner`, `PidsUnique`, `RunqueueConsistent`, `OnePlace`,
`InUseIsOwned`, `Tiling`, `MemoryCounted`) or a theorem (`PCQueue`, `ProcessLog`, `Credentials`).

| Property | What it says, and of what code |
|---|---|
| `PopNonEmpty` | no `front()` of an empty queue (`PCQueue.hpp:82`), although one broadcast wakes many |
| `NoLostWakeup` | nobody sleeps over an item, although `consumers_unlock()` passes no wake-up on |
| `ProducerNeverSleeps` | the condition wait of `push` is dead code: a producer waits for the mutex alone |
| `FifoSafety`, `FifoProgress`, `PushReturns` | `push` and `pop` are the atomic operations of `FifoQueue`; items do not rot; `push` returns |
| `RaceFree` | unlocked writes to the matrices go to disjoint lines of the one that nobody reads |
| `TilesByGeneration` | tile records stay in order of generation, although the main thread passes line 137, resets the counter and swaps the matrices before the last record is written |
| `CleanDestroy`, `Termination` | nothing is deleted under a thread's feet; `run()` returns |
| `ComputesAllGenerations` | the threaded program implements the sequential one: it computes whole generations, and all of them |
| `OneOwner` | lists and logs are not freed twice, not read, written or copied from when freed, not leaked, not shared; the buffer of a query neither. While a `sc_restrict()` sleeps its target may do anything but be called for again or be released |
| `EnforcesPolicy` | what the check forbids follows from the last list set and the level alone |
| `LatestInDomain`, `RecordsAreInLog` | `get_process_log` answers the latest records, in the domain where its arithmetic fits; never memory that no violation wrote |
| `ParentsLive` | both parents of every task are alive, in whatever order its relatives died |
| `PidsUnique`, `GroupsInSessions` | the wrap-around of pids gives no id to two tasks; a group is in one session |
| `ReleasedOnce`, `NoChildMissed` | tracer, real parent, init and reapers release a zombie once between them, whatever sleeps between the search and the release, but for threads of one group that found it both; no waiter sleeps while there is a zombie for it, or a stopped child of whose stop it was told |
| `NoJobLeftStopped` | an exit that orphans a process group wakes its stopped members |
| `RunqueueConsistent` | queues, bitmaps, counters and task fields agree (`QueuesCounted`); the array follows from the policy (`ArraysByPolicy`) |
| `PreemptionPending` | `schedule()` picks the best task by class and level; a task better than the current one waits only with a reschedule pending |
| `ShortIsOneWay` | a SHORT process gets no more time, keeps its policy until its time is up, and SHORT is entered by OTHER processes only |
| `PlaceIsExact` | `short_place_in_queue()` answers how many will run before the process it is asked about |
| `OnePlace` | whichever processor moves it, a task is on one queue and on one processor, and the lengths of the queues are right; a task that was released is on none, its stack not in use |
| `NoDeadlock` | no processors wait for each other's locks in a circle, nor one for its own |
| `AffinityKept` | a task on a processor that it does not allow has a request to move it under way |
| `NobodyForgotten` | a migration thread with requests, and an idle processor with tasks, are awake or about to be woken |
| `PowerlessWithoutRoot` | without a root id among the three there are no capabilities and no root's access to files, after any order of calls |
| `IdsWithinReach` | a process without capabilities gets only ids that it had when it lost them, until it executes a set-id program |
| `ChargesExact` | a user is charged for exactly its processes, through failed forks, changes of user and releases |
| `SharingExact` | files, file system context and handlers are freed with their last user and not before, wherever a fork failed; who lives has all three |
| `MemoryCounted` | a task runs in its own memory or on page tables borrowed from memory that is not freed, zombies and daemons included; memory goes with its last user |
| `VforkHandshake` | the completion that a child holds is on the stack of a parent that waits; a parent waits for one live child or was told, and does not run while the child is in its memory |
| `Tiling`, `OwnedIntact` | the list tiles the memory, free neighbours are merged, the six statistics are what a walk over the list would give, callers keep their bytes |
| `InUseIsOwned` | the same of `malloc_2.cpp`: exact statistics, and no block is lost; blocks and the bytes reported for nodes make up what `sbrk()` gave |
| `ImplementsAllocator` | callers see disjoint blocks that are large enough and keep their place |

## 4. Runs

Twelve runs, eleven of which pass and one of which shows a disagreement between
the code and what its tests say. Times are of two workers.

| Run | Instance | Why this is enough |
|---|---|---|
| `pcqueue` | 1 producer, 3 consumers, 2 items, queue of at most 2 | the program has one producer (`PushReturns` and `ProducerNeverSleeps` use that for the condition variables only); three consumers make a broadcast wake more threads than there are items; 55,776 states |
| `game` | 2 workers, 3x3 boards, 2 generations, 3 initial boards | 3 lines over 2 workers leave the last job a rest of 2 lines; two generations are needed for a worker that is late by one; the boards change each line, so a line from the wrong matrix shows; 112,266 states |
| `process_log` | ring of 4, 14 violations | three turns of the ring, all sizes asked for |
| `process_log_latest` | the same | expected violation, see below |
| `restrict` | 2 tasks, 4 blocks, 2 system calls, 3 lists, 1 record per query, allocations may fail | two tasks restrict and query each other, zombies, and themselves, also while a call on them sleeps; 4 blocks is all that two tasks can own, so a leak or a query comes to the end of memory; `CONSTRAINT` stops after an allocation that left a dangling pointer and after two calls that met (see section 6), `VIEW` leaves out what free slots hold. A release during a call takes a third task, so only the proof meets it; 1.4 million states, 90 seconds |
| `process_tree` | 3 task structures, 3 pids of which 2 were used before, 5 forks | pids wrap around from the second fork on, more than once, and get reused; a pid is free while two tasks live, unless it is the id of a group or session; traced threads, siblings (`CLONE_PARENT`) and tracers; one wait for anything that also asks for stopped children, one for the own group that does not sleep; two threads of a group find one zombie, and `CONSTRAINT` stops there, as after the other exceptions; 548,000 states, 1 minute. With 4 pids and 4 forks (1.9 million states) TLC finds no error either |
| `process_jobs` | 4 task structures, 3 forks, threads, no tracing | a session leader, a group with two members and its stopped child: four tasks are the least for an orphaned stopped job; 682,000 states, 3 minutes |
| `sched` | 3 tasks; RR, SHORT and OTHER; two SHORT levels; slices of 1 tick | two tasks behind the current one, so order in a queue and emptiness of a level matter, and all policies can be present at once. FIFO tasks differ from RR ones in `TickRt` only, where they do nothing. `VIEW` leaves out `first_time_slice`, which has no effect on slices of one tick. There is no bonus; with `MaxBonus = 1` (1.4 million states) TLC finds no error either, and the theorems are about any; 584,000 states, 1 minute |
| `sched_smp` | 2 processors, 3 tasks (one SHORT, which is never balanced), 2 callers of `set_cpus_allowed()` | two tasks of one queue can be moved by two parties, one call can overtake another, and a request can wait behind one; one task may exit, and be released by another processor; 6.3 million states, 2.5 minutes. Without exits and with 3 processors, 2 tasks and one caller (2 million states) TLC finds no error either |
| `credentials` | 3 tasks, 3 structures of each kind, 3 sets of clone flags; 2 user and 2 group ids, 4 capabilities, a limit of 1 process | `Process` as a whole. Three structures let a child, a sibling and a borrower have one each, and run out when they are leaked; the sets of flags share and copy each kind, with `vfork` and a new namespace. Root and one other id are what the tests of the code tell apart; one capability of each kind that the code names. Credentials change while nothing is shared (`MCNext`); with two tasks an id changes as a whole, and behaviours end at a miscount or at a second leak (`Bounds`); 310,000 states, 90 seconds |
| `malloc_2` | heap of 21 bytes, nodes of 2 | up to seven blocks |
| `malloc_3` | heap of 48 bytes, nodes of 4, sizes that need alignment, that split and that do not | a block can have free and used neighbours on both sides, at the head, inside and at the end |

Deadlock is checked but in `process_log`, where the model stops when its bound of
violations is reached. `SYMMETRY` is used with safety properties only.
`NothingExcused`, `NothingDangles` and `Bounds` are state constraints that
stop behind the states of which the properties claim nothing, or that the bounds
leave out.

### What the runs found

* `process_log_latest`: once the ring has turned, a request for fewer records
  than were logged since its last turn is answered from slot 0 on, not with the
  latest (`hw1_syscalls.c:96`). `Tests/test-tamuz.c:456-464` expects the latest.

Seen while modelling, and excluded from the properties instead of shown by a run:

* `size_of_allocation - req_size - sizeof(node)` is unsigned on x86-64; a free
  block that fits, with no room for another node, is split all the same and the
  new node is written over the block behind it (`malloc_3.cpp:236`). With
  `Unsigned = TRUE` in `MCMalloc3.cfg`, TLC reaches `heap.overrun = "search"`.
  The run has `FALSE`, the arithmetic of i386, where the difference is signed.
* A migration thread reads `cpus_allowed` without a lock (`sched.c:1899`): a
  second `set_cpus_allowed()` before line 1906 leaves the task on a processor
  that it does not allow, against the comment of lines 1803-1806. `AffinityKept`
  excepts such tasks (`overtaken`); without the exception TLC shows it.
* A migration thread activates the task on the other processor and reschedules
  nobody there (`sched.c:1914-1917`): an idle processor goes on idling until
  something else wakes it. `NobodyForgotten` excepts it (`unnoticed`).
* `reparent_to_init()` makes a thread one of root's without moving the count of
  its user's processes (`exit.c:174`): `miscounted`.
* The comment `sys.c:484` says that with `keep_capabilities` both sets are kept;
  lines 501-503 clear the effective one.
* `set_user_nice()` compares the new priority with `static_prio`, which it has
  just set to it (`sched.c:1131`): raising the priority of a waiting task causes
  no reschedule. `setscheduler()` requests one for SHORT only. `excused` in
  `Sched` notes both, and `PreemptionPending` does not speak of them.
* When `get_pid()` finds no pid it leaves `next_safe` behind, and the next call
  returns a pid without looking (`fork.c:138`): `excused = "exhausted"`.
* Two forks in flight can get one pid after a wrap (`fork.c:662`): `"unseen"`.
* A `setpgid` on a task in a call is not seen by its child in the making, nor by
  a `wait4` that sleeps: `"moved"`.
* An exit gives the children that it leaves `SIGCHLD` as their signal
  (`exit.c:235-242`): a tracer that waits for such children only is not told of a
  thread that is a zombie already: `"retyped"`.
* `wait4` writes 0 to `exit_code` of a stopped child after the copies to the
  caller (`exit.c:624`): when the child went on and stopped again in between, the
  second stop is never reported. No property speaks of it: `NoChildMissed` is about
  children whose `exit_code` is set.
* A tracer exits while another thread of its group, which found a zombie of the
  tracer's, sleeps in the copies of `exit.c:633-636`: `exit_notify()` gives the
  zombie to its own parent (line 473) and notifies it (line 478). When that parent
  is in another group, it finds the zombie too, and both release it: `"handed"`. The
  proof of `ReleasedOnce` needs this exception; four tasks are the least for it,
  which is more than the run `process_tree` has.
* Stopped children that get a new parent (an exit, the end of tracing) or a new
  group are not announced: a waiter may sleep although it could report them.
  `NoChildMissed` speaks of those whose parent was told (`exit_code`).
* A fork that fails after `copy_mm()` calls `exit_mm(p)` for the child
  (`fork.c:806`), and `mm_release()` in it completes the `vfork_done` of the
  *current* task: a vfork child whose own fork fails lets its parent run while it
  is still in its memory. `early` in `Sharing`.
* The same `exit_mm(p)` takes an `mm_count` for a child that will never be
  switched away from, so the `mm_struct` is never freed: `leaked`.
* `sys_get_process_log()` goes on with `curr` after a `kmalloc()` that sleeps; a
  task reaped meanwhile is read when freed (`hw1_syscalls.c:91`): `crossed`.
* `sc_restrict()` frees the old list and sleeps in the allocation of the new one
  (`hw1_syscalls.c:31-33`). A system call of the target reads the freed list meanwhile,
  and a second `sc_restrict()` on the target frees it again, or frees a list that the
  first is about to write: `MemorySafe` allows the one, `crossed` notes the other.
* Two threads of a group in `wait4` can find one zombie and both release it
  (`exit.c:631` drops the lock that line 646 would need): `"shared"`. TLC shows it with
  `ReleasedOnce` when the exception and the `CONSTRAINT` are taken out.
* A request above 100 records passes the check once more than 100 violations
  were logged (`hw1_syscalls.c:87`); the index is then negative.
* A reused block whose first word is -1 is lost (`malloc_3.cpp:278`).
* `nr_threads` is compared at `fork.c:649` and incremented at the link, after
  sleeps; the comment of lines 644-648 relies on the kernel lock.

## 5. Fairness

Only HW3 has liveness properties. `PCQueue!Fairness` and `Game!Fairness` give
weak fairness to each *thread*: a thread that can run for ever is run, which the
operating system's scheduler does. Taking a mutex is no more than weakly fair,
because a pthread mutex is not promised to a particular waiter; nothing is
strongly fair. No fairness is assumed of the producer starting a push. Spurious
wake-ups stop at some time: POSIX allows them, no implementation produces them
for ever. Under that, `PushReturns` and `Termination` are not consequences of
fair locking but of the protocol: consumers that find the queue empty go to
sleep and leave the mutex alone.

The kernel models state no liveness: HW2's SHORT processes may starve OTHER ones
by the policy's definition, and the time that a sleeping handler takes is not
bounded.

## 6. Proofs

All theorems are proved from the named assumptions on constants that stand in
the modules (`NThreadAssumption`, `NamesAssumption`, `JobsAssumption`,
`GenerationsAssumption`, `SizeAssumption`, `MetaAssumption`, `RequestsAssumption`,
`RemainAssumption`, `HeapAssumption`, `CapacityAssumption`, and those of `Restrict`, `Credentials`, `Sharing`, `Sched` and `SchedSMP`: the sets
are finite where they are counted, processors are numbered, and the names `None`,
`Free` and `Idle` name nothing else; in `Sched` priorities are numbers, real-time ones
below the others, and what users may ask for is in range), which the code justifies and TLC evaluates
in the runs. Those of `Sharing` are assumed of `Process` under the name
`SharingAssumption`; those of `PCQueue` are definitions, hypotheses of its theorems,
and `QueueConstants` shows them of the threads and jobs of `Game`.

**PCQueueProofs**, for any sets of producers, consumers and items. The
inductive invariant is

    IInv == TypeOK /\ LockOwner /\ ExactCounters
            /\ ProducerNeverSleeps /\ PopNonEmpty /\ NoLostWakeup

`LockOwner` (a thread is between lock and unlock iff it holds the mutex) makes
the counters exact (`ExactCounters`: each is 1 or 0, by the place of the
holder), and exact counters say that a producer which tests the condition finds
nobody inside; without either, none of the three properties is inductive. One
lemma per action shows that it keeps `IInv`. `TypeCorrect`, `FrontIsDefined`,
`WakeupsSuffice` and `PushWaitsForMutexOnly` follow, and `ImplementsFifo` shows
with `IInv` that `PushItem` and `PopItem` are the steps of `FifoQueue` and every
other action is a stutter.

**GameProofs**, for boards of any size. `ClampedWindow`: the window that lines
34-45 of `Life_Thread.cpp` compute is the neighbourhood, on boards one cell wide
too. `WorkersComputeLife`: the line that a worker computes is that line of the
next generation, on every board. `StepPartition`: for every number of threads up to the number
of lines, the jobs of a generation are disjoint, not empty, and leave no line
out.

For any number of threads and generations, too, and any set of boards in the
input file, `Invariant` proves

    IInv == Shapes /\ Queue /\ Phases /\ Places /\ Expected
            /\ Apart /\ Counted /\ Tiles /\ LinesLeft

`Queue` is the invariant of `PCQueueProofs`, whose lemmas are used of the instance
that the game runs on (`QueueKept`). `Phases` and `Places` tie the main thread's place
to its variables and to where the workers are, and say who holds `global_lock`. The
rest follows a job on its way: it is `Offered` in `arg`, `Queued`, and then a worker
`Holds` it until it is counted; `AtLarge` is any of these. `Expected`: at large are
jobs of this generation only, or nullptrs only. `Apart`: each is at one place.
`Counted` is the heart: counted jobs and jobs at large together are those that were
pushed, so that the count of line 137, which the main thread reads without a lock,
says that no job is about (`NobodyBusy`); the increment, a load and a store, loses
nothing because `Places` gives the lock to one worker. `Tiles` relates the length of
the history to the generation and the counter, with one record outstanding while a
worker is between its count and its record. `LinesLeft`: a line of the next matrix is
computed, or its job is still to be pushed, or is about with the line ahead of it.
`MainMoves` and `WorkerMoves` say of every step what it does to the places of the
items (nothing, or one of `Puts`, `Enqueues`, `Takes`, `Drops`); then there is a lemma
per part. `MatricesNeedNoLock`, `HistoryInOrder` (with the type invariant),
`NothingInUse` follow, and `ImplementsLife`: every step of the threaded game is a step
of the sequential one or leaves its board alone. A swap is a step because nobody
computes then, so that `LinesLeft` makes every line one of the next generation
(`WholeGeneration`, with `LineOfSuccessor`).

**RestrictProofs**, for any tasks, blocks of memory, system calls and lists, any bound
on the records of a query, and wherever allocations fail. `Invariant` proves

    Base  == Shapes /\ Places /\ Stages
    Sound == Intact => Base /\ Owned /\ Contents

without a hypothesis on the calls, where `Intact` is `~dangling /\ ~crossed`, and the
types (`Shapes`) and `Callers` for all behaviours. `Places`: a task is the
target of one `sc_restrict()` at a time and exists; a task whose log is asked for
exists and has the records: what `crossed` would break. `Stages` says which blocks the steps of a call have got
already. `Owned` is `OneOwner` said pointer by pointer (`Points`): no block has two,
and the blocks in use are those that have one. A step allocates to a field that
pointed nowhere, frees blocks with all that points to them, or moves no pointer;
`OwnMore`, `OwnLess` and `OwnSame` treat these three kinds, so that what is left to
say of a step is which pointers it moves. `Contents`: a log is a log and, while no
`sc_restrict()` on it is under way, a task's list is the one last set, with its
length, or it has none; so a check never reads memory that holds something else.
All are claimed until an allocation leaves a dangling pointer or two calls meet, as the
properties are (`IntactBefore`: once lost, `Intact` does not come back). `PointersCounted` turns owners into the cardinalities of `OneOwner`, and
`MemoryHasOneOwner` and `PolicyIsEnforced` follow.

The end of the module is about `ProcessLog`, for any size of the ring and number of
violations. `LogIInv == LogTypeOK /\ Ring /\ LatestInDomain /\ RecordsAreInLog`, where
`Ring` says that each of the last violations is in its slot. `SlotDivision`,
`SlotOfSum` and `SlotsDiffer` are the facts about remainders that the solver has to be
given; `CopyUnwrapped`, `CopyWrapped` and `CopyFromStart` compute the two loops in the
three cases of the index. `AnswersAreLatest` and `AnswersAreRecords` follow.

**ProcessProofs** has the proofs about `Credentials` first, for any sets of tasks
(finite), ids and capabilities and any limit. `Invariant` proves

    IInv == TypeOK /\ Powerless /\ Reached

where `Powerless` and `Reached` are `PowerlessWithoutRoot` and `IdsWithinReach`
said of every task structure, the unused ones too, and with the step that they
lack: whoever has `keep_capabilities` set is already excepted. `SetUidsKeeps` and `SetGidsKeeps` treat the part that the set\*id calls
share, `ReachCovers` and `OneTaskChanges` what every change of one task does to
the history; then there is one lemma per action. `RightsFollowIds` and
`DroppedForGood` follow. `UsersCharged`
proves `ChargesExact` with

    CInv == IInv /\ Links /\ (~miscounted => Exact)

`Links` (of the parents in `Credentials`) says that an embryo has one parent, which is in `do_fork()`: without it,
`ForkFail` could discharge the wrong user. That is all about counting finite
sets, with the theorems of `FiniteSetTheorems`. 
The second part is about `Sharing`, as the instance `sharing` of `Process`, for any
finite set of tasks, any structures and any sets of clone flags. `SharingInvariant`
proves

    SharingIInv == Shapes /\ ForkLinked /\ Fields /\ Vfork /\ Structures /\ Memory

`Shapes` is the type invariant but for the counts, which it allows to be negative:
that none is, is a result. `ForkLinked` (an embryo has one parent, which is in
`do_fork()` for it) says whose copies a child will get or give back, `Fields` what a
task has by the place where it is. `Vfork` is `VforkHandshake` read from both ends:
who is in `vfork` and was not told has a live child that holds its completion, and
two children never hold the same. `Structures` counts only those pointers of an
embryo that were copied already (`Counts`); the rest are its parent's, byte for
byte. That is what makes the order of the labels of lines 803-822 matter: without
it, `ForkFail` would have nothing to say how much to give back. `Memory` rests on
one observation: a task without memory has page tables only while it is current,
so memory has no borrowers or one. There is a lemma per part and action where an
action can disturb the part, and `OneUserLess`, `CountersChange` and the lemmas on
cardinalities treat the counting. `HandshakeHolds`, `SharedIsCounted` and
`MemoryIsCounted` (with the type invariant) follow.

The last part is the composition. `ImplementsCredentials` and `ImplementsSharing`: every step of
`Process` is a step of `Credentials` or leaves it alone, and a step of `Sharing` or
leaves that alone. So what is proved of either holds of whole processes, of vfork
children that change ids and of forks that fail in any of their copies or at the
limit of the user: `RightsFollowIdsInProcess`, `DroppedForGoodInProcess`,
`UsersChargedInProcess`, `HandshakeInProcess`, `SharingInProcess` and
`MemoryInProcess`.

**SchedProofs**, for any finite set of tasks, any priorities, SHORT levels, bonuses
and time slices. `QueuesStaySane` proves

    IInv == Queues /\ CurrentOk /\ (~need_resched /\ ~calling => FirstIn
                                    /\ (excused = "no" => BestIn))

where `Queues` has three parts. `Sane`: each of the three arrays `Holds` the tasks
that name it, which is to say that each of its lists has no task twice and has those
of its level, that the bitmap has the levels whose list is not empty, and that
`nr_active` is their number. `Count`: `nr_running` is the number of queued tasks.
`TaskOk` says of a task what its fields have to do with each other: the array follows
from the policy, and who is not running is queued only while it is current and on its way into
`schedule()`. In the middle of a function one task is out of its list but still names
it; `Sane(S, out)` has the set of these as a parameter, so the lemmas compose the way
the functions do: `dequeue_task` takes a task out of `Sane(S, {})` into
`Sane(S, {t})`, its fields are changed, `enqueue_task` brings it back.
`activate_task`, `deactivate_task`, `requeue` of a tick, `setscheduler` and the two
branches of yield are made of these.

`BestIn` is what preemption is about, and it is claimed of every task, by class and
level; `FirstIn` (a SHORT process that runs is the first of the first list) is what
makes the answer 0 of `short_place_in_queue()` to the caller right. Neither holds in
between: a wake-up, a tick or a yield breaks it and sets `need_resched`, so there is
a lemma for each action that says which of the two it does, and one for `schedule()`
(`BestIn` from the first bits of the bitmaps, in the order of lines 908-921) that
restores both. `RunqueueStaysConsistent`, `BestTaskRuns` and `ShortOnlyExpires`
follow. For `PlaceStaysExact` the walk of lines 2103-2112, a sum over the levels, is
the cardinality of a union of disjoint sets (`WalkAdds`): the tasks ahead of the one
asked for, level by level (`SeenIs`). The sum is a fold over a set, whose order is
not known, as in `MallocProofs`.

The attempt to prove `BestTaskRuns` failed for a reason, and corrected the model: the
exception for `set_user_nice()` compared the new priority with the old `static_prio`.
With a bonus the effective priority is lower than that, and a change that looks like
a loss of priority can be a gain; the task then waits, better than the current one,
with no reschedule. The missing one of line 1131 is wider than it seems from the
static priorities; `excused` now compares with the priority that the task had. (The run
has no bonus; TLC shows the counterexample with `MaxBonus = 1` and the old condition.)

**SchedSMPProofs**, for any finite sets of processors and tasks, any masks, and
any of the tasks SHORT, mortal or the target of `set_cpus_allowed()`. `Invariance`
proves

    IInv == Shapes /\ Counted /\ Locks /\ Places /\ Affinity /\ Noticed /\ Answered

`Locks` is `LockHeld` (the locks of a processor are those that its place in the
code says, `Holds`) and `InOrder` (who waits for a lock holds none of a higher
number; the balancer that finds itself the higher one has let go of its own).
`LocksInOrder` follows for circles of any length: the owner of the last of the locks
in a circle would wait for a lock behind it. `Counted` is
`nr_running`; `Places` is `OnePlace` with what its induction needs of tasks that
exit (`Zombies`: a zombie is on a queue only until `schedule()` has the lock, and
between the unlock and the switch nobody releases it) and of migration threads
(`OwnThread`). `Affinity` adds to `AffinityKept` that the processor a migration
thread has chosen, and read without a lock, is allowed unless the call was
overtaken. `Noticed` and `Answered` are the two halves of `NobodyForgotten`:
`Answered` has the third possibility, that the wake-up is on its way on some other
processor. `TasksAtOnePlace`, `AffinityHolds` and `NothingForgotten` follow.

**ProcessTreeProofs**, for any number of tasks, any range of pids, any bound on
forks and any sets of flags and of calls. There is one invariant per property, each
inductive with those before it:

    Base     == Shapes /\ Places /\ Forking /\ Fathered
    IdsKnown, Sessions                        (pids, groups and sessions)
    Caught, Heard                             (sys_wait4())

`Base` has the types, that who is in the kernel runs, that every embryo is the child
of one call, and that both parents of every task live; `exit_notify()` keeps the last
because a reaper is a thread that is not dying, or init. `IdsKnown` says what
`next_safe` is worth: no id in use, of an embryo either, lies between `last_pid` and
`next_safe`, as long as none of the two faults of `get_pid()` has come about.
With `FoundPid` (what the scan answers, from the least element of a set of numbers)
`PidsUnique` follows. `Sessions` extends `GroupsInSessions` to embryos, whose group
is a copy, and to the group that a task's pid names before it exists. `Caught`: what a caller
has found and will release is still a zombie, of a parent in the caller's group, and
nobody else has found it; it says so until a zombie was handed away or found twice
(`"handed"`, `"shared"`), and needs nothing about how many threads wait.
`Heard` is `NoChildMissed` said of each waiter and each child.

The actions fall into a few kinds, so that no invariant is proved action by action
where it need not be: there is an *effect lemma* for each action (which tasks it
changes and how, field by field), the steps that are `Quiet` (no ids change) and
`Calm` (no zombie, parent or stop appears), and only the rest is treated apart.
`ExitEffect` is the heart: it sums up `Forgotten`, `Continued`, `Released` and the
rest of `exit_notify()`, each with a lemma of its own, as a relation (`ExitOf`)
between the record of a task before and after. `ParentsAreAlive`, `PidsAreUnique`,
`GroupsAreInSessions`, `ZombiesAreReleasedOnce` and `NoChildIsMissed` follow. `OrphanedJobsAreWoken`
is the action property `NoJobLeftStopped`: a group that lost its last connection
lost it through the parent of a child that moved or through the exiting task
itself, and these are the two cases (lines 411-430 and 486-497) that the code tests.

The work on these proofs corrected the model twice: `"handed"` above was missing, and the
exceptions of `GroupsInSessions` and `NoChildMissed` were wider than they have to be.

**MallocProofs**, for a node, a heap and requests of any size. The sums of the
statistics come first: `BytesOf` is a fold over a set, which takes its elements in an
order that nobody knows, and `AnyOrder` shows that every order gives the same
(there is a function that satisfies the equation of the fold, and no second one).
`Totals` states the three statistics of a set of blocks, and `TotalsLess`, `TotalsMore`
and `TotalsSwap` how they change with one block. Then the list: `Laid` is the tiling of
`Tiled`, with the consequence that the induction needs, that any two blocks are in
order and apart, and there is a lemma for each way in which a list changes
(`LaidSwapped`, `LaidJoined`, `LaidCut`, `LaidGrown`, `LaidAppended`). A heap is `Sound` when its
list is laid out and its numbers are the totals. `SetFree`, `SetUsed`, `connect`, `split`,
`wilderness` and `append` keep a heap sound, and the lemmas say what becomes of the
blocks in use, `Used`. The invariant of `malloc_3.cpp` is

    IInv == first_alloc \in BOOLEAN /\ Counted(owned)
            /\ (heap.overrun = "no" => Intact(heap, owned)
                                       /\ (first_alloc <=> Len(heap.list) = 0))
    Intact(h, o) == Sound(h) /\ Merged(h.list) /\ h.brk <= HeapLimit
                    /\ Keeps(Used(h.list), o)

with `Merged` (no two free neighbours) and `Keeps` (every pointer that a caller holds
is the start of a block in use with the bytes asked for). `MergedBut` says where
free neighbours may be in the middle of a call: beside the block that was freed or cut
off last, which is why one call of `checkIfFreeAndConnect()` is enough.
`SoundUntilOverrun` holds of the arithmetic of both targets: until a block is split
that has no room for a node, `Tiling` and `OwnedIntact` hold. With signed differences
(`~Unsigned`) no block is (`NoOverrun`), and `HeapTiles`, `CallersKeepTheirs` and
`Malloc3Allocates` (the refinement of `Allocator`) follow.

The heap of `malloc_2.cpp` is seen as one of `malloc_3.cpp` (`As3`) that has no overrun,
so the lemmas on lists and sums serve again. Its invariant `IInv2` is stronger
where the code is simpler: nothing is lost, so the blocks in use *are* what callers
hold (`Owns`, not `Keeps`), and nodes are never given back (`Nodes`). The step to mind is `ReallocMove`, which frees the old block
by its place after `malloc()` may have changed the list; `Gives2` says that the blocks
in use stay in their places. `InUseIsHeld` and `Malloc2Allocates` follow.

Only model-checked: all liveness and fairness (`PushReturns`, `FifoProgress`,
`Termination`, that `ComputesAllGenerations` comes to an end), which is out of the
prover's reach. The safety part of `ComputesAllGenerations` is `ImplementsLife`.
Every other property of the passing runs is a theorem.

Exceptions that limit what is claimed. The model takes the steps in question, as the code
does; the properties say nothing after them. In `Restrict`: what a failed allocation
leaves behind (`unset` for the task concerned, `dangling` for all), and two calls that
meet on one task (`crossed`). `MemorySafe` allows a system call of a task to read a
list that is not its own while another's `sc_restrict()` on it sleeps. In `ProcessTree`:
the members of `excused`, each where a property names it, and all that follows the
release of a task that is no zombie (`~released`; `ReleasedOnce` says when that can
happen). In `SchedSMP`, `Sharing` and `Sched`: `overtaken`, `unnoticed`, `leaked`,
`early`, `excused`, in `Credentials` `miscounted`, each described in section 4. Only
`overtaken` goes against a comment of the code; of the others no comment and no test
speaks. `init` is a program that only forks and waits.

## 7. Not modelled

* `HW4/malloc_1.cpp`: a size check and one `sbrk`, without state. In the other two
  allocators an `sbrk` that fails ends the program: the code reads through -1.
* `HW3/Semaphore.*`: nothing uses it, and its second constructor makes a temporary
  (`Semaphore.cpp:13`) and leaves mutex and condition uninitialised, so that there
  is no defined behaviour to model. `utils.*`, printing and timing. The size
  counter of the queue (`PCQueue.hpp:115-136`), which nothing calls.
* `fork.c`, `exit.c`: the contents of what is copied (address spaces, descriptor
  tables), accounting, and `copy_thread()`, which cannot fail.
* `sched.c`: the sleep average, wait queues, `kick_if_running`, the start of the
  migration threads, and what priorities and time slices do on several processors.
* `sys.c`: groups lists, priorities (`setpriority`, `getpriority`), resource
  limits, reboot, host names, `mm->dumpable`.
* `entry.S` beyond the check of restrictions: saving of registers and the
  tables; `Makefile`s, archives, and `Tests/`, which are programs that use the
  system calls and serve as statements of what is expected.

## 8. Plan

Done: the queue, the game, the restrictions and their log, the process tree with
its stops and tracers, the scheduler on one and on several processors, the life of
processes (credentials and what they share), and both allocators.

Next, in this order:

1. The time slices of parent and child over fork and exit (`fork.c:738-754`,
   `sched.c:443-468`): what is handed out is what is collected.
2. The slack behind `to_usr` that the second loop of `sys_get_process_log()`
   writes to, and wait queues and completions of `sched.c` step by step.
3. An abstract specification of the scheduler (a bag of runnable tasks per
   processor) that `SchedSMP` implements.
