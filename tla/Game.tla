--------------------------------- MODULE Game ---------------------------------
(***************************************************************************)
(* The game of HW3: the main thread (Game::run, HW3/Game.cpp), the pool of *)
(* worker threads (Life_Thread::thread_workload), the PCQueue of jobs that *)
(* connects them, the two matrices, the counter of finished jobs and the   *)
(* tile history.  The queue is the detailed one: a call of push() or pop() *)
(* is a PushCall or PopCall of PCQueue, it runs through PCQueue's steps    *)
(* and has returned when the caller's queue_pc is "idle" again.            *)
(***************************************************************************)
EXTENDS LifeThread, Sequences

CONSTANTS Generations,    \* params.n_gen
          InitialBoards,  \* the boards the input file may hold
          NThread,    \* params.n_thread
          Main,       \* the thread that runs Game::run()
          NullJob,    \* the nullptr that wakes the workers at the end
          NoItem, NoThread

ASSUME NThreadAssumption == NThread \in Nat \ {0}
ASSUME GenerationsAssumption == Generations \in Nat /\ InitialBoards \subseteq Boards

(* m_thread_num: "Effective number of threads" (Game.cpp:105).             *)
ThreadNum == IF Height <= NThread THEN Height ELSE NThread

Workers == 0 .. ThreadNum - 1

ASSUME NamesAssumption == /\ Main \notin Workers
                          /\ NoThread \notin Workers \cup {Main}

Matrices == {0, 1}

(* A Job: pointers to two matrices and a run of lines. *)
Jobs == [current_matrix : Matrices, next_matrix : Matrices,
         starting_line : Lines, ending_line : Lines]

ASSUME JobsAssumption == {NullJob, NoItem} \cap Jobs = {} /\ NullJob # NoItem

VARIABLES
    \* the queue
    items, consumers_inside, producers_inside, producers_waiting, queue_lock,
    approve_to_write, approve_to_read, queue_pc, arg, temp_item,
    \* the main thread
    main_pc,         \* where it is in run()
    i,               \* its loop counter: threads, pushes or joins so far
    gen,             \* the generation loop of run()
    \* shared by all threads
    mats,            \* the contents of the two matrices
    curr_matrix,     \* which of them curr_matrix points to
    finished, finished_thread_counter, global_lock,
    tile_hist,       \* for each record the worker and, for the properties,
                     \* the matrix that its tile was computed from
    live_jobs,       \* Job objects allocated and not deleted
    \* the workers
    worker_pc, line, count

queue_vars == <<items, consumers_inside, producers_inside, producers_waiting,
                queue_lock, approve_to_write, approve_to_read, queue_pc, arg,
                temp_item>>
main_vars == <<main_pc, i, gen>>
worker_vars == <<worker_pc, line, count>>
heap_vars == <<mats, curr_matrix, finished, tile_hist, live_jobs>>
vars == <<queue_vars, main_vars, worker_vars, heap_vars,
          finished_thread_counter, global_lock>>

(* The one producer is the main thread, the consumers are the workers.     *)
pcq == INSTANCE PCQueue WITH
           Producers <- {Main}, Consumers <- Workers,
           Items <- Jobs \cup {NullJob}, QueueBound <- 0,
           global_lock <- queue_lock, pc <- queue_pc

MainPC == {"start", "step", "reset", "swap", "gen_hist", "gen_unlock",
           "finish", "shutdown", "join", "destroy", "destroyed"}

WorkerPC == {"none", "pop", "popping", "compute", "lock", "count", "store",
             "record", "exit_lock", "exit_unlock", "exited"}

TypeOK ==
    /\ pcq!TypeOK
    /\ main_pc \in MainPC
    /\ i \in 0 .. ThreadNum + 1
    /\ gen \in 0 .. Generations
    /\ mats \in [Matrices -> Boards]
    /\ curr_matrix \in Matrices
    /\ finished \in BOOLEAN
    /\ finished_thread_counter \in 0 .. ThreadNum
    /\ global_lock \in Workers \cup {Main, NoThread}
    /\ tile_hist \in Seq([thread_id : Workers, matrix : Matrices])
    /\ live_jobs \in 0 .. ThreadNum
    /\ worker_pc \in [Workers -> WorkerPC]
    /\ line \in [Workers -> 0 .. Height]
    /\ count \in [Workers -> 0 .. ThreadNum]

(* run() up to the creation of the threads: the input file is read into    *)
(* both matrices (lines 101-102).                                          *)
Init ==
    /\ pcq!Init
    /\ main_pc = "start" /\ i = 0 /\ gen = 0
    /\ \E b \in InitialBoards : mats = [m \in Matrices |-> b]
    /\ curr_matrix = 0
    /\ finished = FALSE
    /\ finished_thread_counter = 0
    /\ global_lock = NoThread
    /\ tile_hist = <<>>
    /\ live_jobs = 0
    /\ worker_pc = [w \in Workers |-> "none"]
    /\ line = [w \in Workers |-> 0]
    /\ count = [w \in Workers |-> 0]

(* global_lock is an error-checking mutex (Game.cpp:55): unlocking it      *)
(* changes nothing unless the caller owns it.                              *)
Lock(t) == global_lock = NoThread /\ global_lock' = t
Unlock(t) == global_lock' = IF global_lock = t THEN NoThread ELSE global_lock
Goto(w, label) == worker_pc' = [worker_pc EXCEPT ![w] = label]

------------------------------------------------------------------------------
(* The main thread *)

(* Lines 111-119.  A thread that cannot be created is deleted and the loop *)
(* counter stepped back, so a failed start changes nothing.                *)
StartThread ==
    /\ main_pc = "start" /\ i < ThreadNum
    /\ i' = i + 1
    /\ Goto(i, "pop")
    /\ UNCHANGED <<queue_vars, main_pc, gen, line, count, heap_vars,
                   finished_thread_counter, global_lock>>

(* The test of the generation loop (line 68). *)
AfterGeneration(g) == IF g < Generations THEN "step" ELSE "finish"

ThreadsStarted ==
    /\ main_pc = "start" /\ i = ThreadNum
    /\ i' = 0
    /\ main_pc' = AfterGeneration(0)
    /\ UNCHANGED <<queue_vars, gen, worker_vars, heap_vars,
                   finished_thread_counter, global_lock>>

MainInPush == queue_pc[Main] # "idle"

(* _step(), lines 130-136: one push per worker. *)
PushJob ==
    /\ main_pc = "step" /\ ~MainInPush /\ i < ThreadNum
    /\ pcq!PushCall(Main, [current_matrix |-> curr_matrix,
                           next_matrix |-> 1 - curr_matrix,
                           starting_line |-> StartingLine(ThreadNum, i + 1),
                           ending_line |-> EndingLine(ThreadNum, i + 1)])
    /\ i' = i + 1
    /\ live_jobs' = live_jobs + 1
    /\ UNCHANGED <<main_pc, gen, worker_vars, mats, curr_matrix, finished,
                   tile_hist, finished_thread_counter, global_lock>>

(* Line 137: the main thread spins, without a lock, until every job is     *)
(* counted.                                                                *)
AllCounted == finished_thread_counter = ThreadNum

WaitForJobs ==
    /\ main_pc = "step" /\ ~MainInPush /\ i = ThreadNum
    /\ AllCounted
    /\ main_pc' = "reset"
    /\ UNCHANGED <<queue_vars, i, gen, worker_vars, heap_vars,
                   finished_thread_counter, global_lock>>

(* Line 139 *)
ResetCounter ==
    /\ main_pc = "reset"
    /\ finished_thread_counter' = 0
    /\ main_pc' = "swap"
    /\ UNCHANGED <<queue_vars, i, gen, worker_vars, heap_vars, global_lock>>

(* Lines 140-142 *)
SwapMatrices ==
    /\ main_pc = "swap"
    /\ curr_matrix' = 1 - curr_matrix
    /\ main_pc' = "gen_hist"
    /\ UNCHANGED <<queue_vars, i, gen, worker_vars, mats, finished, tile_hist,
                   live_jobs, finished_thread_counter, global_lock>>

(* MUTANT: the lock goes, since the print it protects is gone. *)
GenHistLockRemoved ==
    /\ main_pc = "gen_hist"
    /\ main_pc' = "gen_unlock"
    /\ UNCHANGED <<queue_vars, i, gen, worker_vars, heap_vars,
                   finished_thread_counter, global_lock>>

(* Lines 73-75: the lock around a print that is commented out. *)
GenHistLock ==
    /\ main_pc = "gen_hist"
    /\ Lock(Main)
    /\ main_pc' = "gen_unlock"
    /\ UNCHANGED <<queue_vars, i, gen, worker_vars, heap_vars,
                   finished_thread_counter>>

GenHistUnlock ==
    /\ main_pc = "gen_unlock"
    /\ Unlock(Main)
    /\ gen' = gen + 1
    /\ i' = 0
    /\ main_pc' = AfterGeneration(gen + 1)
    /\ UNCHANGED <<queue_vars, worker_vars, heap_vars,
                   finished_thread_counter>>

(* Line 78 *)
Finish ==
    /\ main_pc = "finish"
    /\ finished' = TRUE
    /\ main_pc' = "shutdown"
    /\ UNCHANGED <<queue_vars, i, gen, worker_vars, mats, curr_matrix,
                   tile_hist, live_jobs, finished_thread_counter, global_lock>>

(* Lines 79-81 push one nullptr more than there are workers. *)
(* MUTANT: the last worker gets no nullptr. *)
NullPushesTooFew == ThreadNum - 1

NullPushes == ThreadNum + 1

PushNull ==
    /\ main_pc = "shutdown" /\ ~MainInPush /\ i < NullPushes
    /\ pcq!PushCall(Main, NullJob)
    /\ i' = i + 1
    /\ UNCHANGED <<main_pc, gen, worker_vars, heap_vars,
                   finished_thread_counter, global_lock>>

AllNullsPushed ==
    /\ main_pc = "shutdown" /\ ~MainInPush /\ i = NullPushes
    /\ i' = 0
    /\ main_pc' = "join"
    /\ UNCHANGED <<queue_vars, gen, worker_vars, heap_vars,
                   finished_thread_counter, global_lock>>

(* MUTANT: the workers are not joined. *)
JoinThreadForgotten ==
    /\ main_pc = "join" /\ i < ThreadNum
    /\ i' = i + 1
    /\ UNCHANGED <<queue_vars, main_pc, gen, worker_vars, heap_vars,
                   finished_thread_counter, global_lock>>

(* _destroy_game(), lines 150-154: join the workers one after another. *)
JoinThread ==
    /\ main_pc = "join" /\ i < ThreadNum
    /\ worker_pc[i] = "exited"
    /\ i' = i + 1
    /\ UNCHANGED <<queue_vars, main_pc, gen, worker_vars, heap_vars,
                   finished_thread_counter, global_lock>>

AllJoined ==
    /\ main_pc = "join" /\ i = ThreadNum
    /\ main_pc' = "destroy"
    /\ UNCHANGED <<queue_vars, i, gen, worker_vars, heap_vars,
                   finished_thread_counter, global_lock>>

(* Lines 155-162: the threads, the matrices and the queue are deleted. *)
Destroy ==
    /\ main_pc = "destroy"
    /\ main_pc' = "destroyed"
    /\ UNCHANGED <<queue_vars, i, gen, worker_vars, heap_vars,
                   finished_thread_counter, global_lock>>

MainStep ==
    \/ StartThread \/ ThreadsStarted \/ PushJob \/ WaitForJobs \/ ResetCounter
    \/ SwapMatrices \/ GenHistLock \/ GenHistUnlock \/ Finish \/ PushNull
    \/ AllNullsPushed \/ JoinThread \/ AllJoined \/ Destroy

------------------------------------------------------------------------------
(* The workers: Life_Thread::thread_workload() *)

Pop(w) ==
    /\ worker_pc[w] = "pop"
    /\ pcq!PopCall(w)
    /\ Goto(w, "popping")
    /\ UNCHANGED <<main_vars, line, count, heap_vars, finished_thread_counter,
                   global_lock>>

(* pop() has returned temp_item[w]: lines 97-99 and the start of the loop  *)
(* over the lines of the job.                                              *)
CheckFinished(w) ==
    /\ worker_pc[w] = "popping" /\ queue_pc[w] = "idle"
    /\ IF finished
       THEN Goto(w, "exit_lock") /\ UNCHANGED line
       ELSE /\ Goto(w, "compute")
            /\ line' = [line EXCEPT ![w] = temp_item[w].starting_line]
    /\ UNCHANGED <<queue_vars, main_vars, count, heap_vars,
                   finished_thread_counter, global_lock>>

(* One iteration of the loop of line 77: one line is read from the job's   *)
(* current matrix and written to its next matrix.                          *)
ComputeLine(w) ==
    LET job == temp_item[w] IN
    /\ worker_pc[w] = "compute" /\ line[w] <= job.ending_line
    /\ mats' = [mats EXCEPT ![job.next_matrix][line[w]] =
                               NextLine(mats[job.current_matrix], line[w])]
    /\ line' = [line EXCEPT ![w] = line[w] + 1]
    /\ UNCHANGED <<queue_vars, main_vars, worker_pc, count, curr_matrix,
                   finished, tile_hist, live_jobs, finished_thread_counter,
                   global_lock>>

(* Line 106 *)
DeleteJob(w) ==
    /\ worker_pc[w] = "compute" /\ line[w] > temp_item[w].ending_line
    /\ live_jobs' = live_jobs - 1
    /\ Goto(w, "lock")
    /\ UNCHANGED <<queue_vars, main_vars, line, count, mats, curr_matrix,
                   finished, tile_hist, finished_thread_counter, global_lock>>

(* Line 112 *)
(* MUTANT: the counter is updated without the lock. *)
LockGlobalForgotten(w) ==
    /\ worker_pc[w] = "lock"
    /\ Goto(w, "count")
    /\ UNCHANGED <<queue_vars, main_vars, line, count, heap_vars,
                   finished_thread_counter, global_lock>>

LockGlobal(w) ==
    /\ worker_pc[w] = "lock"
    /\ Lock(w)
    /\ Goto(w, "count")
    /\ UNCHANGED <<queue_vars, main_vars, line, count, heap_vars,
                   finished_thread_counter>>

(* Line 114 loads the counter and stores it, one more. *)
LoadCounter(w) ==
    /\ worker_pc[w] = "count"
    /\ count' = [count EXCEPT ![w] = finished_thread_counter]
    /\ Goto(w, "store")
    /\ UNCHANGED <<queue_vars, main_vars, line, heap_vars,
                   finished_thread_counter, global_lock>>

StoreCounter(w) ==
    /\ worker_pc[w] = "store"
    /\ finished_thread_counter' = count[w] + 1
    /\ Goto(w, "record")
    /\ UNCHANGED <<queue_vars, main_vars, line, count, heap_vars, global_lock>>

(* Lines 115-122.  By now the main thread may have passed line 137. *)
RecordTile(w) ==
    /\ worker_pc[w] = "record"
    /\ tile_hist' = Append(tile_hist, [thread_id |-> w,
                                       matrix |-> temp_item[w].current_matrix])
    /\ Unlock(w)
    /\ Goto(w, "pop")
    /\ UNCHANGED <<queue_vars, main_vars, line, count, mats, curr_matrix,
                   finished, live_jobs, finished_thread_counter>>

(* Lines 125-126 *)
ExitLock(w) ==
    /\ worker_pc[w] = "exit_lock"
    /\ Lock(w)
    /\ Goto(w, "exit_unlock")
    /\ UNCHANGED <<queue_vars, main_vars, line, count, heap_vars,
                   finished_thread_counter>>

ExitUnlock(w) ==
    /\ worker_pc[w] = "exit_unlock"
    /\ Unlock(w)
    /\ Goto(w, "exited")
    /\ UNCHANGED <<queue_vars, main_vars, line, count, heap_vars,
                   finished_thread_counter>>

WorkerStep(w) ==
    \/ Pop(w) \/ CheckFinished(w) \/ ComputeLine(w) \/ DeleteJob(w)
    \/ LockGlobal(w) \/ LoadCounter(w) \/ StoreCounter(w) \/ RecordTile(w)
    \/ ExitLock(w) \/ ExitUnlock(w)

------------------------------------------------------------------------------
(* Inside push() and pop(). *)
game_vars == <<main_vars, worker_vars, heap_vars, finished_thread_counter,
               global_lock>>

MainInQueue == /\ pcq!PushStep(Main) \/ pcq!Reacquire(Main)
               /\ UNCHANGED game_vars

WorkerInQueue(w) == /\ pcq!PopStep(w) \/ pcq!Reacquire(w)
                    /\ UNCHANGED game_vars

SpuriousWakeup == /\ \E w \in Workers : pcq!SpuriousWakeup(w)
                  /\ UNCHANGED game_vars

(* The program has ended. *)
Terminated == main_pc = "destroyed" /\ UNCHANGED vars

Next == \/ MainStep
        \/ MainInQueue
        \/ \E w \in Workers : WorkerStep(w) \/ WorkerInQueue(w)
        \/ SpuriousWakeup
        \/ Terminated

Spec == Init /\ [][Next]_vars

(* Every thread that can run is run; neither mutex is promised to a        *)
(* particular waiter; spurious wake-ups of the condition variables stop.   *)
Fairness == /\ WF_vars(MainStep \/ MainInQueue)
            /\ \A w \in Workers : WF_vars(WorkerStep(w) \/ WorkerInQueue(w))
            /\ <>[][~SpuriousWakeup]_vars

FairSpec == Spec /\ Fairness

------------------------------------------------------------------------------
(* PROPERTIES *)

(* The generations whose matrices have been swapped. *)
Computed == gen + IF main_pc \in {"gen_hist", "gen_unlock"} THEN 1 ELSE 0

(* The board that the main thread would print is at all times a generation *)
(* of the game of life, and it moves on by one whole generation at a time, *)
(* whatever the workers are doing to the other matrix, until all are done. *)
Sequential == INSTANCE Life WITH board <- mats[curr_matrix],
                                 generation <- Computed
ComputesAllGenerations == Sequential!FairSpec

Computing(w) == worker_pc[w] = "compute"

(* The matrices are written without a lock: that is free of races only if  *)
(* no two workers compute lines of the same job range at once, and if they *)
(* all read the matrix that curr_matrix points to, which nobody writes.    *)
RaceFree ==
    \A w \in Workers : Computing(w) =>
        /\ temp_item[w].current_matrix = curr_matrix
        /\ temp_item[w].next_matrix # curr_matrix
        /\ \A v \in Workers \ {w} : Computing(v) =>
              temp_item[w].starting_line .. temp_item[w].ending_line
              \cap (temp_item[v].starting_line .. temp_item[v].ending_line) = {}

(* "First m_thread_num cells are the calculation durations for tiles in    *)
(* generation 1 and so on" (Game.hpp:53): no record of a later generation  *)
(* comes before one of an earlier, although the main thread resets the     *)
(* counter and swaps the matrices before the last worker has written its   *)
(* record; and when the main thread has the lock of line 73 the records    *)
(* are complete.                                                           *)
(* (Types are checked with it.)                                            *)
TilesByGeneration ==
    /\ TypeOK
    /\ \A k \in 1 .. Len(tile_hist) :
          tile_hist[k].matrix = ((k - 1) \div ThreadNum) % 2
    /\ main_pc = "gen_unlock" => Len(tile_hist) = ThreadNum * (gen + 1)

(* When _destroy_game() deletes the threads, the matrices and the queue    *)
(* (lines 155-162), no worker can still use them, nobody sleeps in the     *)
(* queue, every Job has been deleted and only nullptrs are left.           *)
CleanDestroy ==
    main_pc = "destroy" =>
        /\ \A w \in Workers : worker_pc[w] = "exited" /\ queue_pc[w] = "idle"
        /\ queue_lock = NoThread /\ global_lock = NoThread
        /\ approve_to_read = {} /\ approve_to_write = {}
        /\ live_jobs = 0
        /\ \A k \in 1 .. Len(items) : items[k] = NullJob

(* run() returns: no generation waits for ever at line 137 for a lost      *)
(* count, and every worker receives a nullptr.                             *)
Termination == <>(main_pc = "destroyed")
==============================================================================
