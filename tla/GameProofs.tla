----------------------------- MODULE GameProofs -----------------------------
(***************************************************************************)
(* Proofs about LifeThread and Game, for boards of any size, any number of *)
(* threads and generations. Of the operators: the window of                *)
(* calculate_live_neighbours() is the neighbourhood, the lines that the    *)
(* workers compute are the next generation, and the jobs of _step()        *)
(* partition the lines. Of the threads: the workers write disjoint lines   *)
(* of the matrix that nobody reads, the records of the tiles are in order, *)
(* nothing is deleted that is in use, and the boards are those of the      *)
(* sequential game.                                                        *)
(***************************************************************************)
EXTENDS Game, FiniteSetTheorems, TLAPS

(* Clamping the window to the matrix (Life_Thread.cpp:28-45) gives exactly *)
(* the cells at distance one, on every board.                              *)
THEOREM ClampedWindow == WindowIsNeighbourhood
<1> SUFFICES ASSUME NEW l \in Lines, NEW c \in Columns
             PROVE  Window(l, c) = Neighbours(l, c)
  BY DEF WindowIsNeighbourhood
<1> USE SizeAssumption DEF Lines, Columns
<1>1. \A m \in Int : m \in HighestLine(l) .. LowestLine(l)
                        <=> m \in Lines /\ m - l \in -1 .. 1
  BY DEF HighestLine, LowestLine
<1>2. \A j \in Int : j \in LeftestNeighbour(c) .. RightestNeighbour(c)
                        <=> j \in Columns /\ j - c \in -1 .. 1
  BY DEF LeftestNeighbour, RightestNeighbour
<1>3. Window(l, c) \subseteq Neighbours(l, c)
  BY <1>1, <1>2 DEF Window, Neighbours
<1>4. Neighbours(l, c) \subseteq Window(l, c)
  BY <1>1, <1>2 DEF Window, Neighbours
<1>5. QED
  BY <1>3, <1>4

LEMMA LineOfSuccessor ==
    ASSUME NEW b, NEW l \in Lines
    PROVE  NextLine(b, l) = Successor(b)[l]
<1>1. \A c \in Columns : LiveNeighbours(b, l, c) = LiveAround(b, l, c)
  BY ClampedWindow DEF WindowIsNeighbourhood, LiveNeighbours, LiveAround
<1>2. \A c \in Columns :
         (\/ b[l][c] /\ LiveNeighbours(b, l, c) \in {2, 3}
          \/ ~b[l][c] /\ LiveNeighbours(b, l, c) = 3)
         = (\/ LiveAround(b, l, c) = 3
            \/ b[l][c] /\ LiveAround(b, l, c) = 2)
  BY <1>1
<1>3. QED
  BY <1>2 DEF NextLine, Successor

(* Whatever the board, a worker that computes a line computes that line of *)
(* the next generation (calculate_next_generation_matrix()).               *)
THEOREM WorkersComputeLife == LinesAreSuccessor
BY LineOfSuccessor DEF LinesAreSuccessor

------------------------------------------------------------------------------
(* divider * threads is at most Height: no job but the last can reach past *)
(* the board, and the last one has a line to start with.                   *)
LEMMA DividerBound ==
    ASSUME NEW threads \in 1 .. Height
    PROVE  /\ Divider(threads) \in Nat \ {0}
           /\ threads * Divider(threads) <= Height
<1> USE SizeAssumption
<1>1. Height \div threads >= 1
  OBVIOUS
<1>2. threads * (Height \div threads) <= Height
  OBVIOUS
<1>3. QED
  BY <1>1, <1>2 DEF Divider

LEMMA CancelFactor ==
    ASSUME NEW a \in Nat, NEW b \in Nat, NEW d \in Nat \ {0}, a * d < b * d
    PROVE  a < b
<1>1. SUFFICES ASSUME a >= b PROVE FALSE
  OBVIOUS
<1>2. PICK r \in Nat : a = b + r
  BY <1>1
<1>3. a * d = b * d + r * d /\ r * d \in Nat /\ b * d \in Nat
  BY <1>2
<1>4. QED
  BY <1>3

(* The jobs of one generation partition the lines of the board, for every  *)
(* height and every number of threads up to it.                            *)
THEOREM StepPartition == JobsPartitionBoard
<1> SUFFICES ASSUME NEW threads \in 1 .. Height
             PROVE  /\ \A l \in Lines : \E job \in 1 .. threads :
                          l \in JobLines(threads, job)
                    /\ \A job \in 1 .. threads :
                          JobLines(threads, job) # {}
                          /\ JobLines(threads, job) \subseteq Lines
                    /\ \A j, k \in 1 .. threads : j # k =>
                          JobLines(threads, j) \cap JobLines(threads, k) = {}
  BY DEF JobsPartitionBoard
<1> DEFINE D == Divider(threads)
<1> USE SizeAssumption DEF Lines
<1>1. D \in Nat \ {0} /\ threads * D <= Height
  BY DividerBound
<1> HIDE DEF D
<1>2. ASSUME NEW j \in 1 .. threads
      PROVE  /\ (j - 1) * D \in Nat
             /\ j * D \in Nat
             /\ j * D = (j - 1) * D + D
             /\ j * D <= threads * D
  BY <1>1
<1>3. ASSUME NEW l \in Lines
      PROVE  \E job \in 1 .. threads : l \in JobLines(threads, job)
  <2>1. CASE l >= (threads - 1) * D
    BY <2>1, <1>1, <1>2 DEF JobLines, StartingLine, EndingLine, D
  <2>2. CASE l < (threads - 1) * D
    <3>1. PICK q \in Nat : q * D <= l /\ l < q * D + D
      <4>1. l \div D \in Nat /\ (l \div D) * D <= l /\ l < (l \div D) * D + D
        BY <1>1
      <4>2. QED
        BY <4>1
    <3>2. q < threads - 1
      <4>1. q * D < (threads - 1) * D
        BY <3>1, <2>2, <1>1
      <4>2. threads - 1 \in Nat /\ D \in Nat \ {0}
        BY <1>1
      <4>3. QED
        BY <4>1, <4>2, CancelFactor
    <3>3. /\ q + 1 \in 1 .. threads /\ q + 1 < threads
          /\ ((q + 1) - 1) * D = q * D
          /\ (q + 1) * D = q * D + D
      BY <3>2, <1>1
    <3>4. /\ StartingLine(threads, q + 1) = q * D
          /\ EndingLine(threads, q + 1) = q * D + D - 1
      <4>1. /\ StartingLine(threads, q + 1) = ((q + 1) - 1) * D
            /\ EndingLine(threads, q + 1) = (q + 1) * D - 1
        BY <3>3 DEF StartingLine, EndingLine, D
      <4>2. QED
        BY <3>3, <4>1, <1>1
    <3>5. PICK s \in Nat : s = q * D
      BY <1>1
    <3>6. l \in JobLines(threads, q + 1)
      BY <3>1, <3>4, <3>5, <1>1 DEF JobLines
    <3>7. QED
      BY <3>3, <3>6
  <2>3. QED
    BY <2>1, <2>2, <1>1
<1>4. ASSUME NEW job \in 1 .. threads
      PROVE  /\ JobLines(threads, job) # {}
             /\ JobLines(threads, job) \subseteq Lines
  <2>1. /\ StartingLine(threads, job) \in Nat
        /\ EndingLine(threads, job) \in 0 .. Height - 1
        /\ StartingLine(threads, job) <= EndingLine(threads, job)
    <3>1. CASE job < threads
      <4>1. job * D < threads * D
        BY <3>1, <1>1
      <4>2. PICK s \in Nat, e \in Nat :
                  /\ s = (job - 1) * D /\ e = job * D
                  /\ e = s + D /\ e < Height
        BY <4>1, <1>1, <1>2
      <4>3. StartingLine(threads, job) = s /\ EndingLine(threads, job) = e - 1
        BY <3>1, <4>2 DEF StartingLine, EndingLine, D
      <4>4. QED
        BY <4>2, <4>3, <1>1
    <3>2. CASE job = threads
      BY <3>2, <1>1, <1>2 DEF StartingLine, EndingLine, D
    <3>3. QED
      BY <3>1, <3>2
  <2>2. StartingLine(threads, job) \in JobLines(threads, job)
    BY <2>1 DEF JobLines
  <2>3. QED
    BY <2>1, <2>2 DEF JobLines
<1>5. ASSUME NEW j \in 1 .. threads, NEW k \in 1 .. threads, j < k
      PROVE  JobLines(threads, j) \cap JobLines(threads, k) = {}
  <2>1. j < threads /\ j * D <= (k - 1) * D
    BY <1>5, <1>1
  <2>2. \A x \in JobLines(threads, j) : x \in Int /\ x < j * D
    BY <2>1, <1>1, <1>2 DEF JobLines, EndingLine, StartingLine, D
  <2>3. \A x \in JobLines(threads, k) : x \in Int /\ x >= (k - 1) * D
    BY <1>1, <1>2 DEF JobLines, StartingLine, EndingLine, D
  <2>4. QED
    BY <2>1, <2>2, <2>3, <1>1, <1>2
<1>6. QED
  BY <1>3, <1>4, <1>5

------------------------------------------------------------------------------

queue == INSTANCE PCQueueProofs WITH
             Producers <- {Main}, Consumers <- Workers,
             Items <- Jobs \cup {NullJob}, QueueBound <- 0,
             global_lock <- queue_lock, pc <- queue_pc

(* Nothing but types: the bounds of the other counters follow from Counted. *)
Shapes ==
    /\ main_pc \in MainPC
    /\ i \in 0 .. ThreadNum + 1
    /\ gen \in 0 .. Generations
    /\ mats \in [Matrices -> Boards]
    /\ finished \in BOOLEAN
    /\ finished_thread_counter \in Nat
    /\ global_lock \in Workers \cup {Main, NoThread}
    /\ tile_hist \in Seq([thread_id : Workers, matrix : Matrices])
    /\ live_jobs \in Nat
    /\ worker_pc \in [Workers -> WorkerPC]
    /\ line \in [Workers -> 0 .. Height]
    /\ count \in [Workers -> 0 .. ThreadNum]

(* The queue's own invariant, and who sleeps in it. *)
Queue == queue!IInv /\ \A w \in approve_to_read : queue_pc[w] = "c_wait"

(* The matrix that the jobs of this generation read, and the other. *)
From == gen % 2
To == 1 - From

(* Job j of the generation, and how many of them were pushed. *)
Job(j) == [current_matrix |-> From, next_matrix |-> To,
           starting_line |-> StartingLine(ThreadNum, j),
           ending_line |-> EndingLine(ThreadNum, j)]

Pushed == IF main_pc = "step" THEN i ELSE IF main_pc = "reset" THEN ThreadNum ELSE 0

(* Where run() is. *)
Phases ==
    /\ curr_matrix = Computed % 2
    /\ finished <=> main_pc \in {"shutdown", "join", "destroy", "destroyed"}
    /\ main_pc = "start" => gen = 0
    /\ main_pc \in {"step", "reset", "swap", "gen_hist", "gen_unlock"} => gen < Generations
    /\ main_pc \in {"reset", "swap", "destroy"} => i = ThreadNum
    /\ i = ThreadNum + 1 => main_pc = "shutdown"
    /\ MainInPush => main_pc \in {"step", "shutdown"}

(* Where the workers are, and who holds global_lock. *)
Places ==
    /\ \A w \in Workers : worker_pc[w] = "none" <=> main_pc = "start" /\ w >= i
    /\ \A w \in Workers : queue_pc[w] # "idle" => worker_pc[w] = "popping"
    /\ \A w \in Workers : worker_pc[w] \in {"count", "store", "record", "exit_unlock"}
                             <=> global_lock = w
    /\ main_pc = "gen_unlock" <=> global_lock = Main
    /\ \A w \in Workers : main_pc = "join" /\ w < i => worker_pc[w] = "exited"
    /\ \A w \in Workers : main_pc \in {"destroy", "destroyed"} => worker_pc[w] = "exited"

(* What a thread can have in its hands. *)
Things == Jobs \cup {NullJob, NoItem}

(* Where an item is, from the call of push() to the count of its job. *)
Offered(x) == queue_pc[Main] \notin {"idle", "p_out"} /\ arg[Main] = x
Queued(x) == \E k \in 1 .. Len(items) : items[k] = x

Worked == {"compute", "lock", "count", "store"}
Holds(w, x) == /\ \/ worker_pc[w] = "popping" /\ queue_pc[w] \in {"c_out", "idle"}
                  \/ worker_pc[w] \in Worked
               /\ temp_item[w] = x

AtLarge(x) == Offered(x) \/ Queued(x) \/ \E w \in Workers : Holds(w, x)

(* Only jobs of this generation are about, or only nullptrs, and a worker  *)
(* that computes has a job.                                                *)
Expected ==
    /\ \A x \in Things : AtLarge(x) =>
          IF finished THEN x = NullJob ELSE \E j \in 1 .. Pushed : x = Job(j)
    /\ \A w \in Workers : worker_pc[w] \in Worked \cup {"record"} => temp_item[w] \in Jobs
    /\ \A w \in Workers : worker_pc[w] = "record" => temp_item[w].current_matrix = From

(* Every job is at one place. *)
Apart ==
    \A x \in Jobs :
        /\ Offered(x) => ~Queued(x)
        /\ \A k, l \in 1 .. Len(items) : items[k] = x /\ items[l] = x => k = l
        /\ \A w \in Workers : Holds(w, x) =>
              /\ ~Offered(x) /\ ~Queued(x)
              /\ \A v \in Workers : Holds(v, x) => v = w

Uncounted == {x \in Jobs : AtLarge(x)}

(* A job is deleted when it is computed, before it is counted. *)
Keeps(w, x) == Holds(w, x) /\ worker_pc[w] \in {"popping", "compute"}
Undeleted == {x \in Jobs : Offered(x) \/ Queued(x) \/ \E w \in Workers : Keeps(w, x)}

(* A job that was pushed and is not about was counted: no count is lost. *)
Counted ==
    /\ IsFiniteSet(Uncounted)
    /\ finished_thread_counter + Cardinality(Uncounted) = Pushed
    /\ main_pc = "reset" => finished_thread_counter = ThreadNum
    /\ live_jobs = Cardinality(Undeleted)
    /\ \A w \in Workers : worker_pc[w] = "store" => count[w] = finished_thread_counter

(* A worker that has counted its job is still to write its record. *)
Recording == \E w \in Workers : worker_pc[w] = "record"

(* The generations all of whose jobs were counted and waited for. *)
Rounds == gen + IF main_pc \in {"swap", "gen_hist", "gen_unlock"} THEN 1 ELSE 0

Tiles ==
    /\ Recording => main_pc \in {"step", "reset", "swap", "gen_hist"}
    /\ Recording /\ main_pc \in {"step", "reset"} => finished_thread_counter >= 1
    /\ Len(tile_hist) + (IF Recording THEN 1 ELSE 0)
          = ThreadNum * Rounds + finished_thread_counter
    /\ \A k \in 1 .. Len(tile_hist) :
          tile_hist[k].matrix = ((k - 1) \div ThreadNum) % 2

(* The one who gets job x, or has it, is still to compute line l. *)
WillCompute(w, x, l) ==
    Holds(w, x) /\ (worker_pc[w] = "popping" \/ (worker_pc[w] = "compute" /\ line[w] <= l))

Pending(x, l) ==
    /\ l \in x.starting_line .. x.ending_line
    /\ Offered(x) \/ Queued(x) \/ \E w \in Workers : WillCompute(w, x, l)

(* A line of the other matrix is that of the next generation, or its job   *)
(* is still to be pushed or is about.                                      *)
LinesLeft ==
    main_pc \in {"step", "reset", "swap"} =>
        \A l \in Lines : \/ mats[To][l] = NextLine(mats[From], l)
                         \/ \E j \in 1 .. ThreadNum : j > i /\ l \in JobLines(ThreadNum, j)
                         \/ \E x \in Jobs : Pending(x, l)

IInv == /\ Shapes /\ Queue /\ Phases /\ Places /\ Expected
        /\ Apart /\ Counted /\ Tiles /\ LinesLeft

------------------------------------------------------------------------------
(* Facts about the constants *)

LEMMA Numbers ==
    /\ Height \in Nat \ {0} /\ ThreadNum \in 1 .. Height
    /\ Workers \subseteq Nat /\ Generations \in Nat
    /\ Main \notin Workers /\ NoThread \notin Workers /\ Main # NoThread
  BY SizeAssumption, NThreadAssumption, NamesAssumption, GenerationsAssumption
     DEF ThreadNum, Workers

LEMMA QueueConstants == queue!ThreadsAssumption /\ queue!ItemsAssumption
  BY NamesAssumption, JobsAssumption
     DEF queue!ThreadsAssumption, queue!Threads, queue!ItemsAssumption

LEMMA RunsOfLines ==
    /\ \A j \in 1 .. ThreadNum :
          /\ StartingLine(ThreadNum, j) \in Lines /\ EndingLine(ThreadNum, j) \in Lines
          /\ StartingLine(ThreadNum, j) \in JobLines(ThreadNum, j)
    /\ \A l \in Lines : \E j \in 1 .. ThreadNum : l \in JobLines(ThreadNum, j)
    /\ \A j, k \in 1 .. ThreadNum :
          j # k => JobLines(ThreadNum, j) \cap JobLines(ThreadNum, k) = {}
<1>1. /\ \A l \in Lines : \E j \in 1 .. ThreadNum : l \in JobLines(ThreadNum, j)
      /\ \A j \in 1 .. ThreadNum : JobLines(ThreadNum, j) # {}
                                   /\ JobLines(ThreadNum, j) \subseteq Lines
      /\ \A j, k \in 1 .. ThreadNum :
            j # k => JobLines(ThreadNum, j) \cap JobLines(ThreadNum, k) = {}
  BY Numbers, StepPartition DEF JobsPartitionBoard
<1>2. ASSUME NEW j \in 1 .. ThreadNum
      PROVE  /\ StartingLine(ThreadNum, j) \in Lines /\ EndingLine(ThreadNum, j) \in Lines
             /\ StartingLine(ThreadNum, j) \in JobLines(ThreadNum, j)
  <2>1. Divider(ThreadNum) \in Nat \ {0}
    BY Numbers, DividerBound
  <2>2. StartingLine(ThreadNum, j) \in Int /\ EndingLine(ThreadNum, j) \in Int
    <3>1. j \in Int /\ j - 1 \in Int /\ j * Divider(ThreadNum) \in Int
          /\ (j - 1) * Divider(ThreadNum) \in Int
      BY <2>1, Numbers
    <3> QED  BY <3>1, Numbers DEF StartingLine, EndingLine
  <2>3. JobLines(ThreadNum, j) # {} /\ JobLines(ThreadNum, j) \subseteq Lines
    BY <1>1
  <2> QED  BY <2>2, <2>3 DEF JobLines
<1> QED  BY <1>1, <1>2

LEMMA JobsOfGeneration ==
    ASSUME gen \in Nat
    PROVE  /\ From \in Matrices /\ To \in Matrices /\ From # To
           /\ \A j \in 1 .. ThreadNum : Job(j) \in Jobs
           /\ \A j, k \in 1 .. ThreadNum : Job(j) = Job(k) => j = k
           /\ NullJob \notin Jobs
<1>1. From \in {0, 1} /\ To \in {0, 1} /\ From # To
  BY DEF From, To
<1>2. \A j \in 1 .. ThreadNum : Job(j) \in Jobs
  BY <1>1, RunsOfLines DEF Job, Jobs, Matrices
<1>3. \A j, k \in 1 .. ThreadNum : Job(j) = Job(k) => j = k
  <2> SUFFICES ASSUME NEW j \in 1 .. ThreadNum, NEW k \in 1 .. ThreadNum, Job(j) = Job(k)
               PROVE  j = k
    OBVIOUS
  <2>1. StartingLine(ThreadNum, j) = StartingLine(ThreadNum, k)
    BY DEF Job
  <2> QED  BY <2>1, RunsOfLines
<1> QED  BY <1>1, <1>2, <1>3, JobsAssumption DEF Matrices

------------------------------------------------------------------------------
(* What the steps in push() and pop() do to the items *)

InPush == {"p_lock", "p_test", "p_wait", "p_in", "p_out"}
InPop == {"c_lock", "c_test", "c_wait", "c_in", "c_out"}

LEMMA QueueShapes ==
    ASSUME Queue
    PROVE  /\ items \in Seq(Jobs \cup {NullJob})
           /\ queue_pc = [t \in Workers \cup {Main} |-> queue_pc[t]]
           /\ queue_pc[Main] \in {"idle", "p_lock", "p_test", "p_in", "p_out"}
           /\ \A w \in Workers : queue_pc[w] \in {"idle"} \cup InPop
           /\ arg = [p \in {Main} |-> arg[p]]
           /\ MainInPush => arg[Main] \in Jobs \cup {NullJob}
           /\ temp_item = [w \in Workers |-> temp_item[w]]
           /\ \A w \in Workers : temp_item[w] \in Jobs \cup {NullJob, NoItem}
           /\ \A w \in Workers : queue_pc[w] = "c_in" => items # << >>
  BY DEF Queue, queue!IInv, queue!TypeOK, queue!Threads, queue!ProducerPC, queue!ConsumerPC,
         queue!ProducerNeverSleeps, queue!PopNonEmpty, InPop, MainInPush

(* The only steps of a call of push() that matter to its caller. *)
PushMoves ==
    /\ queue_pc' = [queue_pc EXCEPT ![Main] = queue_pc'[Main]]
    /\ UNCHANGED <<arg, temp_item>>
    /\ \/ /\ items' = items
          /\ \/ queue_pc[Main] \in {"p_lock", "p_test"} /\ queue_pc'[Main] \in {"p_test", "p_in"}
             \/ queue_pc[Main] = "p_out" /\ queue_pc'[Main] = "idle"
       \/ /\ items' = Append(items, arg[Main])
          /\ queue_pc[Main] = "p_in" /\ queue_pc'[Main] = "p_out"

LEMMA PushSteps ==
    ASSUME Queue, Queue', MainInQueue
    PROVE  PushMoves
<1>1. queue_pc[Main] \in {"idle", "p_lock", "p_test", "p_in", "p_out"}
      /\ queue_pc'[Main] \in {"idle", "p_lock", "p_test", "p_in", "p_out"}
      /\ queue_pc = [t \in Workers \cup {Main} |-> queue_pc[t]]
  BY QueueShapes DEF Queue, queue!IInv, queue!TypeOK, queue!Threads, queue!ProducerPC,
                     queue!ProducerNeverSleeps
<1>2. CASE pcq!ProducersLock(Main)
  BY <1>1, <1>2 DEF pcq!ProducersLock, pcq!Goto, pcq!locals, PushMoves
<1>3. CASE pcq!ProducersTest(Main)
  BY <1>1, <1>3 DEF pcq!ProducersTest, pcq!Goto, pcq!locals, PushMoves
<1>4. CASE pcq!PushItem(Main)
  BY <1>1, <1>4 DEF pcq!PushItem, pcq!Goto, pcq!locals, PushMoves
<1>5. CASE pcq!ProducersUnlock(Main)
  BY <1>1, <1>5 DEF pcq!ProducersUnlock, pcq!Goto, pcq!locals, PushMoves
<1>6. ~ pcq!Reacquire(Main)
  BY <1>1 DEF pcq!Reacquire
<1> QED  BY <1>2, <1>3, <1>4, <1>5, <1>6 DEF MainInQueue, pcq!PushStep

PopMoves(w) ==
    /\ queue_pc' = [queue_pc EXCEPT ![w] = queue_pc'[w]]
    /\ UNCHANGED arg
    /\ \/ /\ UNCHANGED <<items, temp_item>>
          /\ \/ /\ queue_pc[w] \in {"c_lock", "c_test", "c_wait"}
                /\ queue_pc'[w] \in {"c_test", "c_wait", "c_in"}
             \/ queue_pc[w] = "c_out" /\ queue_pc'[w] = "idle"
       \/ /\ queue_pc[w] = "c_in" /\ queue_pc'[w] = "c_out" /\ items # << >>
          /\ temp_item' = [temp_item EXCEPT ![w] = Head(items)]
          /\ items' = Tail(items)

LEMMA PopSteps ==
    ASSUME Queue, NEW w \in Workers, WorkerInQueue(w)
    PROVE  PopMoves(w)
<1>1. queue_pc[w] \in {"idle"} \cup InPop /\ queue_pc = [t \in Workers \cup {Main} |-> queue_pc[t]]
  BY QueueShapes
<1>2. CASE pcq!ConsumersLock(w)
  BY <1>1, <1>2 DEF pcq!ConsumersLock, pcq!Goto, pcq!locals, PopMoves
<1>3. CASE pcq!ConsumersTest(w)
  BY <1>1, <1>3 DEF pcq!ConsumersTest, pcq!Goto, pcq!locals, PopMoves
<1>4. CASE pcq!PopItem(w)
  BY <1>1, <1>4, QueueShapes DEF pcq!PopItem, pcq!Goto, PopMoves
<1>5. CASE pcq!ConsumersUnlock(w)
  BY <1>1, <1>5 DEF pcq!ConsumersUnlock, pcq!Goto, pcq!locals, PopMoves
<1>6. CASE pcq!Reacquire(w)
  BY <1>1, <1>6 DEF pcq!Reacquire, pcq!Goto, pcq!locals, PopMoves, InPop
<1> QED  BY <1>2, <1>3, <1>4, <1>5, <1>6 DEF WorkerInQueue, pcq!PopStep

LEMMA Wakeups ==
    ASSUME SpuriousWakeup
    PROVE  UNCHANGED <<items, queue_pc, arg, temp_item>>
  BY DEF SpuriousWakeup, pcq!SpuriousWakeup, pcq!locals

LEMMA PushedJob ==
    ASSUME Shapes, Phases, PushJob
    PROVE  /\ pcq!PushCall(Main, Job(i + 1)) /\ Job(i + 1) \in Jobs
           /\ i + 1 \in 1 .. ThreadNum
<1>1. i + 1 \in 1 .. ThreadNum /\ gen \in Nat
  BY Numbers DEF PushJob, Shapes
<1>2. curr_matrix = From
  BY <1>1 DEF Phases, Computed, From, PushJob
<1> QED  BY <1>1, <1>2, JobsOfGeneration DEF PushJob, Job, To

(* A call of push() or pop() begins. *)
Offers(x) ==
    /\ queue_pc[Main] = "idle"
    /\ queue_pc' = [queue_pc EXCEPT ![Main] = "p_lock"]
    /\ arg' = [arg EXCEPT ![Main] = x]
    /\ UNCHANGED <<items, temp_item>>

LEMMA Calls ==
    /\ \A x : pcq!PushCall(Main, x) => Offers(x)
    /\ \A w \in Workers : pcq!PopCall(w) =>
          /\ queue_pc[w] = "idle"
          /\ queue_pc' = [queue_pc EXCEPT ![w] = "c_lock"]
          /\ UNCHANGED <<items, arg, temp_item>>
  BY DEF pcq!PushCall, pcq!PopCall, pcq!Goto, pcq!locals, Offers

(* The invariant of the queue holds whoever calls it. *)
LEMMA QueueKept ==
    ASSUME Shapes, Phases, Queue, [Next]_vars
    PROVE  Queue'
<1> USE QueueConstants
<1>1. ASSUME NEW x \in Jobs \cup {NullJob}, pcq!PushCall(Main, x)
      PROVE  Queue'
  <2>1. queue!PushCall(Main, x)
    BY <1>1 DEF pcq!PushCall, queue!PushCall, pcq!Goto, queue!Goto, pcq!counters,
                queue!counters, pcq!sleepers, queue!sleepers
  <2>2. queue!IInv'
    BY <2>1, queue!PushCallKeeps DEF Queue
  <2> QED  BY <1>1, <2>2, Numbers, QueueShapes
              DEF pcq!PushCall, pcq!Goto, pcq!sleepers, Queue, queue!IInv, queue!TypeOK
<1>2. ASSUME [queue!Next]_queue!vars,
             \A w \in approve_to_read' : queue_pc'[w] = "c_wait"
      PROVE  Queue'
  BY <1>2, queue!NextIInv DEF Queue
<1>3. CASE UNCHANGED queue_vars
  <2>1. UNCHANGED queue!vars
    BY <1>3 DEF queue_vars, queue!vars, queue!counters, queue!sleepers, queue!locals
  <2> QED  BY <1>2, <1>3, <2>1 DEF queue_vars, Queue
<1>4. CASE PushJob \/ PushNull
  BY <1>1, <1>4, PushedJob DEF PushNull
<1>5. approve_to_read \subseteq Workers
  BY DEF Queue, queue!IInv, queue!TypeOK
<1> USE Numbers
<1>0. queue_pc = [t \in Workers \cup {Main} |-> queue_pc[t]]
  BY QueueShapes
<1>6. ASSUME NEW w \in Workers, Pop(w)  PROVE Queue'
  <2>1. queue!PopCall(w)
    BY <1>6 DEF Pop, pcq!PopCall, queue!PopCall, pcq!Goto, queue!Goto, pcq!counters,
                queue!counters, pcq!sleepers, queue!sleepers, pcq!locals, queue!locals
  <2>2. \A v \in approve_to_read' : queue_pc'[v] = "c_wait"
    BY <1>0, <1>5, <1>6 DEF Pop, pcq!PopCall, pcq!Goto, pcq!sleepers, Queue
  <2> QED  BY <1>2, <2>1, <2>2 DEF queue!Next
<1>7. CASE MainInQueue
  <2>1. queue!PushStep(Main) \/ queue!Reacquire(Main)
    BY <1>7 DEF MainInQueue, pcq!PushStep, queue!PushStep, pcq!Reacquire, queue!Reacquire,
                pcq!ProducersLock, queue!ProducersLock, pcq!ProducersTest, queue!ProducersTest,
                pcq!PushItem, queue!PushItem, pcq!ProducersUnlock, queue!ProducersUnlock,
                pcq!ProducerBlocked, queue!ProducerBlocked, pcq!Asleep, queue!Asleep,
                pcq!Lock, queue!Lock, pcq!Unlock, queue!Unlock, pcq!Signal, queue!Signal,
                pcq!Broadcast, queue!Broadcast,
                pcq!Goto, queue!Goto, pcq!counters, queue!counters, pcq!sleepers,
                queue!sleepers, pcq!locals, queue!locals
  <2>2. queue!Next
    BY <2>1 DEF queue!Next, queue!Threads
  <2>3. approve_to_read' \subseteq approve_to_read
    BY <2>1 DEF queue!PushStep, queue!Reacquire, queue!ProducersLock, queue!ProducersTest,
                queue!PushItem, queue!ProducersUnlock, queue!Broadcast, queue!sleepers
  <2>4. \A w \in Workers : queue_pc'[w] = queue_pc[w]
    BY <1>0, <2>1 DEF queue!PushStep, queue!Reacquire, queue!ProducersLock, queue!ProducersTest,
                queue!PushItem, queue!ProducersUnlock, queue!Goto
  <2> QED  BY <1>2, <1>5, <2>2, <2>3, <2>4 DEF Queue
<1>8. ASSUME NEW w \in Workers, WorkerInQueue(w)  PROVE Queue'
  <2>1. queue!PopStep(w) \/ queue!Reacquire(w)
    BY <1>8 DEF WorkerInQueue, pcq!PopStep, queue!PopStep, pcq!Reacquire, queue!Reacquire,
                pcq!ConsumersLock, queue!ConsumersLock, pcq!ConsumersTest, queue!ConsumersTest,
                pcq!PopItem, queue!PopItem, pcq!ConsumersUnlock, queue!ConsumersUnlock,
                pcq!ConsumerBlocked, queue!ConsumerBlocked, pcq!Asleep, queue!Asleep,
                pcq!ConsumersLeave, queue!ConsumersLeave,
                pcq!Lock, queue!Lock, pcq!Unlock, queue!Unlock, pcq!Signal, queue!Signal,
                pcq!Goto, queue!Goto, pcq!counters, queue!counters, pcq!sleepers,
                queue!sleepers, pcq!locals, queue!locals
  <2>2. queue!Next
    BY <2>1 DEF queue!Next, queue!Threads
  <2>3. /\ \A v \in approve_to_read' : v \in approve_to_read \/ (v = w /\ queue_pc'[w] = "c_wait")
        /\ \A v \in Workers \ {w} : queue_pc'[v] = queue_pc[v]
        /\ w \in approve_to_read => queue_pc'[w] = queue_pc[w]
    <3>1. \A v \in approve_to_read' : v \in approve_to_read \/ (v = w /\ queue_pc'[w] = "c_wait")
      <4>1. CASE queue!ConsumersTest(w)
        BY <1>0, <4>1 DEF queue!ConsumersTest, queue!Goto
      <4>2. CASE UNCHANGED approve_to_read
        BY <4>2
      <4> QED  BY <2>1, <4>1, <4>2 DEF queue!PopStep, queue!Reacquire, queue!ConsumersLock,
                  queue!PopItem, queue!ConsumersUnlock, queue!sleepers
    <3>2. \A v \in Workers \ {w} : queue_pc'[v] = queue_pc[v]
      <4>1. queue_pc' = [queue_pc EXCEPT ![w] = queue_pc'[w]]
        BY <1>8, PopSteps DEF PopMoves
      <4> QED  BY <1>0, <4>1
    <3>3. w \notin approve_to_read
      <4> SUFFICES ASSUME w \in approve_to_read  PROVE FALSE
        OBVIOUS
      <4>1. queue_pc[w] = "c_wait" /\ queue!Asleep(w)
        BY DEF Queue, queue!Asleep
      <4> QED  BY <2>1, <4>1 DEF queue!PopStep, queue!Reacquire, queue!ConsumersLock,
                  queue!ConsumersTest, queue!PopItem, queue!ConsumersUnlock
    <3> QED  BY <3>1, <3>2, <3>3
  <2> QED  BY <1>2, <1>5, <2>2, <2>3 DEF Queue
<1>9. CASE SpuriousWakeup
  <2>1. queue!Next
    BY <1>9 DEF SpuriousWakeup, pcq!SpuriousWakeup, queue!SpuriousWakeup, queue!Next,
                queue!Threads, pcq!Asleep, queue!Asleep, pcq!counters, queue!counters,
                pcq!locals, queue!locals
  <2> QED  BY <1>2, <2>1, <1>9 DEF SpuriousWakeup, pcq!SpuriousWakeup, Queue
<1>10. ASSUME NEW w \in Workers, WorkerStep(w), ~ Pop(w)  PROVE UNCHANGED queue_vars
  BY <1>10 DEF WorkerStep, CheckFinished, ComputeLine, DeleteJob, LockGlobal, LoadCounter,
               StoreCounter, RecordTile, ExitLock, ExitUnlock
<1>11. CASE MainStep /\ ~(PushJob \/ PushNull)
  BY <1>3, <1>11 DEF MainStep, StartThread, ThreadsStarted, WaitForJobs, ResetCounter,
               SwapMatrices, GenHistLock, GenHistUnlock, Finish, AllNullsPushed, JoinThread,
               AllJoined, Destroy
<1>12. CASE Terminated \/ UNCHANGED vars
  BY <1>3, <1>12 DEF Terminated, vars
<1> QED  BY <1>3, <1>4, <1>6, <1>7, <1>8, <1>9, <1>10, <1>11, <1>12 DEF Next

------------------------------------------------------------------------------
(* The control states *)

LEMMA PhasesKept ==
    ASSUME Shapes, Queue, Phases, [Next]_vars
    PROVE  Phases'
<1> USE Numbers
<1>0. gen \in Nat /\ i \in Nat /\ main_pc \in MainPC /\ curr_matrix = Computed % 2
  BY DEF Shapes, Phases
<1>1. ASSUME UNCHANGED <<main_vars, curr_matrix, finished>>, MainInPush' => MainInPush
      PROVE  Phases'
  BY <1>1 DEF Phases, main_vars, Computed, MainInPush
<1>2. CASE MainStep
  <2>1. CASE StartThread \/ ThreadsStarted
    BY <1>0, <2>1 DEF StartThread, ThreadsStarted, Phases, Computed, queue_vars, heap_vars,
                AfterGeneration, MainInPush
  <2>2. CASE PushJob
    BY <1>0, <2>2 DEF PushJob, Phases, Computed, MainInPush
  <2>3. CASE WaitForJobs \/ ResetCounter
    BY <1>0, <2>3 DEF WaitForJobs, ResetCounter, Phases, Computed, MainInPush, queue_vars,
                heap_vars
  <2>4. CASE SwapMatrices
    <3>1. curr_matrix = gen % 2
      BY <1>0, <2>4 DEF SwapMatrices, Computed
    <3>2. (1 - (gen % 2)) = (gen + 1) % 2
      BY <1>0
    <3>3. curr_matrix' = Computed' % 2
      BY <1>0, <2>4, <3>1, <3>2 DEF SwapMatrices, Computed
    <3> QED  BY <1>0, <2>4, <3>3 DEF SwapMatrices, Phases, MainInPush, queue_vars
  <2>5. CASE GenHistLock
    BY <1>0, <2>5 DEF GenHistLock, Phases, Computed, MainInPush, queue_vars, heap_vars
  <2>6. CASE GenHistUnlock
    BY <1>0, <2>6 DEF GenHistUnlock, Phases, Computed, MainInPush, queue_vars, heap_vars,
                AfterGeneration
  <2>7. CASE Finish
    BY <1>0, <2>7 DEF Finish, Phases, Computed, MainInPush, queue_vars
  <2>8. CASE PushNull
    BY <1>0, <2>8 DEF PushNull, NullPushes, Phases, Computed, MainInPush, heap_vars
  <2>9. CASE AllNullsPushed \/ JoinThread \/ AllJoined \/ Destroy
    BY <1>0, <2>9 DEF AllNullsPushed, JoinThread, AllJoined, Destroy, Phases, Computed,
                MainInPush, queue_vars, heap_vars
  <2> QED  BY <1>2, <2>1, <2>2, <2>3, <2>4, <2>5, <2>6, <2>7, <2>8, <2>9 DEF MainStep
<1>3. queue_pc = [t \in Workers \cup {Main} |-> queue_pc[t]]
  BY QueueShapes
<1>4. CASE MainInQueue
  <2>1. Queue'
    BY QueueKept
  <2>2. MainInPush' => MainInPush
    BY <1>4, <2>1, PushSteps DEF PushMoves, MainInPush
  <2> QED  BY <1>1, <1>4, <2>2 DEF MainInQueue, game_vars, heap_vars
<1>5. ASSUME NEW w \in Workers, WorkerStep(w)
      PROVE  Phases'
  <2>1. UNCHANGED <<main_vars, curr_matrix, finished>>
    BY <1>5 DEF WorkerStep, Pop, CheckFinished, ComputeLine, DeleteJob, LockGlobal, LoadCounter,
                StoreCounter, RecordTile, ExitLock, ExitUnlock, heap_vars
  <2>2. queue_pc'[Main] = queue_pc[Main]
    <3>1. CASE Pop(w)
      BY <1>3, <3>1, Calls DEF Pop
    <3>2. CASE ~ Pop(w)
      BY <1>5, <3>2 DEF WorkerStep, CheckFinished, ComputeLine, DeleteJob, LockGlobal,
                LoadCounter, StoreCounter, RecordTile, ExitLock, ExitUnlock, queue_vars
    <3> QED  BY <3>1, <3>2
  <2> QED  BY <1>1, <2>1, <2>2 DEF MainInPush
<1>6. ASSUME NEW w \in Workers, WorkerInQueue(w)
      PROVE  Phases'
  <2>1. queue_pc'[Main] = queue_pc[Main]
    BY <1>3, <1>6, PopSteps DEF PopMoves
  <2> QED  BY <1>1, <1>6, <2>1 DEF WorkerInQueue, game_vars, heap_vars, MainInPush
<1>7. CASE SpuriousWakeup
  BY <1>1, <1>7, Wakeups DEF SpuriousWakeup, game_vars, heap_vars, MainInPush
<1>8. CASE Terminated \/ UNCHANGED vars
  BY <1>1, <1>8 DEF Terminated, vars, heap_vars, queue_vars, MainInPush
<1> QED  BY <1>2, <1>4, <1>5, <1>6, <1>7, <1>8 DEF Next

LEMMA PlacesKept ==
    ASSUME Shapes, Queue, Phases, Places, [Next]_vars
    PROVE  Places'
<1> USE Numbers
<1>0. /\ i \in Nat /\ Workers \subseteq Nat /\ main_pc \in MainPC
      /\ worker_pc = [w \in Workers |-> worker_pc[w]]
      /\ \A w \in Workers : worker_pc[w] \in WorkerPC
      /\ queue_pc = [t \in Workers \cup {Main} |-> queue_pc[t]]
  BY QueueShapes DEF Shapes
<1>1. ASSUME UNCHANGED game_vars,
             \A w \in Workers : queue_pc'[w] # "idle" => queue_pc[w] # "idle"
      PROVE  Places'
  BY <1>1 DEF Places, game_vars, main_vars, worker_vars
<1>2. CASE MainStep
  <2>1. \A w \in Workers : queue_pc'[w] = queue_pc[w]
    <3>1. CASE PushJob \/ PushNull
      <4>1. \E x : Offers(x)
        BY <3>1, Calls DEF PushJob, PushNull
      <4> QED  BY <1>0, <4>1 DEF Offers
    <3>2. CASE ~(PushJob \/ PushNull)
      BY <1>2, <3>2 DEF MainStep, StartThread, ThreadsStarted, WaitForJobs, ResetCounter,
               SwapMatrices, GenHistLock, GenHistUnlock, Finish, AllNullsPushed, JoinThread,
               AllJoined, Destroy, queue_vars
    <3> QED  BY <3>1, <3>2
  <2>2. CASE StartThread
    <3>1. i \in Workers /\ worker_pc[i] = "none" /\ i' = i + 1 /\ main_pc' = "start"
      BY <1>0, <2>2 DEF StartThread, Workers, Places
    <3>2. \A w \in Workers : worker_pc'[w] = IF w = i THEN "pop" ELSE worker_pc[w]
      BY <1>0, <2>2 DEF StartThread, Goto
    <3> QED  BY <1>0, <2>1, <2>2, <3>1, <3>2 DEF StartThread, Places
  <2>3. CASE ThreadsStarted
    <3>1. \A w \in Workers : w < ThreadNum
      BY DEF Workers
    <3>2. i = ThreadNum /\ main_pc = "start" /\ main_pc' \in {"step", "finish"}
          /\ UNCHANGED <<worker_pc, global_lock>>
      BY <2>3 DEF ThreadsStarted, AfterGeneration, worker_vars
    <3> QED  BY <1>0, <2>1, <3>1, <3>2 DEF Places
  <2>4. CASE PushJob \/ PushNull
    BY <1>0, <2>1, <2>4 DEF PushJob, PushNull, worker_vars, Places
  <2>5. CASE WaitForJobs \/ ResetCounter \/ SwapMatrices
    BY <1>0, <2>1, <2>5 DEF WaitForJobs, ResetCounter, SwapMatrices, worker_vars, Places
  <2>6. CASE GenHistLock
    BY <1>0, <2>1, <2>6 DEF GenHistLock, Lock, worker_vars, Places
  <2>7. CASE GenHistUnlock
    BY <1>0, <2>1, <2>7 DEF GenHistUnlock, Unlock, AfterGeneration, worker_vars, Places
  <2>8. CASE Finish \/ AllNullsPushed
    BY <1>0, <2>1, <2>8 DEF Finish, AllNullsPushed, worker_vars, Places
  <2>9. CASE JoinThread
    BY <1>0, <2>1, <2>9 DEF JoinThread, worker_vars, Places
  <2>10. CASE AllJoined \/ Destroy
    <3>1. \A w \in Workers : w < ThreadNum
      BY DEF Workers
    <3>2. /\ (main_pc = "join" /\ i = ThreadNum) \/ main_pc = "destroy"
          /\ main_pc' \in {"destroy", "destroyed"}
          /\ UNCHANGED <<i, worker_pc, global_lock>>
      BY <2>10 DEF AllJoined, Destroy, worker_vars
    <3>3. \A w \in Workers : worker_pc[w] = "exited"
      BY <1>0, <3>1, <3>2 DEF Places
    <3> QED  BY <1>0, <2>1, <3>2, <3>3 DEF Places
  <2> QED  BY <1>2, <2>2, <2>3, <2>4, <2>5, <2>6, <2>7, <2>8, <2>9, <2>10 DEF MainStep
<1>3. CASE MainInQueue
  <2>1. \A w \in Workers : queue_pc'[w] = queue_pc[w]
    BY <1>0, <1>3, QueueKept, PushSteps DEF PushMoves
  <2> QED  BY <1>1, <1>3, <2>1 DEF MainInQueue
<1>4. ASSUME NEW w \in Workers, WorkerStep(w)
      PROVE  Places'
  <2>1. UNCHANGED main_vars
    BY <1>4 DEF WorkerStep, Pop, CheckFinished, ComputeLine, DeleteJob, LockGlobal, LoadCounter,
                StoreCounter, RecordTile, ExitLock, ExitUnlock, heap_vars
  <2>2. CASE Pop(w)
    <3>1. \A v \in Workers : queue_pc'[v] = IF v = w THEN "c_lock" ELSE queue_pc[v]
      BY <1>0, <2>2, Calls DEF Pop
    <3>2. \A v \in Workers : worker_pc'[v] = IF v = w THEN "popping" ELSE worker_pc[v]
      BY <1>0, <2>2 DEF Pop, Goto
    <3> QED  BY <2>1, <2>2, <3>1, <3>2 DEF Pop, Places, main_vars
  <2>3. CASE ~ Pop(w)
    <3>1. UNCHANGED queue_pc
      BY <1>4, <2>3 DEF WorkerStep, CheckFinished, ComputeLine, DeleteJob, LockGlobal,
                LoadCounter, StoreCounter, RecordTile, ExitLock, ExitUnlock, queue_vars
    <3>2. CASE CheckFinished(w)
      <4>1. /\ worker_pc[w] = "popping" /\ queue_pc[w] = "idle"
            /\ worker_pc'[w] \in {"exit_lock", "compute"}
            /\ \A v \in Workers \ {w} : worker_pc'[v] = worker_pc[v]
        BY <1>0, <3>2 DEF CheckFinished, Goto
      <4> QED  BY <2>1, <3>1, <3>2, <4>1 DEF CheckFinished, Places, main_vars
    <3>3. CASE ComputeLine(w)
      BY <2>1, <3>1, <3>3 DEF ComputeLine, Places, main_vars
    <3>4. CASE DeleteJob(w) \/ LoadCounter(w) \/ StoreCounter(w)
      <4>1. /\ \/ worker_pc[w] = "compute" /\ worker_pc'[w] = "lock"
               \/ worker_pc[w] = "count" /\ worker_pc'[w] = "store"
               \/ worker_pc[w] = "store" /\ worker_pc'[w] = "record"
            /\ \A v \in Workers \ {w} : worker_pc'[v] = worker_pc[v]
            /\ UNCHANGED global_lock
        BY <1>0, <3>4 DEF DeleteJob, LoadCounter, StoreCounter, Goto
      <4> QED  BY <2>1, <3>1, <4>1 DEF Places, main_vars
    <3>5. CASE LockGlobal(w) \/ ExitLock(w)
      <4>1. /\ \/ worker_pc[w] = "lock" /\ worker_pc'[w] = "count"
               \/ worker_pc[w] = "exit_lock" /\ worker_pc'[w] = "exit_unlock"
            /\ \A v \in Workers \ {w} : worker_pc'[v] = worker_pc[v]
            /\ global_lock = NoThread /\ global_lock' = w
        BY <1>0, <3>5 DEF LockGlobal, ExitLock, Goto, Lock
      <4> QED  BY <2>1, <3>1, <4>1 DEF Places, main_vars
    <3>6. CASE RecordTile(w) \/ ExitUnlock(w)
      <4>1. /\ \/ worker_pc[w] = "record" /\ worker_pc'[w] = "pop"
               \/ worker_pc[w] = "exit_unlock" /\ worker_pc'[w] = "exited"
            /\ \A v \in Workers \ {w} : worker_pc'[v] = worker_pc[v]
        BY <1>0, <3>6 DEF RecordTile, ExitUnlock, Goto
      <4>2. global_lock = w /\ global_lock' = NoThread
        BY <3>6, <4>1 DEF RecordTile, ExitUnlock, Unlock, Places
      <4> QED  BY <2>1, <3>1, <4>1, <4>2 DEF Places, main_vars
    <3> QED  BY <1>4, <2>3, <3>2, <3>3, <3>4, <3>5, <3>6 DEF WorkerStep
  <2> QED  BY <2>2, <2>3
<1>5. ASSUME NEW w \in Workers, WorkerInQueue(w)
      PROVE  Places'
  <2>1. queue_pc[w] # "idle" /\ \A v \in Workers \ {w} : queue_pc'[v] = queue_pc[v]
    BY <1>0, <1>5, PopSteps DEF PopMoves
  <2> QED  BY <1>1, <1>5, <2>1 DEF WorkerInQueue
<1>6. CASE SpuriousWakeup
  BY <1>1, <1>6, Wakeups DEF SpuriousWakeup
<1>7. CASE Terminated \/ UNCHANGED vars
  BY <1>1, <1>7 DEF Terminated, vars, game_vars, queue_vars
<1> QED  BY <1>2, <1>3, <1>4, <1>5, <1>6, <1>7 DEF Next

------------------------------------------------------------------------------
(* Where the items are: what each step changes *)

SameOffer == \A x \in Things : Offered(x)' <=> Offered(x)
SameHolds(w) == \A x \in Things : Holds(w, x)' <=> Holds(w, x)

Quiet == SameOffer /\ UNCHANGED items /\ \A w \in Workers : SameHolds(w)

(* The main thread offers y; what it offers gets into the queue; worker w  *)
(* takes the front of the queue; w has done with what it held.             *)
Puts(y) == /\ \A x \in Things : ~Offered(x) /\ (Offered(x)' <=> x = y)
           /\ UNCHANGED items
           /\ \A w \in Workers : SameHolds(w)

Enqueues == /\ \A x \in Things : (Offered(x) <=> x = arg[Main]) /\ ~Offered(x)'
            /\ arg[Main] \in Things /\ items' = Append(items, arg[Main])
            /\ \A w \in Workers : SameHolds(w)

Takes(w) == /\ SameOffer
            /\ items # << >> /\ items' = Tail(items)
            /\ \A x \in Things : ~Holds(w, x) /\ (Holds(w, x)' <=> x = Head(items))
            /\ \A v \in Workers \ {w} : SameHolds(v)

Drops(w) == /\ SameOffer /\ UNCHANGED items
            /\ \A x \in Things : ~Holds(w, x)'
            /\ \A v \in Workers \ {w} : SameHolds(v)

(* Only the state of the threads and of the queue matters. *)
LEMMA StaysQuiet ==
    ASSUME UNCHANGED <<items, arg, temp_item>>,
           Offered(arg[Main])' <=> Offered(arg[Main]),
           \A w \in Workers : Holds(w, temp_item[w])' <=> Holds(w, temp_item[w])
    PROVE  Quiet
  BY DEF Quiet, SameOffer, SameHolds, Offered, Holds

LEMMA MainMoves ==
    ASSUME Shapes, Queue, Phases, Places, Queue'
    PROVE  /\ MainStep /\ ~PushJob /\ ~PushNull => Quiet
           /\ PushJob => Puts(Job(i + 1))
           /\ PushNull => Puts(NullJob)
           /\ MainInQueue => Quiet \/ Enqueues
<1> USE Numbers
<1>0. /\ worker_pc = [w \in Workers |-> worker_pc[w]]
      /\ queue_pc = [t \in Workers \cup {Main} |-> queue_pc[t]]
      /\ arg = [p \in {Main} |-> arg[p]]
      /\ queue_pc[Main] \in {"idle", "p_lock", "p_test", "p_in", "p_out"}
      /\ MainInPush => arg[Main] \in Things
  BY QueueShapes DEF Shapes, Things
<1>1. ASSUME MainStep, ~PushJob, ~PushNull  PROVE Quiet
  <2>1. UNCHANGED queue_vars
    BY <1>1 DEF MainStep, StartThread, ThreadsStarted, WaitForJobs, ResetCounter,
               SwapMatrices, GenHistLock, GenHistUnlock, Finish, AllNullsPushed, JoinThread,
               AllJoined, Destroy
  <2>2. CASE StartThread
    <3>1. i \in Workers /\ worker_pc[i] = "none" /\ i \in Nat
      BY <1>0, <2>2 DEF StartThread, Workers, Places, Shapes
    <3>2. \A w \in Workers : worker_pc'[w] = IF w = i THEN "pop" ELSE worker_pc[w]
      BY <1>0, <2>2 DEF StartThread, Goto
    <3>3. \A w \in Workers : Holds(w, temp_item[w])' <=> Holds(w, temp_item[w])
      BY <2>1, <3>1, <3>2 DEF Holds, Worked, queue_vars
    <3> QED  BY <2>1, <3>3, StaysQuiet DEF queue_vars, Offered
  <2>3. CASE ~ StartThread
    <3>1. UNCHANGED worker_pc
      BY <1>1, <2>3 DEF MainStep, ThreadsStarted, WaitForJobs, ResetCounter,
               SwapMatrices, GenHistLock, GenHistUnlock, Finish, AllNullsPushed, JoinThread,
               AllJoined, Destroy, worker_vars
    <3> QED  BY <2>1, <3>1, StaysQuiet DEF queue_vars, Offered, Holds
  <2> QED  BY <2>2, <2>3
<1>2. ASSUME NEW x \in Things, Offers(x), UNCHANGED worker_pc
      PROVE  Puts(x)
  <2>1. queue_pc'[Main] = "p_lock" /\ \A w \in Workers : queue_pc'[w] = queue_pc[w]
    BY <1>0, <1>2 DEF Offers
  <2>2. arg'[Main] = x
    BY <1>0, <1>2 DEF Offers
  <2>3. \A w \in Workers : SameHolds(w)
    BY <1>2, <2>1 DEF Offers, SameHolds, Holds
  <2>4. \A y \in Things : ~Offered(y) /\ (Offered(y)' <=> y = x)
    BY <1>2, <2>1, <2>2 DEF Offers, Offered
  <2> QED  BY <1>2, <2>3, <2>4 DEF Puts, Offers
<1>3. ASSUME PushJob  PROVE Puts(Job(i + 1))
  BY <1>2, <1>3, PushedJob, Calls DEF PushJob, worker_vars, Things
<1>4. ASSUME PushNull  PROVE Puts(NullJob)
  BY <1>2, <1>4, Calls DEF PushNull, worker_vars, Things
<1>5. ASSUME MainInQueue  PROVE Quiet \/ Enqueues
  <2>1. PushMoves /\ UNCHANGED worker_pc
    BY <1>5, PushSteps DEF MainInQueue, game_vars, worker_vars
  <2>2. \A w \in Workers : queue_pc'[w] = queue_pc[w]
    BY <1>0, <2>1 DEF PushMoves
  <2>3. \A w \in Workers : SameHolds(w)
    BY <2>1, <2>2 DEF PushMoves, SameHolds, Holds
  <2>4. CASE UNCHANGED items
    <3>1. SameOffer
      <4>1. CASE queue_pc[Main] \in {"p_lock", "p_test"} /\ queue_pc'[Main] \in {"p_test", "p_in"}
        BY <2>1, <4>1 DEF PushMoves, SameOffer, Offered
      <4>2. CASE queue_pc[Main] = "p_out" /\ queue_pc'[Main] = "idle"
        BY <4>2 DEF SameOffer, Offered
      <4>3. CASE queue_pc[Main] = "p_in" /\ queue_pc'[Main] = "p_out"
            /\ items' = Append(items, arg[Main])
        <5>1. Len(items') # Len(items)
          BY <1>0, <4>3, QueueShapes DEF MainInPush, Things
        <5> QED  BY <2>4, <5>1
      <4> QED  BY <2>1, <4>1, <4>2, <4>3 DEF PushMoves
    <3> QED  BY <2>3, <2>4, <3>1 DEF Quiet
  <2>5. CASE /\ items' = Append(items, arg[Main])
             /\ queue_pc[Main] = "p_in" /\ queue_pc'[Main] = "p_out"
    <3>1. \A x \in Things : (Offered(x) <=> x = arg[Main]) /\ ~Offered(x)'
      BY <2>5 DEF Offered
    <3> QED  BY <1>0, <2>3, <2>5, <3>1 DEF Enqueues, MainInPush
  <2> QED  BY <2>1, <2>4, <2>5 DEF PushMoves
<1> QED  BY <1>1, <1>3, <1>4, <1>5

LEMMA WorkerMoves ==
    ASSUME Shapes, Queue, Phases, Places, NEW w \in Workers
    PROVE  /\ StoreCounter(w) => Drops(w)
           /\ CheckFinished(w) => IF finished THEN Drops(w) ELSE Quiet
           /\ WorkerStep(w) /\ ~StoreCounter(w) /\ ~CheckFinished(w) => Quiet
           /\ WorkerInQueue(w) => Quiet \/ Takes(w)
<1> USE Numbers
<1>0. /\ worker_pc = [v \in Workers |-> worker_pc[v]]
      /\ queue_pc = [t \in Workers \cup {Main} |-> queue_pc[t]]
      /\ temp_item = [v \in Workers |-> temp_item[v]]
      /\ worker_pc[w] # "popping" => queue_pc[w] = "idle"
  BY QueueShapes DEF Shapes, Places
<1>1. ASSUME UNCHANGED <<items, arg, temp_item>>, queue_pc'[Main] = queue_pc[Main],
             \A v \in Workers \ {w} : /\ worker_pc'[v] = worker_pc[v]
                                      /\ queue_pc'[v] = queue_pc[v],
             NEW x, x = temp_item[w], Holds(w, x)' <=> Holds(w, x)
      PROVE  Quiet
  BY <1>1, StaysQuiet DEF Offered, Holds
<1>2. ASSUME UNCHANGED queue_vars,
             \A v \in Workers \ {w} : worker_pc'[v] = worker_pc[v],
             worker_pc'[w] \notin Worked \cup {"popping"}
      PROVE  Drops(w)
  BY <1>2 DEF Drops, queue_vars, SameOffer, SameHolds, Offered, Holds
<1>3. ASSUME StoreCounter(w)  PROVE Drops(w)
  BY <1>0, <1>2, <1>3 DEF StoreCounter, Goto, Worked
<1>4. ASSUME CheckFinished(w)  PROVE IF finished THEN Drops(w) ELSE Quiet
  <2>1. CASE finished
    <3>1. /\ UNCHANGED queue_vars /\ worker_pc'[w] = "exit_lock"
          /\ \A v \in Workers \ {w} : worker_pc'[v] = worker_pc[v]
      BY <1>0, <1>4, <2>1 DEF CheckFinished, Goto
    <3> QED  BY <1>2, <2>1, <3>1 DEF Worked
  <2>2. CASE ~finished
    <3>1. /\ UNCHANGED queue_vars /\ worker_pc'[w] = "compute"
          /\ worker_pc[w] = "popping" /\ queue_pc[w] = "idle"
          /\ \A v \in Workers \ {w} : worker_pc'[v] = worker_pc[v]
      BY <1>0, <1>4, <2>2 DEF CheckFinished, Goto
    <3>2. Holds(w, temp_item[w])' <=> Holds(w, temp_item[w])
      BY <3>1 DEF queue_vars, Holds, Worked
    <3> QED  BY <1>1, <2>2, <3>1, <3>2 DEF queue_vars
  <2> QED  BY <2>1, <2>2
<1>5. ASSUME WorkerStep(w), ~StoreCounter(w), ~CheckFinished(w)  PROVE Quiet
  <2>1. CASE Pop(w)
    <3>1. /\ UNCHANGED <<items, arg, temp_item>>
          /\ \A t \in (Workers \cup {Main}) \ {w} : queue_pc'[t] = queue_pc[t]
          /\ queue_pc'[w] = "c_lock"
      BY <1>0, <2>1, Calls DEF Pop
    <3>2. /\ worker_pc[w] = "pop" /\ worker_pc'[w] = "popping"
          /\ \A v \in Workers \ {w} : worker_pc'[v] = worker_pc[v]
      BY <1>0, <2>1 DEF Pop, Goto
    <3>3. Holds(w, temp_item[w])' <=> Holds(w, temp_item[w])
      BY <3>1, <3>2 DEF Holds, Worked
    <3> QED  BY <1>1, <3>1, <3>2, <3>3
  <2>2. CASE ComputeLine(w)
    <3>1. UNCHANGED <<queue_vars, worker_pc>>
      BY <2>2 DEF ComputeLine
    <3> QED  BY <3>1, StaysQuiet DEF queue_vars, Offered, Holds
  <2>3. CASE \/ DeleteJob(w) \/ LockGlobal(w) \/ LoadCounter(w)
             \/ RecordTile(w) \/ ExitLock(w) \/ ExitUnlock(w)
    <3>1. /\ UNCHANGED queue_vars
          /\ \/ worker_pc[w] \in Worked /\ worker_pc'[w] \in Worked
             \/ /\ worker_pc[w] \notin Worked \cup {"popping"}
                /\ worker_pc'[w] \notin Worked \cup {"popping"}
          /\ \A v \in Workers \ {w} : worker_pc'[v] = worker_pc[v]
      BY <1>0, <2>3 DEF DeleteJob, LockGlobal, LoadCounter, RecordTile, ExitLock, ExitUnlock,
                Goto, Worked
    <3>2. Holds(w, temp_item[w])' <=> Holds(w, temp_item[w])
      BY <3>1 DEF queue_vars, Holds, Worked
    <3> QED  BY <1>1, <3>1, <3>2 DEF queue_vars
  <2> QED  BY <1>5, <2>1, <2>2, <2>3 DEF WorkerStep
<1>6. ASSUME WorkerInQueue(w)  PROVE Quiet \/ Takes(w)
  <2>1. PopMoves(w) /\ UNCHANGED worker_pc
    BY <1>6, PopSteps DEF WorkerInQueue, game_vars, worker_vars
  <2>2. \A t \in (Workers \cup {Main}) \ {w} : queue_pc'[t] = queue_pc[t]
    BY <1>0, <2>1 DEF PopMoves
  <2>3. queue_pc[w] # "idle" /\ worker_pc[w] = "popping"
    BY <2>1 DEF PopMoves, Places
  <2>4. CASE /\ UNCHANGED <<items, temp_item>>
             /\ \/ /\ queue_pc[w] \in {"c_lock", "c_test", "c_wait"}
                   /\ queue_pc'[w] \in {"c_test", "c_wait", "c_in"}
                \/ queue_pc[w] = "c_out" /\ queue_pc'[w] = "idle"
    <3>1. Holds(w, temp_item[w])' <=> Holds(w, temp_item[w])
      BY <2>1, <2>3, <2>4 DEF Holds, Worked
    <3> QED  BY <1>1, <2>1, <2>2, <2>4, <3>1 DEF PopMoves
  <2>5. CASE /\ queue_pc[w] = "c_in" /\ queue_pc'[w] = "c_out" /\ items # << >>
             /\ temp_item' = [temp_item EXCEPT ![w] = Head(items)]
             /\ items' = Tail(items)
    <3>1. temp_item'[w] = Head(items) /\ \A v \in Workers \ {w} : temp_item'[v] = temp_item[v]
      BY <1>0, <2>5
    <3>2. \A x \in Things : ~Holds(w, x) /\ (Holds(w, x)' <=> x = Head(items))
      BY <2>1, <2>3, <2>5, <3>1 DEF Holds, Worked
    <3>3. \A v \in Workers \ {w} : SameHolds(v)
      BY <2>1, <2>2, <3>1 DEF SameHolds, Holds
    <3>4. SameOffer
      BY <2>1, <2>2 DEF SameOffer, Offered, PopMoves
    <3> QED  BY <2>5, <3>2, <3>3, <3>4 DEF Takes
  <2> QED  BY <2>1, <2>4, <2>5 DEF PopMoves
<1> QED  BY <1>3, <1>4, <1>5, <1>6

LEMMA OtherMoves ==
    ASSUME SpuriousWakeup \/ UNCHANGED vars
    PROVE  Quiet
<1>1. UNCHANGED <<items, queue_pc, arg, temp_item, worker_pc>>
  BY Wakeups DEF SpuriousWakeup, vars, queue_vars, worker_vars, game_vars
<1> QED  BY <1>1, StaysQuiet DEF Offered, Holds

(* ... and what follows for the places of the items. *)
LEMMA QuietKeeps ==
    ASSUME Quiet
    PROVE  /\ \A x \in Things : AtLarge(x)' <=> AtLarge(x)
           /\ Apart => Apart'
<1>1. \A x \in Things : Queued(x)' <=> Queued(x)
  BY DEF Quiet, Queued
<1>2. Jobs \subseteq Things
  BY DEF Things
<1> QED  BY <1>1, <1>2 DEF Quiet, SameOffer, SameHolds, AtLarge, Apart

LEMMA PutsKeep ==
    ASSUME NEW y \in Things, Puts(y), y \in Jobs => ~AtLarge(y)
    PROVE  /\ \A x \in Things : AtLarge(x)' <=> AtLarge(x) \/ x = y
           /\ Apart => Apart'
<1>1. \A x \in Things : Queued(x)' <=> Queued(x)
  BY DEF Puts, Queued
<1>2. Jobs \subseteq Things
  BY DEF Things
<1>3. \A x \in Things : AtLarge(x)' <=> AtLarge(x) \/ x = y
  BY <1>1 DEF Puts, SameHolds, AtLarge
<1>4. ASSUME Apart, NEW x \in Jobs
      PROVE  /\ Offered(x)' => ~Queued(x)'
             /\ \A k, l \in 1 .. Len(items') : items'[k] = x /\ items'[l] = x => k = l
             /\ \A w \in Workers : Holds(w, x)' =>
                   /\ ~Offered(x)' /\ ~Queued(x)'
                   /\ \A v \in Workers : Holds(v, x)' => v = w
  BY <1>1, <1>2, <1>4 DEF Puts, SameHolds, AtLarge, Apart
<1> QED  BY <1>3, <1>4 DEF Apart

LEMMA AppendedItem ==
    ASSUME NEW S, NEW s \in Seq(S), NEW a \in S
    PROVE  /\ Len(Append(s, a)) = Len(s) + 1
           /\ \A k \in 1 .. Len(s) : Append(s, a)[k] = s[k]
           /\ Append(s, a)[Len(s) + 1] = a
           /\ \A x : (\E k \in 1 .. Len(Append(s, a)) : Append(s, a)[k] = x)
                        <=> (\E k \in 1 .. Len(s) : s[k] = x) \/ x = a
<1>1. /\ Len(s) \in Nat /\ Len(Append(s, a)) = Len(s) + 1
      /\ \A k \in 1 .. Len(s) : Append(s, a)[k] = s[k]
      /\ Append(s, a)[Len(s) + 1] = a
  OBVIOUS
<1>2. 1 .. Len(Append(s, a)) = (1 .. Len(s)) \cup {Len(s) + 1}
  BY <1>1
<1> QED  BY <1>1, <1>2

LEMMA RestOfItems ==
    ASSUME NEW S, NEW s \in Seq(S), s # << >>
    PROVE  /\ Len(s) \in Nat \ {0} /\ Len(Tail(s)) = Len(s) - 1
           /\ \A k \in 1 .. Len(s) - 1 : Tail(s)[k] = s[k + 1]
           /\ Head(s) = s[1] /\ Head(s) \in S
           /\ \A x : (\E k \in 1 .. Len(s) : s[k] = x)
                        <=> (\E k \in 1 .. Len(Tail(s)) : Tail(s)[k] = x) \/ x = Head(s)
<1>1. /\ Len(s) \in Nat \ {0} /\ Len(Tail(s)) = Len(s) - 1
      /\ \A k \in 1 .. Len(s) - 1 : Tail(s)[k] = s[k + 1]
      /\ Head(s) = s[1] /\ Head(s) \in S
  OBVIOUS
<1>2. ASSUME NEW k \in 1 .. Len(s)
      PROVE  s[k] = Head(s) \/ \E l \in 1 .. Len(Tail(s)) : Tail(s)[l] = s[k]
  <2>1. CASE k = 1
    BY <1>1, <2>1
  <2>2. CASE k # 1
    <3>1. k - 1 \in 1 .. Len(Tail(s)) /\ Tail(s)[k - 1] = s[k]
      BY <1>1, <2>2
    <3> QED  BY <3>1
  <2> QED  BY <2>1, <2>2
<1>3. ASSUME NEW l \in 1 .. Len(Tail(s))
      PROVE  \E k \in 1 .. Len(s) : s[k] = Tail(s)[l]
  <2>1. l + 1 \in 1 .. Len(s) /\ s[l + 1] = Tail(s)[l]
    BY <1>1
  <2> QED  BY <2>1
<1>4. 1 \in 1 .. Len(s)
  BY <1>1
<1> QED  BY <1>1, <1>2, <1>3, <1>4

LEMMA EnqueuesKeep ==
    ASSUME items \in Seq(Things), Enqueues
    PROVE  /\ \A x \in Things : AtLarge(x)' <=> AtLarge(x)
           /\ \A x \in Things : Offered(x)' \/ Queued(x)' <=> Offered(x) \/ Queued(x)
           /\ Apart => Apart'
<1>1. Jobs \subseteq Things
  BY DEF Things
<1>2. /\ Len(items) \in Nat /\ Len(items') = Len(items) + 1
      /\ \A k \in 1 .. Len(items) : items'[k] = items[k]
      /\ items'[Len(items) + 1] = arg[Main]
  BY AppendedItem DEF Enqueues
<1>3. \A x \in Things : Queued(x)' <=> Queued(x) \/ x = arg[Main]
  BY AppendedItem DEF Enqueues, Queued
<1>4. \A x \in Things : Offered(x)' \/ Queued(x)' <=> Offered(x) \/ Queued(x)
  BY <1>3 DEF Enqueues
<1>5. \A x \in Things : AtLarge(x)' <=> AtLarge(x)
  BY <1>4 DEF Enqueues, SameHolds, AtLarge
<1>6. ASSUME Apart, NEW x \in Jobs
      PROVE  /\ Offered(x)' => ~Queued(x)'
             /\ \A k, l \in 1 .. Len(items') : items'[k] = x /\ items'[l] = x => k = l
             /\ \A w \in Workers : Holds(w, x)' =>
                   /\ ~Offered(x)' /\ ~Queued(x)'
                   /\ \A v \in Workers : Holds(v, x)' => v = w
  <2>1. ~Offered(x)'
    BY <1>1 DEF Enqueues
  <2>2. ASSUME NEW k \in 1 .. Len(items'), NEW l \in 1 .. Len(items'),
               items'[k] = x, items'[l] = x, k # l
        PROVE  FALSE
    <3>1. CASE x = arg[Main]
      <4>1. Offered(x) /\ ~Queued(x)
        BY <1>1, <1>6, <3>1 DEF Enqueues, Apart
      <4>2. k = Len(items) + 1 /\ l = Len(items) + 1
        BY <1>2, <2>2, <4>1 DEF Queued
      <4> QED  BY <2>2, <4>2
    <3>2. CASE x # arg[Main]
      <4>1. k \in 1 .. Len(items) /\ l \in 1 .. Len(items)
        BY <1>2, <2>2, <3>2
      <4> QED  BY <1>2, <1>6, <2>2, <4>1 DEF Apart
    <3> QED  BY <3>1, <3>2
  <2>3. \A w \in Workers : Holds(w, x)' =>
           /\ ~Queued(x)'
           /\ \A v \in Workers : Holds(v, x)' => v = w
    BY <1>1, <1>3, <1>6 DEF Enqueues, SameHolds, Apart
  <2> QED  BY <2>1, <2>2, <2>3
<1> QED  BY <1>4, <1>5, <1>6 DEF Apart

LEMMA TakesKeep ==
    ASSUME items \in Seq(Things), NEW w \in Workers, Takes(w)
    PROVE  /\ \A x \in Things : AtLarge(x)' <=> AtLarge(x)
           /\ \A x \in Things : Queued(x) <=> Queued(x)' \/ x = Head(items)
           /\ Head(items) \in Things
           /\ Apart => Apart'
<1>1. Jobs \subseteq Things
  BY DEF Things
<1>2. /\ Len(items) \in Nat \ {0} /\ Len(items') = Len(items) - 1
      /\ \A k \in 1 .. Len(items) - 1 : items'[k] = items[k + 1]
      /\ Head(items) = items[1] /\ Head(items) \in Things
  BY RestOfItems DEF Takes
<1>3. \A x \in Things : Queued(x) <=> Queued(x)' \/ x = Head(items)
  BY RestOfItems DEF Takes, Queued
<1>4. \A x \in Things : AtLarge(x)' <=> AtLarge(x)
  BY <1>3 DEF Takes, SameOffer, SameHolds, AtLarge
<1>5. ASSUME Apart, NEW x \in Jobs
      PROVE  /\ Offered(x)' => ~Queued(x)'
             /\ \A k, l \in 1 .. Len(items') : items'[k] = x /\ items'[l] = x => k = l
             /\ \A v \in Workers : Holds(v, x)' =>
                   /\ ~Offered(x)' /\ ~Queued(x)'
                   /\ \A u \in Workers : Holds(u, x)' => u = v
  <2>1. Offered(x)' => ~Queued(x)'
    BY <1>1, <1>3, <1>5 DEF Takes, SameOffer, Apart
  <2>2. ASSUME NEW k \in 1 .. Len(items'), NEW l \in 1 .. Len(items'),
               items'[k] = x, items'[l] = x
        PROVE  k = l
    <3>1. k + 1 \in 1 .. Len(items) /\ l + 1 \in 1 .. Len(items)
          /\ items[k + 1] = x /\ items[l + 1] = x
      BY <1>2, <2>2
    <3>2. k + 1 = l + 1
      BY <1>5, <3>1 DEF Apart
    <3> QED  BY <3>2
  <2>3. ASSUME x = Head(items)
        PROVE  /\ Queued(x) /\ ~Queued(x)'
               /\ ~Offered(x) /\ \A v \in Workers : ~Holds(v, x)
    <3>1. Queued(x)
      BY <1>1, <1>3, <2>3
    <3>2. ~Queued(x)'
      <4> SUFFICES ASSUME NEW k \in 1 .. Len(items'), items'[k] = x  PROVE FALSE
        BY DEF Queued
      <4>1. k + 1 \in 1 .. Len(items) /\ items[k + 1] = x
            /\ 1 \in 1 .. Len(items) /\ items[1] = x
        BY <1>2, <2>3
      <4>2. k + 1 = 1
        BY <1>5, <4>1 DEF Apart
      <4> QED  BY <4>2
    <3> QED  BY <1>5, <3>1, <3>2 DEF Apart
  <2>4. \A v \in Workers : Holds(v, x)' =>
           /\ ~Offered(x)' /\ ~Queued(x)'
           /\ \A u \in Workers : Holds(u, x)' => u = v
    <3>1. CASE x = Head(items)
      BY <1>1, <2>3, <3>1 DEF Takes, SameOffer, SameHolds
    <3>2. CASE x # Head(items)
      BY <1>1, <1>3, <1>5, <3>2 DEF Takes, SameOffer, SameHolds, Apart
    <3> QED  BY <3>1, <3>2
  <2> QED  BY <2>1, <2>2, <2>4
<1> QED  BY <1>2, <1>3, <1>4, <1>5 DEF Apart

LEMMA DropsKeep ==
    ASSUME NEW w \in Workers, Drops(w)
    PROVE  /\ \A x \in Things : AtLarge(x)' => AtLarge(x)
           /\ \A x \in Things : ~Holds(w, x) => (AtLarge(x)' <=> AtLarge(x))
           /\ Apart => Apart' /\ \A x \in Jobs : Holds(w, x) => AtLarge(x) /\ ~AtLarge(x)'
<1>1. \A x \in Things : Queued(x)' <=> Queued(x)
  BY DEF Drops, Queued
<1>2. Jobs \subseteq Things
  BY DEF Things
<1>3. \A x \in Things : /\ AtLarge(x)' => AtLarge(x)
                        /\ ~Holds(w, x) => (AtLarge(x)' <=> AtLarge(x))
  BY <1>1 DEF Drops, SameOffer, SameHolds, AtLarge
<1>4. Apart => Apart'
  BY <1>1, <1>2 DEF Drops, SameOffer, SameHolds, Apart
<1>5. Apart => \A x \in Jobs : Holds(w, x) => AtLarge(x) /\ ~AtLarge(x)'
  BY <1>1, <1>2 DEF Drops, SameOffer, SameHolds, Apart, AtLarge
<1> QED  BY <1>3, <1>4, <1>5

LEMMA ItemsAreThings ==
    ASSUME Queue
    PROVE  /\ items \in Seq(Things)
           /\ \A w \in Workers : temp_item[w] \in Things
           /\ items # << >> => Head(items) \in Jobs \cup {NullJob}
<1>1. items \in Seq(Jobs \cup {NullJob})
  BY QueueShapes
<1>2. \A w \in Workers : temp_item[w] \in Jobs \cup {NullJob, NoItem}
  BY QueueShapes
<1> QED  BY <1>1, <1>2 DEF Things

LEMMA NewJob ==
    ASSUME Shapes, Phases, Expected, PushJob
    PROVE  /\ Job(i + 1) \in Jobs /\ i + 1 \in 1 .. ThreadNum /\ i \in Nat
           /\ ~AtLarge(Job(i + 1))
<1>1. /\ Job(i + 1) \in Jobs /\ i + 1 \in 1 .. ThreadNum
      /\ i \in Nat /\ gen \in Nat /\ main_pc = "step" /\ ThreadNum \in Nat
  BY PushedJob, Numbers DEF Shapes, PushJob
<1>2. ~finished /\ Pushed = i
  BY <1>1 DEF Phases, Pushed
<1>3. \A j \in 1 .. i : Job(i + 1) # Job(j)
  BY <1>1, JobsOfGeneration
<1> QED  BY <1>1, <1>2, <1>3 DEF Expected, Things

(* Every step is one of these, for the places of the items. *)
LEMMA Moves ==
    ASSUME Shapes, Queue, Phases, Places, Expected, [Next]_vars
    PROVE  \/ Quiet \/ Enqueues
           \/ \E w \in Workers : Takes(w) \/ Drops(w)
           \/ \E y \in Things : Puts(y) /\ (y \in Jobs => ~AtLarge(y))
<1>1. Queue'
  BY QueueKept
<1>2. CASE PushJob
  BY <1>1, <1>2, MainMoves, NewJob DEF Things
<1>3. CASE PushNull
  BY <1>1, <1>3, MainMoves, JobsAssumption DEF Things
<1>4. CASE MainStep \/ MainInQueue
  BY <1>1, <1>2, <1>3, <1>4, MainMoves
<1>5. ASSUME NEW w \in Workers, WorkerStep(w) \/ WorkerInQueue(w)
      PROVE  Quiet \/ Takes(w) \/ Drops(w)
  BY <1>5, WorkerMoves
<1>6. CASE SpuriousWakeup \/ Terminated \/ UNCHANGED vars
  BY <1>6, OtherMoves DEF Terminated
<1> QED  BY <1>4, <1>5, <1>6 DEF Next

LEMMA ApartKept ==
    ASSUME Shapes, Queue, Phases, Places, Expected, Apart, [Next]_vars
    PROVE  Apart'
<1>1. CASE Quiet
  BY <1>1, QuietKeeps
<1>2. CASE Enqueues
  BY <1>2, ItemsAreThings, EnqueuesKeep
<1>3. ASSUME NEW w \in Workers, Takes(w)  PROVE Apart'
  BY <1>3, ItemsAreThings, TakesKeep
<1>4. ASSUME NEW w \in Workers, Drops(w)  PROVE Apart'
  BY <1>4, DropsKeep
<1>5. ASSUME NEW y \in Things, Puts(y), y \in Jobs => ~AtLarge(y)  PROVE Apart'
  BY <1>5, PutsKeep
<1> QED  BY <1>1, <1>2, <1>3, <1>4, <1>5, Moves

(* While no job of the generation is counted or about, none is about.      *)
LEMMA NobodyBusy ==
    ASSUME Shapes, Phases, Expected, Counted,
           ~finished, Pushed = 0 \/ finished_thread_counter = Pushed
    PROVE  /\ \A x \in Things : ~AtLarge(x)
           /\ Uncounted = {} /\ finished_thread_counter = Pushed
           /\ Queue => \A w \in Workers : worker_pc[w] \notin Worked
<1>1. Pushed \in Nat /\ finished_thread_counter \in Nat /\ gen \in Nat
      /\ 1 .. Pushed \subseteq 1 .. ThreadNum
  BY Numbers DEF Pushed, Shapes, Phases
<1>2. Cardinality(Uncounted) \in Nat
  BY FS_CardinalityType DEF Counted
<1>3. Cardinality(Uncounted) = 0 /\ finished_thread_counter = Pushed
  BY <1>1, <1>2 DEF Counted
<1>4. Uncounted = {}
  BY <1>3, FS_EmptySet DEF Counted
<1>5. \A x \in Things : ~AtLarge(x)
  <2> SUFFICES ASSUME NEW x \in Things, AtLarge(x)  PROVE FALSE
    OBVIOUS
  <2>1. PICK j \in 1 .. Pushed : x = Job(j)
    BY DEF Expected
  <2>2. Job(j) \in Jobs
    BY <1>1, JobsOfGeneration
  <2> QED  BY <1>4, <2>1, <2>2 DEF Uncounted
<1>6. ASSUME Queue, NEW w \in Workers  PROVE worker_pc[w] \notin Worked
  BY <1>5, <1>6, ItemsAreThings DEF AtLarge, Holds
<1> QED  BY <1>3, <1>4, <1>5, <1>6

(* What the steps outside the main thread's control leave alone. *)
LEMMA MainAlone ==
    ASSUME [Next]_vars, ~MainStep
    PROVE  /\ UNCHANGED <<main_vars, finished, curr_matrix>>
           /\ MainInQueue \/ SpuriousWakeup \/ UNCHANGED vars => UNCHANGED game_vars
           /\ \A w \in Workers : WorkerInQueue(w) => UNCHANGED game_vars
<1>1. MainInQueue \/ SpuriousWakeup \/ UNCHANGED vars => UNCHANGED game_vars
  BY DEF MainInQueue, SpuriousWakeup, vars, game_vars
<1>2. \A w \in Workers : WorkerInQueue(w) => UNCHANGED game_vars
  BY DEF WorkerInQueue
<1>3. ASSUME NEW w \in Workers, WorkerStep(w)
      PROVE  UNCHANGED <<main_vars, finished, curr_matrix>>
  BY <1>3 DEF WorkerStep, Pop, CheckFinished, ComputeLine, DeleteJob, LockGlobal, LoadCounter,
              StoreCounter, RecordTile, ExitLock, ExitUnlock, heap_vars
<1>4. UNCHANGED game_vars => UNCHANGED <<main_vars, finished, curr_matrix>>
  BY DEF game_vars, heap_vars
<1> QED  BY <1>1, <1>2, <1>3, <1>4 DEF Next, Terminated

LEMMA JobsExpected ==
    ASSUME Shapes, Queue, Phases, Places, Expected, Apart, Counted, [Next]_vars
    PROVE  \A x \in Things : AtLarge(x)' =>
              IF finished' THEN x = NullJob ELSE \E j \in 1 .. Pushed' : x = Job(j)'
<1> USE Numbers
<1>0. i \in Nat /\ gen \in Nat /\ ThreadNum \in Nat /\ Queue'
  BY QueueKept DEF Shapes
<1>1. ASSUME \A x \in Things : AtLarge(x)' => AtLarge(x),
             UNCHANGED <<gen, finished>>, Pushed' = Pushed,
             NEW x \in Things, AtLarge(x)'
      PROVE  IF finished' THEN x = NullJob ELSE \E j \in 1 .. Pushed' : x = Job(j)'
  BY <1>1 DEF Expected, Job, From, To
<1>2. ASSUME \A x \in Things : AtLarge(x)' => AtLarge(x)
      PROVE  UNCHANGED <<gen, finished>> /\ Pushed' = Pushed =>
             \A x \in Things : AtLarge(x)' =>
                IF finished' THEN x = NullJob ELSE \E j \in 1 .. Pushed' : x = Job(j)'
  BY <1>1, <1>2
<1>3. CASE ~ MainStep
  <2>1. UNCHANGED <<gen, finished>> /\ Pushed' = Pushed
    BY <1>3, MainAlone DEF main_vars, Pushed
  <2>2. CASE Quiet
    BY <1>2, <2>1, <2>2, QuietKeeps
  <2>3. CASE Enqueues
    BY <1>2, <2>1, <2>3, EnqueuesKeep, ItemsAreThings
  <2>4. ASSUME NEW w \in Workers, Takes(w)
        PROVE  \A x \in Things : AtLarge(x)' => AtLarge(x)
    BY <2>4, TakesKeep, ItemsAreThings
  <2>5. ASSUME NEW w \in Workers, Drops(w)
        PROVE  \A x \in Things : AtLarge(x)' => AtLarge(x)
    BY <2>5, DropsKeep
  <2>6. MainInQueue => Quiet \/ Enqueues
    BY <1>0, MainMoves
  <2>7. \A w \in Workers : WorkerStep(w) \/ WorkerInQueue(w) => Quiet \/ Takes(w) \/ Drops(w)
    BY WorkerMoves
  <2>8. SpuriousWakeup \/ Terminated \/ UNCHANGED vars => Quiet
    BY OtherMoves DEF Terminated
  <2>9. Quiet \/ Enqueues \/ \E w \in Workers : Takes(w) \/ Drops(w)
    BY <1>3, <2>6, <2>7, <2>8 DEF Next
  <2> QED  BY <1>2, <2>1, <2>2, <2>3, <2>4, <2>5, <2>9
<1>4. CASE PushJob
  <2>1. \A x \in Things : AtLarge(x)' <=> AtLarge(x) \/ x = Job(i + 1)
    BY <1>0, <1>4, MainMoves, NewJob, PutsKeep DEF Things
  <2>2. /\ ~finished' /\ ~finished /\ UNCHANGED gen
        /\ Pushed = i /\ Pushed' = i + 1
    BY <1>0, <1>4 DEF PushJob, Phases, Pushed
  <2>3. \A j \in 1 .. i + 1 : Job(j)' = Job(j)
    BY <2>2 DEF Job, From, To
  <2>4. \A x \in Things : AtLarge(x) => \E j \in 1 .. i : x = Job(j)
    BY <2>2 DEF Expected
  <2> QED  BY <1>0, <2>1, <2>2, <2>3, <2>4
<1>5. CASE PushNull
  <2>1. \A x \in Things : AtLarge(x)' <=> AtLarge(x) \/ x = NullJob
    BY <1>0, <1>5, MainMoves, PutsKeep, JobsAssumption DEF Things
  <2>2. finished' /\ finished
    BY <1>5 DEF PushNull, Phases, heap_vars
  <2> QED  BY <2>1, <2>2 DEF Expected
<1>6. CASE MainStep /\ ~PushJob /\ ~PushNull
  <2>1. \A x \in Things : AtLarge(x)' <=> AtLarge(x)
    BY <1>0, <1>6, MainMoves, QuietKeeps
  <2>2. CASE ResetCounter \/ GenHistUnlock \/ Finish
    <3>1. ~finished /\ (Pushed = 0 \/ finished_thread_counter = Pushed)
      BY <2>2 DEF ResetCounter, GenHistUnlock, Finish, Phases, Pushed, Counted
    <3> QED  BY <2>1, <3>1, NobodyBusy
  <2>3. CASE \/ StartThread \/ ThreadsStarted \/ WaitForJobs \/ SwapMatrices \/ GenHistLock
             \/ AllNullsPushed \/ JoinThread \/ AllJoined \/ Destroy
    <3>1. UNCHANGED <<gen, finished>> /\ Pushed' = Pushed
      BY <1>0, <2>3 DEF StartThread, ThreadsStarted, WaitForJobs, SwapMatrices, GenHistLock,
               AllNullsPushed, JoinThread, AllJoined, Destroy, AfterGeneration, heap_vars, Pushed
    <3> QED  BY <1>2, <2>1, <3>1
  <2> QED  BY <1>6, <2>2, <2>3 DEF MainStep
<1> QED  BY <1>3, <1>4, <1>5, <1>6

(* A worker gets to work with a job in its hands, of this generation. *)
LEMMA InHands ==
    ASSUME Shapes, Queue, Phases, Expected, NEW w \in Workers,
           Holds(w, temp_item[w]), ~finished
    PROVE  /\ temp_item[w] \in Jobs
           /\ \E j \in 1 .. Pushed : temp_item[w] = Job(j) /\ j \in 1 .. ThreadNum
           /\ temp_item[w].current_matrix = From /\ temp_item[w].next_matrix = To
           /\ main_pc \in {"step", "reset"} /\ gen \in Nat
<1>1. PICK j \in 1 .. Pushed : temp_item[w] = Job(j)
  BY ItemsAreThings DEF Expected, AtLarge
<1>2. gen \in Nat /\ j \in 1 .. ThreadNum
  BY <1>1, Numbers DEF Pushed, Shapes, Phases
<1>3. Job(j) \in Jobs
  BY <1>2, JobsOfGeneration
<1>4. main_pc \in {"step", "reset"}
  BY <1>1 DEF Pushed
<1> QED  BY <1>1, <1>2, <1>3, <1>4 DEF Job

LEMMA ExpectedKept ==
    ASSUME Shapes, Queue, Phases, Places, Expected, Apart, Counted, [Next]_vars
    PROVE  Expected'
<1> USE Numbers
<1>0. /\ worker_pc = [v \in Workers |-> worker_pc[v]]
      /\ temp_item = [v \in Workers |-> temp_item[v]]
  BY QueueShapes DEF Shapes
<1>1. \A x \in Things : AtLarge(x)' =>
              IF finished' THEN x = NullJob ELSE \E j \in 1 .. Pushed' : x = Job(j)'
  BY JobsExpected
<1>2. ASSUME NEW w \in Workers, worker_pc'[w] \in Worked \cup {"record"},
             temp_item'[w] = temp_item[w], UNCHANGED gen,
             \/ worker_pc'[w] = worker_pc[w]
             \/ worker_pc[w] \in Worked /\ worker_pc'[w] \in Worked
      PROVE  temp_item'[w] \in Jobs
             /\ (worker_pc'[w] = "record" => temp_item'[w].current_matrix = From')
  BY <1>2 DEF Expected, From, Worked
<1>3. ASSUME NEW w \in Workers, worker_pc'[w] \in Worked \cup {"record"}
      PROVE  temp_item'[w] \in Jobs
             /\ (worker_pc'[w] = "record" => temp_item'[w].current_matrix = From')
  <2>1. CASE MainStep
    <3>1. UNCHANGED temp_item /\ (worker_pc'[w] = worker_pc[w])
      <4>1. CASE StartThread
        <5>1. i \in Workers
          BY <2>1, <4>1 DEF StartThread, Workers, Shapes
        <5> QED  BY <1>0, <1>3, <4>1, <5>1 DEF StartThread, Goto, Worked, queue_vars
      <4>2. CASE PushJob \/ PushNull
        BY <4>2, Calls DEF PushJob, PushNull, Offers, worker_vars
      <4>3. CASE ~(StartThread \/ PushJob \/ PushNull)
        BY <2>1, <4>3 DEF MainStep, ThreadsStarted, WaitForJobs, ResetCounter,
               SwapMatrices, GenHistLock, GenHistUnlock, Finish, AllNullsPushed, JoinThread,
               AllJoined, Destroy, worker_vars, queue_vars
      <4> QED  BY <4>1, <4>2, <4>3
    <3>2. CASE UNCHANGED gen
      BY <1>2, <1>3, <3>1, <3>2
    <3>3. CASE GenHistUnlock
      <4>1. worker_pc[w] # "record"
        BY <3>3 DEF GenHistUnlock, Places
      <4> QED  BY <1>3, <3>1, <4>1 DEF Expected
    <3> QED  BY <2>1, <3>2, <3>3 DEF MainStep, StartThread, ThreadsStarted, PushJob, WaitForJobs,
               ResetCounter, SwapMatrices, GenHistLock, Finish, PushNull, AllNullsPushed,
               JoinThread, AllJoined, Destroy
  <2>2. ASSUME NEW v \in Workers, WorkerStep(v), ~MainStep
        PROVE  temp_item'[w] \in Jobs
               /\ (worker_pc'[w] = "record" => temp_item'[w].current_matrix = From')
    <3>1. UNCHANGED <<temp_item, gen>>
      <4>1. UNCHANGED gen
        BY <2>2, MainAlone DEF main_vars
      <4>2. UNCHANGED temp_item
        BY <2>2, Calls DEF WorkerStep, Pop, CheckFinished, ComputeLine, DeleteJob, LockGlobal,
              LoadCounter, StoreCounter, RecordTile, ExitLock, ExitUnlock, queue_vars
      <4> QED  BY <4>1, <4>2
    <3>2. CASE v # w
      <4>1. worker_pc'[w] = worker_pc[w]
        BY <1>0, <2>2, <3>2 DEF WorkerStep, Pop, CheckFinished, ComputeLine, DeleteJob, LockGlobal,
              LoadCounter, StoreCounter, RecordTile, ExitLock, ExitUnlock, Goto
      <4> QED  BY <1>2, <1>3, <3>1, <4>1
    <3>3. CASE v = w /\ CheckFinished(w)
      <4>1. /\ worker_pc[w] = "popping" /\ queue_pc[w] = "idle" /\ ~finished
            /\ worker_pc'[w] # "record"
        BY <1>0, <1>3, <3>3 DEF CheckFinished, Goto, Worked
      <4>2. Holds(w, temp_item[w])
        BY <4>1 DEF Holds
      <4> QED  BY <3>1, <4>1, <4>2, InHands
    <3>4. CASE v = w /\ StoreCounter(w)
      <4>1. worker_pc[w] = "store"
        BY <3>4 DEF StoreCounter
      <4>2. Holds(w, temp_item[w])
        BY <4>1 DEF Holds, Worked
      <4>3. temp_item[w] \in Jobs
        BY <4>1 DEF Expected, Worked
      <4>4. ~finished
        <5>1. temp_item[w] # NullJob /\ temp_item[w] \in Things
          BY <4>3, JobsAssumption DEF Things
        <5> QED  BY <4>2, <5>1 DEF Expected, AtLarge
      <4> QED  BY <3>1, <4>2, <4>3, <4>4, InHands DEF From
    <3>5. CASE v = w /\ ~CheckFinished(w) /\ ~StoreCounter(w)
      <4>1. worker_pc'[w] = worker_pc[w] \/ (worker_pc[w] \in Worked /\ worker_pc'[w] \in Worked)
        BY <1>0, <1>3, <2>2, <3>5 DEF WorkerStep, Pop, ComputeLine, DeleteJob, LockGlobal,
              LoadCounter, RecordTile, ExitLock, ExitUnlock, Goto, Worked
      <4> QED  BY <1>2, <1>3, <3>1, <4>1
    <3> QED  BY <3>2, <3>3, <3>4, <3>5
  <2>3. ASSUME NEW v \in Workers, WorkerInQueue(v), ~MainStep
        PROVE  temp_item'[w] \in Jobs
               /\ (worker_pc'[w] = "record" => temp_item'[w].current_matrix = From')
    <3>1. UNCHANGED <<gen, worker_pc>>
      BY <2>3, MainAlone DEF game_vars, main_vars, worker_vars
    <3>2. worker_pc[v] = "popping"
      BY <2>3, PopSteps DEF PopMoves, Places
    <3>3. v # w
      BY <1>3, <3>1, <3>2 DEF Worked
    <3>4. temp_item'[w] = temp_item[w]
      BY <1>0, <2>3, <3>3, PopSteps DEF PopMoves
    <3> QED  BY <1>2, <1>3, <3>1, <3>4
  <2>4. CASE ~MainStep /\ (MainInQueue \/ SpuriousWakeup \/ Terminated \/ UNCHANGED vars)
    <3>1. UNCHANGED <<gen, worker_pc>>
      BY <2>4, MainAlone DEF game_vars, main_vars, worker_vars, Terminated
    <3>2. UNCHANGED temp_item
      BY <2>4, QueueKept, PushSteps, Wakeups DEF PushMoves, Terminated, vars, queue_vars
    <3> QED  BY <1>2, <1>3, <3>1, <3>2
  <2> QED  BY <2>1, <2>2, <2>3, <2>4 DEF Next
<1> QED  BY <1>1, <1>3 DEF Expected

------------------------------------------------------------------------------
(* The counters *)

SameKeeps(w) == \A x \in Jobs : Keeps(w, x)' <=> Keeps(w, x)

LEMMA UndeletedKept ==
    ASSUME Shapes, Queue, Phases, Places, Expected, Apart, [Next]_vars
    PROVE  /\ ~PushJob /\ (\A w \in Workers : ~DeleteJob(w)) => Undeleted' = Undeleted
           /\ PushJob => /\ Undeleted' = Undeleted \cup {Job(i + 1)}
                         /\ Job(i + 1) \notin Undeleted
           /\ \A w \in Workers : DeleteJob(w) => /\ Undeleted' = Undeleted \ {temp_item[w]}
                                                 /\ temp_item[w] \in Undeleted
<1> USE Numbers
<1>0. /\ worker_pc = [v \in Workers |-> worker_pc[v]]
      /\ Jobs \subseteq Things
      /\ Queue'
  BY QueueShapes, QueueKept DEF Shapes, Things
<1>1. ASSUME \A x \in Jobs : Offered(x)' \/ Queued(x)' <=> Offered(x) \/ Queued(x),
             \A w \in Workers : SameKeeps(w)
      PROVE  Undeleted' = Undeleted
  BY <1>1 DEF Undeleted, SameKeeps
<1>2. ASSUME Quiet, \A w \in Workers : SameKeeps(w)
      PROVE  Undeleted' = Undeleted
  <2>1. \A x \in Jobs : Offered(x)' \/ Queued(x)' <=> Offered(x) \/ Queued(x)
    BY <1>0, <1>2 DEF Quiet, SameOffer, Queued
  <2> QED  BY <1>1, <1>2, <2>1
<1>3. ASSUME NEW w \in Workers, SameHolds(w), worker_pc'[w] = worker_pc[w]
      PROVE  SameKeeps(w)
  BY <1>0, <1>3 DEF SameHolds, SameKeeps, Keeps
<1>4. ASSUME NEW y \in Things, Puts(y), UNCHANGED worker_pc
      PROVE  /\ y \notin Jobs => Undeleted' = Undeleted
             /\ y \in Jobs => Undeleted' = Undeleted \cup {y}
  <2>1. \A x \in Jobs : /\ ~Offered(x) /\ (Offered(x)' <=> x = y)
                        /\ Queued(x)' <=> Queued(x)
    BY <1>0, <1>4 DEF Puts, Queued
  <2>2. \A w \in Workers : SameKeeps(w)
    BY <1>3, <1>4 DEF Puts
  <2>3. ASSUME y \notin Jobs  PROVE Undeleted' = Undeleted
    BY <1>1, <2>1, <2>2, <2>3
  <2>4. ASSUME y \in Jobs  PROVE Undeleted' = Undeleted \cup {y}
    BY <2>1, <2>2, <2>4 DEF Undeleted, SameKeeps
  <2> QED  BY <2>3, <2>4
<1>5. ASSUME PushJob
      PROVE  Undeleted' = Undeleted \cup {Job(i + 1)} /\ Job(i + 1) \notin Undeleted
  <2>1. Job(i + 1) \in Jobs /\ ~AtLarge(Job(i + 1)) /\ Puts(Job(i + 1)) /\ UNCHANGED worker_pc
    BY <1>0, <1>5, NewJob, MainMoves DEF PushJob, worker_vars
  <2> QED  BY <1>0, <1>4, <2>1 DEF Undeleted, AtLarge, Keeps
<1>6. ASSUME PushNull
      PROVE  Undeleted' = Undeleted
  <2>1. Puts(NullJob) /\ UNCHANGED worker_pc /\ NullJob \in Things /\ NullJob \notin Jobs
    BY <1>0, <1>6, MainMoves, JobsAssumption DEF PushNull, worker_vars, Things
  <2> QED  BY <1>4, <1>5, <2>1
<1>7. ASSUME MainStep /\ ~PushJob /\ ~PushNull
      PROVE  Undeleted' = Undeleted
  <2>1. Quiet
    BY <1>0, <1>7, MainMoves
  <2>2. CASE StartThread
    <3>1. i \in Workers /\ i \in Nat /\ worker_pc[i] = "none"
      BY <1>0, <2>2 DEF StartThread, Workers, Places, Shapes
    <3>2. worker_pc'[i] = "pop" /\ \A w \in Workers \ {i} : worker_pc'[w] = worker_pc[w]
      BY <1>0, <2>2, <3>1 DEF StartThread, Goto
    <3>3. ASSUME NEW w \in Workers, w = i
          PROVE  SameKeeps(w)
      BY <3>1, <3>2, <3>3 DEF SameKeeps, Keeps
    <3> QED  BY <1>2, <1>3, <2>1, <3>2, <3>3 DEF Quiet
  <2>3. CASE ~StartThread
    <3>1. UNCHANGED worker_pc
      BY <1>7, <2>3 DEF MainStep, ThreadsStarted, WaitForJobs, ResetCounter,
               SwapMatrices, GenHistLock, GenHistUnlock, Finish, AllNullsPushed, JoinThread,
               AllJoined, Destroy, worker_vars
    <3> QED  BY <1>2, <1>3, <2>1, <3>1 DEF Quiet
  <2> QED  BY <2>2, <2>3
<1>8. ASSUME MainInQueue
      PROVE  Undeleted' = Undeleted
  <2>1. UNCHANGED worker_pc
    BY <1>8 DEF MainInQueue, game_vars, worker_vars
  <2>2. CASE Quiet
    BY <1>2, <1>3, <2>1, <2>2 DEF Quiet
  <2>3. CASE Enqueues
    <3>1. \A x \in Jobs : Offered(x)' \/ Queued(x)' <=> Offered(x) \/ Queued(x)
      BY <1>0, <2>3, EnqueuesKeep, ItemsAreThings
    <3> QED  BY <1>1, <1>3, <2>1, <2>3, <3>1 DEF Enqueues
  <2> QED  BY <1>0, <1>8, <2>2, <2>3, MainMoves
<1>9. ASSUME SpuriousWakeup \/ Terminated \/ UNCHANGED vars
      PROVE  Undeleted' = Undeleted
  <2>1. Quiet /\ UNCHANGED worker_pc
    BY <1>9, OtherMoves DEF SpuriousWakeup, game_vars, worker_vars, Terminated, vars
  <2> QED  BY <1>2, <1>3, <2>1 DEF Quiet
<1>10. ASSUME NEW w \in Workers, WorkerInQueue(w)
       PROVE  Undeleted' = Undeleted
  <2>1. UNCHANGED worker_pc /\ worker_pc[w] = "popping"
    BY <1>10, PopSteps DEF WorkerInQueue, game_vars, worker_vars, PopMoves, Places
  <2>2. CASE Quiet
    BY <1>2, <1>3, <2>1, <2>2 DEF Quiet
  <2>3. CASE Takes(w)
    <3>1. \A x \in Things : Queued(x) <=> Queued(x)' \/ x = Head(items)
      BY <2>3, TakesKeep, ItemsAreThings
    <3>2. \A x \in Things : ~Keeps(w, x) /\ (Keeps(w, x)' <=> x = Head(items))
      BY <2>1, <2>3 DEF Takes, Keeps
    <3>3. \A v \in Workers \ {w} : SameKeeps(v)
      BY <1>3, <2>1, <2>3 DEF Takes
    <3>4. \A x \in Jobs : (Offered(x) <=> Offered(x)')
      BY <1>0, <2>3 DEF Takes, SameOffer
    <3> QED  BY <1>0, <3>1, <3>2, <3>3, <3>4 DEF Undeleted, SameKeeps
  <2> QED  BY <1>10, <2>2, <2>3, WorkerMoves
<1>11. ASSUME NEW w \in Workers, WorkerStep(w)
       PROVE  \A v \in Workers \ {w} : worker_pc'[v] = worker_pc[v]
  BY <1>0, <1>11 DEF WorkerStep, Pop, CheckFinished, ComputeLine, DeleteJob, LockGlobal,
              LoadCounter, StoreCounter, RecordTile, ExitLock, ExitUnlock, Goto
<1>12. ASSUME NEW w \in Workers, WorkerStep(w), ~DeleteJob(w)
       PROVE  Undeleted' = Undeleted
  <2>1. CASE StoreCounter(w) \/ (CheckFinished(w) /\ finished)
    <3>1. Drops(w)
      BY <2>1, WorkerMoves
    <3>2. \A v \in Workers \ {w} : SameKeeps(v)
      BY <1>3, <1>11, <1>12, <3>1 DEF Drops
    <3>3. \A x \in Jobs : ~Keeps(w, x)'
      BY <1>0, <3>1 DEF Drops, Keeps
    <3>4. \A x \in Jobs : ~Keeps(w, x)
      <4>1. CASE StoreCounter(w)
        BY <4>1 DEF StoreCounter, Keeps
      <4>2. CASE finished
        BY <1>0, <4>2, JobsAssumption DEF Expected, AtLarge, Keeps
      <4> QED  BY <2>1, <4>1, <4>2
    <3>5. \A x \in Jobs : Offered(x)' \/ Queued(x)' <=> Offered(x) \/ Queued(x)
      BY <1>0, <3>1 DEF Drops, SameOffer, Queued
    <3> QED  BY <1>1, <3>2, <3>3, <3>4, <3>5 DEF SameKeeps
  <2>2. CASE ~(StoreCounter(w) \/ (CheckFinished(w) /\ finished))
    <3>1. Quiet
      BY <1>12, <2>2, WorkerMoves
    <3>2. \/ worker_pc[w] \in {"popping", "compute"} /\ worker_pc'[w] \in {"popping", "compute"}
          \/ /\ worker_pc[w] \notin {"popping", "compute"}
             /\ worker_pc'[w] \notin {"popping", "compute"}
          \/ Pop(w)
      BY <1>0, <1>12, <2>2 DEF WorkerStep, CheckFinished, ComputeLine, LockGlobal,
              LoadCounter, StoreCounter, RecordTile, ExitLock, ExitUnlock, Goto
    <3>3. SameKeeps(w)
      <4>1. CASE Pop(w)
        <5>1. \A x \in Jobs : ~Holds(w, x)
          BY <4>1 DEF Pop, Holds, Worked
        <5> QED  BY <1>0, <3>1, <5>1 DEF Quiet, SameHolds, SameKeeps, Keeps
      <4>2. CASE ~Pop(w)
        BY <1>0, <3>1, <3>2, <4>2 DEF Quiet, SameHolds, SameKeeps, Keeps
      <4> QED  BY <4>1, <4>2
    <3> QED  BY <1>2, <1>3, <1>11, <1>12, <3>1, <3>3 DEF Quiet
  <2> QED  BY <2>1, <2>2
<1>13. ASSUME NEW w \in Workers, DeleteJob(w)
       PROVE  Undeleted' = Undeleted \ {temp_item[w]} /\ temp_item[w] \in Undeleted
  <2>1. /\ worker_pc[w] = "compute" /\ worker_pc'[w] = "lock"
        /\ \A v \in Workers \ {w} : worker_pc'[v] = worker_pc[v]
        /\ temp_item[w] \in Jobs
    BY <1>0, <1>13 DEF DeleteJob, Goto, Expected, Worked
  <2>2. Quiet
    BY <1>13, WorkerMoves DEF WorkerStep, DeleteJob, StoreCounter, CheckFinished
  <2>3. \A x \in Jobs : ~Keeps(w, x)' /\ (Keeps(w, x) <=> x = temp_item[w])
    BY <2>1 DEF Keeps, Holds, Worked
  <2>4. \A v \in Workers \ {w} : SameKeeps(v)
    BY <1>3, <2>1, <2>2 DEF Quiet
  <2>5. \A x \in Jobs : (Offered(x) <=> Offered(x)') /\ (Queued(x) <=> Queued(x)')
    BY <1>0, <2>2 DEF Quiet, SameOffer, Queued
  <2>6. LET x == temp_item[w] IN
        /\ ~Offered(x) /\ ~Queued(x) /\ \A v \in Workers \ {w} : ~Keeps(v, x)
    <3>1. Holds(w, temp_item[w])
      BY <2>1, <2>3 DEF Keeps
    <3> QED  BY <2>1, <3>1 DEF Apart, Keeps
  <2> HIDE DEF Offered, Queued, Keeps
  <2>7. Undeleted' = Undeleted \ {temp_item[w]}
    BY <2>1, <2>3, <2>4, <2>5, <2>6 DEF Undeleted, SameKeeps
  <2> QED  BY <2>1, <2>3, <2>7 DEF Undeleted
<1>14. ASSUME NEW w \in Workers, DeleteJob(w)
       PROVE  ~PushJob
  <2>1. /\ worker_pc[w] = "compute" /\ worker_pc'[w] = "lock"
    BY <1>0, <1>14 DEF DeleteJob, Goto
  <2> QED  BY <2>1 DEF PushJob, worker_vars
<1> QED  BY <1>5, <1>6, <1>7, <1>8, <1>9, <1>10, <1>12, <1>13, <1>14 DEF Next

LEMMA UncountedKept ==
    ASSUME Shapes, Queue, Phases, Places, Expected, Apart, [Next]_vars
    PROVE  /\ ~PushJob /\ (\A w \in Workers : ~StoreCounter(w)) => Uncounted' = Uncounted
           /\ PushJob => /\ Uncounted' = Uncounted \cup {Job(i + 1)}
                         /\ Job(i + 1) \notin Uncounted
           /\ \A w \in Workers : StoreCounter(w) => /\ Uncounted' = Uncounted \ {temp_item[w]}
                                                    /\ temp_item[w] \in Uncounted
<1>0. Jobs \subseteq Things /\ Queue'
  BY QueueKept DEF Things
<1>1. ASSUME \A x \in Jobs : AtLarge(x)' <=> AtLarge(x)
      PROVE  Uncounted' = Uncounted
  BY <1>1 DEF Uncounted
<1>2. ASSUME Quiet  PROVE Uncounted' = Uncounted
  BY <1>0, <1>1, <1>2, QuietKeeps
<1>3. ASSUME PushJob
      PROVE  Uncounted' = Uncounted \cup {Job(i + 1)} /\ Job(i + 1) \notin Uncounted
  <2>1. Job(i + 1) \in Jobs /\ ~AtLarge(Job(i + 1)) /\ Puts(Job(i + 1))
    BY <1>0, <1>3, NewJob, MainMoves
  <2>2. \A x \in Jobs : AtLarge(x)' <=> AtLarge(x) \/ x = Job(i + 1)
    BY <1>0, <2>1, PutsKeep
  <2> QED  BY <2>1, <2>2 DEF Uncounted
<1>4. ASSUME PushNull  PROVE Uncounted' = Uncounted
  <2>1. Puts(NullJob) /\ NullJob \in Things /\ NullJob \notin Jobs
    BY <1>0, <1>4, MainMoves, JobsAssumption DEF Things
  <2> QED  BY <1>0, <1>1, <2>1, PutsKeep
<1>5. ASSUME MainStep, ~PushJob  PROVE Uncounted' = Uncounted
  BY <1>0, <1>2, <1>4, <1>5, MainMoves
<1>6. ASSUME MainInQueue  PROVE Uncounted' = Uncounted
  BY <1>0, <1>1, <1>2, <1>6, MainMoves, EnqueuesKeep, ItemsAreThings
<1>7. ASSUME NEW w \in Workers, WorkerInQueue(w)  PROVE Uncounted' = Uncounted
  BY <1>0, <1>1, <1>2, <1>7, WorkerMoves, TakesKeep, ItemsAreThings
<1>8. ASSUME SpuriousWakeup \/ Terminated \/ UNCHANGED vars  PROVE Uncounted' = Uncounted
  BY <1>2, <1>8, OtherMoves DEF Terminated
<1>9. ASSUME NEW w \in Workers, WorkerStep(w), ~StoreCounter(w)  PROVE Uncounted' = Uncounted
  <2>1. CASE CheckFinished(w) /\ finished
    <3>1. Drops(w)
      BY <2>1, WorkerMoves
    <3>2. \A x \in Jobs : ~Holds(w, x)
      BY <1>0, <2>1, JobsAssumption DEF Expected, AtLarge
    <3> QED  BY <1>0, <1>1, <3>1, <3>2, DropsKeep
  <2>2. CASE ~(CheckFinished(w) /\ finished)
    BY <1>2, <1>9, <2>2, WorkerMoves
  <2> QED  BY <2>1, <2>2
<1>10. ASSUME NEW w \in Workers, StoreCounter(w)
       PROVE  Uncounted' = Uncounted \ {temp_item[w]} /\ temp_item[w] \in Uncounted
  <2>1. Drops(w) /\ worker_pc[w] = "store"
    BY <1>10, WorkerMoves DEF StoreCounter
  <2>2. temp_item[w] \in Jobs /\ Holds(w, temp_item[w])
    BY <2>1 DEF Expected, Holds, Worked
  <2>3. AtLarge(temp_item[w]) /\ \A x \in Jobs : x = temp_item[w] => ~AtLarge(x)'
    BY <2>1, <2>2, DropsKeep
  <2>4. \A x \in Jobs : x # temp_item[w] => (AtLarge(x)' <=> AtLarge(x))
    <3>1. \A x \in Jobs : x # temp_item[w] => ~Holds(w, x)
      BY DEF Holds
    <3> QED  BY <1>0, <2>1, <3>1, DropsKeep
  <2> QED  BY <2>2, <2>3, <2>4 DEF Uncounted
<1>11. ASSUME NEW w \in Workers, StoreCounter(w)  PROVE ~PushJob
  <2>1. worker_pc[w] = "store" /\ worker_pc'[w] = "record"
    BY <1>11 DEF StoreCounter, Goto, Shapes
  <2> QED  BY <2>1 DEF PushJob, worker_vars
<1> QED  BY <1>3, <1>5, <1>6, <1>7, <1>8, <1>9, <1>10, <1>11 DEF Next

LEMMA LiveJobs ==
    ASSUME Counted
    PROVE  /\ Undeleted \subseteq Uncounted /\ IsFiniteSet(Undeleted)
           /\ Cardinality(Undeleted) \in Nat /\ Cardinality(Uncounted) \in Nat
           /\ Cardinality(Undeleted) <= Cardinality(Uncounted)
<1>1. Undeleted \subseteq Uncounted
  BY DEF Undeleted, Uncounted, AtLarge, Keeps
<1> QED  BY <1>1, FS_Subset, FS_CardinalityType DEF Counted

LEMMA LiveJobsKept ==
    ASSUME Shapes, Queue, Phases, Places, Expected, Apart, Counted, [Next]_vars
    PROVE  live_jobs' = Cardinality(Undeleted)' /\ live_jobs' \in Nat
<1>1. live_jobs = Cardinality(Undeleted) /\ IsFiniteSet(Undeleted) /\ live_jobs \in Nat
  BY LiveJobs DEF Counted
<1>2. CASE PushJob
  <2>1. live_jobs' = live_jobs + 1
    BY <1>2 DEF PushJob
  <2>2. Undeleted' = Undeleted \cup {Job(i + 1)} /\ Job(i + 1) \notin Undeleted
    BY <1>2, UndeletedKept
  <2> HIDE DEF Undeleted
  <2> QED  BY <1>1, <2>1, <2>2, FS_AddElement
<1>3. ASSUME NEW w \in Workers, DeleteJob(w)
      PROVE  live_jobs' = Cardinality(Undeleted)' /\ live_jobs' \in Nat
  <2>1. live_jobs' = live_jobs - 1
    BY <1>3 DEF DeleteJob
  <2>2. Undeleted' = Undeleted \ {temp_item[w]} /\ temp_item[w] \in Undeleted
    BY <1>3, UndeletedKept
  <2> HIDE DEF Undeleted
  <2>3. Cardinality(Undeleted') = Cardinality(Undeleted) - 1 /\ Undeleted # {}
        /\ IsFiniteSet(Undeleted')
    BY <1>1, <2>2, FS_RemoveElement
  <2>4. Cardinality(Undeleted') \in Nat
    BY <2>3, FS_CardinalityType
  <2> QED  BY <1>1, <2>1, <2>3, <2>4
<1>4. CASE ~PushJob /\ \A w \in Workers : ~DeleteJob(w)
  <2>1. UNCHANGED live_jobs
    <3>1. MainStep => UNCHANGED live_jobs
      BY <1>4 DEF MainStep, StartThread, ThreadsStarted, WaitForJobs, ResetCounter, PushNull,
               SwapMatrices, GenHistLock, GenHistUnlock, Finish, AllNullsPushed, JoinThread,
               AllJoined, Destroy, heap_vars
    <3>2. \A w \in Workers : WorkerStep(w) => UNCHANGED live_jobs
      BY <1>4 DEF WorkerStep, Pop, CheckFinished, ComputeLine, LockGlobal,
              LoadCounter, StoreCounter, RecordTile, ExitLock, ExitUnlock, heap_vars
    <3> QED  BY <3>1, <3>2 DEF Next, MainInQueue, WorkerInQueue, SpuriousWakeup, Terminated,
                game_vars, heap_vars, vars
  <2>2. Undeleted' = Undeleted
    BY <1>4, UndeletedKept
  <2> QED  BY <1>1, <2>1, <2>2
<1> QED  BY <1>2, <1>3, <1>4

LEMMA CountedKept ==
    ASSUME Shapes, Queue, Phases, Places, Expected, Apart, Counted, [Next]_vars
    PROVE  Counted' /\ finished_thread_counter' \in Nat
<1> USE Numbers
<1>0. /\ IsFiniteSet(Uncounted) /\ Cardinality(Uncounted) \in Nat
      /\ finished_thread_counter + Cardinality(Uncounted) = Pushed
      /\ finished_thread_counter \in Nat /\ ThreadNum \in Nat /\ i \in Nat /\ Pushed \in Nat
      /\ main_pc = "reset" => finished_thread_counter = ThreadNum
  BY LiveJobs DEF Counted, Shapes, Pushed
<1>1. live_jobs' = Cardinality(Undeleted)'
  BY LiveJobsKept
<1>2. ASSUME Uncounted' = Uncounted, UNCHANGED <<finished_thread_counter, main_pc>>,
             Pushed' = Pushed,
             \A w \in Workers : worker_pc'[w] = "store" => count'[w] = finished_thread_counter
      PROVE  Counted' /\ finished_thread_counter' \in Nat
  BY <1>0, <1>1, <1>2 DEF Counted
<1>3. \A w \in Workers : worker_pc[w] = "store" => count[w] = finished_thread_counter
  BY DEF Counted
<1>4. CASE PushJob
  <2>1. /\ finished_thread_counter' = finished_thread_counter
        /\ main_pc' = "step" /\ Pushed = i /\ Pushed' = i + 1
        /\ UNCHANGED <<worker_pc, count>>
    BY <1>4 DEF PushJob, Pushed, worker_vars
  <2>2. Uncounted' = Uncounted \cup {Job(i + 1)} /\ Job(i + 1) \notin Uncounted
    BY <1>4, UncountedKept
  <2> HIDE DEF Uncounted
  <2>3. IsFiniteSet(Uncounted') /\ Cardinality(Uncounted') = Cardinality(Uncounted) + 1
    BY <1>0, <2>2, FS_AddElement
  <2> QED  BY <1>0, <1>1, <1>3, <2>1, <2>3 DEF Counted
<1>5. CASE MainStep /\ ~PushJob
  <2>1. Uncounted' = Uncounted
    <3>1. \A w \in Workers : ~StoreCounter(w)
      <4> SUFFICES ASSUME NEW w \in Workers, StoreCounter(w)  PROVE FALSE
        OBVIOUS
      <4>1. worker_pc[w] = "store" /\ worker_pc'[w] = "record" /\ UNCHANGED main_vars
        BY DEF StoreCounter, Goto, Shapes
      <4>2. CASE StartThread
        BY <1>0, <4>1, <4>2 DEF StartThread, main_vars
      <4>3. CASE ~StartThread
        BY <1>5, <4>1, <4>3 DEF MainStep, ThreadsStarted, WaitForJobs, ResetCounter, PushNull,
               SwapMatrices, GenHistLock, GenHistUnlock, Finish, AllNullsPushed, JoinThread,
               AllJoined, Destroy, worker_vars
      <4> QED  BY <4>2, <4>3
    <3> QED  BY <1>5, <3>1, UncountedKept
  <2>2. \A w \in Workers : worker_pc'[w] = "store" =>
                              worker_pc[w] = "store" /\ count'[w] = count[w]
    <3>1. CASE StartThread
      BY <3>1 DEF StartThread, Goto, Shapes
    <3>2. CASE ~StartThread
      BY <1>5, <3>2 DEF MainStep, ThreadsStarted, WaitForJobs, ResetCounter, PushNull,
               SwapMatrices, GenHistLock, GenHistUnlock, Finish, AllNullsPushed, JoinThread,
               AllJoined, Destroy, worker_vars
    <3> QED  BY <3>1, <3>2
  <2>3. CASE ResetCounter
    <3>1. ~finished /\ finished_thread_counter = Pushed
      BY <1>0, <2>3 DEF ResetCounter, Phases, Pushed
    <3>2. Uncounted = {} /\ \A w \in Workers : worker_pc[w] \notin Worked
      BY <3>1, NobodyBusy
    <3>3. finished_thread_counter' = 0 /\ main_pc' = "swap" /\ Pushed' = 0
      BY <2>3 DEF ResetCounter, Pushed
    <3>4. Cardinality(Uncounted') = 0 /\ IsFiniteSet(Uncounted')
      BY <2>1, <3>2, FS_EmptySet
    <3>5. \A w \in Workers : worker_pc'[w] # "store"
      BY <2>2, <3>2 DEF Worked
    <3> QED  BY <1>1, <3>3, <3>4, <3>5 DEF Counted
  <2>4. CASE WaitForJobs
    <3>1. /\ finished_thread_counter' = finished_thread_counter
          /\ finished_thread_counter = ThreadNum /\ main_pc' = "reset"
          /\ Pushed' = Pushed
      BY <2>4 DEF WaitForJobs, AllCounted, Pushed
    <3> QED  BY <1>0, <1>1, <1>3, <2>1, <2>2, <3>1 DEF Counted
  <2>5. CASE \/ StartThread \/ ThreadsStarted \/ SwapMatrices \/ GenHistLock \/ GenHistUnlock
             \/ Finish \/ PushNull \/ AllNullsPushed \/ JoinThread \/ AllJoined \/ Destroy
    <3>1. /\ finished_thread_counter' = finished_thread_counter
          /\ main_pc' # "reset" /\ Pushed' = Pushed
      BY <1>0, <2>5 DEF StartThread, ThreadsStarted, SwapMatrices, GenHistLock, GenHistUnlock,
             Finish, PushNull, AllNullsPushed, JoinThread, AllJoined, Destroy, AfterGeneration,
             Pushed
    <3> QED  BY <1>0, <1>1, <1>3, <2>1, <2>2, <3>1 DEF Counted
  <2> QED  BY <1>5, <2>3, <2>4, <2>5 DEF MainStep
<1>6. CASE ~MainStep
  <2>1. UNCHANGED main_pc /\ Pushed' = Pushed /\ UNCHANGED main_vars
    BY <1>6, MainAlone DEF main_vars, Pushed
  <2>2. ASSUME NEW w \in Workers, StoreCounter(w)
        PROVE  Counted' /\ finished_thread_counter' \in Nat
    <3>1. /\ worker_pc[w] = "store" /\ finished_thread_counter' = count[w] + 1
          /\ worker_pc'[w] = "record" /\ UNCHANGED count
          /\ \A v \in Workers \ {w} : worker_pc'[v] = worker_pc[v]
      BY <2>2 DEF StoreCounter, Goto, Shapes
    <3>2. finished_thread_counter' = finished_thread_counter + 1
      BY <1>3, <3>1
    <3>3. Uncounted' = Uncounted \ {temp_item[w]} /\ temp_item[w] \in Uncounted
      BY <2>2, UncountedKept
    <3>4. /\ IsFiniteSet(Uncounted') /\ Cardinality(Uncounted') \in Nat
          /\ Cardinality(Uncounted') = Cardinality(Uncounted) - 1
      <4> HIDE DEF Uncounted
      <4> QED  BY <1>0, <3>3, FS_RemoveElement, FS_CardinalityType
    <3>5. main_pc # "reset"
      <4> SUFFICES ASSUME main_pc = "reset"  PROVE FALSE
        OBVIOUS
      <4>1. ~finished /\ finished_thread_counter = Pushed
        BY <1>0 DEF Phases, Pushed
      <4> QED  BY <3>1, <4>1, NobodyBusy DEF Worked
    <3>6. \A v \in Workers : worker_pc'[v] # "store"
      <4>1. global_lock = w
        BY <3>1 DEF Places
      <4>2. \A v \in Workers : worker_pc[v] = "store" => v = w
        BY <4>1 DEF Places
      <4> QED  BY <3>1, <4>2
    <3> QED  BY <1>0, <1>1, <2>1, <3>2, <3>4, <3>5, <3>6 DEF Counted
  <2>3. ASSUME NEW w \in Workers, WorkerStep(w), \A v \in Workers : ~StoreCounter(v), ~PushJob
        PROVE  Counted' /\ finished_thread_counter' \in Nat
    <3>1. UNCHANGED finished_thread_counter
      BY <2>3 DEF WorkerStep, Pop, CheckFinished, ComputeLine, DeleteJob, LockGlobal,
              LoadCounter, RecordTile, ExitLock, ExitUnlock
    <3>2. \A v \in Workers : worker_pc'[v] = "store" => count'[v] = finished_thread_counter
      <4>1. CASE LoadCounter(w)
        <5>1. /\ worker_pc[w] = "count" /\ count'[w] = finished_thread_counter
              /\ \A v \in Workers \ {w} : worker_pc'[v] = worker_pc[v] /\ count'[v] = count[v]
          BY <4>1 DEF LoadCounter, Goto, Shapes
        <5> QED  BY <1>3, <5>1
      <4>2. CASE ~LoadCounter(w)
        <5>1. UNCHANGED count
          BY <2>3, <4>2 DEF WorkerStep, Pop, CheckFinished, ComputeLine, DeleteJob, LockGlobal,
              RecordTile, ExitLock, ExitUnlock
        <5>2. \A v \in Workers : worker_pc'[v] = "store" => worker_pc[v] = "store"
          BY <2>3, <4>2 DEF WorkerStep, Pop, CheckFinished, ComputeLine, DeleteJob, LockGlobal,
              RecordTile, ExitLock, ExitUnlock, Goto, Shapes
        <5> QED  BY <1>3, <5>1, <5>2
      <4> QED  BY <4>1, <4>2
    <3> QED  BY <1>2, <2>1, <2>3, <3>1, <3>2, UncountedKept
  <2>4. ASSUME UNCHANGED game_vars
        PROVE  Counted' /\ finished_thread_counter' \in Nat
    <3>1. UNCHANGED <<finished_thread_counter, worker_pc, count, i, main_pc>>
      BY <2>4 DEF game_vars, worker_vars, main_vars
    <3>2. ~PushJob /\ \A w \in Workers : ~StoreCounter(w)
      BY <1>0, <3>1 DEF PushJob, StoreCounter, Goto, Shapes
    <3> QED  BY <1>2, <1>3, <2>1, <3>1, <3>2, UncountedKept
  <2> QED  BY <1>6, <2>2, <2>3, <2>4, MainAlone DEF Next, MainStep, Terminated
<1> QED  BY <1>4, <1>5, <1>6

------------------------------------------------------------------------------
(* The tile history *)

LEMMA DivOfSum ==
    ASSUME NEW n \in Nat \ {0}, NEW a \in Nat, NEW r \in 0 .. n - 1
    PROVE  (n * a + r) \div n = a
<1>1. n * a \in Nat /\ n * (a + 1) = n * a + n /\ n * a + r \in Nat
  OBVIOUS
<1> DEFINE q == (n * a + r) \div n
<1>2. q \in Nat /\ n * q <= n * a + r /\ n * a + r < n * q + n
  BY <1>1
<1>3. q <= a
  <2> SUFFICES ASSUME q >= a + 1  PROVE FALSE
    BY <1>2
  <2>1. PICK d \in Nat : q = a + 1 + d
    BY <1>2
  <2>2. n * q = n * (a + 1) + n * d /\ n * d \in Nat
    BY <2>1
  <2> QED  BY <1>1, <1>2, <2>2
<1>4. q >= a
  <2> SUFFICES ASSUME q + 1 <= a  PROVE FALSE
    BY <1>2
  <2>1. PICK d \in Nat : a = q + 1 + d
    BY <1>2
  <2>2. n * a = n * q + n + n * d /\ n * d \in Nat /\ n * q \in Nat
    BY <1>2, <2>1
  <2> QED  BY <1>1, <1>2, <2>2
<1> QED  BY <1>2, <1>3, <1>4

LEMMA LastTile ==
    ASSUME Shapes, Phases, Expected, Counted, Tiles, Places, NEW w \in Workers, RecordTile(w)
    PROVE  /\ temp_item[w].current_matrix = (Len(tile_hist) \div ThreadNum) % 2
           /\ Len(tile_hist) + 1 = ThreadNum * Rounds + finished_thread_counter
<1> USE Numbers
<1>0. /\ gen \in Nat /\ finished_thread_counter \in Nat /\ ThreadNum \in Nat \ {0}
      /\ Len(tile_hist) \in Nat /\ Cardinality(Uncounted) \in Nat
      /\ Pushed \in 0 .. ThreadNum
  BY LiveJobs DEF Shapes, Pushed, Phases
<1>1. Recording /\ temp_item[w].current_matrix = gen % 2
  BY DEF RecordTile, Recording, Expected, From
<1>2. Len(tile_hist) + 1 = ThreadNum * Rounds + finished_thread_counter
  BY <1>1 DEF Tiles
<1>3. CASE main_pc \in {"step", "reset"}
  <2>1. finished_thread_counter \in 1 .. ThreadNum /\ Rounds = gen
    BY <1>0, <1>1, <1>3 DEF Tiles, Rounds, Counted
  <2>2. ThreadNum * gen \in Nat
    BY <1>0
  <2>3. Len(tile_hist) = ThreadNum * gen + (finished_thread_counter - 1)
    BY <1>0, <1>2, <2>1, <2>2
  <2>4. Len(tile_hist) \div ThreadNum = gen
    BY <1>0, <2>1, <2>3, DivOfSum
  <2> QED  BY <1>1, <1>2, <2>4
<1>4. CASE main_pc \in {"swap", "gen_hist"}
  <2>1. finished_thread_counter = 0 /\ Rounds = gen + 1
    BY <1>0, <1>4 DEF Rounds, Counted, Pushed
  <2>2. ThreadNum * (gen + 1) = ThreadNum * gen + ThreadNum /\ ThreadNum * gen \in Nat
    BY <1>0
  <2>3. Len(tile_hist) = ThreadNum * gen + (ThreadNum - 1)
    BY <1>0, <1>2, <2>1, <2>2
  <2>4. Len(tile_hist) \div ThreadNum = gen
    BY <1>0, <2>3, DivOfSum
  <2> QED  BY <1>1, <1>2, <2>4
<1> QED  BY <1>1, <1>3, <1>4 DEF Tiles

LEMMA TilesKept ==
    ASSUME Shapes, Queue, Phases, Places, Expected, Counted, Tiles, [Next]_vars
    PROVE  Tiles' /\ tile_hist' \in Seq([thread_id : Workers, matrix : Matrices])
<1> USE Numbers
<1>0. /\ gen \in Nat /\ finished_thread_counter \in Nat /\ ThreadNum \in Nat \ {0} /\ i \in Nat
      /\ tile_hist \in Seq([thread_id : Workers, matrix : Matrices]) /\ Len(tile_hist) \in Nat
      /\ worker_pc = [v \in Workers |-> worker_pc[v]]
  BY DEF Shapes
<1>1. ASSUME Recording' <=> Recording, UNCHANGED <<tile_hist, finished_thread_counter>>,
             Rounds' = Rounds,
             Recording => /\ main_pc' \in {"step", "reset", "swap", "gen_hist"}
                          /\ main_pc' \in {"step", "reset"} => main_pc \in {"step", "reset"}
      PROVE  Tiles' /\ tile_hist' \in Seq([thread_id : Workers, matrix : Matrices])
  BY <1>0, <1>1 DEF Tiles
<1>2. ASSUME MainStep
      PROVE  /\ UNCHANGED tile_hist
             /\ Recording' <=> Recording
  <2>1. UNCHANGED tile_hist
    BY <1>2 DEF MainStep, StartThread, ThreadsStarted, PushJob, WaitForJobs, ResetCounter,
               SwapMatrices, GenHistLock, GenHistUnlock, Finish, PushNull, AllNullsPushed,
               JoinThread, AllJoined, Destroy, heap_vars
  <2>2. CASE StartThread
    <3>1. i \in Workers /\ worker_pc[i] = "none"
      BY <1>0, <2>2 DEF StartThread, Workers, Places
    <3>2. worker_pc'[i] = "pop" /\ \A w \in Workers \ {i} : worker_pc'[w] = worker_pc[w]
      BY <1>0, <2>2, <3>1 DEF StartThread, Goto
    <3> QED  BY <2>1, <3>1, <3>2 DEF Recording
  <2>3. CASE ~StartThread
    <3>1. UNCHANGED worker_pc
      BY <1>2, <2>3 DEF MainStep, ThreadsStarted, WaitForJobs, ResetCounter, PushJob, PushNull,
               SwapMatrices, GenHistLock, GenHistUnlock, Finish, AllNullsPushed, JoinThread,
               AllJoined, Destroy, worker_vars
    <3> QED  BY <2>1, <3>1 DEF Recording
  <2> QED  BY <2>2, <2>3
<1>3. Recording => main_pc \in {"step", "reset", "swap", "gen_hist"} /\ global_lock \in Workers
  BY DEF Tiles, Recording, Places
<1>4. CASE MainStep /\ ~ResetCounter
  <2>1. CASE PushJob \/ WaitForJobs \/ SwapMatrices
    <3>1. /\ UNCHANGED <<finished_thread_counter, gen>> /\ Rounds' = Rounds
          /\ main_pc' \in {"step", "reset", "gen_hist"}
          /\ main_pc' \in {"step", "reset"} => main_pc \in {"step", "reset"}
      BY <2>1 DEF PushJob, WaitForJobs, SwapMatrices, Rounds
    <3> QED  BY <1>1, <1>2, <1>4, <3>1
  <2>2. CASE \/ StartThread \/ ThreadsStarted \/ GenHistLock \/ GenHistUnlock
             \/ Finish \/ PushNull \/ AllNullsPushed \/ JoinThread \/ AllJoined \/ Destroy
    <3>1. UNCHANGED finished_thread_counter /\ Rounds' = Rounds
      BY <1>0, <2>2 DEF StartThread, ThreadsStarted, GenHistLock, GenHistUnlock,
             Finish, PushNull, AllNullsPushed, JoinThread, AllJoined, Destroy, AfterGeneration,
             Rounds
    <3>2. ~Recording
      <4>1. CASE GenHistLock
        BY <1>3, <4>1 DEF GenHistLock, Lock
      <4>2. CASE ~GenHistLock
        BY <1>3, <2>2, <4>2 DEF StartThread, ThreadsStarted, GenHistUnlock,
             Finish, PushNull, AllNullsPushed, JoinThread, AllJoined, Destroy
      <4> QED  BY <4>1, <4>2
    <3> QED  BY <1>1, <1>2, <1>4, <3>1, <3>2
  <2> QED  BY <1>4, <2>1, <2>2 DEF MainStep
<1>5. CASE ResetCounter
  <2>1. /\ finished_thread_counter = ThreadNum /\ finished_thread_counter' = 0
        /\ main_pc' = "swap" /\ Rounds = gen /\ Rounds' = gen + 1
    BY <1>0, <1>5 DEF ResetCounter, Counted, Rounds
  <2>2. ThreadNum * (gen + 1) = ThreadNum * gen + ThreadNum /\ ThreadNum * gen \in Nat
    BY <1>0
  <2> QED  BY <1>0, <1>2, <1>5, <2>1, <2>2 DEF Tiles, MainStep
<1>6. CASE ~MainStep
  <2>1. UNCHANGED <<main_pc, gen>> /\ Rounds' = Rounds
    BY <1>6, MainAlone DEF main_vars, Rounds
  <2>2. ASSUME NEW w \in Workers, StoreCounter(w)
        PROVE  Tiles' /\ tile_hist' \in Seq([thread_id : Workers, matrix : Matrices])
    <3>1. /\ worker_pc[w] = "store" /\ worker_pc'[w] = "record"
          /\ finished_thread_counter' = count[w] + 1 /\ UNCHANGED tile_hist
      BY <1>0, <2>2 DEF StoreCounter, Goto, heap_vars
    <3>2. finished_thread_counter' = finished_thread_counter + 1
      BY <3>1 DEF Counted
    <3>3. ~Recording /\ Recording'
      BY <3>1 DEF Recording, Places
    <3>4. Holds(w, temp_item[w]) /\ temp_item[w] \in Jobs
      BY <3>1 DEF Holds, Worked, Expected
    <3>5. main_pc \in {"step", "reset"}
      <4>1. temp_item[w] # NullJob /\ temp_item[w] \in Things
        BY <3>4, JobsAssumption DEF Things
      <4>2. ~finished
        BY <3>4, <4>1 DEF Expected, AtLarge
      <4> QED  BY <3>4, <4>2, InHands
    <3>6. ThreadNum * Rounds \in Nat
      BY <1>0 DEF Rounds
    <3> QED  BY <1>0, <2>1, <3>1, <3>2, <3>3, <3>5, <3>6 DEF Tiles
  <2>3. ASSUME NEW w \in Workers, RecordTile(w)
        PROVE  Tiles' /\ tile_hist' \in Seq([thread_id : Workers, matrix : Matrices])
    <3> DEFINE tile == [thread_id |-> w, matrix |-> temp_item[w].current_matrix]
    <3>1. /\ worker_pc[w] = "record" /\ worker_pc'[w] = "pop"
          /\ \A v \in Workers \ {w} : worker_pc'[v] = worker_pc[v]
          /\ tile_hist' = Append(tile_hist, tile) /\ UNCHANGED finished_thread_counter
      BY <1>0, <2>3 DEF RecordTile, Goto
    <3>2. ~Recording'
      BY <3>1 DEF Recording, Places
    <3>3. /\ tile.matrix = (Len(tile_hist) \div ThreadNum) % 2
          /\ Len(tile_hist) + 1 = ThreadNum * Rounds + finished_thread_counter
      BY <2>3, LastTile
    <3>4. tile \in [thread_id : Workers, matrix : Matrices]
      <4>1. temp_item[w] \in Jobs
        BY <3>1 DEF Expected
      <4> QED  BY <4>1 DEF Jobs
    <3>5. /\ tile_hist' \in Seq([thread_id : Workers, matrix : Matrices])
          /\ Len(tile_hist') = Len(tile_hist) + 1
          /\ \A k \in 1 .. Len(tile_hist) : tile_hist'[k] = tile_hist[k]
          /\ tile_hist'[Len(tile_hist) + 1] = tile
      BY <1>0, <3>1, <3>4, AppendedItem
    <3>6. ASSUME NEW k \in 1 .. Len(tile_hist')
          PROVE  tile_hist'[k].matrix = ((k - 1) \div ThreadNum) % 2
      <4>1. CASE k = Len(tile_hist) + 1
        <5>1. k - 1 = Len(tile_hist)
          BY <1>0, <4>1
        <5> QED  BY <3>3, <3>5, <4>1, <5>1
      <4>2. CASE k # Len(tile_hist) + 1
        <5>1. k \in 1 .. Len(tile_hist)
          BY <1>0, <3>5, <4>2
        <5> QED  BY <3>5, <5>1 DEF Tiles
      <4> QED  BY <4>1, <4>2
    <3>7. ThreadNum * Rounds \in Nat /\ (ThreadNum * Rounds)' = ThreadNum * Rounds
      BY <1>0, <2>1 DEF Rounds
    <3>8. Len(tile_hist') + (IF Recording' THEN 1 ELSE 0)
             = ThreadNum * Rounds + finished_thread_counter
      BY <1>0, <3>2, <3>3, <3>5, <3>7
    <3> QED  BY <2>1, <3>1, <3>2, <3>5, <3>6, <3>8 DEF Tiles
  <2>4. ASSUME NEW w \in Workers, WorkerStep(w), ~StoreCounter(w), ~RecordTile(w)
        PROVE  Tiles' /\ tile_hist' \in Seq([thread_id : Workers, matrix : Matrices])
    <3>1. UNCHANGED <<tile_hist, finished_thread_counter>>
      BY <2>4 DEF WorkerStep, Pop, CheckFinished, ComputeLine, DeleteJob, LockGlobal,
              LoadCounter, ExitLock, ExitUnlock, heap_vars
    <3>2. \A v \in Workers : worker_pc'[v] = "record" <=> worker_pc[v] = "record"
      BY <1>0, <2>4 DEF WorkerStep, Pop, CheckFinished, ComputeLine, DeleteJob, LockGlobal,
              LoadCounter, ExitLock, ExitUnlock, Goto
    <3> QED  BY <1>1, <1>3, <2>1, <3>1, <3>2 DEF Recording
  <2>5. ASSUME UNCHANGED game_vars
        PROVE  Tiles' /\ tile_hist' \in Seq([thread_id : Workers, matrix : Matrices])
    BY <1>1, <1>3, <2>1, <2>5 DEF game_vars, worker_vars, heap_vars, Recording
  <2> QED  BY <1>6, <2>2, <2>3, <2>4, <2>5, MainAlone DEF Next, Terminated
<1> QED  BY <1>4, <1>5, <1>6

------------------------------------------------------------------------------
(* The matrices *)

LEMMA LineType ==
    ASSUME NEW b, NEW l
    PROVE  NextLine(b, l) \in [Columns -> BOOLEAN]
  BY DEF NextLine

(* A line that is computed goes to the matrix that is not the current one. *)
LEMMA Computes ==
    ASSUME Shapes, Queue, Phases, Expected, NEW w \in Workers, ComputeLine(w)
    PROVE  /\ worker_pc[w] = "compute" /\ line[w] \in Lines
           /\ main_pc \in {"step", "reset"} /\ gen \in Nat
           /\ line' = [line EXCEPT ![w] = line[w] + 1]
           /\ mats' \in [Matrices -> Boards] /\ mats'[From] = mats[From]
           /\ \A l \in Lines : mats'[To][l] = IF l = line[w] THEN NextLine(mats[From], l)
                                                            ELSE mats[To][l]
<1> USE Numbers
<1>1. worker_pc[w] = "compute" /\ Holds(w, temp_item[w]) /\ temp_item[w] \in Jobs
  BY DEF ComputeLine, Holds, Expected, Worked
<1>2. ~finished
  <2>1. temp_item[w] # NullJob /\ temp_item[w] \in Things
    BY <1>1, JobsAssumption DEF Things
  <2> QED  BY <1>1, <2>1 DEF Expected, AtLarge
<1>3. /\ temp_item[w].current_matrix = From /\ temp_item[w].next_matrix = To
      /\ main_pc \in {"step", "reset"} /\ gen \in Nat
  BY <1>1, <1>2, InHands
<1>4. line[w] \in Lines
  BY <1>1 DEF ComputeLine, Jobs, Shapes, Lines
<1>5. From \in Matrices /\ To \in Matrices /\ From # To
  BY <1>3, JobsOfGeneration
<1>6. mats' = [mats EXCEPT ![To][line[w]] = NextLine(mats[From], line[w])]
  BY <1>3 DEF ComputeLine
<1>7. mats'[From] = mats[From] /\ mats'[To] = [mats[To] EXCEPT ![line[w]] = NextLine(mats[From], line[w])]
      /\ mats' = [m \in Matrices |-> mats'[m]] /\ mats[To] \in Boards /\ mats[From] \in Boards
      /\ \A m \in Matrices : m = From \/ m = To
  <2>1. mats \in [Matrices -> Boards]
    BY DEF Shapes
  <2> HIDE DEF From, To
  <2>2. mats'[From] = mats[From] /\ mats[To] \in Boards /\ mats[From] \in Boards
    BY <1>5, <1>6, <2>1
  <2>3. mats'[To] = [mats[To] EXCEPT ![line[w]] = NextLine(mats[From], line[w])]
    BY <1>5, <1>6, <2>1
  <2>4. mats' = [m \in Matrices |-> mats'[m]]
    BY <1>6, <2>1
  <2>5. \A m \in Matrices : m = From \/ m = To
    BY <1>5 DEF Matrices
  <2> QED  BY <2>2, <2>3, <2>4, <2>5
<1>8. NextLine(mats[From], line[w]) \in [Columns -> BOOLEAN]
  BY LineType
<1> HIDE DEF From, To
<1>9. mats'[To] \in Boards /\ \A l \in Lines : mats'[To][l] = IF l = line[w] THEN NextLine(mats[From], l)
                                                                            ELSE mats[To][l]
  BY <1>4, <1>7, <1>8 DEF Boards
<1>10. mats' \in [Matrices -> Boards]
  BY <1>7, <1>9
<1> QED  BY <1>1, <1>3, <1>4, <1>7, <1>9, <1>10 DEF ComputeLine

LEMMA ShapesKept ==
    ASSUME Shapes, Queue, Phases, Places, Expected, Apart, Counted, Tiles, [Next]_vars
    PROVE  Shapes'
<1> USE Numbers
<1>0. /\ i \in Nat /\ gen \in Nat /\ ThreadNum \in Nat /\ Generations \in Nat
      /\ finished_thread_counter' \in Nat /\ live_jobs' \in Nat
      /\ tile_hist' \in Seq([thread_id : Workers, matrix : Matrices])
  BY CountedKept, LiveJobsKept, TilesKept, SMTT(60) DEF Shapes
<1>1. finished_thread_counter \in 0 .. ThreadNum
  <2>1. Pushed \in 0 .. ThreadNum
    BY <1>0 DEF Pushed, Shapes, Phases
  <2> QED  BY <2>1, LiveJobs DEF Counted, Shapes
<1>2. CASE MainStep
  <2>1. main_pc' \in MainPC /\ i' \in 0 .. ThreadNum + 1 /\ gen' \in 0 .. Generations
    BY <1>0, <1>2, SMTT(60) DEF MainStep, StartThread, ThreadsStarted, PushJob, WaitForJobs, ResetCounter,
               SwapMatrices, GenHistLock, GenHistUnlock, Finish, PushNull, NullPushes, AllNullsPushed,
               JoinThread, AllJoined, Destroy, AfterGeneration, MainPC, Shapes, Phases
  <2>2. global_lock' \in Workers \cup {Main, NoThread} /\ finished' \in BOOLEAN /\ UNCHANGED <<mats, line, count>>
    BY <1>2 DEF MainStep, StartThread, ThreadsStarted, PushJob, WaitForJobs, ResetCounter,
               SwapMatrices, GenHistLock, GenHistUnlock, Finish, PushNull, AllNullsPushed,
               JoinThread, AllJoined, Destroy, Lock, Unlock, Shapes, heap_vars, worker_vars
  <2>3. worker_pc' \in [Workers -> WorkerPC]
    <3>1. CASE StartThread
      BY <3>1 DEF StartThread, Goto, Shapes, WorkerPC
    <3>2. CASE ~StartThread
      BY <1>2, <3>2 DEF MainStep, ThreadsStarted, PushJob, WaitForJobs, ResetCounter,
               SwapMatrices, GenHistLock, GenHistUnlock, Finish, PushNull, AllNullsPushed,
               JoinThread, AllJoined, Destroy, Shapes, worker_vars
    <3> QED  BY <3>1, <3>2
  <2> QED  BY <1>0, <2>1, <2>2, <2>3 DEF Shapes
<1>3. ASSUME UNCHANGED game_vars  PROVE Shapes'
  BY <1>3 DEF game_vars, main_vars, worker_vars, heap_vars, Shapes
<1>4. ASSUME NEW w \in Workers, WorkerStep(w), ~MainStep  PROVE Shapes'
  <2>1. UNCHANGED <<main_vars, finished>>
    BY <1>4, MainAlone
  <2>2. worker_pc' \in [Workers -> WorkerPC] /\ global_lock' \in Workers \cup {Main, NoThread}
    BY <1>4 DEF WorkerStep, Pop, CheckFinished, ComputeLine, DeleteJob, LockGlobal, LoadCounter,
              StoreCounter, RecordTile, ExitLock, ExitUnlock, Goto, Lock, Unlock, Shapes, WorkerPC
  <2>3. count' \in [Workers -> 0 .. ThreadNum]
    <3>1. CASE LoadCounter(w)
      BY <1>1, <3>1 DEF LoadCounter, Shapes
    <3>2. CASE ~LoadCounter(w)
      BY <1>4, <3>2 DEF WorkerStep, Pop, CheckFinished, ComputeLine, DeleteJob, LockGlobal,
              StoreCounter, RecordTile, ExitLock, ExitUnlock, Shapes
    <3> QED  BY <3>1, <3>2
  <2>4. mats' \in [Matrices -> Boards] /\ line' \in [Workers -> 0 .. Height]
    <3>1. CASE ComputeLine(w)
      BY <3>1, Computes DEF Shapes, Lines
    <3>2. CASE CheckFinished(w)
      <4>1. CASE finished
        BY <3>2, <4>1 DEF CheckFinished, Shapes, heap_vars
      <4>2. CASE ~finished
        <5>1. Holds(w, temp_item[w])
          BY <3>2 DEF CheckFinished, Holds
        <5>2. temp_item[w].starting_line \in 0 .. Height
          BY <4>2, <5>1, InHands DEF Jobs, Lines
        <5> QED  BY <3>2, <4>2, <5>2 DEF CheckFinished, Shapes, heap_vars
      <4> QED  BY <4>1, <4>2
    <3>3. CASE ~ComputeLine(w) /\ ~CheckFinished(w)
      BY <1>4, <3>3 DEF WorkerStep, Pop, DeleteJob, LockGlobal, LoadCounter,
              StoreCounter, RecordTile, ExitLock, ExitUnlock, Shapes, heap_vars
    <3> QED  BY <3>1, <3>2, <3>3
  <2> QED  BY <1>0, <2>1, <2>2, <2>3, <2>4 DEF Shapes, main_vars
<1> QED  BY <1>2, <1>3, <1>4, MainAlone DEF Next, Terminated

(* Whoever is to compute a line is so until it does. *)
LEMMA StaysPending ==
    ASSUME NEW x \in Jobs, NEW l \in Lines, Pending(x, l), x \in Things,
           Offered(x) \/ Queued(x) =>
              Offered(x)' \/ Queued(x)' \/ \E w \in Workers : WillCompute(w, x, l)',
           \A w \in Workers : WillCompute(w, x, l) => WillCompute(w, x, l)'
    PROVE  Pending(x, l)'
  BY DEF Pending

LEMMA PendingKept ==
    ASSUME Shapes, Queue, Phases, Places, Expected, [Next]_vars,
           ~finished, \A w \in Workers : ~ComputeLine(w),
           NEW x \in Jobs, NEW l \in Lines, Pending(x, l)
    PROVE  Pending(x, l)'
<1> USE Numbers
<1>0. /\ worker_pc = [v \in Workers |-> worker_pc[v]] /\ line = [v \in Workers |-> line[v]]
      /\ x \in Things /\ Queue' /\ i \in Nat
  BY QueueShapes, QueueKept DEF Shapes, Things
<1>1. ASSUME NEW w \in Workers, Holds(w, x) => Holds(w, x)',
             \/ worker_pc'[w] = worker_pc[w] /\ line'[w] = line[w]
             \/ worker_pc[w] \notin {"popping", "compute"}
      PROVE  WillCompute(w, x, l) => WillCompute(w, x, l)'
  BY <1>1 DEF WillCompute
<1>2. CASE MainStep
  <2>1. \A w \in Workers : \/ worker_pc'[w] = worker_pc[w] /\ line'[w] = line[w]
                           \/ worker_pc[w] \notin {"popping", "compute"}
    <3>1. CASE StartThread
      <4>1. i \in Workers /\ worker_pc[i] = "none"
        BY <1>0, <3>1 DEF StartThread, Workers, Places
      <4>2. UNCHANGED line /\ \A w \in Workers \ {i} : worker_pc'[w] = worker_pc[w]
        BY <1>0, <3>1 DEF StartThread, Goto
      <4> QED  BY <4>1, <4>2
    <3>2. CASE ~StartThread
      BY <1>2, <3>2 DEF MainStep, ThreadsStarted, PushJob, WaitForJobs, ResetCounter,
               SwapMatrices, GenHistLock, GenHistUnlock, Finish, PushNull, AllNullsPushed,
               JoinThread, AllJoined, Destroy, worker_vars
    <3> QED  BY <3>1, <3>2
  <2>2. ASSUME Quiet  PROVE Pending(x, l)'
    BY <1>0, <1>1, <2>1, <2>2, StaysPending DEF Quiet, SameOffer, SameHolds, Queued
  <2>3. ASSUME NEW y \in Things, Puts(y)  PROVE Pending(x, l)'
    BY <1>0, <1>1, <2>1, <2>3, StaysPending DEF Puts, SameHolds, Queued
  <2>4. CASE PushJob
    BY <1>0, <2>3, <2>4, MainMoves, NewJob DEF Things
  <2>5. CASE PushNull
    BY <1>0, <2>3, <2>5, MainMoves DEF Things
  <2> QED  BY <1>0, <1>2, <2>2, <2>4, <2>5, MainMoves
<1>3. CASE MainInQueue
  <2>1. UNCHANGED <<worker_pc, line>>
    BY <1>3 DEF MainInQueue, game_vars, worker_vars
  <2>2. CASE Quiet
    BY <1>0, <1>1, <2>1, <2>2, StaysPending DEF Quiet, SameOffer, SameHolds, Queued
  <2>3. CASE Enqueues
    <3>1. Offered(x)' \/ Queued(x)' <=> Offered(x) \/ Queued(x)
      BY <1>0, <2>3, EnqueuesKeep, ItemsAreThings
    <3> QED  BY <1>0, <1>1, <2>1, <2>3, <3>1, StaysPending DEF Enqueues, SameHolds
  <2> QED  BY <1>0, <1>3, <2>2, <2>3, MainMoves
<1>4. ASSUME SpuriousWakeup \/ Terminated \/ UNCHANGED vars  PROVE Pending(x, l)'
  <2>1. Quiet /\ UNCHANGED <<worker_pc, line>>
    BY <1>4, OtherMoves DEF SpuriousWakeup, game_vars, worker_vars, Terminated, vars
  <2> QED  BY <1>0, <1>1, <2>1, StaysPending DEF Quiet, SameOffer, SameHolds, Queued
<1>5. ASSUME NEW w \in Workers, WorkerInQueue(w)  PROVE Pending(x, l)'
  <2>1. UNCHANGED <<worker_pc, line>> /\ worker_pc[w] = "popping"
    BY <1>5, PopSteps DEF WorkerInQueue, game_vars, worker_vars, PopMoves, Places
  <2>2. CASE Quiet
    BY <1>0, <1>1, <2>1, <2>2, StaysPending DEF Quiet, SameOffer, SameHolds, Queued
  <2>3. CASE Takes(w)
    <3>1. Queued(x) <=> Queued(x)' \/ x = Head(items)
      BY <1>0, <2>3, TakesKeep, ItemsAreThings
    <3>2. ~Holds(w, x) /\ (x = Head(items) => WillCompute(w, x, l)')
      BY <1>0, <2>1, <2>3 DEF Takes, WillCompute
    <3>3. Offered(x) => Offered(x)'
      BY <1>0, <2>3 DEF Takes, SameOffer
    <3>4. \A v \in Workers : WillCompute(v, x, l) => WillCompute(v, x, l)'
      BY <1>0, <1>1, <2>1, <2>3, <3>2 DEF Takes, SameHolds
    <3> QED  BY <1>0, <3>1, <3>2, <3>3, <3>4, StaysPending
  <2> QED  BY <1>5, <2>2, <2>3, WorkerMoves
<1>6. ASSUME NEW w \in Workers, WorkerStep(w)  PROVE Pending(x, l)'
  <2>1. \A v \in Workers \ {w} : worker_pc'[v] = worker_pc[v] /\ line'[v] = line[v]
    BY <1>0, <1>6 DEF WorkerStep, Pop, CheckFinished, ComputeLine, DeleteJob, LockGlobal,
              LoadCounter, StoreCounter, RecordTile, ExitLock, ExitUnlock, Goto
  <2>2. ASSUME Quiet, WillCompute(w, x, l) => WillCompute(w, x, l)'
        PROVE  Pending(x, l)'
    BY <1>0, <1>1, <2>1, <2>2, StaysPending DEF Quiet, SameOffer, SameHolds, Queued
  <2>3. CASE StoreCounter(w)
    <3>1. Drops(w)
      BY <2>3, WorkerMoves
    <3>2. ~WillCompute(w, x, l)
      BY <2>3 DEF StoreCounter, WillCompute
    <3>3. \A v \in Workers : WillCompute(v, x, l) => WillCompute(v, x, l)'
      BY <1>0, <1>1, <2>1, <3>1, <3>2 DEF Drops, SameHolds
    <3>4. Offered(x) \/ Queued(x) => Offered(x)' \/ Queued(x)'
      BY <1>0, <3>1 DEF Drops, SameOffer, Queued
    <3> QED  BY <1>0, <3>3, <3>4, StaysPending
  <2>4. CASE CheckFinished(w)
    <3>1. Quiet
      BY <2>4, WorkerMoves
    <3>2. WillCompute(w, x, l) => WillCompute(w, x, l)'
      <4> SUFFICES ASSUME WillCompute(w, x, l)  PROVE WillCompute(w, x, l)'
        OBVIOUS
      <4>1. Holds(w, x) /\ x = temp_item[w]
        BY DEF WillCompute, Holds
      <4>2. worker_pc'[w] = "compute" /\ line'[w] = x.starting_line
        BY <1>0, <2>4, <4>1 DEF CheckFinished, Goto
      <4>3. x.starting_line <= l
        BY DEF Pending, Lines, Jobs
      <4>4. Holds(w, x)'
        BY <1>0, <3>1, <4>1 DEF Quiet, SameHolds
      <4> QED  BY <4>2, <4>3, <4>4 DEF WillCompute
    <3> QED  BY <2>2, <3>1, <3>2
  <2>5. CASE DeleteJob(w)
    <3>1. Quiet
      BY <2>5, WorkerMoves DEF DeleteJob, StoreCounter, CheckFinished, WorkerStep
    <3>2. ~WillCompute(w, x, l)
      <4> SUFFICES ASSUME WillCompute(w, x, l)  PROVE FALSE
        OBVIOUS
      <4>1. x = temp_item[w] /\ line[w] <= l /\ line[w] > x.ending_line
        BY <2>5 DEF WillCompute, Holds, DeleteJob
      <4>2. l <= x.ending_line /\ x.ending_line \in Nat /\ line[w] \in Nat /\ l \in Nat
        BY DEF Pending, Lines, Jobs, Shapes
      <4> QED  BY <4>1, <4>2
    <3> QED  BY <2>2, <3>1, <3>2
  <2>6. CASE ~StoreCounter(w) /\ ~CheckFinished(w) /\ ~DeleteJob(w)
    <3>1. Quiet
      BY <1>6, <2>6, WorkerMoves
    <3>2. worker_pc[w] \notin {"popping", "compute"}
      BY <1>6, <2>6 DEF WorkerStep, Pop, LockGlobal, LoadCounter, RecordTile, ExitLock, ExitUnlock
    <3> QED  BY <2>2, <3>1, <3>2 DEF WillCompute
  <2> QED  BY <2>3, <2>4, <2>5, <2>6
<1> QED  BY <1>2, <1>3, <1>4, <1>5, <1>6 DEF Next

LEMMA LinesLeftKept ==
    ASSUME Shapes, Queue, Phases, Places, Expected, LinesLeft, [Next]_vars
    PROVE  LinesLeft'
<1> USE Numbers
<1>0. i \in Nat /\ gen \in Nat /\ ThreadNum \in Nat
  BY DEF Shapes
<1>1. CASE ThreadsStarted \/ GenHistUnlock
  <2>1. i' = 0
    BY <1>1 DEF ThreadsStarted, GenHistUnlock
  <2>2. \A l \in Lines : \E j \in 1 .. ThreadNum : j > 0 /\ l \in JobLines(ThreadNum, j)
    BY RunsOfLines
  <2> QED  BY <2>1, <2>2 DEF LinesLeft
<1>2. ASSUME ~(ThreadsStarted \/ GenHistUnlock), main_pc' \in {"step", "reset", "swap"}
      PROVE  main_pc \in {"step", "reset", "swap"} /\ UNCHANGED gen /\ ~finished
  <2>1. CASE MainStep
    BY <1>2, <2>1 DEF MainStep, StartThread, PushJob, WaitForJobs, ResetCounter,
               SwapMatrices, GenHistLock, Finish, PushNull, AllNullsPushed,
               JoinThread, AllJoined, Destroy, Phases
  <2>2. CASE ~MainStep
    <3>1. UNCHANGED main_vars
      BY <2>2, MainAlone
    <3> QED  BY <1>2, <3>1 DEF main_vars, Phases
  <2> QED  BY <2>1, <2>2
<1> SUFFICES ASSUME ~(ThreadsStarted \/ GenHistUnlock), main_pc' \in {"step", "reset", "swap"},
                    NEW l \in Lines
             PROVE  \/ mats'[To][l] = NextLine(mats'[From], l)
                    \/ \E j \in 1 .. ThreadNum : j > i' /\ l \in JobLines(ThreadNum, j)
                    \/ \E x \in Jobs : Pending(x, l)'
  BY <1>1, <1>2 DEF LinesLeft, From, To
<1>3. main_pc \in {"step", "reset", "swap"} /\ UNCHANGED gen /\ ~finished
  BY <1>2
<1>4. \/ mats[To][l] = NextLine(mats[From], l)
      \/ \E j \in 1 .. ThreadNum : j > i /\ l \in JobLines(ThreadNum, j)
      \/ \E x \in Jobs : Pending(x, l)
  BY <1>3 DEF LinesLeft
<1>5. ASSUME NEW w \in Workers, ComputeLine(w)
      PROVE  \/ mats'[To][l] = NextLine(mats'[From], l)
             \/ \E j \in 1 .. ThreadNum : j > i' /\ l \in JobLines(ThreadNum, j)
             \/ \E x \in Jobs : Pending(x, l)'
  <2>1. /\ mats'[From] = mats[From]
        /\ mats'[To][l] = IF l = line[w] THEN NextLine(mats[From], l) ELSE mats[To][l]
        /\ line[w] \in Lines /\ worker_pc[w] = "compute"
        /\ line' = [line EXCEPT ![w] = line[w] + 1]
    BY <1>5, Computes
  <2>2. UNCHANGED <<queue_vars, i, worker_pc>>
    BY <1>5 DEF ComputeLine, main_vars
  <2>3. CASE l = line[w]
    BY <2>1, <2>3
  <2>4. ASSUME l # line[w], NEW x \in Jobs, Pending(x, l)
        PROVE  Pending(x, l)'
    <3>1. ASSUME NEW v \in Workers, WillCompute(v, x, l)
          PROVE  WillCompute(v, x, l)'
      <4>1. v = w => line[w] + 1 <= l
        BY <2>1, <2>4, <3>1 DEF WillCompute, Lines
      <4>2. line'[v] = IF v = w THEN line[w] + 1 ELSE line[v]
        BY <2>1 DEF Shapes
      <4> QED  BY <2>2, <3>1, <4>1, <4>2 DEF WillCompute, Holds, queue_vars
    <3> QED  BY <2>2, <2>4, <3>1 DEF Pending, Offered, Queued, queue_vars
  <2> QED  BY <1>4, <2>1, <2>2, <2>3, <2>4
<1>6. ASSUME \A w \in Workers : ~ComputeLine(w)
      PROVE  \/ mats'[To][l] = NextLine(mats'[From], l)
             \/ \E j \in 1 .. ThreadNum : j > i' /\ l \in JobLines(ThreadNum, j)
             \/ \E x \in Jobs : Pending(x, l)'
  <2>1. UNCHANGED mats
    <3>1. MainStep => UNCHANGED mats
      BY DEF MainStep, StartThread, ThreadsStarted, PushJob, WaitForJobs, ResetCounter,
               SwapMatrices, GenHistLock, GenHistUnlock, Finish, PushNull, AllNullsPushed,
               JoinThread, AllJoined, Destroy, heap_vars
    <3>2. \A w \in Workers : WorkerStep(w) => UNCHANGED mats
      BY <1>6 DEF WorkerStep, Pop, CheckFinished, DeleteJob, LockGlobal,
              LoadCounter, StoreCounter, RecordTile, ExitLock, ExitUnlock, heap_vars
    <3>3. UNCHANGED game_vars \/ UNCHANGED vars => UNCHANGED mats
      BY DEF game_vars, vars, heap_vars
    <3> QED  BY <3>1, <3>2, <3>3 DEF Next, MainInQueue, WorkerInQueue, SpuriousWakeup, Terminated
  <2>2. ASSUME NEW x \in Jobs, Pending(x, l)  PROVE Pending(x, l)'
    BY <1>3, <1>6, <2>2, PendingKept
  <2>3. ASSUME NEW j \in 1 .. ThreadNum, j > i, l \in JobLines(ThreadNum, j)
        PROVE  j > i' \/ \E x \in Jobs : Pending(x, l)'
    <3>1. CASE PushJob
      <4>1. i' = i + 1 /\ Job(i + 1) \in Jobs /\ Puts(Job(i + 1)) /\ Job(i + 1) \in Things
        BY <3>1, NewJob, MainMoves, QueueKept DEF PushJob, Things
      <4>2. CASE j = i + 1
        <5>1. PICK x \in Jobs : x = Job(i + 1)
          BY <4>1
        <5>2. Offered(x)'
          BY <4>1, <5>1 DEF Puts
        <5>3. l \in x.starting_line .. x.ending_line
          BY <2>3, <4>2, <5>1 DEF Job, JobLines
        <5> QED  BY <5>2, <5>3 DEF Pending
      <4>3. CASE j # i + 1
        BY <1>0, <2>3, <4>1, <4>3
      <4> QED  BY <4>2, <4>3
    <3>2. CASE ~PushJob
      <4>1. CASE MainStep
        <5>1. CASE WaitForJobs \/ ResetCounter \/ SwapMatrices
          BY <2>3, <5>1 DEF WaitForJobs, ResetCounter, SwapMatrices
        <5>2. CASE ~(WaitForJobs \/ ResetCounter \/ SwapMatrices)
          BY <1>3, <3>2, <4>1, <5>2 DEF MainStep, StartThread, ThreadsStarted, GenHistLock,
               GenHistUnlock, Finish, PushNull, AllNullsPushed, JoinThread, AllJoined, Destroy
        <5> QED  BY <5>1, <5>2
      <4>2. CASE ~MainStep
        BY <2>3, <4>2, MainAlone DEF main_vars
      <4> QED  BY <4>1, <4>2
    <3> QED  BY <3>1, <3>2
  <2> QED  BY <1>4, <2>1, <2>2, <2>3
<1> QED  BY <1>5, <1>6

------------------------------------------------------------------------------
(* The inductive invariant and what follows from it *)

LEMMA InitInvariant == Init => IInv
<1> SUFFICES ASSUME Init  PROVE IInv
  OBVIOUS
<1> USE Numbers
<1>1. Shapes
  <2>1. mats \in [Matrices -> Boards]
    BY GenerationsAssumption DEF Init
  <2>2. /\ worker_pc \in [Workers -> WorkerPC] /\ line \in [Workers -> 0 .. Height]
        /\ count \in [Workers -> 0 .. ThreadNum]
    BY DEF Init, WorkerPC
  <2>3. tile_hist \in Seq([thread_id : Workers, matrix : Matrices])
    BY DEF Init
  <2>4. i \in 0 .. ThreadNum + 1 /\ gen \in 0 .. Generations
    BY DEF Init
  <2> QED  BY <2>1, <2>2, <2>3, <2>4 DEF Init, Shapes, MainPC
<1>2. Queue
  <2>1. queue!Init
    BY DEF Init, pcq!Init, queue!Init, pcq!Threads, queue!Threads
  <2>2. queue!IInv
    BY <2>1, QueueConstants, queue!InitIInv
  <2> QED  BY <2>1, <2>2 DEF Queue, queue!Init
<1>3. /\ items = << >> /\ queue_pc[Main] = "idle"
      /\ \A w \in Workers : queue_pc[w] = "idle" /\ worker_pc[w] = "none"
  BY DEF Init, pcq!Init, pcq!Threads
<1>4. Phases
  BY <1>3 DEF Init, Phases, Computed, MainInPush
<1>5. Places
  BY <1>3 DEF Init, Places, Workers
<1>6. /\ \A x : ~Offered(x) /\ ~Queued(x) /\ \A w \in Workers : ~Holds(w, x)
      /\ ~Recording
  BY <1>3 DEF Offered, Queued, Holds, Worked, Recording
<1>7. Expected
  BY <1>3, <1>6 DEF Expected, AtLarge, Worked
<1>8. Apart
  <2>1. 1 .. Len(items) = {}
    BY <1>3
  <2> QED  BY <1>6, <2>1 DEF Apart
<1>9. Counted
  <2>1. Uncounted = {} /\ Undeleted = {}
    BY <1>6 DEF Uncounted, Undeleted, AtLarge, Keeps
  <2>2. Pushed = 0
    BY DEF Init, Pushed
  <2> QED  BY <1>3, <2>1, <2>2, FS_EmptySet DEF Init, Counted
<1>10. Tiles
  <2>1. Rounds = 0 /\ finished_thread_counter = 0 /\ tile_hist = << >>
    BY DEF Init, Rounds
  <2> QED  BY <1>6, <2>1 DEF Tiles
<1>11. LinesLeft
  BY DEF Init, LinesLeft
<1> QED  BY <1>1, <1>2, <1>4, <1>5, <1>7, <1>8, <1>9, <1>10, <1>11 DEF IInv

LEMMA NextInvariant == IInv /\ [Next]_vars => IInv'
  BY ShapesKept, QueueKept, PhasesKept, PlacesKept, ExpectedKept, ApartKept, CountedKept,
     TilesKept, LinesLeftKept DEF IInv

THEOREM Invariant == Spec => []IInv
  BY InitInvariant, NextInvariant, PTL DEF Spec

(* Two workers never compute lines of the same run, and all of them read   *)
(* the matrix that curr_matrix points to and write the other: the matrices *)
(* need no lock (Life_Thread.cpp:77-90, Game.cpp:127-142).                 *)
THEOREM MatricesNeedNoLock == Spec => []RaceFree
<1>1. IInv => RaceFree
  <2> SUFFICES ASSUME IInv, NEW w \in Workers, Computing(w)
               PROVE  /\ temp_item[w].current_matrix = curr_matrix
                      /\ temp_item[w].next_matrix # curr_matrix
                      /\ \A v \in Workers \ {w} : Computing(v) =>
                            temp_item[w].starting_line .. temp_item[w].ending_line
                            \cap (temp_item[v].starting_line .. temp_item[v].ending_line) = {}
    BY DEF RaceFree
  <2>1. ASSUME NEW v \in Workers, Computing(v)
        PROVE  Holds(v, temp_item[v]) /\ temp_item[v] \in Jobs /\ ~finished
    <3>1. Holds(v, temp_item[v]) /\ temp_item[v] \in Jobs
      BY <2>1 DEF Computing, Holds, Worked, IInv, Expected
    <3>2. temp_item[v] # NullJob /\ temp_item[v] \in Things
      BY <3>1, JobsAssumption DEF Things
    <3> QED  BY <3>1, <3>2 DEF IInv, Expected, AtLarge
  <2>2. /\ temp_item[w].current_matrix = From /\ temp_item[w].next_matrix = To
        /\ main_pc \in {"step", "reset"} /\ gen \in Nat
    BY <2>1, InHands DEF IInv
  <2>3. curr_matrix = From /\ From # To
    BY <2>2, JobsOfGeneration DEF IInv, Phases, Computed, From
  <2>4. ASSUME NEW v \in Workers \ {w}, Computing(v)
        PROVE  temp_item[w].starting_line .. temp_item[w].ending_line
               \cap (temp_item[v].starting_line .. temp_item[v].ending_line) = {}
    <3>1. PICK j \in 1 .. ThreadNum : temp_item[w] = Job(j)
      BY <2>1, InHands DEF IInv
    <3>2. PICK k \in 1 .. ThreadNum : temp_item[v] = Job(k)
      BY <2>1, <2>4, InHands DEF IInv
    <3>3. j # k
      BY <2>1, <2>4, <3>1, <3>2 DEF IInv, Apart
    <3>4. JobLines(ThreadNum, j) \cap JobLines(ThreadNum, k) = {}
      BY <3>3, RunsOfLines
    <3> QED  BY <3>1, <3>2, <3>4 DEF Job, JobLines
  <2> QED  BY <2>2, <2>3, <2>4
<1> QED  BY <1>1, Invariant, PTL

(* The records of the tile history are in the order of the generations,    *)
(* and complete when the main thread has the lock of Game.cpp:73; and the  *)
(* variables have their types, no counter passes its bound.                *)
THEOREM HistoryInOrder == Spec => []TilesByGeneration
<1>1. IInv => TilesByGeneration
  <2> SUFFICES ASSUME IInv  PROVE TilesByGeneration
    OBVIOUS
  <2> USE Numbers DEF IInv
  <2>1. /\ Pushed \in 0 .. ThreadNum /\ gen \in Nat /\ ThreadNum \in Nat
        /\ finished_thread_counter \in Nat /\ live_jobs \in Nat /\ Len(tile_hist) \in Nat
    BY DEF Pushed, Shapes, Phases
  <2>2. finished_thread_counter \in 0 .. ThreadNum /\ live_jobs \in 0 .. ThreadNum
    BY <2>1, LiveJobs DEF Counted
  <2>3. pcq!TypeOK
    BY DEF Queue, queue!IInv, queue!TypeOK, pcq!TypeOK, queue!Threads, pcq!Threads,
           queue!ProducerPC, pcq!ProducerPC, queue!ConsumerPC, pcq!ConsumerPC
  <2>4. curr_matrix \in Matrices
    BY <2>1 DEF Phases, Computed, Matrices
  <2>5. TypeOK
    BY <2>2, <2>3, <2>4 DEF Shapes, TypeOK
  <2>6. ASSUME main_pc = "gen_unlock"  PROVE Len(tile_hist) = ThreadNum * (gen + 1)
    <3>1. ~Recording /\ Rounds = gen + 1
      BY <2>6 DEF Tiles, Rounds
    <3>2. finished_thread_counter = 0
      BY <2>1, <2>6, LiveJobs DEF Counted, Pushed
    <3>3. ThreadNum * (gen + 1) \in Nat
      BY <2>1
    <3> QED  BY <2>1, <3>1, <3>2, <3>3 DEF Tiles
  <2> QED  BY <2>5, <2>6 DEF Tiles, TilesByGeneration
<1> QED  BY <1>1, Invariant, PTL

(* Nothing that _destroy_game() deletes is in use or lost: the workers     *)
(* have ended, nobody sleeps in the queue, every Job was deleted           *)
(* (Game.cpp:150-162).                                                     *)
THEOREM NothingInUse == Spec => []CleanDestroy
<1>1. IInv => CleanDestroy
  <2> SUFFICES ASSUME IInv, main_pc = "destroy"
               PROVE  /\ \A w \in Workers : worker_pc[w] = "exited" /\ queue_pc[w] = "idle"
                      /\ queue_lock = NoThread /\ global_lock = NoThread
                      /\ approve_to_read = {} /\ approve_to_write = {}
                      /\ live_jobs = 0
                      /\ \A k \in 1 .. Len(items) : items[k] = NullJob
    BY DEF CleanDestroy
  <2> USE Numbers DEF IInv
  <2>1. \A w \in Workers : worker_pc[w] = "exited" /\ queue_pc[w] = "idle"
    BY DEF Places
  <2>2. global_lock = NoThread
    BY <2>1 DEF Places, Shapes
  <2>3. queue_pc[Main] = "idle"
    BY DEF Phases, MainInPush
  <2>4. queue_lock = NoThread
    BY <2>1, <2>3 DEF Queue, queue!IInv, queue!TypeOK, queue!Threads, queue!LockOwner, queue!Holding
  <2>5. approve_to_read = {} /\ approve_to_write = {}
    BY <2>1 DEF Queue, queue!IInv, queue!TypeOK, queue!ProducerNeverSleeps
  <2>6. live_jobs = 0
    <3>1. Cardinality(Uncounted) = 0
      BY LiveJobs DEF Counted, Pushed, Shapes
    <3> QED  BY <3>1, LiveJobs DEF Counted
  <2>7. ASSUME NEW k \in 1 .. Len(items)  PROVE items[k] = NullJob
    <3>1. items[k] \in Things
      BY ItemsAreThings
    <3>2. finished /\ AtLarge(items[k])
      BY DEF Phases, AtLarge, Queued
    <3> QED  BY <3>1, <3>2 DEF Expected
  <2> QED  BY <2>1, <2>2, <2>4, <2>5, <2>6, <2>7
<1> QED  BY <1>1, Invariant, PTL

------------------------------------------------------------------------------
(* Game implements the sequential game of life: the board of curr_matrix   *)
(* changes only when the matrices are swapped, and then every line of the  *)
(* other one has been computed.                                            *)

LEMMA WholeGeneration ==
    ASSUME IInv, main_pc = "swap"
    PROVE  mats[To] = Successor(mats[From])
<1>1. /\ gen \in Nat /\ i = ThreadNum /\ ThreadNum \in Nat /\ ~finished /\ Pushed = 0
      /\ mats \in [Matrices -> Boards]
  BY Numbers DEF IInv, Shapes, Phases, Pushed
<1>2. \A x \in Things : ~AtLarge(x)
  BY <1>1, NobodyBusy DEF IInv
<1>3. \A x \in Jobs, l \in Lines : ~Pending(x, l)
  BY <1>2 DEF Pending, WillCompute, AtLarge, Things
<1>4. \A l \in Lines : mats[To][l] = NextLine(mats[From], l)
  BY <1>1, <1>3 DEF IInv, LinesLeft
<1>5. \A l \in Lines : mats[To][l] = Successor(mats[From])[l]
  BY <1>4, LineOfSuccessor
<1>6. mats[To] = [l \in Lines |-> mats[To][l]]
  <2>1. mats[To] \in Boards
    BY <1>1, JobsOfGeneration
  <2> QED  BY <2>1 DEF Boards
<1> QED  BY <1>5, <1>6 DEF Successor

LEMMA SameSuccessor ==
    ASSUME NEW b
    PROVE  Sequential!Successor(b) = Successor(b)
  BY DEF Sequential!Successor, Successor, Sequential!LiveAround, LiveAround,
         Sequential!Neighbours, Neighbours, Sequential!Lines, Lines, Sequential!Columns, Columns,
         Sequential!Cardinality, Cardinality

LEMMA BoardStays ==
    ASSUME IInv, [Next]_vars, ~SwapMatrices
    PROVE  mats'[curr_matrix'] = mats[curr_matrix] /\ Computed' = Computed
<1>0. gen \in Nat
  BY DEF IInv, Shapes
<1>1. CASE MainStep
  <2>1. UNCHANGED <<mats, curr_matrix>>
    BY <1>1 DEF MainStep, StartThread, ThreadsStarted, PushJob, WaitForJobs, ResetCounter,
               GenHistLock, GenHistUnlock, Finish, PushNull, AllNullsPushed,
               JoinThread, AllJoined, Destroy, heap_vars
  <2>2. Computed' = Computed
    BY <1>0, <1>1 DEF MainStep, StartThread, ThreadsStarted, PushJob, WaitForJobs, ResetCounter,
               GenHistLock, GenHistUnlock, Finish, PushNull, AllNullsPushed,
               JoinThread, AllJoined, Destroy, AfterGeneration, Computed
  <2> QED  BY <2>1, <2>2
<1>2. CASE ~MainStep
  <2>1. UNCHANGED <<main_vars, curr_matrix>> /\ Computed' = Computed
    BY <1>2, MainAlone DEF main_vars, Computed
  <2>2. CASE UNCHANGED game_vars
    BY <2>1, <2>2 DEF game_vars, heap_vars
  <2>3. ASSUME NEW w \in Workers, ComputeLine(w)
        PROVE  mats'[curr_matrix'] = mats[curr_matrix]
    <3>1. mats'[From] = mats[From] /\ main_pc \in {"step", "reset"}
      BY <2>3, Computes DEF IInv
    <3>2. curr_matrix = From
      BY <1>0, <3>1 DEF IInv, Phases, Computed, From
    <3> QED  BY <2>1, <3>1, <3>2
  <2>4. ASSUME NEW w \in Workers, WorkerStep(w), ~ComputeLine(w)
        PROVE  mats'[curr_matrix'] = mats[curr_matrix]
    BY <2>1, <2>4 DEF WorkerStep, Pop, CheckFinished, DeleteJob, LockGlobal, LoadCounter,
              StoreCounter, RecordTile, ExitLock, ExitUnlock, heap_vars
  <2> QED  BY <1>2, <2>1, <2>2, <2>3, <2>4, MainAlone DEF Next, Terminated
<1> QED  BY <1>1, <1>2

(* What the main thread would print is at all times a generation of the    *)
(* game of life, and goes on by one whole generation at a time             *)
(* (Game.cpp:66-142), whatever the workers are doing.                      *)
THEOREM ImplementsLife == Spec => Sequential!Spec
<1>1. Init => Sequential!Init
  BY DEF Init, Sequential!Init, Computed, Matrices
<1>2. ASSUME IInv, [Next]_vars
      PROVE  [Sequential!Next]_Sequential!vars
  <2>1. CASE SwapMatrices
    <3>1. /\ gen \in Nat /\ gen < Generations /\ Generations \in Nat
          /\ main_pc = "swap" /\ main_pc' = "gen_hist" /\ UNCHANGED <<gen, mats>>
          /\ curr_matrix = gen % 2 /\ curr_matrix' = 1 - curr_matrix
      BY <1>2, <2>1, Numbers DEF SwapMatrices, IInv, Shapes, Phases, Computed
    <3>2. Computed = gen /\ Computed' = gen + 1
      BY <3>1 DEF Computed
    <3>3. mats'[curr_matrix'] = Sequential!Successor(mats[curr_matrix])
      BY <1>2, <3>1, WholeGeneration, SameSuccessor DEF From, To
    <3> QED  BY <3>1, <3>2, <3>3 DEF Sequential!Next
  <2>2. CASE ~SwapMatrices
    BY <1>2, <2>2, BoardStays DEF Sequential!vars
  <2> QED  BY <2>1, <2>2
<1> QED  BY <1>1, <1>2, Invariant, PTL DEF Spec, Sequential!Spec
==============================================================================
