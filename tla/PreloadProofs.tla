---------------------------- MODULE PreloadProofs ----------------------------
(***************************************************************************)
(* Proofs about WorkerPool, FfAssetStore and AnimationPreloader, which     *)
(* uses both, for any number of workers and jobs, any containers and any   *)
(* lists of images.                                                        *)
(*   The pool: the counter is right, no job is lost or run twice,          *)
(* wait_idle returns only after every job has been run, and the destructor *)
(* drains the queue.                                                       *)
(*   The store: whoever reads, there is one picture of every record, and   *)
(* the access report tells the truth.                                      *)
(*   The preloader: its images are those the decoder would have made, and  *)
(* however the call ends it leaves nothing of its own and takes nothing of *)
(* others.                                                                 *)
(***************************************************************************)
EXTENDS AnimationPreloader, NaturalFacts, FiniteSetTheorems, TLAPS

(* The workers that have a job in their hands and have not finished it.    *)
Held(w) == pc[w] \in {"run", "notify"}

(* How many jobs have left the queue; the queue holds the others, in the   *)
(* order they were enqueued.                                               *)
Fetched == issued - Len(queue)
QueueIsTheRest ==
  /\ Len(queue) <= issued
  /\ \A i \in 1..Len(queue) : queue[i] = Fetched + i

HandsAreDistinct ==
  /\ \A w \in Workers : Held(w) => running[w] \in 1..Fetched
  /\ \A v, w \in Workers : Held(v) /\ Held(w) /\ running[v] = running[w] => v = w

RunOnce ==
  \A j \in Jobs :
    runs[j] = IF j <= Fetched /\ \A w \in Workers : ~(Held(w) /\ running[w] = j) THEN 1 ELSE 0

(* Workers and clients stay in their own parts of the code, workers leave  *)
(* only an empty queue behind, and nothing is enqueued after that.         *)
PlacesAgree ==
  /\ \A w \in Workers : pc[w] \notin {"out", "wait"}
  /\ \A c \in Clients : pc[c] \in {"out", "wait", "notify", "block", "asleep"}
  /\ \A w \in Workers : pc[w] = "exit" => stopping /\ queue = <<>>
  /\ dtor = "gone" => \A w \in Workers : pc[w] = "exit"

PoolInv ==
  /\ PoolTypeOK
  /\ OutstandingIsQueuedPlusExecuting
  /\ QueueIsTheRest /\ HandsAreDistinct /\ RunOnce /\ PlacesAgree
-----------------------------------------------------------------------------
(* The workers that execute a job are finitely many.                       *)
LEMMA ExecutingIsFinite == IsFiniteSet(Executing) /\ Cardinality(Executing) \in Nat
BY ThreadsAssumption, FS_Subset, FS_CardinalityType DEF Executing

(* A thread is either a worker or a client.                                *)
LEMMA WorkersAndClients ==
  /\ \A t \in Threads : t \in Workers <=> t \notin Clients
  /\ Workers \subseteq Threads /\ Clients \subseteq Threads
BY ThreadsAssumption DEF Threads

(* The invariant of the pool holds at the start,                           *)
LEMMA InitInv == Init => PoolInv
<1> SUFFICES ASSUME Init PROVE PoolInv
  OBVIOUS
<1> USE DEF Init
<1>1. PoolTypeOK
  <2>1. queue \in Seq(Jobs)
    BY DEF Jobs
  <2>2. issued \in 0..MaxJobs /\ running \in [Workers -> 0..MaxJobs]
    BY MaxJobsAssumption
  <2>3. runs \in [Jobs -> Nat] /\ outstanding \in Nat
    OBVIOUS
  <2>4. pc \in [Threads -> {"loop", "out"}]
    OBVIOUS
  <2> QED
    BY <2>1, <2>2, <2>3, <2>4 DEF PoolTypeOK
<1>2. Executing = {}
  BY WorkersAndClients DEF Executing
<1>3. OutstandingIsQueuedPlusExecuting
  BY <1>2, FS_EmptySet DEF OutstandingIsQueuedPlusExecuting
<1>4. QueueIsTheRest /\ HandsAreDistinct /\ RunOnce
  BY WorkersAndClients, MaxJobsAssumption DEF QueueIsTheRest, HandsAreDistinct, RunOnce, Fetched, Held, Jobs
<1>5. PlacesAgree
  BY WorkersAndClients DEF PlacesAgree
<1> QED
  BY <1>1, <1>3, <1>4, <1>5 DEF PoolInv

(* A step that moves no job keeps the accounting.                          *)
LEMMA QuietStep ==
  ASSUME PoolInv, UNCHANGED <<queue, outstanding, issued, running, runs>>,
         \A w \in Workers : Held(w)' <=> Held(w),
         Executing' = Executing
  PROVE  /\ OutstandingIsQueuedPlusExecuting'
         /\ QueueIsTheRest' /\ HandsAreDistinct' /\ RunOnce'
<1> USE DEF PoolInv
<1>1. Fetched' = Fetched
  BY DEF Fetched
<1>2. OutstandingIsQueuedPlusExecuting'
  BY DEF OutstandingIsQueuedPlusExecuting
<1>3. QueueIsTheRest'
  BY <1>1 DEF QueueIsTheRest
<1>4. HandsAreDistinct'
  BY <1>1 DEF HandsAreDistinct
<1>5. RunOnce'
  BY <1>1 DEF RunOnce
<1> QED
  BY <1>2, <1>3, <1>4, <1>5

(* and every step of the pool keeps it.                                    *)
LEMMA NextInv == PoolInv /\ [Next]_vars => PoolInv'
<1> SUFFICES ASSUME PoolInv, [Next]_vars PROVE PoolInv'
  OBVIOUS
<1> USE DEF PoolInv
<1>1. ASSUME NEW t \in Threads, Push(t) PROVE PoolInv'
  <2>. USE <1>1 DEF Push, Move
  <2>1. /\ Len(queue) \in Nat /\ Len(queue') = Len(queue) + 1 /\ issued \in Nat
        /\ queue'[Len(queue) + 1] = issued + 1
        /\ \A i \in 1..Len(queue) : queue'[i] = queue[i]
    BY MaxJobsAssumption DEF PoolTypeOK
  <2>2. PoolTypeOK'
    <3>1. issued + 1 \in Jobs
      BY <2>1, MaxJobsAssumption DEF Jobs
    <3>2. queue' \in Seq(Jobs)
      BY <3>1 DEF PoolTypeOK
    <3>3. pc' \in [Threads -> {"loop", "block", "asleep", "run", "notify", "sub", "signal",
                               "exit", "out", "wait"}]
      BY DEF PoolTypeOK
    <3> QED
      BY <3>1, <3>2, <3>3 DEF PoolTypeOK, Jobs
  <2>3. Executing' = Executing /\ \A w \in Workers : Held(w)' <=> Held(w)
    BY WorkersAndClients DEF PoolTypeOK, Executing, Held
  <2>4. Fetched' = Fetched /\ Fetched \in Int
    BY <2>1 DEF Fetched
  <2>5. OutstandingIsQueuedPlusExecuting'
    BY <2>1, <2>3, ExecutingIsFinite DEF OutstandingIsQueuedPlusExecuting, PoolTypeOK
  <2>6. QueueIsTheRest'
    <3>1. Len(queue') <= issued'
      BY <2>1 DEF QueueIsTheRest
    <3>2. ASSUME NEW i \in 1..Len(queue') PROVE queue'[i] = Fetched' + i
      <4>1. CASE i = Len(queue) + 1
        BY <4>1, <2>1, <2>4 DEF Fetched
      <4>2. CASE i \in 1..Len(queue)
        BY <4>2, <2>1, <2>4 DEF QueueIsTheRest
      <4> QED
        BY <4>1, <4>2, <2>1
    <3> QED
      BY <3>1, <3>2 DEF QueueIsTheRest
  <2>7. HandsAreDistinct'
    BY <2>3, <2>4 DEF HandsAreDistinct
  <2>8. RunOnce'
    BY <2>3, <2>4 DEF RunOnce
  <2>9. PlacesAgree'
    BY WorkersAndClients DEF PoolTypeOK, PlacesAgree
  <2> QED
    BY <2>2, <2>5, <2>6, <2>7, <2>8, <2>9
<1>2. ASSUME NEW t \in Threads, NotifyOne(t) PROVE PoolInv'
  <2>1. PoolTypeOK'
    BY <1>2, WorkersAndClients DEF PoolTypeOK, NotifyOne, Move, Pushed, Retry, Asleep
  <2>2. UNCHANGED <<queue, outstanding, issued, running, runs>>
    BY <1>2 DEF vars, NotifyOne, Move, Pushed, Retry, Asleep
  <2>3. Executing' = Executing /\ \A w \in Workers : Held(w)' <=> Held(w)
    BY <1>2, WorkersAndClients DEF PoolTypeOK, PlacesAgree, Executing, Held, NotifyOne, Move, Pushed, Retry, Asleep
  <2>4. PlacesAgree'
    BY <1>2, WorkersAndClients DEF PoolTypeOK, PlacesAgree, NotifyOne, Move, Pushed, Retry, Asleep
  <2> QED
    BY <2>1, <2>2, <2>3, <2>4, QuietStep
<1>3. ASSUME NEW c \in Clients, CallWaitIdle(c) PROVE PoolInv'
  <2>1. PoolTypeOK'
    BY <1>3, WorkersAndClients DEF PoolTypeOK, CallWaitIdle, Move
  <2>2. UNCHANGED <<queue, outstanding, issued, running, runs>>
    BY <1>3 DEF vars, CallWaitIdle, Move
  <2>3. Executing' = Executing /\ \A w \in Workers : Held(w)' <=> Held(w)
    BY <1>3, WorkersAndClients DEF PoolTypeOK, PlacesAgree, Executing, Held, CallWaitIdle, Move
  <2>4. PlacesAgree'
    BY <1>3, WorkersAndClients DEF PoolTypeOK, PlacesAgree, CallWaitIdle, Move
  <2> QED
    BY <2>1, <2>2, <2>3, <2>4, QuietStep
<1>4. ASSUME NEW c \in Clients, CheckIdle(c) PROVE PoolInv'
  <2>1. PoolTypeOK'
    BY <1>4, WorkersAndClients DEF PoolTypeOK, CheckIdle, Move
  <2>2. UNCHANGED <<queue, outstanding, issued, running, runs>>
    BY <1>4 DEF vars, CheckIdle, Move
  <2>3. Executing' = Executing /\ \A w \in Workers : Held(w)' <=> Held(w)
    BY <1>4, WorkersAndClients DEF PoolTypeOK, PlacesAgree, Executing, Held, CheckIdle, Move
  <2>4. PlacesAgree'
    BY <1>4, WorkersAndClients DEF PoolTypeOK, PlacesAgree, CheckIdle, Move
  <2> QED
    BY <2>1, <2>2, <2>3, <2>4, QuietStep
<1>5. ASSUME NEW t \in Threads, Block(t) PROVE PoolInv'
  <2>1. PoolTypeOK'
    BY <1>5, WorkersAndClients DEF PoolTypeOK, Block, Move
  <2>2. UNCHANGED <<queue, outstanding, issued, running, runs>>
    BY <1>5 DEF vars, Block, Move
  <2>3. Executing' = Executing /\ \A w \in Workers : Held(w)' <=> Held(w)
    BY <1>5, WorkersAndClients DEF PoolTypeOK, PlacesAgree, Executing, Held, Block, Move
  <2>4. PlacesAgree'
    BY <1>5, WorkersAndClients DEF PoolTypeOK, PlacesAgree, Block, Move
  <2> QED
    BY <2>1, <2>2, <2>3, <2>4, QuietStep
<1>6. ASSUME NEW t \in Threads, SpuriousWakeup(t) PROVE PoolInv'
  <2>1. PoolTypeOK'
    BY <1>6, WorkersAndClients DEF PoolTypeOK, SpuriousWakeup, Move, Retry, Asleep
  <2>2. UNCHANGED <<queue, outstanding, issued, running, runs>>
    BY <1>6 DEF vars, SpuriousWakeup, Move, Retry, Asleep
  <2>3. Executing' = Executing /\ \A w \in Workers : Held(w)' <=> Held(w)
    BY <1>6, WorkersAndClients DEF PoolTypeOK, PlacesAgree, Executing, Held, SpuriousWakeup, Move, Retry, Asleep
  <2>4. PlacesAgree'
    BY <1>6, WorkersAndClients DEF PoolTypeOK, PlacesAgree, SpuriousWakeup, Move, Retry, Asleep
  <2> QED
    BY <2>1, <2>2, <2>3, <2>4, QuietStep
<1>7. ASSUME NEW w \in Workers, Fetch(w) PROVE PoolInv'
  <2>1. CASE ~WorkerReady /\ Move(w, "block") /\ lock' = w /\ UNCHANGED <<queue, running>>
    <3>. USE <1>7, <2>1, WorkersAndClients DEF Fetch, Move
    <3>1. PoolTypeOK'
      BY DEF PoolTypeOK
    <3>2. Executing' = Executing /\ \A v \in Workers : Held(v)' <=> Held(v)
      BY DEF PoolTypeOK, Executing, Held
    <3>3. PlacesAgree'
      BY DEF PoolTypeOK, PlacesAgree
    <3> QED
      BY <3>1, <3>2, <3>3, QuietStep
  <2>2. CASE MustExit /\ Move(w, "exit") /\ UNCHANGED <<lock, queue, running>>
    <3>. USE <1>7, <2>2, WorkersAndClients DEF Fetch, Move
    <3>1. PoolTypeOK'
      BY DEF PoolTypeOK
    <3>2. Executing' = Executing /\ \A v \in Workers : Held(v)' <=> Held(v)
      BY DEF PoolTypeOK, Executing, Held
    <3>3. PlacesAgree'
      BY DEF PoolTypeOK, PlacesAgree, MustExit
    <3> QED
      BY <3>1, <3>2, <3>3, QuietStep
  <2>3. CASE /\ WorkerReady /\ ~MustExit
             /\ running' = [running EXCEPT ![w] = Head(queue)]
             /\ queue' = Popped
             /\ Move(w, "run")
             /\ UNCHANGED lock
    <3>1. /\ pc[w] = "loop" /\ pc' = [pc EXCEPT ![w] = "run"]
          /\ queue # <<>> /\ queue' = Tail(queue)
          /\ running' = [running EXCEPT ![w] = Head(queue)]
          /\ UNCHANGED <<lock, outstanding, stopping, issued, runs, dtor>>
      BY <1>7, <2>3 DEF Fetch, Move, Popped, WorkerReady, MustExit
    <3>2. /\ Len(queue) \in Nat \ {0} /\ issued \in Nat
          /\ Len(queue') = Len(queue) - 1
          /\ \A i \in 1..Len(queue') : queue'[i] = queue[i + 1]
          /\ Head(queue) = queue[1] /\ Head(queue) \in Jobs
          /\ queue' \in Seq(Jobs)
      BY <3>1, MaxJobsAssumption DEF PoolTypeOK
    <3>3. Fetched \in Nat /\ Fetched' = Fetched + 1
      BY <3>1, <3>2 DEF Fetched, QueueIsTheRest
    <3>4. Head(queue) = Fetched + 1
      BY <3>2 DEF QueueIsTheRest
    <3>5. PoolTypeOK'
      <4>1. pc' \in [Threads -> {"loop", "block", "asleep", "run", "notify", "sub", "signal",
                                 "exit", "out", "wait"}]
        BY <3>1 DEF PoolTypeOK
      <4>2. Head(queue) \in 0..MaxJobs
        BY <3>2, MaxJobsAssumption DEF Jobs
      <4>3. running' \in [Workers -> 0..MaxJobs]
        BY <3>1, <4>2 DEF PoolTypeOK
      <4> QED
        BY <3>1, <3>2, <4>1, <4>3 DEF PoolTypeOK
    <3>6. OutstandingIsQueuedPlusExecuting'
      <4>1. w \notin Executing /\ Executing' = Executing \cup {w}
        BY <3>1, WorkersAndClients DEF PoolTypeOK, Executing
      <4>2. Cardinality(Executing') = Cardinality(Executing) + 1
        BY <4>1, ExecutingIsFinite, FS_AddElement
      <4> QED
        BY <3>1, <3>2, <4>2, ExecutingIsFinite DEF OutstandingIsQueuedPlusExecuting
    <3>7. /\ Held(w)' /\ ~Held(w) /\ running'[w] = Fetched + 1
          /\ \A v \in Workers \ {w} : (Held(v)' <=> Held(v)) /\ running'[v] = running[v]
      BY <3>1, <3>4, WorkersAndClients DEF PoolTypeOK, Held
    <3>8. HandsAreDistinct'
      BY <3>3, <3>7 DEF HandsAreDistinct
    <3>9. RunOnce'
      <4> SUFFICES ASSUME NEW j \in Jobs
                   PROVE runs'[j] = IF j <= Fetched + 1
                                        /\ \A v \in Workers : ~(Held(v)' /\ running'[v] = j)
                                   THEN 1 ELSE 0
        BY <3>3 DEF RunOnce
      <4>1. CASE j = Fetched + 1
        BY <4>1, <3>1, <3>3, <3>7 DEF RunOnce, Jobs
      <4>2. CASE j # Fetched + 1
        BY <4>2, <3>1, <3>3, <3>7 DEF RunOnce, Jobs
      <4> QED
        BY <4>1, <4>2
    <3>10. QueueIsTheRest'
      BY <3>1, <3>2, <3>3 DEF QueueIsTheRest
    <3>11. PlacesAgree'
      BY <3>1, WorkersAndClients DEF PoolTypeOK, PlacesAgree
    <3> QED
      BY <3>5, <3>6, <3>8, <3>9, <3>10, <3>11
  <2> QED
    BY <1>7, <2>1, <2>2, <2>3 DEF Fetch
<1>8. ASSUME NEW w \in Workers, FinishJob(w) PROVE PoolInv'
  <2>. USE <1>8, WorkersAndClients DEF FinishJob, Move
  <2>1. running[w] \in 1..Fetched /\ Fetched \in Nat /\ running[w] \in Jobs
    BY MaxJobsAssumption DEF HandsAreDistinct, Held, PoolTypeOK, Fetched, Jobs, QueueIsTheRest
  <2>2. Executing' = Executing
    BY DEF PoolTypeOK, Executing
  <2>3. ~Held(w)' /\ Held(w) /\ \A v \in Workers \ {w} : Held(v)' <=> Held(v)
    BY DEF PoolTypeOK, Held
  <2>4. Fetched' = Fetched
    BY DEF Fetched
  <2>5. PoolTypeOK'
    BY <2>1 DEF PoolTypeOK
  <2>6. OutstandingIsQueuedPlusExecuting'
    BY <2>2 DEF OutstandingIsQueuedPlusExecuting
  <2>7. QueueIsTheRest' /\ HandsAreDistinct'
    BY <2>3, <2>4 DEF QueueIsTheRest, HandsAreDistinct
  <2>8. RunOnce'
    <3> SUFFICES ASSUME NEW j \in Jobs
                 PROVE runs'[j] = IF j <= Fetched
                                       /\ \A v \in Workers : ~(Held(v)' /\ running[v] = j)
                                  THEN 1 ELSE 0
      BY <2>4 DEF RunOnce
    <3>1. CASE j = running[w]
      <4>1. runs[j] = 0 /\ j <= Fetched
        BY <3>1, <2>1, <2>3 DEF RunOnce
      <4>2. \A v \in Workers : ~(Held(v)' /\ running[v] = j)
        BY <3>1, <2>3 DEF HandsAreDistinct
      <4>3. runs'[j] = 1
        BY <3>1, <4>1 DEF PoolTypeOK
      <4> QED
        BY <4>1, <4>2, <4>3
    <3>2. CASE j # running[w]
      <4>1. runs'[j] = runs[j]
        BY <3>2 DEF PoolTypeOK
      <4>2. \A v \in Workers : Held(v)' /\ running[v] = j <=> Held(v) /\ running[v] = j
        BY <3>2, <2>3
      <4> QED
        BY <4>1, <4>2 DEF RunOnce
    <3> QED
      BY <3>1, <3>2
  <2>9. PlacesAgree'
    BY DEF PoolTypeOK, PlacesAgree
  <2> QED
    BY <2>5, <2>6, <2>7, <2>8, <2>9
<1>9. ASSUME NEW w \in Workers, Complete(w) PROVE PoolInv'
  <2>. USE <1>9, WorkersAndClients DEF Complete, Move
  <2>1. w \in Executing /\ Executing' = Executing \ {w}
    BY DEF PoolTypeOK, Executing
  <2>2. Cardinality(Executing) \in Nat \ {0} /\ Cardinality(Executing') = Cardinality(Executing) - 1
    BY <2>1, ExecutingIsFinite, FS_RemoveElement, FS_EmptySet
  <2>3. PoolTypeOK' /\ OutstandingIsQueuedPlusExecuting'
    <3>1. Len(queue) \in Nat /\ queue' = queue /\ outstanding' = outstanding - 1
      BY DEF PoolTypeOK
    <3>2. outstanding' \in Nat /\ OutstandingIsQueuedPlusExecuting'
      BY <2>2, <3>1 DEF OutstandingIsQueuedPlusExecuting
    <3> QED
      BY <3>2 DEF PoolTypeOK
  <2>4. \A v \in Workers : Held(v)' <=> Held(v)
    BY DEF PoolTypeOK, Held
  <2>5. Fetched' = Fetched
    BY DEF Fetched
  <2>6. QueueIsTheRest' /\ HandsAreDistinct' /\ RunOnce'
    BY <2>4, <2>5 DEF QueueIsTheRest, HandsAreDistinct, RunOnce
  <2>7. PlacesAgree'
    BY DEF PoolTypeOK, PlacesAgree
  <2> QED
    BY <2>3, <2>6, <2>7
<1>10. ASSUME NEW w \in Workers, Signal(w) PROVE PoolInv'
  <2>1. PoolTypeOK'
    BY <1>10, WorkersAndClients DEF PoolTypeOK, Signal, WakeAllAnd, Retry, Asleep
  <2>2. UNCHANGED <<queue, outstanding, issued, running, runs>>
    BY <1>10 DEF vars, Signal, WakeAllAnd, Retry, Asleep
  <2>3. Executing' = Executing /\ \A v \in Workers : Held(v)' <=> Held(v)
    BY <1>10, WorkersAndClients DEF PoolTypeOK, PlacesAgree, Executing, Held, Signal, WakeAllAnd, Retry, Asleep
  <2>4. PlacesAgree'
    BY <1>10, WorkersAndClients DEF PoolTypeOK, PlacesAgree, Signal, WakeAllAnd, Retry, Asleep
  <2> QED
    BY <2>1, <2>2, <2>3, <2>4, QuietStep
<1>11. CASE Stop
  <2>1. PoolTypeOK'
    BY <1>11, WorkersAndClients DEF PoolTypeOK, Stop
  <2>2. UNCHANGED <<queue, outstanding, issued, running, runs>>
    BY <1>11 DEF vars, Stop
  <2>3. Executing' = Executing /\ \A w \in Workers : Held(w)' <=> Held(w)
    BY <1>11, WorkersAndClients DEF PoolTypeOK, PlacesAgree, Executing, Held, Stop
  <2>4. PlacesAgree'
    BY <1>11, WorkersAndClients DEF PoolTypeOK, PlacesAgree, Stop
  <2> QED
    BY <2>1, <2>2, <2>3, <2>4, QuietStep
<1>12. CASE StopNotifyAll
  <2>1. PoolTypeOK'
    BY <1>12, WorkersAndClients DEF PoolTypeOK, StopNotifyAll, Retry, Asleep
  <2>2. UNCHANGED <<queue, outstanding, issued, running, runs>>
    BY <1>12 DEF vars, StopNotifyAll, Retry, Asleep
  <2>3. Executing' = Executing /\ \A w \in Workers : Held(w)' <=> Held(w)
    BY <1>12, WorkersAndClients DEF PoolTypeOK, PlacesAgree, Executing, Held, StopNotifyAll, Retry, Asleep
  <2>4. PlacesAgree'
    BY <1>12, WorkersAndClients DEF PoolTypeOK, PlacesAgree, StopNotifyAll, Retry, Asleep
  <2> QED
    BY <2>1, <2>2, <2>3, <2>4, QuietStep
<1>13. CASE Join
  <2>1. PoolTypeOK'
    BY <1>13, WorkersAndClients DEF PoolTypeOK, Join
  <2>2. UNCHANGED <<queue, outstanding, issued, running, runs>>
    BY <1>13 DEF vars, Join
  <2>3. Executing' = Executing /\ \A w \in Workers : Held(w)' <=> Held(w)
    BY <1>13, WorkersAndClients DEF PoolTypeOK, PlacesAgree, Executing, Held, Join
  <2>4. PlacesAgree'
    BY <1>13, WorkersAndClients DEF PoolTypeOK, PlacesAgree, Join
  <2> QED
    BY <2>1, <2>2, <2>3, <2>4, QuietStep
<1>14. CASE UNCHANGED vars
  <2>1. PoolTypeOK'
    BY <1>14, WorkersAndClients DEF PoolTypeOK, vars
  <2>2. UNCHANGED <<queue, outstanding, issued, running, runs>>
    BY <1>14 DEF vars, vars
  <2>3. Executing' = Executing /\ \A w \in Workers : Held(w)' <=> Held(w)
    BY <1>14, WorkersAndClients DEF PoolTypeOK, PlacesAgree, Executing, Held, vars
  <2>4. PlacesAgree'
    BY <1>14, WorkersAndClients DEF PoolTypeOK, PlacesAgree, vars
  <2> QED
    BY <2>1, <2>2, <2>3, <2>4, QuietStep
<1> QED
  BY <1>1, <1>2, <1>3, <1>4, <1>5, <1>6, <1>7, <1>8, <1>9, <1>10, <1>11, <1>12, <1>13, <1>14
  DEF Next, LockStep, FreeStep, Destroy
-----------------------------------------------------------------------------
(* Every reachable state of the pool satisfies the inductive invariant.    *)
THEOREM PoolInvariant == Spec => []PoolInv
  BY InitInv, NextInv, PTL DEF Spec

(* The variables keep their types; in particular outstanding_, unsigned in *)
(* the code, never goes below zero.                                        *)
THEOREM PoolTypeCorrect == Spec => []PoolTypeOK
<1>1. PoolInv => PoolTypeOK
  BY DEF PoolInv
<1> QED
  BY <1>1, PoolInvariant, PTL

(* outstanding_ counts the queued and the executing jobs, however many     *)
(* threads enqueue and complete jobs at the same time.                     *)
THEOREM AccountingCorrect == Spec => []OutstandingIsQueuedPlusExecuting
<1>1. PoolInv => OutstandingIsQueuedPlusExecuting
  BY DEF PoolInv
<1> QED
  BY <1>1, PoolInvariant, PTL

(* No job is lost and none is run twice.                                   *)
LEMMA JobsAreSomewhere == PoolInv => EveryJobIsSomewhere
<1> SUFFICES ASSUME PoolInv, NEW j \in 1..issued
             PROVE  Cardinality({i \in DOMAIN queue : queue[i] = j})
                      + Cardinality({w \in Workers : Held(w) /\ running[w] = j}) + runs[j] = 1
  BY DEF EveryJobIsSomewhere, Held
<1> DEFINE queued == {i \in DOMAIN queue : queue[i] = j}
           held == {w \in Workers : Held(w) /\ running[w] = j}
<1> USE DEF PoolInv
<1>1. /\ issued \in Nat /\ j \in Jobs /\ Len(queue) \in Nat /\ DOMAIN queue = 1..Len(queue)
      /\ Fetched \in Nat
  BY MaxJobsAssumption DEF PoolTypeOK, Jobs, Fetched, QueueIsTheRest
<1>2. CASE j > Fetched
  <2>1. queued = {j - Fetched}
    <3>1. j - Fetched \in 1..Len(queue)
      BY <1>1, <1>2 DEF Fetched
    <3>2. \A i \in 1..Len(queue) : queue[i] = Fetched + i
      BY DEF QueueIsTheRest
    <3>3. \A i \in 1..Len(queue) : Fetched + i = j <=> i = j - Fetched
      BY <1>1
    <3> QED
      BY <1>1, <3>1, <3>2, <3>3
  <2>2. held = {}
    BY <1>1, <1>2 DEF HandsAreDistinct
  <2>3. runs[j] = 0
    BY <1>1, <1>2 DEF RunOnce
  <2>4. Cardinality(queued) = 1 /\ Cardinality(held) = 0
    BY <2>1, <2>2, FS_Singleton, FS_EmptySet
  <2> HIDE DEF queued, held
  <2>5. Cardinality(queued) + Cardinality(held) + runs[j] = 1
    BY <2>3, <2>4
  <2> QED
    BY <2>5 DEF queued, held
<1>3. CASE j <= Fetched
  <2>1. queued = {}
    BY <1>1, <1>3 DEF QueueIsTheRest, Fetched
  <2>2. CASE held = {}
    <3>1. runs[j] = 1
      BY <1>1, <1>3, <2>2 DEF RunOnce
    <3>2. Cardinality(queued) = 0 /\ Cardinality(held) = 0
      BY <2>1, <2>2, FS_EmptySet
    <3> HIDE DEF queued, held
    <3>3. Cardinality(queued) + Cardinality(held) + runs[j] = 1
      BY <3>1, <3>2
    <3> QED
      BY <3>3 DEF queued, held
  <2>3. CASE held # {}
    <3>1. PICK w \in Workers : Held(w) /\ running[w] = j
      BY <2>3
    <3>2. held = {w}
      BY <3>1 DEF HandsAreDistinct
    <3>3. runs[j] = 0
      BY <1>1, <3>1 DEF RunOnce
    <3>4. Cardinality(queued) = 0 /\ Cardinality(held) = 1
      BY <2>1, <3>2, FS_EmptySet, FS_Singleton
    <3> HIDE DEF queued, held
    <3>5. Cardinality(queued) + Cardinality(held) + runs[j] = 1
      BY <3>3, <3>4
    <3> QED
      BY <3>5 DEF queued, held
  <2> QED
    BY <2>2, <2>3
<1> QED
  BY <1>1, <1>2, <1>3

(* Every job enqueued so far is queued, in the hands of one worker, or has *)
(* been run once: no interleaving loses a job or runs it twice.            *)
THEOREM NoJobIsLost == Spec => []EveryJobIsSomewhere
  BY JobsAreSomewhere, PoolInvariant, PTL

(* When nothing is outstanding, every job has been run.                    *)
LEMMA IdleIsDone ==
  ASSUME PoolInv, queue = <<>>, \A w \in Workers : ~Held(w)
  PROVE  \A j \in 1..issued : runs[j] = 1
<1>1. 1..issued \subseteq Jobs /\ Fetched = issued
  BY MaxJobsAssumption DEF PoolInv, PoolTypeOK, Jobs, Fetched
<1> QED
  BY <1>1 DEF PoolInv, RunOnce

(* A destructor that has joined the workers leaves no job behind.          *)
THEOREM DestructorDrainsQueue == Spec => []DestructorDrains
<1>1. PoolInv => DestructorDrains
  <2> SUFFICES ASSUME PoolInv, dtor = "gone" PROVE \A j \in 1..issued : runs[j] = 1
    BY DEF DestructorDrains
  <2>1. queue = <<>> /\ \A w \in Workers : ~Held(w)
    BY ThreadsAssumption DEF PoolInv, PlacesAgree, Held
  <2> QED
    BY <2>1, IdleIsDone
<1> QED
  BY <1>1, PoolInvariant, PTL

(* The accounts of the pool are right at all times.                        *)
THEOREM AccountsAreRight == Spec => []JobsAreAccountedFor
<1>1. OutstandingIsQueuedPlusExecuting /\ EveryJobIsSomewhere /\ DestructorDrains
        => JobsAreAccountedFor
  BY DEF JobsAreAccountedFor
<1> QED
  BY <1>1, AccountingCorrect, NoJobIsLost, DestructorDrainsQueue, PTL

(* wait_idle returns only at a moment when every job enqueued before has   *)
(* been run, the jobs enqueued by jobs included.                           *)
THEOREM WaitIdleIsSound == Spec => IdleMeansAllDone
<1>1. ASSUME PoolInv, [Next]_vars, NEW c \in Clients, pc[c] = "wait", pc'[c] = "out"
      PROVE  \A j \in 1..issued : runs[j] = 1
  <2>1. CheckIdle(c) /\ IdleReached
    <3>. USE <1>1, WorkersAndClients DEF PoolInv, PoolTypeOK, Move
    <3>1. ASSUME NEW t \in Threads, Push(t) \/ NotifyOne(t) \/ Block(t) \/ SpuriousWakeup(t)
          PROVE  FALSE
      BY <3>1 DEF Push, NotifyOne, Block, SpuriousWakeup, Asleep, Retry
    <3>2. ASSUME NEW w \in Workers, Fetch(w) \/ FinishJob(w) \/ Complete(w) \/ Signal(w)
          PROVE  FALSE
      BY <3>2 DEF Fetch, FinishJob, Complete, Signal, WakeAllAnd, Asleep
    <3>3. ASSUME NEW d \in Clients, CallWaitIdle(d) PROVE FALSE
      BY <3>3 DEF CallWaitIdle
    <3>4. ~(Stop \/ StopNotifyAll \/ Join \/ UNCHANGED vars)
      BY DEF Stop, StopNotifyAll, Join, vars, Asleep
    <3>5. PICK d \in Clients : CheckIdle(d)
      BY <3>1, <3>2, <3>3, <3>4 DEF Next, LockStep, FreeStep, Destroy
    <3> QED
      BY <3>5 DEF CheckIdle
  <2>2. Executing = {} /\ Len(queue) = 0
    <3>1. outstanding = Len(queue) + Cardinality(Executing) /\ Len(queue) \in Nat /\ outstanding = 0
      BY <1>1, <2>1 DEF IdleReached, PoolInv, PoolTypeOK, OutstandingIsQueuedPlusExecuting
    <3>2. Cardinality(Executing) = 0 /\ Len(queue) = 0
      BY <3>1, ExecutingIsFinite
    <3> QED
      BY <3>2, ExecutingIsFinite, FS_EmptySet
  <2>3. queue = <<>> /\ \A w \in Workers : ~Held(w)
    BY <1>1, <2>2 DEF Executing, Held, PoolInv, PoolTypeOK
  <2> QED
    BY <1>1, <2>3, IdleIsDone
<1>2. PoolInv /\ [Next]_vars =>
        [\A c \in Clients :
           pc[c] = "wait" /\ pc'[c] = "out" => \A j \in 1..issued : runs[j] = 1]_vars
  BY <1>1
<1> QED
  BY <1>2, PoolInvariant, PTL DEF Spec, IdleMeansAllDone
-----------------------------------------------------------------------------
(***************************************************************************)
(* The store.                                                              *)
(***************************************************************************)
(* All that a call brings, for any store.                                  *)
Reader(t) ==
  LET c == call[t]
  IN /\ c.place \in {"out", "decoding", "done", "thrown"}
     /\ c.place = "decoding" => c.op \in {"png", "raw"} /\ c.name \in RecordNames(file)
     /\ c.place = "done" /\ c.op = "png" => (c.got # Nothing <=> DecodesRaw(file, c.name))
     /\ c.place \in {"decoding", "done"} => file.opens
     /\ c.place = "thrown" => ~file.opens

(* The ways in which a record has been given out.                          *)
Ways(n) == {g[1] : g \in {h \in given : h[2] = n}}
Hits(n) == IF n \in RecordNames(file) THEN usage[n].hits ELSE 0

(* The calls, the caches and the accounts. Every record given out as       *)
(* pixels is the one in the cache; every call that has returned is         *)
(* counted; a load is counted at most once per way the record was given    *)
(* out.                                                                    *)
ReadersOK == DOMAIN call = Readers /\ \A t \in Readers : Reader(t)
CachesOK ==
  /\ made \in Nat
  /\ \A n \in DOMAIN pngs : pngs[n] # Nothing /\ DecodesRaw(file, n)
  /\ \A g \in given : \/ g[1] = "png" /\ g[2] \in DOMAIN pngs /\ g[3] = pngs[g[2]]
                      \/ g[1] = "raw" /\ g[2] \in DOMAIN bytes
AccountsOK ==
  /\ \A n \in DOMAIN missing : missing[n] \in Nat
  /\ \A n \in DOMAIN finished \cup DOMAIN missing \cup RecordNames(file) :
       At(finished, n) = At(missing, n) + Hits(n)
UsageOK ==
  /\ usage \in [RecordNames(file) -> [hits : Nat, loads : Nat, cached : Nat]]
  /\ \A n \in RecordNames(file) :
       usage[n].loads + usage[n].cached <= usage[n].hits /\ usage[n].loads <= Cardinality(Ways(n))
StoreInv == WellFormed(file) /\ ReadersOK /\ CachesOK /\ AccountsOK /\ UsageOK
-----------------------------------------------------------------------------
(* Put sets one place of a map; Add counts one up there.                   *)
LEMMA PutFacts ==
  ASSUME NEW f, NEW n, NEW x
  PROVE  /\ DOMAIN Put(f, n, x) = DOMAIN f \cup {n}
         /\ Put(f, n, x)[n] = x
         /\ \A m \in DOMAIN f \ {n} : Put(f, n, x)[m] = f[m]
BY DEF Put

(* Add counts one up, whether or not there was a count before.             *)
LEMMA AddFacts ==
  ASSUME NEW f, NEW n
  PROVE  /\ DOMAIN Add(f, n) = DOMAIN f \cup {n}
         /\ At(Add(f, n), n) = At(f, n) + 1
         /\ Add(f, n)[n] = At(f, n) + 1
         /\ \A m \in DOMAIN f \ {n} : Add(f, n)[m] = f[m]
<1>1. /\ DOMAIN Add(f, n) = DOMAIN f \cup {n} /\ Add(f, n)[n] = At(f, n) + 1
      /\ \A m \in DOMAIN f \ {n} : Add(f, n)[m] = f[m]
  BY DEF Add, Put
<1>2. At(Add(f, n), n) = At(f, n) + 1
  BY <1>1 DEF At
<1> QED
  BY <1>1, <1>2

(* Add leaves the other counts alone.                                      *)
LEMMA AddElsewhere == ASSUME NEW f, NEW n, NEW m, m # n PROVE At(Add(f, n), m) = At(f, m)
<1>1. DOMAIN Add(f, n) = DOMAIN f \cup {n} /\ \A k \in DOMAIN f \ {n} : Add(f, n)[k] = f[k]
  BY AddFacts
<1> QED
  BY <1>1 DEF At

(* A name has been given out in at most two ways.                          *)
LEMMA WaysAreFew ==
  CachesOK => \A n : /\ Ways(n) \subseteq {"png", "raw"} /\ IsFiniteSet(Ways(n))
                     /\ Cardinality(Ways(n)) \in Nat
<1> SUFFICES ASSUME CachesOK, NEW n
             PROVE  /\ Ways(n) \subseteq {"png", "raw"} /\ IsFiniteSet(Ways(n))
                    /\ Cardinality(Ways(n)) \in Nat
  OBVIOUS
<1>1. Ways(n) \subseteq {"png", "raw"}
  BY DEF CachesOK, Ways
<1>2. IsFiniteSet({"png", "raw"})
  <2>1. IsFiniteSet({"png"}) /\ {"png", "raw"} = {"png"} \cup {"raw"}
    BY FS_Singleton
  <2> QED
    BY <2>1, FS_AddElement
<1> QED
  BY <1>1, <1>2, FS_Subset, FS_CardinalityType

(* The same of the next state.                                             *)
LEMMA WaysStayFew ==
  (CachesOK => \A n : /\ Ways(n) \subseteq {"png", "raw"} /\ IsFiniteSet(Ways(n))
                      /\ Cardinality(Ways(n)) \in Nat)'
BY WaysAreFew, PTL

(* A call that is counted keeps the accounts.                              *)
LEMMA AccountsStay ==
  ASSUME AccountsOK, UsageOK, NEW n, file' = file, finished' = Add(finished, n),
         \/ missing' = Add(missing, n) /\ UNCHANGED usage
         \/ /\ n \in RecordNames(file) /\ UNCHANGED missing
            /\ DOMAIN usage' = DOMAIN usage /\ usage'[n].hits = usage[n].hits + 1
            /\ \A m \in RecordNames(file) \ {n} : usage'[m] = usage[m]
  PROVE  AccountsOK'
<1>1. \A m : At(missing, m) \in Nat /\ Hits(m) \in Nat
  BY DEF AccountsOK, UsageOK, At, Hits
<1>2. \A m : At(finished, m) = At(missing, m) + Hits(m)
  BY <1>1 DEF AccountsOK, At, Hits
<1>3. \A m : m # n => /\ At(finished', m) = At(finished, m)
                      /\ At(missing', m) = At(missing, m) /\ Hits(m)' = Hits(m)
  <2> SUFFICES ASSUME NEW m, m # n
               PROVE  /\ At(finished', m) = At(finished, m)
                      /\ At(missing', m) = At(missing, m) /\ Hits(m)' = Hits(m)
    OBVIOUS
  <2>1. At(finished', m) = At(finished, m)
    <3>1. At(Add(finished, n), m) = At(finished, m)
      BY AddElsewhere
    <3> QED
      BY <3>1
  <2>2. At(missing', m) = At(missing, m)
    <3>1. At(Add(missing, n), m) = At(missing, m)
      BY AddElsewhere
    <3> QED
      BY <3>1
  <2>3. Hits(m)' = Hits(m)
    BY DEF Hits
  <2> QED
    BY <2>1, <2>2, <2>3
<1>4. At(finished', n) = At(finished, n) + 1
  BY AddFacts
<1>5. At(missing', n) + Hits(n)' = At(missing, n) + Hits(n) + 1
  <2>1. CASE missing' = Add(missing, n) /\ UNCHANGED usage
    <3>1. At(missing', n) = At(missing, n) + 1 /\ Hits(n)' = Hits(n)
      BY <2>1, AddFacts DEF Hits
    <3> QED
      BY <3>1, <1>1
  <2>2. CASE n \in RecordNames(file) /\ UNCHANGED missing /\ usage'[n].hits = usage[n].hits + 1
    <3>1. At(missing', n) = At(missing, n) /\ Hits(n)' = Hits(n) + 1
      BY <2>2 DEF Hits
    <3> QED
      BY <3>1, <1>1
  <2> QED
    BY <2>1, <2>2
<1>6. \A m \in DOMAIN missing' : missing'[m] \in Nat
  <2>1. CASE missing' = Add(missing, n)
    <3>1. \A m \in DOMAIN missing \ {n} : missing'[m] = missing[m]
      BY <2>1, AddFacts
    <3>2. missing'[n] = At(missing, n) + 1 /\ DOMAIN missing' = DOMAIN missing \cup {n}
      BY <2>1, AddFacts
    <3> QED
      BY <3>1, <3>2, <1>1 DEF AccountsOK
  <2>2. CASE UNCHANGED missing
    BY <2>2 DEF AccountsOK
  <2> QED
    BY <2>1, <2>2
<1>7. \A m : At(finished', m) = At(missing', m) + Hits(m)'
  BY <1>1, <1>2, <1>3, <1>4, <1>5
<1> QED
  BY <1>6, <1>7 DEF AccountsOK

(* What each way to end or to begin a call does to the store.              *)
LEMMA ReaderMoves ==
  ASSUME ReadersOK, NEW t \in Readers, NEW c, file' = file,
         call' = [call EXCEPT ![t] = c],
         c.place \in {"out", "decoding", "done", "thrown"},
         c.place = "decoding" => c.op \in {"png", "raw"} /\ c.name \in RecordNames(file),
         c.place = "done" /\ c.op = "png" => (c.got # Nothing <=> DecodesRaw(file, c.name)),
         c.place \in {"decoding", "done"} => file.opens,
         c.place = "thrown" => ~file.opens
  PROVE  ReadersOK' /\ call'[t] = c /\ \A u \in Readers \ {t} : call'[u] = call[u]
<1>1. DOMAIN call' = Readers /\ call'[t] = c /\ \A u \in Readers \ {t} : call'[u] = call[u]
  BY DEF ReadersOK
<1>2. Reader(t)'
  BY <1>1 DEF Reader
<1>3. ASSUME NEW u \in Readers \ {t} PROVE Reader(u)'
  BY <1>1 DEF Reader, ReadersOK
<1> QED
  BY <1>1, <1>2, <1>3 DEF ReadersOK

(* What is no record of the container does not decode.                     *)
LEMMA UnreadRecordDoesNotDecode ==
  ASSUME NEW n, n \notin RecordNames(file)
  PROVE  ~DecodesRaw(file, n)
BY DEF RecordNames, DecodesRaw, RecordNamed, TheOne, NoRecord

(* One more hit of a record: from a cache, or composed.                    *)
LEMMA HitKeepsUsage ==
  ASSUME UsageOK, NEW n \in RecordNames(file), NEW what \in {"cached", "composed"}, CountHit(n, what),
         file' = file, CachesOK, CachesOK', \A m : Ways(m) \subseteq Ways(m)'
  PROVE  /\ UsageOK' /\ DOMAIN usage' = DOMAIN usage /\ usage'[n].hits = usage[n].hits + 1
         /\ UNCHANGED missing /\ \A m \in RecordNames(file) \ {n} : usage'[m] = usage[m]
<1>1. usage' = [usage EXCEPT ![n] = [hits |-> usage[n].hits + 1, loads |-> usage[n].loads + 0,
                   cached |-> usage[n].cached + IF what = "cached" THEN 1 ELSE 0]]
  BY DEF CountHit
<1>2. /\ usage[n].hits \in Nat /\ usage[n].loads \in Nat /\ usage[n].cached \in Nat
      /\ usage[n].loads + usage[n].cached <= usage[n].hits
  BY DEF UsageOK
<1>3. /\ usage' \in [RecordNames(file) -> [hits : Nat, loads : Nat, cached : Nat]]
      /\ usage'[n].hits = usage[n].hits + 1 /\ usage'[n].loads = usage[n].loads
      /\ usage'[n].cached \in {usage[n].cached, usage[n].cached + 1}
      /\ \A m \in RecordNames(file) \ {n} : usage'[m] = usage[m]
  BY <1>1, <1>2 DEF UsageOK
<1>4. ASSUME NEW m \in RecordNames(file)
      PROVE  usage'[m].loads + usage'[m].cached <= usage'[m].hits /\ usage'[m].loads = usage[m].loads
  BY <1>2, <1>3 DEF UsageOK
<1>5. ASSUME NEW m \in RecordNames(file) PROVE usage[m].loads <= Cardinality(Ways(m)')
  <2>1. IsFiniteSet(Ways(m)') /\ Cardinality(Ways(m)') \in Nat
    BY WaysStayFew
  <2>2. Cardinality(Ways(m)) <= Cardinality(Ways(m)')
    BY <2>1, FS_Subset
  <2> QED
    BY <2>1, <2>2, WaysAreFew DEF UsageOK
<1> QED
  BY <1>3, <1>4, <1>5 DEF UsageOK, CountHit

(* A record is read for the first time in this way.                        *)
LEMMA LoadKeepsUsage ==
  ASSUME UsageOK, NEW n \in RecordNames(file), NEW op \in {"png", "raw"}, NEW object, CountHit(n, "load"),
         file' = file, given' = given \cup {<<op, n, object>>}, CachesOK, CachesOK', op \notin Ways(n)
  PROVE  /\ UsageOK' /\ DOMAIN usage' = DOMAIN usage /\ usage'[n].hits = usage[n].hits + 1
         /\ UNCHANGED missing /\ \A m \in RecordNames(file) \ {n} : usage'[m] = usage[m]
<1>1. usage' = [usage EXCEPT ![n] = [hits |-> usage[n].hits + 1, loads |-> usage[n].loads + 1,
                                     cached |-> usage[n].cached + 0]]
  BY DEF CountHit
<1>2. /\ usage[n].hits \in Nat /\ usage[n].loads \in Nat /\ usage[n].cached \in Nat
      /\ usage[n].loads + usage[n].cached <= usage[n].hits
  BY DEF UsageOK
<1>3. /\ usage' \in [RecordNames(file) -> [hits : Nat, loads : Nat, cached : Nat]]
      /\ usage'[n].hits = usage[n].hits + 1 /\ usage'[n].loads = usage[n].loads + 1
      /\ usage'[n].cached = usage[n].cached
      /\ \A m \in RecordNames(file) \ {n} : usage'[m] = usage[m]
  BY <1>1, <1>2 DEF UsageOK
<1>4. ASSUME NEW m \in RecordNames(file) PROVE usage'[m].loads + usage'[m].cached <= usage'[m].hits
  BY <1>2, <1>3 DEF UsageOK
<1>5. ASSUME NEW m \in RecordNames(file) \ {n} PROVE Ways(m)' = Ways(m)
  BY <1>5 DEF Ways
<1>6. Ways(n)' = Ways(n) \cup {op}
  <2> DEFINE g == <<op, n, object>>
  <2>1. g[1] = op /\ g[2] = n
    OBVIOUS
  <2> HIDE DEF g
  <2>2. {h \in given' : h[2] = n} = {h \in given : h[2] = n} \cup {g}
    BY <2>1 DEF g
  <2>3. Ways(n)' = {h[1] : h \in {h \in given' : h[2] = n}}
    BY DEF Ways
  <2> QED
    BY <2>1, <2>2, <2>3 DEF Ways
<1>7. Cardinality(Ways(n)') = Cardinality(Ways(n)) + 1 /\ Cardinality(Ways(n)) \in Nat
  BY <1>6, WaysAreFew, FS_AddElement
<1>8. ASSUME NEW m \in RecordNames(file) PROVE usage'[m].loads <= Cardinality(Ways(m)')
  <2>1. CASE m = n
    BY <2>1, <1>2, <1>3, <1>7 DEF UsageOK
  <2>2. CASE m # n
    BY <2>2, <1>3, <1>5 DEF UsageOK
  <2> QED
    BY <2>1, <2>2
<1> QED
  BY <1>3, <1>4, <1>8 DEF UsageOK, CountHit

(* The first section of a call.                                            *)
LEMMA LookUpKeepsStore ==
  ASSUME StoreInv, NEW t \in Readers, NEW op \in {"png", "raw"}, NEW n, LookUp(t, op, n)
  PROVE  /\ StoreInv' /\ file' = file /\ call'[t].op = op /\ call'[t].name = n
         /\ call'[t].place # "out" /\ \A u \in Readers \ {t} : call'[u] = call[u]
<1> DEFINE became(place, object) == [op |-> op, name |-> n, place |-> place, got |-> object]
<1>1. UNCHANGED <<file, pngs, bytes, made>>
  BY DEF LookUp
<1>2. CASE ~file.opens
  <2>1. call' = [call EXCEPT ![t] = became("thrown", Nothing)] /\ UNCHANGED <<usage, missing, finished, given>>
    BY <1>2 DEF LookUp, Throw
  <2>2. ReadersOK' /\ call'[t] = became("thrown", Nothing) /\ \A u \in Readers \ {t} : call'[u] = call[u]
    BY <2>1, <1>1, <1>2, ReaderMoves DEF StoreInv
  <2> QED
    BY <1>1, <2>1, <2>2 DEF StoreInv, CachesOK, AccountsOK, UsageOK, At, Hits, Ways
<1>3. CASE file.opens /\ n \notin RecordNames(file)
  <2>1. /\ call' = [call EXCEPT ![t] = became("done", Nothing)]
        /\ missing' = Add(missing, n) /\ finished' = Add(finished, n) /\ UNCHANGED <<usage, given>>
    BY <1>3 DEF LookUp, CountMissing, Return
  <2>2. ReadersOK' /\ call'[t] = became("done", Nothing) /\ \A u \in Readers \ {t} : call'[u] = call[u]
    BY <2>1, <1>1, <1>3, ReaderMoves, UnreadRecordDoesNotDecode DEF StoreInv
  <2>3. AccountsOK'
    BY <2>1, <1>1, AccountsStay DEF StoreInv
  <2> QED
    BY <1>1, <2>1, <2>2, <2>3 DEF StoreInv, CachesOK, UsageOK, Ways
<1>4. CASE file.opens /\ n \in RecordNames(file) /\ n \in DOMAIN Cache(op)
  <2> DEFINE object == Cache(op)[n]
  <2>1. /\ call' = [call EXCEPT ![t] = became("done", object)] /\ CountHit(n, "cached")
        /\ finished' = Add(finished, n)
        /\ given' = IF object = Nothing THEN given ELSE given \cup {<<op, n, object>>}
    BY <1>4 DEF LookUp, FromCache, Return
  <2>2. op = "png" => object # Nothing /\ DecodesRaw(file, n)
    BY <1>4 DEF Cache, StoreInv, CachesOK
  <2>3. ReadersOK' /\ call'[t] = became("done", object) /\ \A u \in Readers \ {t} : call'[u] = call[u]
    <3> HIDE DEF object
    <3> QED
      BY <2>1, <2>2, <1>1, <1>4, ReaderMoves DEF StoreInv
  <2>4. CachesOK' /\ \A m : Ways(m) \subseteq Ways(m)'
    <3>1. \A g \in given' : g \in given \/ g = <<op, n, object>>
      BY <2>1
    <3>2. CachesOK'
      BY <3>1, <1>1, <1>4, <2>2 DEF StoreInv, CachesOK, Cache
    <3>3. given \subseteq given'
      BY <2>1
    <3> QED
      BY <3>2, <3>3 DEF Ways
  <2>5. UsageOK' /\ AccountsOK'
    BY <1>1, <1>4, <2>1, <2>4, HitKeepsUsage, AccountsStay DEF StoreInv
  <2> QED
    BY <1>1, <2>3, <2>4, <2>5 DEF StoreInv
<1>5. CASE file.opens /\ n \in RecordNames(file) /\ n \notin DOMAIN Cache(op)
  <2>1. call' = [call EXCEPT ![t] = became("decoding", Nothing)] /\ UNCHANGED <<usage, missing, finished, given>>
    BY <1>5 DEF LookUp
  <2>2. ReadersOK' /\ call'[t] = became("decoding", Nothing) /\ \A u \in Readers \ {t} : call'[u] = call[u]
    BY <2>1, <1>1, <1>5, ReaderMoves DEF StoreInv
  <2> QED
    BY <1>1, <2>1, <2>2 DEF StoreInv, CachesOK, AccountsOK, UsageOK, At, Hits, Ways
<1> QED
  BY <1>2, <1>3, <1>4, <1>5

(* A sprite that is composed.                                              *)
LEMMA DecodeSpriteKeepsStore ==
  ASSUME StoreInv, NEW t \in Readers, NEW n, DecodeSprite(t, n)
  PROVE  /\ StoreInv' /\ file' = file
         /\ call'[t].place # "out" /\ \A u \in Readers \ {t} : call'[u] = call[u]
<1>1. CASE ~file.opens \/ SpriteEntries(file, n) = {}
  BY <1>1, LookUpKeepsStore DEF DecodeSprite
<1>2. CASE file.opens /\ SpriteEntries(file, n) # {}
  <2> DEFINE c == [op |-> "sprite", name |-> n, place |-> "done", got |-> Nothing]
  <2>1. /\ UNCHANGED <<file, pngs, bytes, made, given>>
        /\ call' = [call EXCEPT ![t] = c] /\ finished' = Add(finished, n)
        /\ IF n \in RecordNames(file) THEN CountHit(n, "composed") ELSE CountMissing(n)
    BY <1>2 DEF DecodeSprite, Return
  <2>2. ReadersOK' /\ call'[t] = c /\ \A u \in Readers \ {t} : call'[u] = call[u]
    BY <2>1, <1>2, ReaderMoves DEF StoreInv
  <2>3. CachesOK' /\ \A m : Ways(m)' = Ways(m)
    BY <2>1 DEF StoreInv, CachesOK, Ways
  <2>4. CASE n \in RecordNames(file)
    <3>1. UsageOK' /\ AccountsOK'
      BY <2>1, <2>3, <2>4, HitKeepsUsage, AccountsStay DEF StoreInv
    <3> QED
      BY <2>1, <2>2, <2>3, <3>1 DEF StoreInv
  <2>5. CASE n \notin RecordNames(file)
    <3>1. missing' = Add(missing, n) /\ UNCHANGED usage
      BY <2>1, <2>5 DEF CountMissing
    <3>2. AccountsOK'
      BY <2>1, <3>1, AccountsStay DEF StoreInv
    <3>3. UsageOK'
      BY <2>1, <2>3, <3>1 DEF StoreInv, UsageOK
    <3> QED
      BY <2>1, <2>2, <2>3, <3>2, <3>3 DEF StoreInv
  <2> QED
    BY <2>4, <2>5
<1> QED
  BY <1>1, <1>2

(* The second section of a call.                                           *)
LEMMA KeepKeepsStore ==
  ASSUME StoreInv, NEW t \in Readers, Keep(t)
  PROVE  /\ StoreInv' /\ file' = file /\ call'[t].op = call[t].op /\ call'[t].name = call[t].name
         /\ call'[t].place = "done" /\ \A u \in Readers \ {t} : call'[u] = call[u]
<1> DEFINE op == call[t].op
           n == call[t].name
           became(object) == [op |-> op, name |-> n, place |-> "done", got |-> object]
<1>1. /\ UNCHANGED file /\ op \in {"png", "raw"} /\ n \in RecordNames(file) /\ file.opens
  BY DEF Keep, StoreInv, ReadersOK, Reader
<1>2. CASE op = "png" /\ ~DecodesRaw(file, n)
  <2>1. /\ UNCHANGED <<pngs, bytes, made, usage, given>> /\ missing' = Add(missing, n)
        /\ finished' = Add(finished, n) /\ call' = [call EXCEPT ![t] = became(Nothing)]
    BY <1>2 DEF Keep, CountMissing, Return
  <2>2. ReadersOK' /\ call'[t] = became(Nothing) /\ \A u \in Readers \ {t} : call'[u] = call[u]
    BY <2>1, <1>1, <1>2, ReaderMoves DEF StoreInv
  <2>3. AccountsOK'
    BY <2>1, <1>1, AccountsStay DEF StoreInv
  <2> QED
    BY <1>1, <2>1, <2>2, <2>3 DEF StoreInv, CachesOK, UsageOK, Ways
<1>3. CASE ~(op = "png" /\ ~DecodesRaw(file, n)) /\ n \in DOMAIN Cache(op)
  <2> DEFINE object == Cache(op)[n]
  <2>1. /\ call' = [call EXCEPT ![t] = became(object)] /\ CountHit(n, "cached")
        /\ finished' = Add(finished, n) /\ UNCHANGED <<pngs, bytes, made>>
        /\ given' = IF object = Nothing THEN given ELSE given \cup {<<op, n, object>>}
    BY <1>3 DEF Keep, FromCache, Return, Beaten
  <2>2. op = "png" => object # Nothing /\ DecodesRaw(file, n)
    BY <1>3 DEF Cache, StoreInv, CachesOK
  <2>3. ReadersOK' /\ call'[t] = became(object) /\ \A u \in Readers \ {t} : call'[u] = call[u]
    <3> HIDE DEF object
    <3> QED
      BY <2>1, <2>2, <1>1, ReaderMoves DEF StoreInv
  <2>4. CachesOK' /\ \A m : Ways(m) \subseteq Ways(m)'
    <3>1. \A g \in given' : g \in given \/ g = <<op, n, object>>
      BY <2>1
    <3>2. CachesOK'
      BY <3>1, <1>1, <2>1, <1>3, <2>2 DEF StoreInv, CachesOK, Cache
    <3>3. given \subseteq given'
      BY <2>1
    <3> QED
      BY <3>2, <3>3 DEF Ways
  <2>5. UsageOK' /\ AccountsOK'
    BY <1>1, <2>1, <2>4, HitKeepsUsage, AccountsStay DEF StoreInv
  <2> QED
    BY <1>1, <2>3, <2>4, <2>5 DEF StoreInv
<1>4. CASE ~(op = "png" /\ ~DecodesRaw(file, n)) /\ n \notin DOMAIN Cache(op)
  <2> DEFINE new == made + 1
  <2>1. new \in Nat /\ new # Nothing
    BY DEF StoreInv, CachesOK, Nothing
  <2>2. /\ call' = [call EXCEPT ![t] = became(new)] /\ CountHit(n, "load")
        /\ finished' = Add(finished, n) /\ made' = new
        /\ pngs' = IF op = "png" THEN Put(pngs, n, new) ELSE pngs
        /\ bytes' = Put(bytes, n, new)
        /\ given' = given \cup {<<op, n, new>>}
    BY <1>4, <2>1 DEF Keep, Return, Beaten
  <2> HIDE DEF new
  <2>3. ReadersOK' /\ call'[t] = became(new) /\ \A u \in Readers \ {t} : call'[u] = call[u]
    BY <2>1, <2>2, <1>1, <1>4, ReaderMoves DEF StoreInv
  <2>4. op \notin Ways(n)
    BY <1>1, <1>4 DEF StoreInv, CachesOK, Ways, Cache
  <2>5. CachesOK'
    <3>1. DOMAIN bytes' = DOMAIN bytes \cup {n}
      BY <2>2 DEF Put
    <3>2. CASE op = "png"
      <4>1. /\ DOMAIN pngs' = DOMAIN pngs \cup {n} /\ pngs'[n] = new /\ n \notin DOMAIN pngs
            /\ \A m \in DOMAIN pngs \ {n} : pngs'[m] = pngs[m]
        BY <2>2, <3>2, <1>4 DEF Cache, Put
      <4> QED
        BY <1>1, <1>4, <2>1, <2>2, <3>1, <3>2, <4>1 DEF StoreInv, CachesOK
    <3>3. CASE op = "raw"
      BY <1>1, <2>1, <2>2, <3>1, <3>3 DEF StoreInv, CachesOK
    <3> QED
      BY <1>1, <3>2, <3>3
  <2>6. UsageOK' /\ AccountsOK'
    BY <1>1, <2>2, <2>4, <2>5, LoadKeepsUsage, AccountsStay DEF StoreInv
  <2> QED
    BY <1>1, <2>3, <2>5, <2>6 DEF StoreInv
<1> QED
  BY <1>2, <1>3, <1>4

(* What happens elsewhere, and a call whose answer has been taken.         *)
LEMMA StoreRestsWell ==
  ASSUME StoreInv, StoreRests, NEW t \in Readers, Forget(t)
  PROVE  /\ StoreInv' /\ file' = file /\ call'[t].place = "out"
         /\ \A u \in Readers \ {t} : call'[u] = call[u]
<1>1. ReadersOK' /\ call'[t] = NoCall /\ \A u \in Readers \ {t} : call'[u] = call[u]
  BY ReaderMoves DEF StoreInv, StoreRests, Forget, NoCall
<1> QED
  BY <1>1 DEF StoreInv, StoreRests, CachesOK, AccountsOK, UsageOK, At, Hits, Ways, NoCall

(* A step that leaves the store alone keeps its invariant.                 *)
LEMMA StoreStays == ASSUME StoreInv, UNCHANGED storeVars PROVE StoreInv'
BY DEF storeVars, StoreInv, ReadersOK, Reader, CachesOK, AccountsOK, UsageOK, At, Hits, Ways

(* One object per record, and an access report that is true.               *)
LEMMA StoreInvIsSound == StoreInv => StoreIsCoherent
<1> SUFFICES ASSUME StoreInv PROVE StoreIsCoherent
  OBVIOUS
<1>1. OnePngPerRecord
  BY DEF OnePngPerRecord, StoreInv, CachesOK
<1>2. ReportIsTrue
  BY DEF ReportIsTrue, StoreInv, AccountsOK, UsageOK, At, Hits, Ways
<1> QED
  BY <1>1, <1>2 DEF StoreIsCoherent
-----------------------------------------------------------------------------
(***************************************************************************)
(* The preloader.                                                          *)
(***************************************************************************)
PhysicalNames == {physicals[j] : j \in 1 .. Len(physicals)}
DecodesDone == \A j \in 1 .. Len(physicals) : runs[j] = 1
AllDone == \A j \in 1 .. issued : runs[j] = 1
Begun == stage \in {"decode", "compose", "upload", "rollback", "recover"} \/ issued > 0

(* The lists are made once, from the plan, and hold each thing once.       *)
ListsOK ==
  /\ plan \in Plans /\ file = plan.file
  /\ keys \in Seq(Request \cap DOMAIN plan.entries)
  /\ \A i, j \in DOMAIN keys : keys[i] = keys[j] => i = j
  /\ physicals \in Seq(PhysicalNames) /\ NoName \notin PhysicalNames
  /\ Begun =>
       /\ DOMAIN results = DOMAIN keys
       /\ \A i \in DOMAIN keys :
            /\ deps[i] = IF keys[i].kind = "sprite" THEN Resolve(file, keys[i].name) ELSE Unresolved
            /\ deps[i].record \in PhysicalNames \cup {NoName}
            /\ file.opens \/ keys[i].kind = "raw"
       /\ file.opens \/ physicals = << >>

(* Which jobs there are in each stage and which of them have been run:     *)
(* Main composes when all decoding jobs are done, uploads or rolls back    *)
(* when all jobs are done, and after that no composing job is left.        *)
JobsOK ==
  /\ stage \in {"resolve", "decode", "compose", "upload", "rollback", "recover", "cleanup", "end"}
  /\ next \in Nat \ {0} /\ issued <= Len(physicals) + Len(keys)
  /\ stage = "resolve" => issued = 0 /\ physicals = << >>
  /\ stage = "decode" => issued = next - 1 /\ next <= Len(physicals) + 1
  /\ stage = "compose" => issued = Len(physicals) + next - 1 /\ next <= Len(keys) + 1
  /\ stage \in {"upload", "recover"} => issued = Len(physicals) + Len(keys) /\ next <= Len(keys) + 1
  /\ issued > Len(physicals) => DecodesDone
  /\ stage = "compose" /\ pc[Main] \in {"out", "notify"} => DecodesDone
  /\ stage \in {"upload", "rollback", "recover"} /\ pc[Main] = "out" => AllDone
  /\ stage \in {"cleanup", "end"} => \A j \in 1 .. issued : j <= Len(physicals) \/ runs[j] = 1
  /\ stage \in {"resolve", "recover", "cleanup", "end"} => pc[Main] = "out"
  /\ stage = "decode" => pc[Main] \in {"out", "notify"}
  /\ stage \in {"upload", "rollback"} => pc[Main] # "notify"
  /\ stage = "upload" /\ pc[Main] # "out" => next = 1

(* A worker in a call of the store is in its job, and reads what the job   *)
(* is for.                                                                 *)
CallsOK ==
  /\ \A w \in Workers : call[w].place # "out" =>
       /\ pc[w] = "run" /\ NeedsRead(running[w])
       /\ call[w].op = "png" /\ call[w].name = Reads(running[w])
  /\ call[Other].place # "out" => pending # << >>

(* The image the i-th key calls for, and whether its job has made it.      *)
HasRun(i) == Len(physicals) + i <= issued /\ runs[Len(physicals) + i] = 1
Source(i) == IF keys[i].kind = "raw" THEN keys[i].name ELSE deps[i].record
Product(i) == Bulk(keys[i], deps[i], IF DecodesRaw(file, Source(i)) THEN 1 ELSE Nothing)

(* What the jobs have made: the records in phys, the results, and the      *)
(* images published.                                                       *)
ProductsOK ==
  /\ DOMAIN phys \subseteq PhysicalNames
  /\ \A n \in DOMAIN phys : phys[n] # Nothing <=> DecodesRaw(file, n)
  /\ \A j \in 1 .. Len(physicals) : j <= issued /\ runs[j] = 1 => physicals[j] \in DOMAIN phys
  /\ Begun => \A i \in DOMAIN keys :
       results[i] = IF HasRun(i) /\ file.opens THEN [key |-> keys[i], pixels |-> Product(i)]
                    ELSE NoResult
  /\ published = {i \in DOMAIN keys : HasRun(i) /\ file.opens /\ Product(i) # NoPixels}

(* What the other worker still has to deliver is awaited, once.            *)
AwaitedOK ==
  /\ pending \in Seq([op : {"raw", "png"}, key : Request])
  /\ \A i, j \in DOMAIN pending :
       pending[i].op = "png" =>
         /\ pending[i].key \in DOMAIN entries /\ entries[pending[i].key] = Decoding
         /\ pending[j].op = "png" /\ pending[i].key = pending[j].key => i = j

(* Every image of the preloader in the asset runtime has been published by *)
(* one of its jobs and is still ahead of the upload; at the end there is   *)
(* none.                                                                   *)
EntriesOK ==
  /\ DOMAIN entries = DOMAIN plan.entries
  /\ \A k \in DOMAIN entries : entries[k].by = "bulk" =>
       /\ stage \notin {"cleanup", "end"}
       /\ \E i \in published : /\ keys[i] = k
                               /\ stage \in {"upload", "recover"} => i >= next
                               /\ stage = "recover" => i \notin batch.items
  /\ AwaitedOK

(* The batch holds what has been uploaded.                                 *)
BatchOK ==
  /\ DOMAIN batch = {"items", "state"}
  /\ stage \in {"resolve", "decode", "compose"} => batch.items = {}
  /\ stage = "upload" => batch.items = {i \in DOMAIN keys : i < next /\ Succeeded(i)}
  /\ stage = "end" => batch.state # "open"
  /\ stage # "end" => batch.state = "open"
  /\ stage = "end" /\ batch.state = "sealed" => batch.items = {i \in DOMAIN keys : Succeeded(i)}

PreloadInv == StoreInv /\ ListsOK /\ JobsOK /\ CallsOK /\ ProductsOK /\ EntriesOK /\ BatchOK
-----------------------------------------------------------------------------
(* A sequence without x is a sequence that x is not in.                    *)
LEMMA NobodyIsLeft ==
  ASSUME NEW S, NEW x, NEW r
  PROVE  r \in Seq(S \ {x}) => r \in Seq(S) /\ \A j \in DOMAIN r : r[j] # x
<1> SUFFICES ASSUME r \in Seq(S \ {x}) PROVE r \in Seq(S) /\ \A j \in DOMAIN r : r[j] # x
  OBVIOUS
<1>1. Len(r) \in Nat /\ r \in [1 .. Len(r) -> S \ {x}]
  OBVIOUS
<1>2. r \in [1 .. Len(r) -> S] /\ \A j \in DOMAIN r : r[j] # x
  BY <1>1
<1> QED
  BY <1>1, <1>2

(* The members of a sequence, each once.                                   *)
LEMMA FirstsAreDistinct ==
  ASSUME NEW Members, NEW s, NEW nobody
  PROVE  s \in Seq(Members) =>
           /\ FirstOfEach(s, nobody) \in Seq(Members)
           /\ \A j \in DOMAIN FirstOfEach(s, nobody) : FirstOfEach(s, nobody)[j] # nobody
           /\ \A i, j \in DOMAIN FirstOfEach(s, nobody) :
                FirstOfEach(s, nobody)[i] = FirstOfEach(s, nobody)[j] => i = j
           /\ \A i \in DOMAIN s : s[i] # nobody =>
                \E j \in DOMAIN FirstOfEach(s, nobody) : FirstOfEach(s, nobody)[j] = s[i]
<1>0. HAVE s \in Seq(Members)
<1> DEFINE L == Len(s)
           Passed(n) == s[n] = nobody \/ \E j \in 1 .. n - 1 : s[j] = s[n]
           Step(n, r) == IF Passed(n) THEN r ELSE Append(r, s[n])
           X == Nat \X Seq(Members)
           G == [x \in X |-> <<x[1] + 1, IF x[1] + 1 <= L THEN Step(x[1] + 1, x[2]) ELSE x[2]>>]
           upTo[n \in 0 .. Len(s)] ==
             IF n = 0 THEN << >> ELSE IF Passed(n) THEN upTo[n - 1] ELSE Append(upTo[n - 1], s[n])
           g == upTo
<1>1. L \in Nat /\ DOMAIN s = 1 .. L /\ \A n \in 1 .. L : s[n] \in Members
  BY <1>0
<1>2. \A n \in 1 .. L, r \in Seq(Members) : Step(n, r) \in Seq(Members)
  <2> HIDE DEF Passed
  <2> QED
    BY <1>1
<1>3. G \in [X -> X]
  <2>1. \A x \in X : /\ x[1] + 1 \in Nat
                     /\ (IF x[1] + 1 <= L THEN Step(x[1] + 1, x[2]) ELSE x[2]) \in Seq(Members)
    <3> TAKE x \in X
    <3>1. x[1] \in Nat /\ x[2] \in Seq(Members) /\ x[1] + 1 \in Nat
      OBVIOUS
    <3>2. x[1] + 1 <= L => x[1] + 1 \in 1 .. L
      BY <3>1, <1>1
    <3> HIDE DEF L, Step, X
    <3> QED
      BY <3>1, <3>2, <1>2
  <2> HIDE DEF L, Step
  <2> QED
    BY <2>1
<1> DEFINE x0 == <<0, << >> >>
<1>4. PICK f \in [Nat -> X] : f[0] = x0 /\ \A n \in Nat : f[n + 1] = G[f[n]]
  <2>1. x0 \in X
    <3>1. << >> \in Seq(Members) /\ 0 \in Nat
      OBVIOUS
    <3> QED
      BY <3>1
  <2> HIDE DEF X, G, x0
  <2> QED
    BY <1>3, <2>1, SequenceExists
<1>5. \A n \in Nat : /\ f[n] \in X /\ f[n + 1][1] = f[n][1] + 1
                     /\ f[n][1] + 1 <= L => f[n + 1][2] = Step(f[n][1] + 1, f[n][2])
  <2>1. \A x \in X : G[x] = <<x[1] + 1, IF x[1] + 1 <= L THEN Step(x[1] + 1, x[2]) ELSE x[2]>>
    <3> HIDE DEF X, L, Step
    <3> QED
      OBVIOUS
  <2>2. \A n \in Nat : f[n] \in X /\ f[n + 1] = G[f[n]]
    <3> HIDE DEF X, G, x0
    <3> QED
      BY <1>4
  <2> SUFFICES ASSUME NEW n \in Nat
               PROVE  /\ f[n] \in X /\ f[n + 1][1] = f[n][1] + 1
                      /\ f[n][1] + 1 <= L => f[n + 1][2] = Step(f[n][1] + 1, f[n][2])
    OBVIOUS
  <2> HIDE DEF L, Step, X, G
  <2>3. f[n] \in X /\ f[n + 1] = <<f[n][1] + 1, IF f[n][1] + 1 <= L THEN Step(f[n][1] + 1, f[n][2]) ELSE f[n][2]>>
    BY <2>1, <2>2
  <2> QED
    BY <2>3
<1>6. \A n \in Nat : f[n][1] = n
  <2> DEFINE T == {n \in Nat : f[n][1] = n}
  <2>1. 0 \in T
    BY <1>4
  <2>2. \A n \in T : n + 1 \in T
    <3> TAKE n \in T
    <3>1. n \in Nat /\ n + 1 \in Nat /\ f[n][1] = n
      OBVIOUS
    <3>2. f[n + 1][1] = f[n][1] + 1
      <4> HIDE DEF X, L, Step
      <4> QED
        BY <3>1, <1>5
    <3> QED
      BY <3>1, <3>2
  <2>3. T = Nat
    <3> HIDE DEF T
    <3> QED
      BY <2>1, <2>2, NatSetInduction DEF T
  <2> QED
    BY <2>3
<1> DEFINE h == [n \in 0 .. Len(s) |-> f[n][2]]
<1>7. h = [n \in 0 .. Len(s) |->
             IF n = 0 THEN << >> ELSE IF Passed(n) THEN h[n - 1] ELSE Append(h[n - 1], s[n])]
  <2>1. \A n \in 0 .. Len(s) : n # 0 => h[n] = Step(n, h[n - 1])
    <3> SUFFICES ASSUME NEW n \in 0 .. Len(s), n # 0 PROVE h[n] = Step(n, h[n - 1])
      OBVIOUS
    <3>1. n - 1 \in Nat /\ n - 1 \in 0 .. Len(s) /\ (n - 1) + 1 = n /\ n <= L /\ n \in 0 .. Len(s)
      BY <1>1
    <3>2. h[n] = f[n][2] /\ h[n - 1] = f[n - 1][2]
      BY <3>1
    <3> HIDE DEF h, Step, L, X
    <3>3. f[n - 1][1] = n - 1
      BY <3>1, <1>6
    <3>4. f[(n - 1) + 1][2] = Step((n - 1) + 1, f[n - 1][2])
      BY <3>1, <3>3, <1>5
    <3> QED
      BY <3>1, <3>2, <3>4
  <2>2. h[0] = << >>
    BY <1>1, <1>4
  <2>3. \A n \in 0 .. Len(s) : h[n] = IF n = 0 THEN << >> ELSE Step(n, h[n - 1])
    BY <2>1, <2>2
  <2>4. h = [n \in 0 .. Len(s) |-> h[n]]
    OBVIOUS
  <2>5. h = [n \in 0 .. Len(s) |-> IF n = 0 THEN << >> ELSE Step(n, h[n - 1])]
    <3> HIDE DEF h, Step
    <3> QED
      BY <2>3, <2>4
  <2> HIDE DEF h, Passed
  <2> QED
    BY <2>5
<1>8. upTo = [n \in 0 .. Len(s) |->
                IF n = 0 THEN << >> ELSE IF Passed(n) THEN upTo[n - 1] ELSE Append(upTo[n - 1], s[n])]
  <2> HIDE DEF h
  <2> QED
    BY <1>7, Zenon
<1>9. FirstOfEach(s, nobody) = upTo[Len(s)]
  BY Zenon DEF FirstOfEach
<1> HIDE DEF upTo
<1>10. /\ upTo[0] = << >>
       /\ \A n \in 1 .. L : upTo[n] = Step(n, upTo[n - 1])
  <2>1. \A n \in 0 .. Len(s) : upTo[n] =
          IF n = 0 THEN << >> ELSE IF Passed(n) THEN upTo[n - 1] ELSE Append(upTo[n - 1], s[n])
    <3> HIDE DEF Passed
    <3> QED
      BY <1>8
  <2>2. 0 \in 0 .. Len(s) /\ \A n \in 1 .. L : n \in 0 .. Len(s) /\ n # 0
    BY <1>1
  <2> HIDE DEF Passed
  <2> QED
    BY <2>1, <2>2
<1> DEFINE Good(n) ==
             /\ upTo[n] \in Seq(Members \ {nobody})
             /\ \A j \in DOMAIN upTo[n] : \E i \in 1 .. n : upTo[n][j] = s[i]
             /\ \A i, j \in DOMAIN upTo[n] : upTo[n][i] = upTo[n][j] => i = j
             /\ \A i \in 1 .. n : s[i] = nobody \/ \E j \in DOMAIN upTo[n] : upTo[n][j] = s[i]
<1>11. Good(0)
  BY <1>10
<1>12. ASSUME NEW n \in 1 .. L, Good(n - 1) PROVE Good(n)
  <2> DEFINE r == upTo[n - 1]
  <2>1. /\ n \in Nat /\ upTo[n] = Step(n, r) /\ r \in Seq(Members \ {nobody}) /\ s[n] \in Members
        /\ \A j \in DOMAIN r : \E i \in 1 .. n - 1 : r[j] = s[i]
        /\ \A i, j \in DOMAIN r : r[i] = r[j] => i = j
        /\ \A i \in 1 .. n - 1 : s[i] = nobody \/ \E j \in DOMAIN r : r[j] = s[i]
    <3>1. n \in Nat /\ upTo[n] = Step(n, r) /\ s[n] \in Members
      <4> HIDE DEF Step
      <4> QED
        BY <1>1, <1>10
    <3> QED
      BY <3>1, <1>12, Zenon
  <2> DEFINE q == upTo[n]
  <2> HIDE DEF r, Good
  <2>a. /\ 1 .. n = (1 .. n - 1) \cup {n} /\ n \in 1 .. n
        /\ Len(r) \in Nat /\ DOMAIN r = 1 .. Len(r)
    <3>1. n \in Nat /\ n >= 1
      BY <1>1
    <3>2. 1 .. n = (1 .. n - 1) \cup {n} /\ n \in 1 .. n
      <4>1. n \in 1 .. n
        BY <3>1
      <4>2. \A i \in 1 .. n : i \in 1 .. n - 1 \/ i = n
        BY <3>1
      <4>3. \A i \in 1 .. n - 1 : i \in 1 .. n
        BY <3>1
      <4> QED
        BY <4>1, <4>2, <4>3
    <3>3. Len(r) \in Nat /\ DOMAIN r = 1 .. Len(r)
      <4> DEFINE R == Members \ {nobody}
      <4>1. r \in Seq(R)
        BY <2>1
      <4> HIDE DEF R
      <4> QED
        BY <4>1
    <3> QED
      BY <3>2, <3>3
  <2>b. Passed(n) <=> s[n] = nobody \/ \E j \in 1 .. n - 1 : s[j] = s[n]
    OBVIOUS
  <2>2. CASE Passed(n)
    <3>1. q = r
      BY <2>1, <2>2
    <3> HIDE DEF q
    <3>2. s[n] = nobody \/ \E j \in DOMAIN r : r[j] = s[n]
      <4>1. CASE s[n] = nobody
        BY <4>1
      <4>2. CASE \E j \in 1 .. n - 1 : s[j] = s[n]
        BY <2>1, <4>2, Zenon
      <4> HIDE DEF Passed
      <4> QED
        BY <2>2, <2>b, <4>1, <4>2
    <3> HIDE DEF Passed
    <3>3. \A i \in 1 .. n : s[i] = nobody \/ \E j \in DOMAIN q : q[j] = s[i]
      BY <2>1, <2>a, <3>1, <3>2, Zenon
    <3>4. \A j \in DOMAIN q : \E i \in 1 .. n : q[j] = s[i]
      BY <2>1, <2>a, <3>1, Zenon
    <3> QED
      BY <2>1, <3>1, <3>3, <3>4 DEF Good, q
  <2>3. CASE ~Passed(n)
    <3>1. q = Append(r, s[n])
      BY <2>1, <2>3
    <3> HIDE DEF q, Passed
    <3>2. s[n] # nobody /\ \A j \in DOMAIN r : r[j] # s[n]
      <4>1. s[n] # nobody /\ ~ \E j \in 1 .. n - 1 : s[j] = s[n]
        BY <2>3, <2>b
      <4>2. ASSUME NEW j \in DOMAIN r, r[j] = s[n] PROVE FALSE
        <5>1. PICK i \in 1 .. n - 1 : r[j] = s[i]
          BY <2>1
        <5> QED
          BY <4>1, <4>2, <5>1
      <4> QED
        BY <4>1, <4>2
    <3>s. s[n] \in Members \ {nobody}
      BY <2>1, <3>2
    <3>3. /\ q \in Seq(Members \ {nobody}) /\ Len(r) \in Nat /\ DOMAIN r = 1 .. Len(r) /\ DOMAIN q = 1 .. Len(r) + 1
          /\ q[Len(r) + 1] = s[n] /\ \A i \in 1 .. Len(r) : q[i] = r[i]
      <4> DEFINE R == Members \ {nobody}
      <4>1. r \in Seq(R) /\ s[n] \in R
        BY <2>1, <3>s
      <4> HIDE DEF R
      <4>2. /\ q \in Seq(R) /\ Len(r) \in Nat /\ DOMAIN r = 1 .. Len(r) /\ DOMAIN q = 1 .. Len(r) + 1
            /\ q[Len(r) + 1] = s[n] /\ \A i \in 1 .. Len(r) : q[i] = r[i]
        <5>1. q \in Seq(R) /\ Len(q) = Len(r) + 1 /\ Len(r) \in Nat
          BY <4>1, <3>1
        <5>2. q[Len(r) + 1] = s[n] /\ \A i \in 1 .. Len(r) : q[i] = r[i]
          BY <4>1, <3>1
        <5>3. DOMAIN q = 1 .. Len(r) + 1 /\ DOMAIN r = 1 .. Len(r)
          BY <5>1, <4>1
        <5> QED
          BY <5>1, <5>2, <5>3
      <4> QED
        BY <4>2 DEF R
    <3>4. \A i \in DOMAIN q : i \in DOMAIN r \/ i = Len(r) + 1
      BY <3>3
    <3>5. \A i, j \in DOMAIN q : q[i] = q[j] => i = j
      BY <2>1, <3>2, <3>3, <3>4
    <3>6. \A j \in DOMAIN q : \E i \in 1 .. n : q[j] = s[i]
      <4> TAKE j \in DOMAIN q
      <4>1. CASE j \in DOMAIN r
        <5>1. q[j] = r[j]
          BY <3>3, <4>1
        <5> QED
          BY <2>1, <2>a, <4>1, <5>1, Zenon
      <4>2. CASE j = Len(r) + 1
        BY <2>a, <3>3, <4>2, Zenon
      <4> QED
        BY <3>4, <4>1, <4>2
    <3>7. \A i \in 1 .. n : s[i] = nobody \/ \E j \in DOMAIN q : q[j] = s[i]
      <4>2. ASSUME NEW j \in DOMAIN r PROVE j \in DOMAIN q /\ q[j] = r[j]
        <5>1. j \in 1 .. Len(r) /\ j \in 1 .. Len(r) + 1
          BY <2>a, <4>2
        <5> QED
          BY <3>3, <5>1
      <4>3. Len(r) + 1 \in DOMAIN q
        BY <2>a, <3>3
      <4> TAKE i \in 1 .. n
      <4>4. CASE i \in 1 .. n - 1
        <5>1. s[i] = nobody \/ \E j \in DOMAIN r : r[j] = s[i]
          BY <2>1, <4>4
        <5>2. CASE s[i] = nobody
          BY <5>2
        <5>3. ASSUME NEW j \in DOMAIN r, r[j] = s[i] PROVE j \in DOMAIN q /\ q[j] = s[i]
          BY <4>2, <5>3
        <5> QED
          BY <5>1, <5>2, <5>3
      <4>5. CASE i = n
        BY <3>3, <4>3, <4>5, Zenon
      <4> QED
        BY <2>a, <4>4, <4>5
    <3> QED
      BY <3>3, <3>5, <3>6, <3>7 DEF Good, q
  <2> QED
    BY <2>2, <2>3
<1>13. Good(L)
  <2> DEFINE T == {n \in Nat : n <= L => Good(n)}
  <2> HIDE DEF Good, L, Step
  <2>1. 0 \in T
    BY <1>11
  <2>2. \A n \in T : n + 1 \in T
    <3> TAKE n \in T
    <3>1. CASE n + 1 <= L
      <4>1. n + 1 \in 1 .. L /\ (n + 1) - 1 = n /\ n <= L
        BY <1>1, <3>1
      <4> QED
        BY <4>1, <1>12
    <3> QED
      BY <3>1
  <2>3. T = Nat
    <3> HIDE DEF T
    <3> QED
      BY <2>1, <2>2, NatSetInduction DEF T
  <2>4. L \in T /\ L <= L
    <3> HIDE DEF T
    <3> QED
      BY <1>1, <2>3
  <2> QED
    BY <2>4
<1>14. PICK r : r = upTo[L]
  OBVIOUS
<1>15. r \in Seq(Members \ {nobody})
  BY <1>13, <1>14
<1>16. r \in Seq(Members) /\ \A j \in DOMAIN r : r[j] # nobody
  BY <1>15, NobodyIsLeft
<1>17. /\ \A i, j \in DOMAIN r : r[i] = r[j] => i = j
       /\ \A i \in 1 .. L : s[i] = nobody \/ \E j \in DOMAIN r : r[j] = s[i]
  BY <1>13, <1>14
<1>18. FirstOfEach(s, nobody) = r
  BY <1>9, <1>14
<1> HIDE DEF L, Good
<1> QED
  BY <1>1, <1>16, <1>17, <1>18

(* Who is who among the threads.                                           *)
LEMMA MainIsTheClient ==
  /\ Clients = {Main} /\ Main \in Threads /\ Main \notin Workers /\ Workers \subseteq Threads
  /\ Threads = Workers \cup {Main}
  /\ Readers = Workers \cup {Other} /\ Other \notin Workers
BY ThreadsAssumption, PlansAssumption DEF Threads

MainPlaces == {"wait", "block", "asleep"}

(* A step of the pool finishes no job and takes none out of a hand; Main   *)
(* comes back from wait_idle when all has been done.                       *)
LEMMA PoolMoves ==
  ASSUME PoolInv, NEW t \in Threads, LockStep(t) \/ NotifyOne(t) \/ Block(t) \/ SpuriousWakeup(t)
                                     \/ (t \in Workers /\ Complete(t)) \/ Destroy
  PROVE  /\ UNCHANGED <<issued, runs>> /\ PoolInv'
         /\ \A w \in Workers : pc[w] = "run" => pc'[w] = "run" /\ running'[w] = running[w]
         /\ \/ pc'[Main] = pc[Main]
            \/ pc[Main] = "notify" /\ pc'[Main] = "out"
            \/ pc[Main] = "wait" /\ pc'[Main] = "out" /\ AllDone
            \/ pc[Main] \in MainPlaces /\ pc'[Main] \in MainPlaces
<1>1. Next
  BY MainIsTheClient DEF Next, FreeStep
<1>2. PoolInv'
  BY <1>1, NextInv
<1>3. PoolTypeOK /\ PlacesAgree
  BY DEF PoolInv
<1> USE MainIsTheClient, <1>3
<1>4. CASE NotifyOne(t)
  BY <1>2, <1>4 DEF NotifyOne, Move, Pushed, Retry, Asleep, PoolTypeOK, PlacesAgree, MainPlaces
<1>5. CASE Block(t)
  BY <1>2, <1>5 DEF Block, Move, PoolTypeOK, PlacesAgree, MainPlaces
<1>6. CASE SpuriousWakeup(t)
  BY <1>2, <1>6 DEF SpuriousWakeup, Move, Retry, Asleep, PoolTypeOK, PlacesAgree, MainPlaces
<1>7. CASE t \in Workers /\ Complete(t)
  BY <1>2, <1>7 DEF Complete, Move, PoolTypeOK
<1>8. CASE t \in Workers /\ Fetch(t)
  BY <1>2, <1>8 DEF Fetch, Move, PoolTypeOK
<1>9. CASE t \in Workers /\ Signal(t)
  BY <1>2, <1>9 DEF Signal, WakeAllAnd, Retry, Asleep, PoolTypeOK, MainPlaces
<1>10. CASE t \in Clients /\ CheckIdle(t)
  <2>1. t = Main
    BY <1>10
  <2>2. /\ UNCHANGED <<issued, runs, running>> /\ pc[Main] = "wait" /\ \A w \in Workers : pc'[w] = pc[w]
        /\ pc'[Main] = IF IdleReached THEN "out" ELSE "block"
    BY <1>10, <2>1 DEF CheckIdle, Move, PoolTypeOK
  <2>3. IdleReached => AllDone
    <3>1. HAVE IdleReached
    <3>2. outstanding = 0 /\ Len(queue) \in Nat /\ outstanding = Len(queue) + Cardinality(Executing)
      BY <3>1 DEF IdleReached, PoolInv, PoolTypeOK, OutstandingIsQueuedPlusExecuting
    <3>3. Len(queue) = 0 /\ Cardinality(Executing) = 0
      BY <3>2, ExecutingIsFinite
    <3>4. Executing = {}
      BY <3>3, ExecutingIsFinite, FS_EmptySet
    <3>5. queue = << >> /\ \A w \in Workers : ~Held(w)
      BY <3>3, <3>4 DEF Executing, Held, PoolTypeOK
    <3> QED
      BY <3>5, IdleIsDone DEF AllDone
  <2> QED
    BY <1>2, <2>2, <2>3 DEF MainPlaces
<1>11. CASE Destroy
  BY <1>2, <1>11 DEF Destroy, StopNotifyAll, Join, Retry, Asleep, PoolTypeOK, MainPlaces
<1> QED
  BY <1>4, <1>5, <1>6, <1>7, <1>8, <1>9, <1>10, <1>11 DEF LockStep

(* A job in the hands of a worker has not been run; nor has one that is    *)
(* not yet enqueued.                                                       *)
LEMMA InHand ==
  ASSUME PoolInv, NEW w \in Workers, pc[w] = "run"
  PROVE  running[w] \in 1 .. issued /\ runs[running[w]] = 0
<1>1. running[w] \in 1 .. Fetched /\ Fetched \in Nat /\ Fetched <= issued /\ issued \in 0 .. MaxJobs /\ MaxJobs \in Nat
  BY MaxJobsAssumption DEF PoolInv, HandsAreDistinct, Held, Fetched, QueueIsTheRest, PoolTypeOK
<1>2. running[w] \in Jobs
  BY <1>1 DEF Jobs
<1> QED
  BY <1>1, <1>2 DEF PoolInv, RunOnce, Held

(* The next job to be enqueued has not been run.                           *)
LEMMA NotYetRun ==
  ASSUME PoolInv, issued < MaxJobs
  PROVE  runs[issued + 1] = 0
<1>1. Fetched \in Nat /\ Fetched <= issued /\ issued \in 0 .. MaxJobs /\ MaxJobs \in Nat
  BY MaxJobsAssumption DEF PoolInv, Fetched, QueueIsTheRest, PoolTypeOK
<1>2. issued + 1 \in Jobs /\ ~(issued + 1 <= Fetched)
  BY <1>1 DEF Jobs
<1> QED
  BY <1>2 DEF PoolInv, RunOnce

(* A worker that ends its job has run it; nothing else is changed.         *)
LEMMA JobEnds ==
  ASSUME PoolInv, NEW w \in Workers, FinishJob(w)
  PROVE  LET j == running[w]
         IN  /\ PoolInv' /\ issued' = issued /\ pc'[Main] = pc[Main]
             /\ j \in 1 .. issued /\ runs[j] = 0 /\ runs'[j] = 1
             /\ \A i \in 1 .. issued : i # j => runs'[i] = runs[i]
             /\ pc[w] = "run" /\ pc'[w] = "sub"
             /\ \A v \in Workers \ {w} : pc'[v] = pc[v] /\ running'[v] = running[v]
<1>1. PoolInv'
  BY MainIsTheClient, NextInv DEF Next, FreeStep
<1>2. pc[w] = "run" /\ running[w] \in 1 .. issued /\ runs[running[w]] = 0
  BY InHand DEF FinishJob
<1>3. 1 .. issued \subseteq Jobs /\ DOMAIN runs = Jobs
  BY MaxJobsAssumption DEF PoolInv, PoolTypeOK, Jobs
<1> QED
  BY <1>1, <1>2, <1>3, MainIsTheClient DEF FinishJob, Move, PoolInv, PoolTypeOK
-----------------------------------------------------------------------------
(* The invariant: of the pool, and of the preloader that uses it.          *)
Inv == PoolInv /\ PreloadInv

(* A step of the pool alone keeps the invariant.                           *)
LEMMA PoolStepKeepsInv ==
  ASSUME Inv, NEW t \in Threads, PoolStep(t) \/ PoolWakeup(t) \/ PoolDestroy
  PROVE  Inv'
<1>1. /\ UNCHANGED <<storeVars, ownVars>>
      /\ LockStep(t) \/ NotifyOne(t) \/ Block(t) \/ SpuriousWakeup(t) \/ (t \in Workers /\ Complete(t)) \/ Destroy
  BY DEF PoolStep, PoolWakeup, PoolDestroy
<1>2. /\ UNCHANGED <<issued, runs>> /\ PoolInv'
      /\ \A w \in Workers : pc[w] = "run" => pc'[w] = "run" /\ running'[w] = running[w]
      /\ \/ pc'[Main] = pc[Main]
         \/ pc[Main] = "notify" /\ pc'[Main] = "out"
         \/ pc[Main] = "wait" /\ pc'[Main] = "out" /\ AllDone
         \/ pc[Main] \in MainPlaces /\ pc'[Main] \in MainPlaces
  BY <1>1, PoolMoves DEF Inv
<1>3. UNCHANGED <<plan, file, keys, deps, physicals, stage, next, phys, results, published, entries, batch,
                  pending, call>>
  BY <1>1 DEF ownVars, storeVars
<1>4. StoreInv'
  BY <1>1, StoreStays DEF Inv, PreloadInv
<1>5. ListsOK'
  BY <1>2, <1>3 DEF Inv, PreloadInv, ListsOK, Begun, PhysicalNames
<1>6. JobsOK'
  <2>1. JobsOK
    BY DEF Inv, PreloadInv
  <2>2. (DecodesDone' <=> DecodesDone) /\ (AllDone' <=> AllDone)
    BY <1>2, <1>3 DEF DecodesDone, AllDone
  <2>3. AllDone /\ Len(physicals) <= issued => DecodesDone
    <3>1. Len(physicals) \in Nat /\ issued \in Nat
      BY MaxJobsAssumption DEF Inv, PreloadInv, ListsOK, PoolInv, PoolTypeOK
    <3> QED
      BY <3>1 DEF AllDone, DecodesDone
  <2>4. stage = "compose" => Len(physicals) <= issued
    <3>1. Len(physicals) \in Nat /\ issued \in Nat /\ next \in Nat \ {0}
      BY MaxJobsAssumption DEF Inv, PreloadInv, ListsOK, PoolInv, PoolTypeOK, JobsOK
    <3> QED
      BY <2>1, <3>1 DEF JobsOK
  <2>5. stage = "compose" /\ pc'[Main] \in {"out", "notify"} => DecodesDone
    BY <1>2, <2>1, <2>3, <2>4 DEF JobsOK, MainPlaces
  <2>6. stage \in {"upload", "rollback", "recover"} /\ pc'[Main] = "out" => AllDone
    BY <1>2, <2>1 DEF JobsOK, MainPlaces
  <2>7. /\ stage \in {"resolve", "recover", "cleanup", "end"} => pc'[Main] = "out"
        /\ stage = "decode" => pc'[Main] \in {"out", "notify"}
        /\ stage \in {"upload", "rollback"} => pc'[Main] # "notify"
        /\ stage = "upload" /\ pc'[Main] # "out" => next = 1
    BY <1>2, <2>1 DEF JobsOK, MainPlaces
  <2> QED
    BY <1>2, <1>3, <2>1, <2>2, <2>5, <2>6, <2>7 DEF JobsOK
<1>7. CallsOK'
  BY <1>2, <1>3 DEF Inv, PreloadInv, CallsOK, NeedsRead, Reads, IsDecode, KeyOf
<1>8. ProductsOK'
  <2>1. \A i : /\ HasRun(i)' <=> HasRun(i)
               /\ Product(i)' = Product(i)
    BY <1>2, <1>3 DEF HasRun, Product, Bulk, Treated, Source
  <2> QED
    BY <1>2, <1>3, <2>1 DEF Inv, PreloadInv, ProductsOK, PhysicalNames, Begun
<1>9. EntriesOK' /\ BatchOK'
  BY <1>2, <1>3 DEF Inv, PreloadInv, EntriesOK, AwaitedOK, BatchOK, Succeeded, Begun
<1> QED
  BY <1>2, <1>4, <1>5, <1>6, <1>7, <1>8, <1>9 DEF Inv, PreloadInv

(* A step that leaves the pool alone keeps its invariant.                  *)
LEMMA PoolStays == ASSUME PoolInv, UNCHANGED vars PROVE PoolInv'
BY NextInv

(* The numbers of jobs are numbers.                                        *)
LEMMA Numbers ==
  ASSUME Inv
  PROVE  /\ issued \in Nat /\ Len(physicals) \in Nat /\ Len(keys) \in Nat /\ next \in Nat \ {0}
         /\ DOMAIN keys = 1 .. Len(keys)
<1>1. issued \in 0 .. MaxJobs
  BY DEF Inv, PoolInv, PoolTypeOK
<1>2. keys \in Seq(Request \cap DOMAIN plan.entries) /\ physicals \in Seq(PhysicalNames)
  BY DEF Inv, PreloadInv, ListsOK
<1> QED
  BY <1>1, <1>2, MaxJobsAssumption DEF Inv, PreloadInv, JobsOK

(* A sequence is one of its own members.                                   *)
LEMMA SeqOfItsOwn == ASSUME NEW S, NEW s PROVE s \in Seq(S) => s \in Seq({s[i] : i \in 1 .. Len(s)})
OBVIOUS

(* The lists are made while there is no job yet, and nobody else knows     *)
(* them.                                                                   *)
LEMMA ResolveKeysKeepsInv ==
  ASSUME Inv, ResolveKeys PROVE Inv'
<1> DEFINE wanted == FirstOfEach(plan.requests, NoKey)
           Found(k) == IF k.kind = "sprite" THEN Resolve(file, k.name) ELSE Unresolved
           found == [i \in DOMAIN wanted |-> Found(wanted[i])]
           some == \E i \in DOMAIN wanted : wanted[i].kind = "sprite"
           names == [i \in DOMAIN wanted |-> found[i].record]
           Members == {found[i].record : i \in DOMAIN wanted}
           K == Request \cap DOMAIN plan.entries
<1>1. /\ stage = "resolve" /\ pc[Main] = "out" /\ UNCHANGED <<plan, pending>>
      /\ keys' = wanted
      /\ IF some => file.opens
         THEN /\ stage' = "decode" /\ next' = 1
              /\ deps' = found /\ physicals' = FirstOfEach(names, NoName)
              /\ results' = [i \in DOMAIN wanted |-> NoResult]
         ELSE stage' = "cleanup" /\ next' = 1 /\ UNCHANGED <<deps, physicals, opened, results>>
      /\ UNCHANGED <<vars, file, call, pngs, bytes, made, usage, missing, finished, given>>
      /\ UNCHANGED <<phys, published, entries, batch, faults>>
  BY DEF ResolveKeys, OnMain, Go
<1>2. issued = 0 /\ physicals = << >> /\ ~Begun
  BY <1>1 DEF Inv, PreloadInv, JobsOK, Begun
<1>4. plan \in Plans /\ plan.requests \in Seq(K)
  BY PlansAssumption DEF Inv, PreloadInv, ListsOK
<1>5. wanted \in Seq(K) /\ \A i, j \in DOMAIN wanted : wanted[i] = wanted[j] => i = j
  <2> HIDE DEF K
  <2> QED
    BY <1>4, FirstsAreDistinct
<1>7. names \in Seq(Members)
  BY <1>5
<1>8. /\ FirstOfEach(names, NoName) \in Seq(Members)
      /\ \A j \in DOMAIN FirstOfEach(names, NoName) : FirstOfEach(names, NoName)[j] # NoName
      /\ \A i \in DOMAIN names : names[i] # NoName =>
           \E j \in DOMAIN FirstOfEach(names, NoName) : FirstOfEach(names, NoName)[j] = names[i]
  <2> HIDE DEF names, Members
  <2> QED
    BY <1>7, FirstsAreDistinct
<1> DEFINE firsts == FirstOfEach(names, NoName)
<1> HIDE DEF wanted, names, Members, K, firsts
<1>9. DOMAIN names = DOMAIN wanted /\ \A i \in DOMAIN wanted : names[i] = Found(wanted[i]).record
  BY DEF names
<1>10. PoolInv'
  BY <1>1, PoolStays DEF Inv
<1>11. StoreInv'
  BY <1>1 DEF Inv, PreloadInv, StoreInv, ReadersOK, CachesOK, AccountsOK, UsageOK, Reader, Ways, Hits, At
<1>12. UNCHANGED <<pc, issued, running, runs>>
  BY <1>1 DEF vars
<1>13. ListsOK'
  <2>1. plan' \in Plans /\ file' = plan'.file /\ UNCHANGED plan
    BY <1>1 DEF Inv, PreloadInv, ListsOK
  <2>2. keys' \in Seq(Request \cap DOMAIN plan'.entries) /\ \A i, j \in DOMAIN keys' : keys'[i] = keys'[j] => i = j
    BY <1>1, <1>5, <2>1 DEF K
  <2>3. CASE some => file.opens
    <3> DEFINE P == {physicals'[j] : j \in 1 .. Len(physicals')}
    <3>1. physicals' = firsts /\ firsts \in Seq(Members)
      BY <1>1, <1>8, <2>3 DEF firsts, names
    <3>2. firsts \in Seq({firsts[j] : j \in 1 .. Len(firsts)}) /\ DOMAIN firsts = 1 .. Len(firsts)
      BY <3>1, SeqOfItsOwn
    <3>3. NoName \notin P /\ physicals' \in Seq(P)
      BY <1>8, <3>1, <3>2 DEF firsts
    <3>4. deps' = found /\ results' = [i \in DOMAIN wanted |-> NoResult]
      BY <1>1, <2>3 DEF wanted
    <3>5. ASSUME NEW i \in DOMAIN wanted
          PROVE  /\ deps'[i] = IF wanted[i].kind = "sprite" THEN Resolve(file, wanted[i].name) ELSE Unresolved
                 /\ deps'[i].record \in P \cup {NoName}
                 /\ file.opens \/ wanted[i].kind = "raw"
      <4>1. deps'[i] = Found(wanted[i])
        BY <3>4
      <4>2. names[i] = NoName \/ \E j \in DOMAIN firsts : firsts[j] = names[i]
        BY <1>8, <1>9 DEF firsts
      <4>3. deps'[i].record = NoName \/ \E j \in 1 .. Len(physicals') : physicals'[j] = deps'[i].record
        <5> HIDE DEF Found
        <5> QED
          BY <1>9, <3>1, <3>2, <4>1, <4>2
      <4>4. wanted[i] \in Request
        BY <1>5 DEF K
      <4>5. file.opens \/ wanted[i].kind = "raw"
        BY <2>3, <4>4 DEF Request
      <4> QED
        BY <4>1, <4>3, <4>5
    <3>6. ASSUME ~file.opens PROVE physicals' = << >>
      <4>1. \A i \in DOMAIN wanted : names[i] = NoName
        BY <1>9, <2>3, <3>6 DEF Unresolved
      <4>2. \A j \in DOMAIN firsts : firsts[j] \in Members /\ firsts[j] # NoName
        BY <1>8, <3>1, <3>2 DEF firsts
      <4>3. Members \subseteq {NoName}
        BY <1>9, <4>1 DEF Members, names
      <4>4. 1 .. Len(firsts) = {} /\ Len(firsts) \in Nat
        BY <3>1, <3>2, <4>2, <4>3
      <4>5. Len(firsts) = 0
        BY <4>4
      <4> QED
        BY <3>1, <4>5
    <3> HIDE DEF P
    <3>7. PhysicalNames' = P
      BY DEF PhysicalNames, P
    <3>8. DOMAIN results' = DOMAIN keys'
      BY <1>1, <3>4 DEF wanted
    <3>9. keys' = wanted /\ file' = file
      BY <1>1 DEF wanted
    <3> QED
      BY <2>1, <2>2, <3>3, <3>5, <3>6, <3>7, <3>8, <3>9 DEF ListsOK
  <2>4. CASE ~(some => file.opens)
    <3>1. physicals' = physicals /\ ~Begun'
      BY <1>1, <1>2, <1>12, <2>4 DEF Begun
    <3>2. PhysicalNames' = PhysicalNames
      BY <3>1 DEF PhysicalNames
    <3> QED
      BY <2>1, <2>2, <3>1, <3>2 DEF ListsOK, Inv, PreloadInv
  <2> QED
    BY <2>3, <2>4
<1>14. keys' \in Seq(K) /\ physicals' \in Seq(PhysicalNames')
  BY <1>1, <1>5, <1>13 DEF wanted, ListsOK
<1>15. Len(keys') \in Nat /\ Len(physicals') \in Nat
  BY <1>14
<1>16. JobsOK'
  <2>1. stage' \in {"decode", "cleanup"} /\ next' = 1 /\ issued' = 0 /\ pc'[Main] = "out"
    BY <1>1, <1>2, <1>12
  <2> QED
    BY <1>15, <2>1 DEF JobsOK
<1>17. \A w \in Workers : call[w].place = "out"
  <2>1. \A w \in Workers : pc[w] # "run"
    BY <1>2, InHand DEF Inv
  <2> QED
    BY <2>1 DEF Inv, PreloadInv, CallsOK
<1>18. CallsOK'
  BY <1>1, <1>17 DEF Inv, PreloadInv, CallsOK
<1>19. phys' = phys /\ DOMAIN phys = {} /\ published = {}
  <2>1. DOMAIN phys \subseteq PhysicalNames /\ PhysicalNames = {}
    BY <1>2 DEF Inv, PreloadInv, ProductsOK, PhysicalNames
  <2>2. \A i \in DOMAIN keys : ~HasRun(i)
    BY <1>2, Numbers DEF HasRun
  <2> QED
    BY <1>1, <2>1, <2>2 DEF Inv, PreloadInv, ProductsOK
<1>20. ProductsOK'
  <2>1. \A i \in DOMAIN keys' : ~HasRun(i)'
    BY <1>2, <1>12, <1>14, <1>15 DEF HasRun
  <2>2. Begun' => \A i \in DOMAIN keys' : results'[i] = NoResult
    BY <1>1, <1>2, <1>12 DEF Begun, wanted
  <2> QED
    BY <1>1, <1>2, <1>12, <1>15, <1>19, <2>1, <2>2 DEF ProductsOK
<1>21. EntriesOK'
  BY <1>1, <1>19 DEF Inv, PreloadInv, EntriesOK, AwaitedOK
<1>22. BatchOK'
  BY <1>1 DEF Inv, PreloadInv, BatchOK
<1> QED
  BY <1>10, <1>11, <1>13, <1>16, <1>18, <1>20, <1>21, <1>22 DEF Inv, PreloadInv

(* The lists keep their shape while they are not made anew.                *)
LEMMA ListsStay ==
  ASSUME ListsOK, UNCHANGED <<plan, file, keys, deps, physicals>>, DOMAIN results' = DOMAIN results,
         Begun' => Begun
  PROVE  ListsOK'
<1>1. PhysicalNames' = PhysicalNames
  BY DEF PhysicalNames
<1> QED
  BY <1>1 DEF ListsOK

(* Calls stay bound to their jobs while neither changes.                   *)
LEMMA CallsStay ==
  ASSUME CallsOK, UNCHANGED <<call, keys, physicals, pending, running>>,
         \A w \in Workers : pc[w] = "run" => pc'[w] = "run"
  PROVE  CallsOK'
BY DEF CallsOK, NeedsRead, Reads, IsDecode, KeyOf

(* What has been made stays what it is while no job ends.                  *)
LEMMA ProductsStay ==
  ASSUME ProductsOK, ListsOK, UNCHANGED <<file, phys, physicals, results, keys, deps, published, runs>>,
         Begun' => Begun, issued \in Nat, issued' = issued \/ (issued' = issued + 1 /\ runs[issued + 1] = 0)
  PROVE  ProductsOK'
<1>1. DOMAIN keys \subseteq Nat /\ Len(physicals) \in Nat
  BY DEF ListsOK
<1>2. \A i \in DOMAIN keys : HasRun(i)' <=> HasRun(i)
  BY <1>1 DEF HasRun
<1>3. \A i : Product(i)' = Product(i)
  BY DEF Product, Bulk, Treated, Source
<1>4. PhysicalNames' = PhysicalNames
  BY DEF PhysicalNames
<1>5. \A j \in 1 .. Len(physicals) : j <= issued' /\ runs[j] = 1 => j <= issued
  BY <1>1
<1> QED
  BY <1>2, <1>3, <1>4, <1>5 DEF ProductsOK

(* Main enqueues a job.                                                    *)
LEMMA MainPushes ==
  ASSUME PoolInv, Push(Main)
  PROVE  /\ PoolInv' /\ issued' = issued + 1 /\ runs[issued + 1] = 0 /\ UNCHANGED <<runs, running>>
         /\ pc'[Main] = "notify" /\ \A w \in Workers : pc'[w] = pc[w]
<1>1. PoolInv'
  BY MainIsTheClient, NextInv DEF Next
<1> QED
  BY <1>1, MainIsTheClient, NotYetRun DEF Push, Move, PoolInv, PoolTypeOK

(* Main calls wait_idle.                                                   *)
LEMMA MainWaits ==
  ASSUME PoolInv, CallWaitIdle(Main)
  PROVE  /\ PoolInv' /\ UNCHANGED <<issued, runs, running>>
         /\ pc'[Main] = "wait" /\ \A w \in Workers : pc'[w] = pc[w]
<1>1. PoolInv'
  BY MainIsTheClient, NextInv DEF Next
<1> QED
  BY <1>1, MainIsTheClient DEF CallWaitIdle, Move, PoolInv, PoolTypeOK

(* Main enqueues the jobs of its two stages.                               *)
LEMMA EnqueueKeepsInv ==
  ASSUME Inv, Enqueue("decode", Len(physicals)) \/ Enqueue("compose", Len(keys))
  PROVE  Inv'
<1>1. /\ stage \in {"decode", "compose"} /\ pc[Main] = "out" /\ Push(Main) /\ next' = next + 1
      /\ stage = "decode" => next <= Len(physicals)
      /\ stage = "compose" => next <= Len(keys)
      /\ UNCHANGED <<storeVars, plan, keys, deps, physicals, phys, results, published, stage, entries, batch, pending>>
  BY DEF Enqueue, OnMain, MainOnly
<1>2. /\ PoolInv' /\ issued' = issued + 1 /\ runs[issued + 1] = 0 /\ UNCHANGED <<runs, running>>
      /\ pc'[Main] = "notify" /\ \A w \in Workers : pc'[w] = pc[w]
  BY <1>1, MainPushes DEF Inv
<1>3. file' = file /\ call' = call
  BY <1>1 DEF storeVars
<1>4. Begun
  BY <1>1 DEF Begun
<1>5. /\ issued \in Nat /\ Len(physicals) \in Nat /\ Len(keys) \in Nat /\ next \in Nat \ {0}
      /\ DOMAIN keys = 1 .. Len(keys)
  BY Numbers
<1>6. StoreInv'
  BY <1>1, StoreStays DEF Inv, PreloadInv
<1>7. ListsOK'
  BY <1>1, <1>3, <1>4, ListsStay DEF Inv, PreloadInv
<1>8. JobsOK'
  <2>1. JobsOK
    BY DEF Inv, PreloadInv
  <2>2. /\ stage = "decode" => issued = next - 1 /\ next <= Len(physicals)
        /\ stage = "compose" => issued = Len(physicals) + next - 1 /\ next <= Len(keys) /\ DecodesDone
    BY <1>1, <2>1 DEF JobsOK
  <2>3. DecodesDone' <=> DecodesDone
    BY <1>1, <1>2 DEF DecodesDone
  <2>4. stage' = stage /\ UNCHANGED <<physicals, keys>> /\ next' \in Nat \ {0}
    BY <1>1, <1>5
  <2>5. issued' <= Len(physicals) + Len(keys)
    BY <1>1, <1>2, <1>5, <2>2
  <2>6. /\ stage = "decode" => issued' = next' - 1 /\ next' <= Len(physicals) + 1
        /\ stage = "compose" => issued' = Len(physicals) + next' - 1 /\ next' <= Len(keys) + 1
    BY <1>1, <1>2, <1>5, <2>2
  <2>7. issued' > Len(physicals) => DecodesDone
    BY <1>1, <1>2, <1>5, <2>2
  <2> QED
    BY <1>1, <1>2, <2>2, <2>3, <2>4, <2>5, <2>6, <2>7 DEF JobsOK
<1>9. CallsOK'
  BY <1>1, <1>2, <1>3, CallsStay DEF Inv, PreloadInv
<1>10. ProductsOK'
  BY <1>1, <1>2, <1>3, <1>4, <1>5, ProductsStay DEF Inv, PreloadInv
<1>11. EntriesOK'
  BY <1>1 DEF Inv, PreloadInv, EntriesOK, AwaitedOK
<1>12. BatchOK'
  BY <1>1 DEF Inv, PreloadInv, BatchOK
<1> QED
  BY <1>2, <1>6, <1>7, <1>8, <1>9, <1>10, <1>11, <1>12 DEF Inv, PreloadInv

(* Main calls wait_idle between its stages, and before it rolls back.      *)
LEMMA WaitKeepsInv ==
  ASSUME Inv, \/ Wait("decode", Len(physicals), "compose")
              \/ Wait("compose", Len(keys), "upload")
              \/ ComposeFails
  PROVE  Inv'
<1>1. /\ pc[Main] = "out" /\ CallWaitIdle(Main) /\ next' = 1
      /\ \/ stage = "decode" /\ next = Len(physicals) + 1 /\ stage' = "compose"
         \/ stage = "compose" /\ next = Len(keys) + 1 /\ stage' = "upload"
         \/ stage = "compose" /\ stage' = "rollback"
         \/ stage = "upload" /\ next = 1 /\ stage' = "rollback"
      /\ UNCHANGED <<storeVars, plan, keys, deps, physicals, phys, results, published, entries, batch, pending>>
  BY DEF Wait, ComposeFails, InTheTry, OnMain, MainOnly, Go
<1>2. /\ PoolInv' /\ UNCHANGED <<issued, runs, running>>
      /\ pc'[Main] = "wait" /\ \A w \in Workers : pc'[w] = pc[w]
  BY <1>1, MainWaits DEF Inv
<1>3. file' = file /\ call' = call
  BY <1>1 DEF storeVars
<1>4. Begun
  BY <1>1 DEF Begun
<1>5. /\ issued \in Nat /\ Len(physicals) \in Nat /\ Len(keys) \in Nat /\ next \in Nat \ {0}
      /\ DOMAIN keys = 1 .. Len(keys)
  BY Numbers
<1>6. StoreInv'
  BY <1>1, StoreStays DEF Inv, PreloadInv
<1>7. ListsOK'
  BY <1>1, <1>3, <1>4, ListsStay DEF Inv, PreloadInv
<1>8. JobsOK'
  <2>1. JobsOK
    BY DEF Inv, PreloadInv
  <2>2. DecodesDone' <=> DecodesDone
    BY <1>1, <1>2 DEF DecodesDone
  <2>3. issued <= Len(physicals) + Len(keys) /\ (issued > Len(physicals) => DecodesDone)
    BY <2>1 DEF JobsOK
  <2>4. /\ stage' = "compose" => issued = Len(physicals) + 1 - 1 /\ 1 <= Len(keys) + 1
        /\ stage' = "upload" => issued = Len(physicals) + Len(keys) /\ 1 <= Len(keys) + 1
    BY <1>1, <1>5, <2>1 DEF JobsOK
  <2>5. stage' \in {"compose", "upload", "rollback"} /\ next' = 1 /\ pc'[Main] = "wait"
        /\ UNCHANGED <<issued, physicals, keys>>
    BY <1>1, <1>2
  <2> QED
    BY <2>2, <2>3, <2>4, <2>5 DEF JobsOK
<1>9. CallsOK'
  BY <1>1, <1>2, <1>3, CallsStay DEF Inv, PreloadInv
<1>10. ProductsOK'
  <2>1. ProductsOK /\ ListsOK /\ (Begun' => Begun) /\ issued' = issued
    BY <1>2, <1>4 DEF Inv, PreloadInv
  <2>2. UNCHANGED <<file, phys, physicals, results, keys, deps, published, runs>>
    BY <1>1, <1>2, <1>3
  <2>3. issued' = issued \/ (issued' = issued + 1 /\ runs[issued + 1] = 0)
    BY <2>1
  <2> QED
    BY <1>5, <2>1, <2>2, <2>3, ProductsStay
<1>11. EntriesOK'
  <2>1. published \subseteq Nat \ {0}
    BY <1>5 DEF Inv, PreloadInv, ProductsOK
  <2>2. \A i \in published : i >= next'
    BY <1>1, <2>1
  <2> QED
    BY <1>1, <2>2 DEF Inv, PreloadInv, EntriesOK, AwaitedOK
<1>12. BatchOK'
  <2>1. ~ \E i \in DOMAIN keys : i < next'
    BY <1>1, <1>5
  <2>2. stage' # "rollback" => batch.items = {}
    BY <1>1 DEF Inv, PreloadInv, BatchOK
  <2> QED
    BY <1>1, <2>1, <2>2 DEF Inv, PreloadInv, BatchOK
<1> QED
  BY <1>2, <1>6, <1>7, <1>8, <1>9, <1>10, <1>11, <1>12 DEF Inv, PreloadInv

(* A step of Main alone, that leaves the pool, the store and the jobs'     *)
(* own things as they are.                                                 *)
MainAlone ==
  /\ pc[Main] = "out" /\ UNCHANGED <<pc, issued, runs, running, storeVars>>
  /\ UNCHANGED <<plan, keys, deps, physicals, phys, results, published, pending>>
  /\ Begun' => Begun

(* Then these parts of the invariant are left to show.                     *)
LEMMA MainAloneKeepsInv ==
  ASSUME Inv, MainAlone, PoolInv', JobsOK', EntriesOK', BatchOK' PROVE Inv'
<1>1. file' = file /\ call' = call
  BY DEF MainAlone, storeVars
<1>2. StoreInv'
  BY StoreStays DEF Inv, PreloadInv, MainAlone
<1>3. ListsOK /\ CallsOK /\ ProductsOK
  BY DEF Inv, PreloadInv
<1>4. ListsOK'
  BY <1>1, <1>3, ListsStay DEF MainAlone
<1>5. CallsOK'
  BY <1>1, <1>3, CallsStay DEF MainAlone
<1>6. ProductsOK'
  <2>1. UNCHANGED <<file, phys, physicals, results, keys, deps, published, runs, issued>> /\ (Begun' => Begun)
    BY <1>1 DEF MainAlone
  <2>2. issued \in Nat /\ (issued' = issued \/ (issued' = issued + 1 /\ runs[issued + 1] = 0))
    BY <2>1, Numbers
  <2> QED
    BY <1>3, <2>1, <2>2, ProductsStay
<1> QED
  BY <1>2, <1>4, <1>5, <1>6 DEF Inv, PreloadInv

(* What Main may see of the images when no job is left.                    *)
LEMMA WhatIsMade ==
  ASSUME Inv, Begun
  PROVE  \A i \in DOMAIN keys :
           /\ Succeeded(i) <=> i \in published
           /\ i \in published => results[i].key = keys[i]
<1>1. NoResult.pixels = NoPixels
  BY DEF NoResult
<1>2. ProductsOK
  BY DEF Inv, PreloadInv
<1> SUFFICES ASSUME NEW i \in DOMAIN keys
             PROVE  (Succeeded(i) <=> i \in published) /\ (i \in published => results[i].key = keys[i])
  OBVIOUS
<1>3. /\ i \in published <=> HasRun(i) /\ file.opens /\ Product(i) # NoPixels
      /\ results[i] = IF HasRun(i) /\ file.opens THEN [key |-> keys[i], pixels |-> Product(i)] ELSE NoResult
  BY <1>2 DEF ProductsOK
<1> QED
  BY <1>1, <1>3 DEF Succeeded

(* Only images of the preloader are taken back.                            *)
LEMMA WithoutFacts ==
  ASSUME NEW ks
  PROVE  /\ DOMAIN Without(ks) = DOMAIN entries
         /\ \A k \in DOMAIN entries :
              /\ Without(ks)[k].by = "bulk" => k \notin ks /\ entries[k].by = "bulk"
              /\ Without(ks)[k] = entries[k] \/ (entries[k].by = "bulk" /\ Without(ks)[k] = NoEntry)
BY DEF Without, NoEntry

(* A step that leaves alone what is being decoded keeps it awaited.        *)
LEMMA AwaitedStays ==
  ASSUME EntriesOK, DOMAIN entries' = DOMAIN entries, UNCHANGED pending,
         \A k \in DOMAIN entries : entries[k] = Decoding => entries'[k] = Decoding
  PROVE  AwaitedOK'
BY DEF EntriesOK, AwaitedOK

(* Main gives up, takes back, uploads, ends: it is alone by then, or has   *)
(* nothing published yet.                                                  *)
LEMMA MainStepsAlone ==
  ASSUME Inv, DecodeFails \/ Rollback \/ Upload \/ UploadFails \/ Uploaded \/ Cleanup \/ LeaveScope
  PROVE  MainAlone /\ PoolInv'
<1>1. CASE LeaveScope
  <2>1. Stop /\ UNCHANGED <<stage, storeVars, plan, keys, deps, physicals, phys, results, published, pending>>
        /\ pc[Main] = "out"
    BY <1>1 DEF LeaveScope, OnMain, MainOnly
  <2>2. PoolInv' /\ UNCHANGED <<pc, issued, running, runs>>
    BY <2>1, NextInv DEF Inv, Next, Stop
  <2> QED
    BY <2>1, <2>2 DEF MainAlone, Begun
<1>2. CASE ~LeaveScope
  <2>1. /\ UNCHANGED <<vars, storeVars, plan, keys, deps, physicals, phys, results, published, pending>>
        /\ pc[Main] = "out"
        /\ stage' \in {stage, "recover", "cleanup", "end"} /\ (stage' = "recover" => stage = "upload")
    BY <1>2 DEF DecodeFails, Rollback, Upload, UploadFails, Uploaded, Cleanup, OnMain, MainOnly, Go
  <2>2. UNCHANGED <<pc, issued, running, runs>>
    BY <2>1 DEF vars
  <2>3. PoolInv'
    BY <2>1, PoolStays DEF Inv
  <2> QED
    BY <2>1, <2>2, <2>3 DEF MainAlone, Begun
<1> QED
  BY <1>1, <1>2

(* Main's part of JobsOK, where no job is enqueued or run.                 *)
LEMMA JobsStay ==
  ASSUME Inv, MainAlone, next' \in Nat \ {0},
         \/ stage' = stage /\ stage = "end" /\ next' = next
         \/ stage' = stage /\ stage = "upload" /\ next <= Len(keys) /\ next' = next + 1
         \/ stage' = "recover" /\ stage = "upload" /\ next' = next
         \/ stage' = "cleanup" /\ stage \in {"decode", "rollback"}
         \/ stage' = "end" /\ stage \in {"upload", "recover", "cleanup"}
  PROVE  JobsOK'
<1>1. JobsOK /\ pc[Main] = "out" /\ UNCHANGED <<pc, issued, runs, physicals, keys>>
  BY DEF Inv, PreloadInv, MainAlone
<1>2. (DecodesDone' <=> DecodesDone) /\ (AllDone' <=> AllDone)
  BY <1>1 DEF DecodesDone, AllDone
<1>3. /\ issued \in Nat /\ Len(physicals) \in Nat /\ Len(keys) \in Nat /\ next \in Nat \ {0}
  BY Numbers
<1>4. stage' \in {"cleanup", "end"} => \A j \in 1 .. issued : j <= Len(physicals) \/ runs[j] = 1
  <2>1. CASE stage = "decode"
    BY <1>1, <1>3, <2>1 DEF JobsOK
  <2>2. CASE stage \in {"rollback", "upload", "recover"}
    BY <1>1, <1>3, <2>2 DEF JobsOK, AllDone
  <2>3. CASE stage \in {"cleanup", "end"}
    BY <1>1, <2>3 DEF JobsOK
  <2> QED
    BY <2>1, <2>2, <2>3
<1>5. stage' \in {"upload", "recover"} => /\ issued = Len(physicals) + Len(keys) /\ next' <= Len(keys) + 1 
                                          /\ AllDone
  BY <1>1, <1>3 DEF JobsOK
<1>6. issued <= Len(physicals) + Len(keys) /\ (issued > Len(physicals) => DecodesDone)
  BY <1>1 DEF JobsOK
<1> QED
  BY <1>1, <1>2, <1>4, <1>5, <1>6 DEF JobsOK

(* No image is published before there are composing jobs.                  *)
LEMMA NothingPublishedYet == ASSUME Inv, stage = "decode" PROVE published = {}
<1>1. issued <= Len(physicals)
  BY Numbers DEF Inv, PreloadInv, JobsOK
<1>2. \A i \in DOMAIN keys : ~HasRun(i)
  BY <1>1, Numbers DEF HasRun
<1> QED
  BY <1>2 DEF Inv, PreloadInv, ProductsOK

(* A failure while decoding jobs are enqueued.                             *)
LEMMA DecodeFailsKeepsInv == ASSUME Inv, DecodeFails PROVE Inv'
<1>1. MainAlone /\ PoolInv'
  BY MainStepsAlone
<1>2. stage = "decode" /\ stage' = "cleanup" /\ next' = 1 /\ UNCHANGED <<entries, batch, plan, pending>>
  BY DEF DecodeFails, OnMain, Go
<1>3. JobsOK'
  BY <1>1, <1>2, JobsStay
<1>4. EntriesOK'
  BY <1>2, NothingPublishedYet DEF Inv, PreloadInv, EntriesOK, AwaitedOK
<1>5. BatchOK'
  BY <1>2 DEF Inv, PreloadInv, BatchOK
<1> QED
  BY <1>1, <1>3, <1>4, <1>5, MainAloneKeepsInv

(* The rollback takes back every image that has been published.            *)
LEMMA RollbackKeepsInv == ASSUME Inv, Rollback PROVE Inv'
<1> DEFINE ks == {keys[i] : i \in published}
<1>1. MainAlone /\ PoolInv'
  BY MainStepsAlone
<1>2. /\ stage = "rollback" /\ stage' = "cleanup" /\ next' = 1 /\ UNCHANGED <<batch, plan, pending>>
      /\ entries' = Without(ks)
  BY DEF Rollback, OnMain, Go
<1>3. JobsOK'
  BY <1>1, <1>2, JobsStay
<1>4. \A k \in DOMAIN entries' : entries'[k].by # "bulk"
  <2>1. \A k \in DOMAIN entries : entries[k].by = "bulk" => k \in ks
    BY DEF Inv, PreloadInv, EntriesOK, AwaitedOK
  <2> HIDE DEF ks
  <2> QED
    BY <1>2, <2>1, WithoutFacts
<1>5. EntriesOK'
  <2> HIDE DEF ks
  <2>1. /\ DOMAIN entries' = DOMAIN entries
        /\ \A k \in DOMAIN entries : entries[k] = Decoding => entries'[k] = Decoding
    BY <1>2, WithoutFacts DEF Decoding
  <2>2. EntriesOK
    BY DEF Inv, PreloadInv
  <2>3. AwaitedOK'
    BY <1>2, <2>1, <2>2, AwaitedStays
  <2> QED
    BY <1>2, <1>4, <2>1, <2>2, <2>3 DEF EntriesOK
<1>6. BatchOK'
  BY <1>2 DEF Inv, PreloadInv, BatchOK
<1> QED
  BY <1>1, <1>3, <1>5, <1>6, MainAloneKeepsInv

(* After an upload, taken or lost, what is still published lies ahead.     *)
LEMMA HandOverFacts ==
  ASSUME Inv, stage = "upload", next \in DOMAIN keys, HandOver(next), UNCHANGED <<plan, pending, keys, published>>
  PROVE  /\ \A k \in DOMAIN entries' : entries'[k].by = "bulk" =>
              \E i \in published : keys[i] = k /\ i >= next + 1 /\ i \notin batch'.items
         /\ batch'.items = {i \in DOMAIN keys : i < next + 1 /\ Succeeded(i)}
         /\ batch'.state = "open" /\ DOMAIN batch' = {"items", "state"}
         /\ DOMAIN entries' = DOMAIN plan'.entries /\ AwaitedOK'
<1>1. Begun /\ EntriesOK
  BY DEF Begun, Inv, PreloadInv
<1>2. /\ \A i \in DOMAIN keys : Succeeded(i) <=> i \in published
      /\ next \in published => results[next].key = keys[next]
  BY <1>1, WhatIsMade
<1>3. DOMAIN keys \subseteq Nat /\ next \in Nat /\ published \subseteq DOMAIN keys
  BY Numbers DEF Inv, PreloadInv, ProductsOK
<1>4. batch.items = {i \in DOMAIN keys : i < next /\ Succeeded(i)} /\ batch.state = "open"
  BY DEF Inv, PreloadInv, BatchOK
<1>5. /\ DOMAIN entries' = DOMAIN entries
      /\ \A k \in DOMAIN entries : /\ entries[k] = Decoding => entries'[k] = Decoding
                                   /\ entries'[k].by = "bulk" =>
                                        entries[k].by = "bulk" /\ (next \in published => k # keys[next])
  <2>1. CASE Succeeded(next)
    <3>1. entries' = Without({keys[next]})
      BY <1>2, <2>1 DEF HandOver
    <3> QED
      BY <3>1, WithoutFacts DEF Decoding
  <2>2. CASE ~Succeeded(next)
    BY <1>2, <2>2 DEF HandOver
  <2> QED
    BY <2>1, <2>2
<1>6. batch'.items = batch.items \cup (IF Succeeded(next) THEN {next} ELSE {}) /\ batch'.state = batch.state
  BY <1>4 DEF HandOver
<1>10. DOMAIN batch' = {"items", "state"}
  <2>1. DOMAIN batch = {"items", "state"}
    BY DEF Inv, PreloadInv, BatchOK
  <2> QED
    BY <2>1 DEF HandOver
<1>7. batch'.items = {i \in DOMAIN keys : i < next + 1 /\ Succeeded(i)}
  <2>1. \A i \in DOMAIN keys : i < next + 1 <=> i < next \/ i = next
    BY <1>3
  <2> QED
    BY <1>4, <1>6, <2>1
<1>8. ASSUME NEW k \in DOMAIN entries', entries'[k].by = "bulk"
      PROVE  \E i \in published : keys[i] = k /\ i >= next + 1 /\ i \notin batch'.items
  <2>1. PICK i \in published : keys[i] = k /\ i >= next
    BY <1>1, <1>5, <1>8 DEF EntriesOK
  <2>2. i # next
    BY <1>5, <1>8, <2>1
  <2>3. i >= next + 1 /\ ~(i < next + 1)
    BY <1>3, <2>1, <2>2
  <2> QED
    BY <1>7, <2>1, <2>3
<1>9. AwaitedOK'
  BY <1>1, <1>5, AwaitedStays
<1> QED
  BY <1>1, <1>4, <1>5, <1>6, <1>7, <1>8, <1>9, <1>10 DEF EntriesOK

(* An upload.                                                              *)
LEMMA UploadKeepsInv == ASSUME Inv, Upload PROVE Inv'
<1>1. MainAlone /\ PoolInv'
  BY MainStepsAlone
<1>2. /\ stage = "upload" /\ next \in DOMAIN keys /\ HandOver(next) /\ next' = next + 1 /\ stage' = stage
      /\ UNCHANGED <<plan, pending, keys, published, results>>
  BY DEF Upload, OnMain, MainOnly
<1>3. next' \in Nat \ {0} /\ next <= Len(keys)
  BY <1>2, Numbers
<1>4. JobsOK'
  BY <1>1, <1>2, <1>3, JobsStay
<1>5. EntriesOK'
  BY <1>2, HandOverFacts DEF EntriesOK
<1>6. BatchOK'
  <2>1. batch'.items = {i \in DOMAIN keys' : i < next' /\ Succeeded(i)'}
    BY <1>2, HandOverFacts DEF Succeeded
  <2> QED
    BY <1>2, <2>1, HandOverFacts DEF BatchOK
<1> QED
  BY <1>1, <1>4, <1>5, <1>6, MainAloneKeepsInv

(* An upload that fails, before or after the image was handed over.        *)
LEMMA UploadFailsKeepsInv == ASSUME Inv, UploadFails PROVE Inv'
<1>1. MainAlone /\ PoolInv'
  BY MainStepsAlone
<1>2. /\ stage = "upload" /\ next \in DOMAIN keys
      /\ HandOver(next) \/ UNCHANGED <<entries, batch>>
      /\ next' = next /\ stage' = "recover"
      /\ UNCHANGED <<plan, pending, keys, published, results>>
  BY DEF UploadFails, OnMain, MainOnly
<1>3. next' \in Nat \ {0} /\ DOMAIN keys \subseteq Nat /\ next \in Nat /\ published \subseteq DOMAIN keys
  BY <1>2, Numbers DEF Inv, PreloadInv, ProductsOK
<1>4. JobsOK'
  BY <1>1, <1>2, <1>3, JobsStay
<1>5. CASE HandOver(next)
  <2>1. EntriesOK'
    <3>1. \A i \in published : i >= next + 1 => i >= next
      BY <1>3
    <3> QED
      BY <1>2, <1>5, <3>1, HandOverFacts DEF EntriesOK
  <2>2. BatchOK'
    BY <1>2, <1>5, HandOverFacts DEF BatchOK
  <2> QED
    BY <1>1, <1>4, <2>1, <2>2, MainAloneKeepsInv
<1>6. CASE UNCHANGED <<entries, batch>>
  <2>1. /\ batch.items = {i \in DOMAIN keys : i < next /\ Succeeded(i)} /\ batch.state = "open"
        /\ DOMAIN batch = {"items", "state"}
    BY <1>2 DEF Inv, PreloadInv, BatchOK
  <2>2. \A i \in published : i >= next => i \notin batch.items
    BY <1>3, <2>1
  <2>3. EntriesOK'
    BY <1>2, <1>6, <2>2 DEF Inv, PreloadInv, EntriesOK, AwaitedOK
  <2>4. BatchOK'
    BY <1>2, <1>6, <2>1 DEF BatchOK
  <2> QED
    BY <1>1, <1>4, <2>3, <2>4, MainAloneKeepsInv
<1> QED
  BY <1>2, <1>5, <1>6

(* When all is uploaded nothing published is left.                         *)
LEMMA UploadedKeepsInv == ASSUME Inv, Uploaded PROVE Inv'
<1>1. MainAlone /\ PoolInv'
  BY MainStepsAlone
<1>2. /\ stage = "upload" /\ next = Len(keys) + 1 /\ batch' = [batch EXCEPT !.state = "sealed"]
      /\ next' = 1 /\ stage' = "end"
      /\ UNCHANGED <<plan, pending, keys, published, results, entries>>
  BY DEF Uploaded, OnMain, MainOnly, Go
<1>3. JobsOK'
  BY <1>1, <1>2, JobsStay
<1>4. \A i \in DOMAIN keys : i < next /\ ~(i >= next)
  BY <1>2, Numbers
<1>5. published \subseteq DOMAIN keys
  BY DEF Inv, PreloadInv, ProductsOK
<1>6. EntriesOK'
  BY <1>2, <1>4, <1>5 DEF Inv, PreloadInv, EntriesOK, AwaitedOK
<1>7. BatchOK'
  <2>1. /\ batch.items = {i \in DOMAIN keys : i < next /\ Succeeded(i)} /\ batch.state = "open"
        /\ DOMAIN batch = {"items", "state"}
    BY <1>2 DEF Inv, PreloadInv, BatchOK
  <2>2. batch'.items = {i \in DOMAIN keys : Succeeded(i)} /\ batch'.state \in {"sealed", "open"}
    BY <1>2, <1>4, <2>1
  <2>3. batch'.items = {i \in DOMAIN keys' : Succeeded(i)'}
    BY <1>2, <2>2 DEF Succeeded
  <2>4. batch'.state # "open" /\ DOMAIN batch' = {"items", "state"}
    BY <1>2, <2>1
  <2> QED
    BY <1>2, <2>2, <2>3, <2>4 DEF BatchOK
<1> QED
  BY <1>1, <1>3, <1>6, <1>7, MainAloneKeepsInv

(* cleanup takes back what was returned and not uploaded: nothing is left. *)
LEMMA CleanupKeepsInv == ASSUME Inv, Cleanup PROVE Inv'
<1> DEFINE ks == {keys[i] : i \in Unprocessed}
<1>1. MainAlone /\ PoolInv'
  BY MainStepsAlone
<1>2. /\ stage \in {"cleanup", "recover"} /\ stage' = "end" /\ next' = 1
      /\ UNCHANGED <<plan, pending, keys, published, results>>
      /\ entries' = Without(ks)
      /\ batch' = [items |-> batch.items \cup Unprocessed, state |-> "drained"]
  BY DEF Cleanup, OnMain, MainOnly, Go
<1>3. JobsOK'
  BY <1>1, <1>2, JobsStay
<1>4. EntriesOK
  BY DEF Inv, PreloadInv
<1>5. \A k \in DOMAIN entries : entries[k].by = "bulk" => k \in ks
  <2> SUFFICES ASSUME NEW k \in DOMAIN entries, entries[k].by = "bulk" PROVE k \in ks
    OBVIOUS
  <2>1. stage = "recover"
    BY <1>2, <1>4 DEF EntriesOK
  <2>2. PICK i \in published : keys[i] = k /\ i >= next /\ i \notin batch.items
    BY <1>4, <2>1 DEF EntriesOK
  <2>3. i \in DOMAIN keys /\ Succeeded(i)
    BY <2>1, <2>2, WhatIsMade DEF Begun, Inv, PreloadInv, ProductsOK
  <2>4. i \in next .. Len(keys)
    BY <2>2, <2>3, Numbers
  <2>5. i \in Unprocessed
    BY <2>1, <2>2, <2>3, <2>4 DEF Unprocessed
  <2> QED
    BY <2>2, <2>5
<1> HIDE DEF ks
<1>6. /\ DOMAIN entries' = DOMAIN entries /\ \A k \in DOMAIN entries' : entries'[k].by # "bulk"
      /\ \A k \in DOMAIN entries : entries[k] = Decoding => entries'[k] = Decoding
  BY <1>2, <1>5, WithoutFacts DEF Decoding
<1>7. AwaitedOK'
  BY <1>2, <1>4, <1>6, AwaitedStays
<1>8. EntriesOK'
  BY <1>2, <1>4, <1>6, <1>7 DEF EntriesOK
<1>9. BatchOK'
  <2>1. stage' = "end" /\ batch'.state = "drained" /\ DOMAIN batch' = {"items", "state"}
    BY <1>2
  <2> QED
    BY <2>1 DEF BatchOK
<1> QED
  BY <1>1, <1>3, <1>8, <1>9, MainAloneKeepsInv

(* Main leaves the call and stops the pool.                                *)
LEMMA LeaveScopeKeepsInv == ASSUME Inv, LeaveScope PROVE Inv'
<1>1. MainAlone /\ PoolInv'
  BY MainStepsAlone
<1>2. /\ stage = "end" /\ UNCHANGED <<stage, next, entries, batch, plan, pending, keys, published, results>>
  BY DEF LeaveScope, OnMain, MainOnly
<1>3. JobsOK'
  BY <1>1, <1>2, JobsStay, Numbers
<1>4. EntriesOK' /\ BatchOK'
  BY <1>2 DEF Inv, PreloadInv, EntriesOK, AwaitedOK, BatchOK, Succeeded
<1> QED
  BY <1>1, <1>3, <1>4, MainAloneKeepsInv

(* Every step of Main keeps the invariant.                                 *)
LEMMA MainStepKeepsInv == ASSUME Inv, MainStep PROVE Inv'
BY ResolveKeysKeepsInv, EnqueueKeepsInv, WaitKeepsInv, DecodeFailsKeepsInv, RollbackKeepsInv,
   UploadKeepsInv, UploadFailsKeepsInv, UploadedKeepsInv, CleanupKeepsInv, LeaveScopeKeepsInv DEF MainStep

(* A step inside a call of the store.                                      *)
LEMMA ReadingKeepsInv ==
  ASSUME Inv, UNCHANGED <<vars, file, plan, keys, deps, physicals, stage, next, phys, results, published,
                          entries, batch, pending>>,
         StoreInv', CallsOK'
  PROVE  Inv'
<1>1. PoolInv' /\ UNCHANGED <<pc, issued, runs, running>>
  BY PoolStays DEF Inv, vars
<1>2. ListsOK /\ JobsOK /\ ProductsOK
  BY DEF Inv, PreloadInv
<1>3. Begun' => Begun
  BY <1>1 DEF Begun
<1>4. ListsOK'
  BY <1>2, <1>3, ListsStay
<1>5. JobsOK'
  BY <1>1, <1>2 DEF JobsOK, DecodesDone, AllDone
<1>6. ProductsOK'
  <2>1. UNCHANGED <<file, phys, physicals, results, keys, deps, published, runs, issued>>
    BY <1>1
  <2>2. issued \in Nat /\ (issued' = issued \/ (issued' = issued + 1 /\ runs[issued + 1] = 0))
    BY <2>1, Numbers
  <2> QED
    BY <1>2, <1>3, <2>1, <2>2, ProductsStay
<1>7. EntriesOK' /\ BatchOK'
  BY DEF Inv, PreloadInv, EntriesOK, AwaitedOK, BatchOK, Succeeded
<1> QED
  BY <1>1, <1>4, <1>5, <1>6, <1>7 DEF Inv, PreloadInv

(* A job begins to read its image.                                         *)
LEMMA ReadImageKeepsInv == ASSUME Inv, NEW w \in Workers, ReadImage(w) PROVE Inv'
<1>1. /\ UNCHANGED <<vars, plan, keys, deps, physicals, stage, next, phys, results, published,
                     entries, batch, pending>>
      /\ pc[w] = "run" /\ NeedsRead(running[w]) /\ LookUp(w, "png", Reads(running[w]))
  BY DEF ReadImage, InJob, Lists
<1>2. w \in Readers /\ w # Other /\ Other \in Readers /\ Workers \subseteq Readers
  BY MainIsTheClient
<1>3. /\ StoreInv' /\ file' = file /\ call'[w].op = "png" /\ call'[w].name = Reads(running[w])
      /\ \A u \in Readers \ {w} : call'[u] = call[u]
  BY <1>1, <1>2, LookUpKeepsStore DEF Inv, PreloadInv
<1>4. UNCHANGED <<pc, running>>
  BY <1>1 DEF vars
<1>5. CallsOK'
  <2>1. CallsOK
    BY DEF Inv, PreloadInv
  <2>2. \A j : NeedsRead(j)' = NeedsRead(j) /\ Reads(j)' = Reads(j)
    BY <1>1 DEF NeedsRead, Reads, IsDecode, KeyOf
  <2>3. NeedsRead(running[w])' /\ call'[w].name = Reads(running[w])'
    BY <1>1, <1>3, <1>4 DEF NeedsRead, Reads, IsDecode, KeyOf
  <2>4. ASSUME NEW v \in Workers, v # w, call'[v].place # "out"
        PROVE  /\ pc'[v] = "run" /\ NeedsRead(running[v])'
               /\ call'[v].op = "png" /\ call'[v].name = Reads(running[v])'
    BY <1>1, <1>2, <1>3, <1>4, <2>1, <2>4 DEF CallsOK, NeedsRead, Reads, IsDecode, KeyOf
  <2>5. call'[Other].place # "out" => pending' # << >>
    BY <1>1, <1>2, <1>3, <2>1 DEF CallsOK
  <2> QED
    BY <1>1, <1>3, <1>4, <2>3, <2>4, <2>5 DEF CallsOK
<1> QED
  BY <1>1, <1>3, <1>5, ReadingKeepsInv

(* A job has decoded its image.                                            *)
LEMMA KeepImageKeepsInv == ASSUME Inv, NEW w \in Workers, KeepImage(w) PROVE Inv'
<1>1. /\ UNCHANGED <<vars, plan, keys, deps, physicals, stage, next, phys, results, published,
                     entries, batch, pending>>
      /\ pc[w] = "run" /\ Keep(w)
  BY DEF KeepImage, InJob, Lists
<1>2. w \in Readers /\ w # Other /\ Other \in Readers /\ Workers \subseteq Readers
  BY MainIsTheClient
<1>3. /\ StoreInv' /\ file' = file /\ call'[w].op = call[w].op /\ call'[w].name = call[w].name
      /\ \A u \in Readers \ {w} : call'[u] = call[u]
  BY <1>1, <1>2, KeepKeepsStore DEF Inv, PreloadInv
<1>4. UNCHANGED <<pc, running>>
  BY <1>1 DEF vars
<1>5. call[w].place # "out"
  BY <1>1 DEF Keep
<1>6. CallsOK'
  <2>1. CallsOK
    BY DEF Inv, PreloadInv
  <2>2. ASSUME NEW v \in Workers, call'[v].place # "out"
        PROVE  /\ pc'[v] = "run" /\ NeedsRead(running[v])'
               /\ call'[v].op = "png" /\ call'[v].name = Reads(running[v])'
    <3>1. call[v].place # "out" /\ call'[v].op = call[v].op /\ call'[v].name = call[v].name
      BY <1>2, <1>3, <1>5, <2>2
    <3> QED
      BY <1>1, <1>4, <2>1, <3>1 DEF CallsOK, NeedsRead, Reads, IsDecode, KeyOf
  <2>3. call'[Other].place # "out" => pending' # << >>
    BY <1>1, <1>2, <1>3, <2>1 DEF CallsOK
  <2> QED
    BY <2>2, <2>3 DEF CallsOK
<1> QED
  BY <1>1, <1>3, <1>6, ReadingKeepsInv

(* The end of any job: the store and the pool, and Main's view of it.      *)
LEMMA EndOfJob ==
  ASSUME Inv, NEW w \in Workers, InJob(w), Forget(w), StoreRests, FinishJob(w)
  PROVE  LET j == running[w]
         IN  /\ StoreInv' /\ PoolInv' /\ JobsOK' /\ CallsOK' /\ UNCHANGED <<file, issued>>
             /\ j \in 1 .. issued /\ runs[j] = 0 /\ runs'[j] = 1
             /\ \A i \in 1 .. issued : i # j => runs'[i] = runs[i]
<1> DEFINE j == running[w]
<1>1. /\ PoolInv' /\ issued' = issued /\ pc'[Main] = pc[Main]
      /\ j \in 1 .. issued /\ runs[j] = 0 /\ runs'[j] = 1
      /\ \A i \in 1 .. issued : i # j => runs'[i] = runs[i]
      /\ pc[w] = "run" /\ pc'[w] = "sub"
      /\ \A v \in Workers \ {w} : pc'[v] = pc[v] /\ running'[v] = running[v]
  BY JobEnds DEF Inv
<1>2. w \in Readers /\ w # Other /\ Other \in Readers /\ Workers \subseteq Readers
  BY MainIsTheClient
<1>3. /\ StoreInv' /\ file' = file /\ call'[w].place = "out"
      /\ \A u \in Readers \ {w} : call'[u] = call[u]
  BY <1>2, StoreRestsWell DEF Inv, PreloadInv
<1>4. UNCHANGED <<plan, keys, deps, physicals, stage, next, batch, pending>>
  BY DEF InJob, Lists
<1>5. JobsOK'
  <2>1. JobsOK
    BY DEF Inv, PreloadInv
  <2> HIDE DEF j
  <2>2. \A i \in 1 .. issued : runs[i] = 1 => runs'[i] = 1
    BY <1>1
  <2>3. AllDone => AllDone'
    BY <1>1, <2>2 DEF AllDone
  <2>4. issued > Len(physicals) /\ DecodesDone => DecodesDone'
    BY <1>1, <1>4, <2>2, Numbers DEF DecodesDone
  <2>5. stage = "compose" => issued >= Len(physicals)
    BY <2>1, Numbers DEF JobsOK
  <2>6. stage = "compose" /\ DecodesDone => DecodesDone'
    BY <1>1, <1>4, <2>2, <2>5, Numbers DEF DecodesDone
  <2>7. stage \in {"cleanup", "end"} => \A i \in 1 .. issued : i <= Len(physicals) \/ runs'[i] = 1
    BY <2>1, <2>2 DEF JobsOK
  <2> QED
    BY <1>1, <1>4, <2>1, <2>3, <2>4, <2>6, <2>7 DEF JobsOK
<1>6. CallsOK'
  <2>1. CallsOK
    BY DEF Inv, PreloadInv
  <2>2. ASSUME NEW v \in Workers, call'[v].place # "out"
        PROVE  /\ pc'[v] = "run" /\ NeedsRead(running[v])'
               /\ call'[v].op = "png" /\ call'[v].name = Reads(running[v])'
    <3>1. v # w /\ call'[v] = call[v] /\ pc'[v] = pc[v] /\ running'[v] = running[v]
      BY <1>1, <1>2, <1>3, <2>2
    <3> QED
      BY <1>4, <2>1, <2>2, <3>1 DEF CallsOK, NeedsRead, Reads, IsDecode, KeyOf
  <2>3. call'[Other].place # "out" => pending' # << >>
    BY <1>2, <1>3, <1>4, <2>1 DEF CallsOK
  <2> QED
    BY <2>2, <2>3 DEF CallsOK
<1> QED
  BY <1>1, <1>3, <1>5, <1>6

(* The end of a job that leaves the entries as they are.                   *)
LEMMA QuietEnd ==
  ASSUME Inv, NEW w \in Workers, InJob(w), Forget(w), StoreRests, FinishJob(w),
         UNCHANGED <<results, published, entries>>, ProductsOK'
  PROVE  Inv'
<1>1. /\ StoreInv' /\ PoolInv' /\ JobsOK' /\ CallsOK' /\ UNCHANGED <<file, issued>>
  BY EndOfJob
<1>2. UNCHANGED <<plan, keys, deps, physicals, stage, next, batch, pending>>
  BY DEF InJob, Lists
<1>3. Begun' => Begun
  BY <1>1, <1>2 DEF Begun
<1>4. ListsOK'
  BY <1>1, <1>2, <1>3, ListsStay DEF Inv, PreloadInv
<1>5. EntriesOK' /\ BatchOK'
  BY <1>2 DEF Inv, PreloadInv, EntriesOK, AwaitedOK, BatchOK, Succeeded
<1> QED
  BY <1>1, <1>4, <1>5 DEF Inv, PreloadInv

(* A decoding job leaves its record where the composing jobs find it.      *)
LEMMA EndDecodeKeepsInv == ASSUME Inv, NEW w \in Workers, EndDecode(w) PROVE Inv'
<1> DEFINE j == running[w]
<1>1. /\ InJob(w) /\ Forget(w) /\ StoreRests /\ FinishJob(w) /\ UNCHANGED <<results, published, entries>>
      /\ j <= Len(physicals) /\ call[w].place = "done"
      /\ phys' = Put(phys, physicals[j], call[w].got)
  BY DEF EndDecode, IsDecode, Reads
<1>2. /\ UNCHANGED <<file, issued>>
      /\ j \in 1 .. issued /\ runs[j] = 0 /\ runs'[j] = 1
      /\ \A i \in 1 .. issued : i # j => runs'[i] = runs[i]
  BY <1>1, EndOfJob
<1>3. UNCHANGED <<plan, keys, deps, physicals, stage, next, batch, pending>>
  BY <1>1 DEF InJob, Lists
<1>4. ProductsOK /\ CallsOK /\ issued \in Nat /\ Len(physicals) \in Nat /\ DOMAIN keys \subseteq Nat \ {0}
  BY Numbers DEF Inv, PreloadInv
<1>5. j \in 1 .. Len(physicals) /\ physicals[j] \in PhysicalNames
  BY <1>1, <1>2, <1>4 DEF PhysicalNames
<1>6. call[w].got # Nothing <=> DecodesRaw(file, physicals[j])
  <2>1. call[w].op = "png" /\ call[w].name = physicals[j]
    BY <1>1, <1>4 DEF CallsOK, Reads, IsDecode
  <2>2. Reader(w)
    BY MainIsTheClient DEF Inv, PreloadInv, StoreInv, ReadersOK
  <2> QED
    BY <1>1, <2>1, <2>2 DEF Reader
<1> HIDE DEF j
<1>7. /\ DOMAIN phys' = DOMAIN phys \cup {physicals[j]}
      /\ \A n \in DOMAIN phys' : phys'[n] = IF n = physicals[j] THEN call[w].got ELSE phys[n]
  BY <1>1 DEF Put
<1>8. \A i \in DOMAIN keys : HasRun(i)' <=> HasRun(i)
  <2> SUFFICES ASSUME NEW i \in DOMAIN keys PROVE HasRun(i)' <=> HasRun(i)
    OBVIOUS
  <2>1. Len(physicals) + i # j /\ Len(physicals) + i \in Nat \ {0}
    BY <1>4, <1>5
  <2>2. Len(physicals) + i <= issued => runs'[Len(physicals) + i] = runs[Len(physicals) + i]
    BY <1>2, <1>4, <2>1
  <2> QED
    BY <1>2, <1>3, <2>2 DEF HasRun
<1>9. \A i : Product(i)' = Product(i)
  BY <1>2, <1>3 DEF Product, Bulk, Treated, Source
<1>10. PhysicalNames' = PhysicalNames
  BY <1>3 DEF PhysicalNames
<1>11. \A i \in 1 .. Len(physicals) : i <= issued /\ runs'[i] = 1 => physicals[i] \in DOMAIN phys'
  <2> SUFFICES ASSUME NEW i \in 1 .. Len(physicals), i <= issued, runs'[i] = 1 PROVE physicals[i] \in DOMAIN phys'
    OBVIOUS
  <2>1. i \in 1 .. issued
    BY <1>4
  <2>2. i # j => physicals[i] \in DOMAIN phys
    BY <1>2, <1>4, <2>1 DEF ProductsOK
  <2> QED
    BY <1>7, <2>2
<1>12. /\ DOMAIN phys' \subseteq PhysicalNames
       /\ \A n \in DOMAIN phys' : phys'[n] # Nothing <=> DecodesRaw(file, n)
  <2>1. DOMAIN phys \subseteq PhysicalNames /\ \A n \in DOMAIN phys : phys[n] # Nothing <=> DecodesRaw(file, n)
    BY <1>4 DEF ProductsOK
  <2> QED
    BY <1>5, <1>6, <1>7, <2>1
<1>13. Begun' <=> Begun
  BY <1>2, <1>3 DEF Begun
<1>14. ProductsOK'
  BY <1>1, <1>2, <1>3, <1>4, <1>8, <1>9, <1>10, <1>11, <1>12, <1>13 DEF ProductsOK
<1> QED
  BY <1>1, <1>14, QuietEnd

(* A composing job ends only while Main is still waiting for it.           *)
LEMMA ComposingIsAwaited ==
  ASSUME Inv, NEW j \in 1 .. issued, j > Len(physicals), runs[j] = 0
  PROVE  /\ stage \in {"compose", "upload", "rollback"} /\ (stage = "upload" => next = 1)
         /\ DecodesDone /\ Begun
         /\ j - Len(physicals) \in DOMAIN keys /\ Len(physicals) + (j - Len(physicals)) = j
<1>1. JobsOK /\ issued \in Nat /\ Len(physicals) \in Nat /\ Len(keys) \in Nat /\ next \in Nat
      /\ DOMAIN keys = 1 .. Len(keys)
  BY Numbers DEF Inv, PreloadInv
<1>2. ~AllDone /\ issued > Len(physicals)
  BY <1>1 DEF AllDone
<1>3. stage \notin {"resolve", "decode", "cleanup", "end"}
  BY <1>1, <1>2 DEF JobsOK
<1>4. pc[Main] # "out" \/ stage = "compose"
  BY <1>1, <1>2, <1>3 DEF JobsOK
<1>5. issued <= Len(physicals) + Len(keys) /\ DecodesDone
  BY <1>1, <1>2 DEF JobsOK
<1>6. j - Len(physicals) \in DOMAIN keys /\ Len(physicals) + (j - Len(physicals)) = j
  BY <1>1, <1>5
<1> QED
  BY <1>1, <1>3, <1>4, <1>5, <1>6 DEF JobsOK, Begun

(* A job that throws has nothing to leave behind.                          *)
LEMMA JobThrowsKeepsInv == ASSUME Inv, NEW w \in Workers, JobThrows(w) PROVE Inv'
<1> DEFINE j == running[w]
<1>1. /\ InJob(w) /\ Forget(w) /\ StoreRests /\ FinishJob(w) /\ UNCHANGED <<phys, results, published, entries>>
      /\ call[w].place = "thrown"
  BY DEF JobThrows
<1>2. /\ UNCHANGED <<file, issued>>
      /\ j \in 1 .. issued /\ runs[j] = 0
      /\ \A i \in 1 .. issued : i # j => runs'[i] = runs[i]
  BY <1>1, EndOfJob
<1>3. UNCHANGED <<plan, keys, deps, physicals, stage, next, batch, pending>>
  BY <1>1 DEF InJob, Lists
<1>4. ProductsOK /\ ListsOK /\ issued \in Nat /\ Len(physicals) \in Nat
  BY Numbers DEF Inv, PreloadInv
<1>5. ~file.opens
  BY <1>1, MainIsTheClient DEF Inv, PreloadInv, StoreInv, ReadersOK, Reader
<1>6. Begun' <=> Begun
  BY <1>2, <1>3 DEF Begun
<1>7. Begun
  BY <1>2, <1>4 DEF Begun
<1>8. physicals = << >>
  BY <1>4, <1>5, <1>7 DEF ListsOK
<1>9. ProductsOK'
  <2>1. PhysicalNames' = PhysicalNames
    BY <1>3 DEF PhysicalNames
  <2>2. ~ \E i : i \in 1 .. Len(physicals)
    BY <1>8
  <2> QED
    BY <1>1, <1>2, <1>3, <1>4, <1>5, <1>7, <2>1, <2>2 DEF ProductsOK
<1> QED
  BY <1>1, <1>9, QuietEnd

(* What is resolved to no record does not decode.                          *)
LEMMA NobodyDoesNotDecode == ASSUME StoreInv PROVE ~DecodesRaw(file, NoName)
<1>1. NoName \notin RecordNames(file)
  BY DEF StoreInv, WellFormed, RecordNames
<1> QED
  BY <1>1, UnreadRecordDoesNotDecode

(* A composing job makes what its key calls for: the image of the record   *)
(* it has read itself, or of the record a decoding job has left for it.    *)
LEMMA WhatAJobComposes ==
  ASSUME Inv, NEW w \in Workers, pc[w] = "run", ~IsDecode(running[w]),
         call[w].place = (IF NeedsRead(running[w]) THEN "done" ELSE "out")
  PROVE  LET i == KeyOf(running[w])
             object == IF keys[i].kind = "raw" THEN call[w].got ELSE At(phys, deps[i].record)
         IN  file.opens /\ i \in DOMAIN keys /\ Bulk(keys[i], deps[i], object) = Product(i)
<1> DEFINE j == running[w]
           i == KeyOf(j)
           object == IF keys[i].kind = "raw" THEN call[w].got ELSE At(phys, deps[i].record)
<1>1. j \in 1 .. issued /\ runs[j] = 0 /\ j > Len(physicals)
  BY InHand, Numbers DEF Inv, IsDecode
<1>2. DecodesDone /\ Begun /\ i \in DOMAIN keys /\ issued >= Len(physicals)
  BY <1>1, ComposingIsAwaited, Numbers DEF KeyOf
<1>3. ListsOK /\ ProductsOK /\ CallsOK /\ StoreInv
  BY DEF Inv, PreloadInv
<1>4. file.opens /\ (object # Nothing <=> DecodesRaw(file, Source(i)))
  <2>1. CASE keys[i].kind = "raw"
    <3>1. call[w].place = "done" /\ call[w].op = "png" /\ call[w].name = keys[i].name
      BY <1>3, <2>1 DEF CallsOK, NeedsRead, Reads
    <3>2. Reader(w)
      BY <1>3, MainIsTheClient DEF StoreInv, ReadersOK
    <3> QED
      BY <2>1, <3>1, <3>2 DEF Reader, Source
  <2>2. CASE keys[i].kind # "raw"
    <3>1. file.opens /\ deps[i].record \in PhysicalNames \cup {NoName}
      BY <1>2, <1>3, <2>2 DEF ListsOK
    <3>2. \A n \in PhysicalNames : n \in DOMAIN phys
      BY <1>2, <1>3, Numbers DEF ProductsOK, PhysicalNames, DecodesDone
    <3>3. NoName \notin DOMAIN phys
      BY <1>3 DEF ProductsOK, ListsOK
    <3>4. At(phys, deps[i].record) # Nothing <=> DecodesRaw(file, deps[i].record)
      BY <1>3, <3>1, <3>2, <3>3, NobodyDoesNotDecode DEF ProductsOK, At, Nothing
    <3> QED
      BY <2>2, <3>1, <3>4 DEF Source
  <2> QED
    BY <2>1, <2>2
<1> HIDE DEF i, object
<1>5. Bulk(keys[i], deps[i], object) = Product(i)
  BY <1>4 DEF Product, Bulk, Nothing
<1> QED
  BY <1>2, <1>4, <1>5 DEF i, object, j

(* Publishing replaces nothing that is there already.                      *)
LEMMA PublishFacts ==
  ASSUME EntriesOK, NEW k \in DOMAIN entries, NEW pixels, Publish(k, pixels)
  PROVE  /\ DOMAIN entries' = DOMAIN entries
         /\ \A m \in DOMAIN entries : /\ entries[m] # NoEntry => entries'[m] = entries[m]
                                      /\ m # k => entries'[m] = entries[m]
BY DEF Publish

(* A composing job ends: its result is set and its image published, while  *)
(* Main waits.                                                             *)
LEMMA EndComposeKeepsInv == ASSUME Inv, NEW w \in Workers, EndCompose(w) PROVE Inv'
<1> DEFINE object(i) == IF keys[i].kind = "raw" THEN call[w].got ELSE At(phys, deps[i].record)
<1>0. PICK j, i, pixels : j = running[w] /\ i = KeyOf(j) /\ pixels = Bulk(keys[i], deps[i], object(i))
  OBVIOUS
<1>1. /\ InJob(w) /\ Forget(w) /\ StoreRests /\ FinishJob(w) /\ UNCHANGED phys
      /\ ~IsDecode(j) /\ call[w].place = (IF NeedsRead(j) THEN "done" ELSE "out")
      /\ results' = [results EXCEPT ![i] = [key |-> keys[i], pixels |-> pixels]]
      /\ IF pixels = NoPixels THEN UNCHANGED <<entries, published>>
         ELSE Publish(keys[i], pixels) /\ published' = published \cup {i}
  BY <1>0 DEF EndCompose
<1>2. file.opens /\ i \in DOMAIN keys /\ pixels = Product(i)
  BY <1>0, <1>1, WhatAJobComposes DEF InJob
<1> HIDE DEF object
<1>3. /\ StoreInv' /\ PoolInv' /\ JobsOK' /\ CallsOK' /\ UNCHANGED <<file, issued>>
      /\ j \in 1 .. issued /\ runs[j] = 0 /\ runs'[j] = 1
      /\ \A m \in 1 .. issued : m # j => runs'[m] = runs[m]
  BY <1>0, <1>1, EndOfJob
<1>4. UNCHANGED <<plan, keys, deps, physicals, stage, next, batch, pending>>
  BY <1>1 DEF InJob, Lists
<1>5. /\ issued \in Nat /\ Len(physicals) \in Nat /\ Len(keys) \in Nat /\ DOMAIN keys = 1 .. Len(keys)
      /\ next \in Nat
  BY Numbers
<1>6. j > Len(physicals)
  BY <1>1, <1>3, <1>5 DEF IsDecode
<1>7. /\ stage \in {"compose", "upload", "rollback"} /\ (stage = "upload" => next = 1)
      /\ DecodesDone /\ Begun /\ Len(physicals) + i = j
  BY <1>0, <1>3, <1>6, ComposingIsAwaited DEF KeyOf
<1>8. ListsOK /\ ProductsOK /\ EntriesOK /\ BatchOK
  BY DEF Inv, PreloadInv
<1>9. Begun' <=> Begun
  BY <1>3, <1>4 DEF Begun
<1>10. /\ DOMAIN results = DOMAIN keys /\ DOMAIN results' = DOMAIN results
       /\ results'[i] = [key |-> keys[i], pixels |-> Product(i)]
       /\ \A m \in DOMAIN keys : m # i => results'[m] = results[m]
  BY <1>1, <1>2, <1>7, <1>8 DEF ListsOK
<1>11. ListsOK'
  BY <1>3, <1>4, <1>8, <1>9, <1>10, ListsStay
<1>12. HasRun(i)' /\ ~HasRun(i)
  BY <1>3, <1>4, <1>7 DEF HasRun
<1>13. \A m \in DOMAIN keys : m # i => (HasRun(m)' <=> HasRun(m))
  <2> SUFFICES ASSUME NEW m \in DOMAIN keys, m # i PROVE HasRun(m)' <=> HasRun(m)
    OBVIOUS
  <2>1. Len(physicals) + m # j /\ Len(physicals) + m \in Nat \ {0}
    BY <1>2, <1>5, <1>7
  <2>2. Len(physicals) + m <= issued => runs'[Len(physicals) + m] = runs[Len(physicals) + m]
    BY <1>3, <1>5, <2>1
  <2> QED
    BY <1>3, <1>4, <2>2 DEF HasRun
<1>14. \A m : Product(m)' = Product(m)
  BY <1>3, <1>4 DEF Product, Bulk, Treated, Source
<1>15. ProductsOK'
  <2>1. PhysicalNames' = PhysicalNames
    BY <1>4 DEF PhysicalNames
  <2>2. ASSUME NEW m \in 1 .. Len(physicals), m <= issued, runs'[m] = 1 PROVE physicals[m] \in DOMAIN phys
    <3>1. m # j /\ m \in 1 .. issued
      BY <1>5, <1>6, <2>2
    <3> QED
      BY <1>3, <1>8, <2>2, <3>1 DEF ProductsOK
  <2>3. \A m \in DOMAIN keys :
          results'[m] = IF HasRun(m)' /\ file.opens THEN [key |-> keys[m], pixels |-> Product(m)] ELSE NoResult
    BY <1>2, <1>7, <1>8, <1>10, <1>12, <1>13 DEF ProductsOK
  <2>4. published' = {m \in DOMAIN keys : HasRun(m)' /\ file.opens /\ Product(m) # NoPixels}
    <3>1. published = {m \in DOMAIN keys : HasRun(m) /\ file.opens /\ Product(m) # NoPixels}
      BY <1>8 DEF ProductsOK
    <3>2. published' = IF Product(i) = NoPixels THEN published ELSE published \cup {i}
      BY <1>1, <1>2
    <3> QED
      BY <1>2, <1>12, <1>13, <3>1, <3>2
  <2> QED
    BY <1>1, <1>3, <1>4, <1>8, <1>14, <2>1, <2>2, <2>3, <2>4 DEF ProductsOK
<1>16. keys[i] \in DOMAIN entries
  BY <1>2, <1>8 DEF ListsOK, EntriesOK
<1>17. /\ DOMAIN entries' = DOMAIN entries /\ published \subseteq published'
       /\ \A m \in DOMAIN entries : /\ entries[m] # NoEntry => entries'[m] = entries[m]
                                    /\ entries'[m] # entries[m] => m = keys[i] /\ i \in published'
  BY <1>1, <1>8, <1>16, PublishFacts
<1>18. EntriesOK'
  <2>1. AwaitedOK'
    BY <1>4, <1>8, <1>17, AwaitedStays DEF Decoding, NoEntry
  <2>2. ASSUME NEW k \in DOMAIN entries', entries'[k].by = "bulk"
        PROVE  \E m \in published' : keys[m] = k /\ (stage = "upload" => m >= next)
    <3>1. CASE entries'[k] = entries[k]
      BY <1>8, <1>17, <2>2, <3>1 DEF EntriesOK
    <3>2. CASE entries'[k] # entries[k]
      <4>1. k = keys[i] /\ i \in published'
        BY <1>17, <3>2
      <4>2. stage = "upload" => i >= next
        BY <1>2, <1>5, <1>7
      <4> QED
        BY <4>1, <4>2
    <3> QED
      BY <3>1, <3>2
  <2> QED
    BY <1>4, <1>7, <1>8, <1>17, <2>1, <2>2 DEF EntriesOK
<1>19. BatchOK'
  <2>1. stage = "upload" => ~ \E m \in DOMAIN keys : m < next
    BY <1>5, <1>7
  <2> QED
    BY <1>4, <1>7, <1>8, <2>1 DEF BatchOK
<1> QED
  BY <1>3, <1>11, <1>15, <1>18, <1>19 DEF Inv, PreloadInv

(* Every step of a job keeps the invariant.                                *)
LEMMA JobStepKeepsInv == ASSUME Inv, NEW w \in Workers, JobStep(w) PROVE Inv'
BY ReadImageKeepsInv, KeepImageKeepsInv, EndDecodeKeepsInv, EndComposeKeepsInv, JobThrowsKeepsInv DEF JobStep

(* The other worker reads: of the preloader's own there is nothing it      *)
(* touches.                                                                *)
LEMMA OtherCalls ==
  ASSUME CallsOK, UNCHANGED <<pc, running, keys, physicals>>,
         \A u \in Readers \ {Other} : call'[u] = call[u],
         call'[Other].place # "out" => pending' # << >>
  PROVE  CallsOK'
BY MainIsTheClient DEF CallsOK, NeedsRead, Reads, IsDecode, KeyOf

(* The other worker begins to read.                                        *)
LEMMA OtherReadsKeepsInv == ASSUME Inv, OtherReads PROVE Inv'
<1> DEFINE c == Head(pending)
<1>1. /\ UNCHANGED <<vars, plan, keys, deps, physicals, stage, next, phys, results, published,
                     entries, batch, pending>>
      /\ pending # << >>
      /\ CASE c.op = "raw" -> LookUp(Other, "raw", c.key.name)
           [] c.key.kind = "raw" -> LookUp(Other, "png", c.key.name)
           [] OTHER -> DecodeSprite(Other, c.key.name)
  BY Zenon DEF OtherReads, OtherOnly, Lists
<1>2. \/ LookUp(Other, "raw", c.key.name)
      \/ LookUp(Other, "png", c.key.name)
      \/ DecodeSprite(Other, c.key.name)
  BY <1>1
<1> HIDE DEF c
<1>3. StoreInv' /\ file' = file /\ \A u \in Readers \ {Other} : call'[u] = call[u]
  BY <1>2, LookUpKeepsStore, DecodeSpriteKeepsStore, MainIsTheClient DEF Inv, PreloadInv
<1>4. UNCHANGED <<pc, running>>
  BY <1>1 DEF vars
<1>5. CallsOK'
  BY <1>1, <1>3, <1>4, OtherCalls DEF Inv, PreloadInv
<1> QED
  BY <1>1, <1>3, <1>5, ReadingKeepsInv

(* The other worker has decoded.                                           *)
LEMMA OtherKeepsKeepsInv == ASSUME Inv, OtherKeeps PROVE Inv'
<1>1. /\ UNCHANGED <<vars, plan, keys, deps, physicals, stage, next, phys, results, published,
                     entries, batch, pending>>
      /\ Keep(Other)
  BY DEF OtherKeeps, OtherOnly, Lists
<1>2. StoreInv' /\ file' = file /\ \A u \in Readers \ {Other} : call'[u] = call[u]
  BY <1>1, KeepKeepsStore, MainIsTheClient DEF Inv, PreloadInv
<1>3. UNCHANGED <<pc, running>>
  BY <1>1 DEF vars
<1>4. pending # << >>
  BY <1>1 DEF Keep, Inv, PreloadInv, CallsOK
<1>5. CallsOK'
  BY <1>1, <1>2, <1>3, <1>4, OtherCalls DEF Inv, PreloadInv
<1> QED
  BY <1>1, <1>2, <1>5, ReadingKeepsInv

(* What the other worker delivers goes to an entry that was waiting for    *)
(* it, and for nothing else.                                               *)
LEMMA DeliverFacts ==
  ASSUME Inv, Deliver
  PROVE  /\ pending # << >> /\ DOMAIN entries' = DOMAIN entries
         /\ \A k \in DOMAIN entries :
              \/ entries'[k] = entries[k]
              \/ /\ entries[k] = Decoding /\ entries'[k].by \in {"failed", "worker"}
                 /\ pending[1].op = "png" /\ pending[1].key = k
<1>1. pending # << >> /\ EntriesOK
  BY DEF Deliver, Inv, PreloadInv, CallsOK
<1>2. Head(pending) = pending[1] /\ 1 \in DOMAIN pending /\ pending[1].op \in {"raw", "png"}
  <2> DEFINE Calls == [op : {"raw", "png"}, key : Request]
  <2>1. pending \in Seq(Calls)
    BY <1>1 DEF EntriesOK, AwaitedOK
  <2>2. \A c \in Calls : c.op \in {"raw", "png"}
    OBVIOUS
  <2> HIDE DEF Calls
  <2> QED
    BY <1>1, <2>1, <2>2
<1>3. CASE pending[1].op = "raw"
  BY <1>1, <1>2, <1>3 DEF Deliver
<1>4. CASE pending[1].op # "raw"
  <2> DEFINE k == pending[1].key
             pixels == IF call[Other].place = "thrown" THEN NoPixels ELSE Single(k)
             x == IF pixels = NoPixels THEN Failed ELSE [by |-> "worker", pixels |-> pixels]
  <2>1. entries' = [entries EXCEPT ![k] = x]
    BY <1>2, <1>4 DEF Deliver
  <2>2. x.by \in {"failed", "worker"}
    <3> HIDE DEF pixels
    <3> QED
      BY DEF Failed
  <2>3. k \in DOMAIN entries /\ entries[k] = Decoding
    BY <1>1, <1>2, <1>4 DEF EntriesOK, AwaitedOK
  <2> HIDE DEF x
  <2> QED
    BY <1>1, <1>2, <1>4, <2>1, <2>2, <2>3
<1> QED
  BY <1>3, <1>4

(* The other worker delivers, and its other calls stay awaited.            *)
LEMMA DeliverKeepsInv == ASSUME Inv, Deliver PROVE Inv'
<1>1. /\ UNCHANGED <<vars, plan, keys, deps, physicals, stage, next, phys, results, published, batch>>
      /\ pending' = Tail(pending) /\ Forget(Other) /\ StoreRests
  BY DEF Deliver, OtherOnly, Lists
<1>2. /\ StoreInv' /\ file' = file /\ call'[Other].place = "out"
      /\ \A u \in Readers \ {Other} : call'[u] = call[u]
  BY <1>1, StoreRestsWell, MainIsTheClient DEF Inv, PreloadInv
<1>3. PoolInv' /\ UNCHANGED <<pc, issued, runs, running>>
  BY <1>1, PoolStays DEF Inv, vars
<1>4. ListsOK /\ JobsOK /\ CallsOK /\ ProductsOK /\ EntriesOK /\ BatchOK
  BY DEF Inv, PreloadInv
<1>5. Begun' => Begun
  BY <1>1, <1>3 DEF Begun
<1>6. ListsOK'
  BY <1>1, <1>2, <1>4, <1>5, ListsStay
<1>7. JobsOK'
  BY <1>1, <1>3, <1>4 DEF JobsOK, DecodesDone, AllDone
<1>8. CallsOK'
  BY <1>1, <1>2, <1>3, <1>4, OtherCalls
<1>9. ProductsOK'
  <2>1. UNCHANGED <<file, phys, physicals, results, keys, deps, published, runs, issued>>
    BY <1>1, <1>2, <1>3
  <2>2. issued \in Nat /\ (issued' = issued \/ (issued' = issued + 1 /\ runs[issued + 1] = 0))
    BY <2>1, Numbers
  <2> QED
    BY <1>4, <1>5, <2>1, <2>2, ProductsStay
<1>10. /\ pending # << >> /\ DOMAIN entries' = DOMAIN entries
       /\ \A k \in DOMAIN entries :
            \/ entries'[k] = entries[k]
            \/ /\ entries[k] = Decoding /\ entries'[k].by \in {"failed", "worker"}
               /\ pending[1].op = "png" /\ pending[1].key = k
  BY DeliverFacts
<1>11. AwaitedOK'
  <2> DEFINE Calls == [op : {"raw", "png"}, key : Request]
  <2>1. pending \in Seq(Calls)
    BY <1>4 DEF EntriesOK, AwaitedOK
  <2> HIDE DEF Calls
  <2>2. /\ pending' \in Seq(Calls) /\ DOMAIN pending' = 1 .. Len(pending) - 1 /\ Len(pending) \in Nat
        /\ DOMAIN pending = 1 .. Len(pending) /\ \A i \in 1 .. Len(pending) - 1 : pending'[i] = pending[i + 1]
    BY <1>1, <1>10, <2>1
  <2>3. \A i \in DOMAIN pending' : i + 1 \in DOMAIN pending /\ pending'[i] = pending[i + 1] /\ i + 1 # 1 /\ i \in Nat
    BY <2>2
  <2>4. 1 \in DOMAIN pending
    BY <1>10, <2>1
  <2>5. \A i, j \in DOMAIN pending :
          pending[i].op = "png" =>
            /\ pending[i].key \in DOMAIN entries /\ entries[pending[i].key] = Decoding
            /\ pending[j].op = "png" /\ pending[i].key = pending[j].key => i = j
    BY <1>4 DEF EntriesOK, AwaitedOK
  <2>6. ASSUME NEW i \in DOMAIN pending', NEW j \in DOMAIN pending', pending'[i].op = "png"
        PROVE  /\ pending'[i].key \in DOMAIN entries' /\ entries'[pending'[i].key] = Decoding
               /\ pending'[j].op = "png" /\ pending'[i].key = pending'[j].key => i = j
    <3>1. /\ i + 1 \in DOMAIN pending /\ pending'[i] = pending[i + 1] /\ i + 1 # 1 /\ i \in Nat
          /\ j + 1 \in DOMAIN pending /\ pending'[j] = pending[j + 1] /\ j \in Nat
      BY <2>3, <2>6
    <3>2. pending'[i].key \in DOMAIN entries' /\ entries[pending'[i].key] = Decoding
      BY <1>10, <2>5, <2>6, <3>1
    <3>3. ~(pending[1].op = "png" /\ pending[1].key = pending'[i].key)
      BY <2>4, <2>5, <2>6, <3>1
    <3>4. entries'[pending'[i].key] = Decoding
      BY <1>10, <3>2, <3>3
    <3>5. pending'[j].op = "png" /\ pending'[i].key = pending'[j].key => i + 1 = j + 1
      BY <2>5, <2>6, <3>1
    <3> QED
      BY <3>1, <3>2, <3>4, <3>5
  <2> QED
    BY <2>2, <2>6 DEF AwaitedOK, Calls
<1>12. EntriesOK'
  BY <1>1, <1>4, <1>10, <1>11 DEF EntriesOK
<1>13. BatchOK'
  BY <1>1, <1>4 DEF BatchOK, Succeeded
<1> QED
  BY <1>2, <1>3, <1>6, <1>7, <1>8, <1>9, <1>12, <1>13 DEF Inv, PreloadInv

(* The invariant holds when the call begins.                               *)
LEMMA InitHasInv == PreloadInit => Inv
<1> SUFFICES ASSUME PreloadInit PROVE Inv
  OBVIOUS
<1>1. PoolInv
  BY InitInv DEF PreloadInit
<1>2. /\ plan \in Plans /\ StoreInit(plan.file) /\ keys = << >> /\ physicals = << >>
      /\ stage = "resolve" /\ next = 1 /\ phys = << >> /\ published = {} /\ entries = plan.entries
      /\ batch = [items |-> {}, state |-> "open"] /\ pending = plan.calls
      /\ issued = 0 /\ pc[Main] = "out" /\ ~Begun
  BY MainIsTheClient DEF PreloadInit, Init, Begun
<1>3. WellFormed(plan.file) /\ file = plan.file
  BY <1>2, PlansAssumption DEF StoreInit
<1>4. StoreInv
  <2>1. \A t \in Readers : call[t] = NoCall
    BY <1>2 DEF StoreInit
  <2>2. ReadersOK
    BY <1>2, <2>1 DEF StoreInit, ReadersOK, Reader, NoCall
  <2>3. CachesOK
    BY <1>2 DEF StoreInit, CachesOK
  <2>4. AccountsOK
    BY <1>2, <1>3 DEF StoreInit, AccountsOK, At, Hits
  <2>5. UsageOK
    <3>1. CachesOK => \A n : Cardinality(Ways(n)) \in Nat
      BY WaysAreFew
    <3>2. usage = [n \in RecordNames(file) |-> [hits |-> 0, loads |-> 0, cached |-> 0]]
      BY <1>2, <1>3 DEF StoreInit
    <3> QED
      BY <2>3, <3>1, <3>2 DEF UsageOK
  <2> QED
    BY <1>3, <2>2, <2>3, <2>4, <2>5 DEF StoreInv
<1>5. PhysicalNames = {}
  BY <1>2 DEF PhysicalNames
<1>6. ListsOK
  BY <1>2, <1>3, <1>5 DEF ListsOK
<1>7. JobsOK
  BY <1>2 DEF JobsOK
<1>8. CallsOK
  BY <1>2, MainIsTheClient DEF StoreInit, CallsOK, NoCall
<1>9. ProductsOK
  BY <1>2 DEF ProductsOK
<1>10. EntriesOK
  BY <1>2, PlansAssumption DEF EntriesOK, AwaitedOK
<1>11. BatchOK
  BY <1>2 DEF BatchOK
<1> QED
  BY <1>1, <1>4, <1>6, <1>7, <1>8, <1>9, <1>10, <1>11 DEF Inv, PreloadInv

(* Every step, of any thread, keeps the invariant.                         *)
LEMMA PreloadNextKeepsInv == Inv /\ [PreloadNext]_preloadVars => Inv'
<1> SUFFICES ASSUME Inv, [PreloadNext]_preloadVars PROVE Inv'
  OBVIOUS
<1>1. CASE UNCHANGED preloadVars
  <2>1. UNCHANGED <<vars, storeVars, plan, keys, deps, physicals, stage, next, phys, results, published,
                     entries, batch, pending>>
    BY <1>1 DEF preloadVars, ownVars
  <2>2. StoreInv'
    BY <2>1, StoreStays DEF Inv, PreloadInv
  <2>3. UNCHANGED <<file, call, pc, running>>
    BY <2>1 DEF storeVars, vars
  <2>4. CallsOK'
    BY <2>1, <2>3, CallsStay DEF Inv, PreloadInv
  <2> QED
    BY <2>1, <2>2, <2>3, <2>4, ReadingKeepsInv
<1>2. CASE OtherStep
  BY <1>2, OtherReadsKeepsInv, OtherKeepsKeepsInv, DeliverKeepsInv DEF OtherStep
<1>3. CASE MainThread
  BY <1>3, MainStepKeepsInv, PoolStepKeepsInv, MainIsTheClient DEF MainThread
<1>4. CASE \E w \in Workers : WorkerThread(w)
  BY <1>4, JobStepKeepsInv, PoolStepKeepsInv, MainIsTheClient DEF WorkerThread
<1>5. CASE \E t \in Threads : PoolWakeup(t)
  BY <1>5, PoolStepKeepsInv
<1> QED
  BY <1>1, <1>2, <1>3, <1>4, <1>5 DEF PreloadNext

(* A record is found by its name.                                          *)
LEMMA RecordIsFound ==
  ASSUME WellFormed(file), NEW r \in file.records
  PROVE  RecordNamed(file, r.name) = r /\ r.name # NoName /\ r.name \in RecordNames(file)
<1>1. \A q \in file.records : q.name = r.name => q = r
  BY DEF WellFormed, Upper
<1>2. {q \in file.records : q.name = r.name} = {r}
  BY <1>1
<1> QED
  BY <1>2 DEF RecordNamed, TheOne, WellFormed, RecordNames

(* The name of a record leads to a record of that name.                    *)
LEMMA NamedIsARecord ==
  ASSUME NEW n, n \in RecordNames(file)
  PROVE  RecordNamed(file, n) \in file.records /\ RecordNamed(file, n).name = n
<1>1. {q \in file.records : q.name = n} # {}
  BY DEF RecordNames
<1>2. RecordNamed(file, n) \in {q \in file.records : q.name = n}
  BY <1>1 DEF RecordNamed, TheOne
<1> QED
  BY <1>2

(* What resolve_sprite_fast finds for a sprite.                            *)
LEMMA ResolveFacts ==
  ASSUME WellFormed(file), NEW n
  PROVE  LET dep == Resolve(file, n)
         IN  /\ dep.composed =>
                  /\ file.indexed
                  /\ \E e \in file.entries : /\ e.framed /\ Upper(e.name) = Upper(n)
                                             /\ PhysicalOf(file, e) = dep.record /\ e.border = dep.border
             /\ ~dep.composed => \/ dep.record = NoName
                                 \/ dep.border = RecordNamed(file, dep.record).border
             /\ dep.composed \in BOOLEAN
<1> DEFINE dep == Resolve(file, n)
           key == Upper(n)
           raw(r) == [record |-> r, composed |-> FALSE, border |-> RecordNamed(file, r).border]
<1>1. CASE file.indexed /\ Composed(file, key) # {}
  <2>1. dep \in Composed(file, key)
    BY <1>1 DEF Resolve, TheOne
  <2>2. PICK e \in {x \in file.entries : x.framed /\ Upper(x.name) = key /\ PhysicalOf(file, x) # NoName} :
          dep = [record |-> PhysicalOf(file, e), composed |-> TRUE, border |-> e.border]
    BY <2>1 DEF Composed
  <2> QED
    BY <1>1, <2>2
<1>2. CASE ~(file.indexed /\ Composed(file, key) # {}) /\ file.indexed /\ LeftOver(file, key) # {}
  <2>1. dep \in LeftOver(file, key)
    BY <1>2 DEF Resolve, TheOne
  <2>2. PICK r \in file.records : dep = [record |-> r.name, composed |-> FALSE, border |-> r.border]
    BY <2>1 DEF LeftOver
  <2> QED
    BY <2>2, RecordIsFound
<1>3. CASE ~(file.indexed /\ Composed(file, key) # {}) /\ ~(file.indexed /\ LeftOver(file, key) # {})
  <2>1. dep \in {raw(key), raw(WithPng(key)), Unresolved}
    BY <1>3 DEF Resolve
  <2>2. ASSUME NEW r, dep = raw(r)
        PROVE  ~dep.composed /\ dep.record = r /\ dep.border = RecordNamed(file, dep.record).border
    <3>1. raw(r).record = r /\ raw(r).composed = FALSE /\ raw(r).border = RecordNamed(file, r).border
      OBVIOUS
    <3> HIDE DEF raw, dep
    <3> QED
      BY <2>2, <3>1
  <2>3. CASE dep = Unresolved
    BY <2>3 DEF Unresolved
  <2>4. CASE \E r : dep = raw(r)
    <3>1. PICK r : dep = raw(r)
      BY <2>4
    <3>2. ~dep.composed /\ dep.record = r /\ dep.border = RecordNamed(file, dep.record).border
      BY <2>2, <3>1
    <3>3. dep.composed \in BOOLEAN
      <4>1. dep.composed = FALSE
        BY <3>1
      <4> QED
        BY <4>1
    <3> HIDE DEF raw
    <3> QED
      BY <3>2, <3>3
  <2> QED
    <3> HIDE DEF raw
    <3> QED
      BY <2>1, <2>3, <2>4
<1> QED
  BY <1>1, <1>2, <1>3

(* Both ways lead to one image where they are Alike: raw images.           *)
LEMMA AlikeRaw ==
  ASSUME WellFormed(file), NEW i, keys[i] \in Request, keys[i].kind = "raw", Alike(keys[i])
  PROVE  Product(i) = Single(keys[i])
<1> DEFINE k == keys[i]
<1>1. CASE ~DecodesRaw(file, k.name)
  BY <1>1 DEF Product, Source, Bulk, Single, RawPixels, Nothing
<1>2. CASE DecodesRaw(file, k.name)
  <2> DEFINE border == RecordNamed(file, k.name).border
             p == [record |-> k.name, composed |-> FALSE, keyed |-> FALSE, border |-> border]
  <2>1. RawPixels(file, k.name) = p
    BY <1>2 DEF RawPixels
  <2>2. k.name # NoName
    <3>1. k.name \in RecordNames(file)
      BY <1>2, UnreadRecordDoesNotDecode
    <3> QED
      BY <3>1 DEF RecordNames, WellFormed
  <2>3. p # NoPixels
    BY <2>2 DEF NoPixels
  <2>4. k.key \in BOOLEAN /\ (k.key \/ (k.detect /\ border)) = k.key
    BY DEF Alike, Request
  <2>5. Product(i) = [p EXCEPT !.keyed = k.key \/ (k.detect /\ border)]
    BY <1>2, <2>1 DEF Product, Source, Bulk, Treated, Nothing
  <2>6. Single(k) = [p EXCEPT !.keyed = k.key \/ (k.kind = "sprite" /\ k.detect /\ p.border)]
    BY <2>1, <2>3 DEF Single
  <2>7. (k.key \/ (k.kind = "sprite" /\ k.detect /\ p.border)) = k.key
    BY <2>4
  <2> QED
    BY <2>4, <2>5, <2>6, <2>7
<1> QED
  BY <1>1, <1>2

(* Sprites that are composed: one base image, whole, and one border.       *)
LEMMA AlikeComposed ==
  ASSUME WellFormed(file), NEW i, keys[i] \in Request, keys[i].kind = "sprite", Alike(keys[i]),
         deps[i] = Resolve(file, keys[i].name), deps[i].composed
  PROVE  Product(i) = Single(keys[i])
<1> DEFINE k == keys[i]
           dep == deps[i]
           Framed == {x \in file.entries : x.framed /\ Upper(x.name) = Upper(k.name)}
<1>1. /\ ~k.key /\ ~(k.detect /\ dep.border)
      /\ {BaseRecord(file, e).name : e \in Framed} = {dep.record}
      /\ RecordNamed(file, dep.record).data = "whole"
  BY DEF Alike
<1>2. file.indexed /\ \E e \in Framed : PhysicalOf(file, e) = dep.record /\ e.border = dep.border
  BY ResolveFacts
<1>3. DecodesRaw(file, dep.record) /\ dep.record \in RecordNames(file)
  <2>1. DecodesRaw(file, dep.record)
    BY <1>1 DEF DecodesRaw
  <2> QED
    BY <2>1, UnreadRecordDoesNotDecode
<1> DEFINE base == RecordNamed(file, dep.record)
<1>4. base \in file.records /\ base.name = dep.record /\ dep.record # NoName
  BY <1>3, NamedIsARecord, RecordIsFound
<1>5. \A e \in Framed : BaseRecord(file, e) = base
  <2> SUFFICES ASSUME NEW e \in Framed PROVE BaseRecord(file, e) = base
    OBVIOUS
  <2>1. BaseRecord(file, e).name = dep.record
    BY <1>1
  <2>2. BaseRecord(file, e) \in file.records \cup {NoRecord}
    BY DEF BaseRecord, FindById, FindByName, TheOne
  <2>3. BaseRecord(file, e) \in file.records
    BY <1>4, <2>1, <2>2 DEF NoRecord
  <2> QED
    BY <2>1, <2>3, RecordIsFound
<1>6. PICK e \in Framed : e.border = dep.border
  BY <1>2
<1>7. \A d \in Framed : d.border = dep.border
  BY <1>5, <1>6 DEF WellFormed
<1>8. SpriteEntries(file, k.name) = Framed
  BY <1>1, <1>2, <1>5 DEF SpriteEntries, DecodesAsBase
<1> DEFINE chosen == TheOne(Framed, NoRecord)
           p == [record |-> dep.record, composed |-> TRUE, keyed |-> FALSE, border |-> dep.border]
<1>9. chosen \in Framed
  BY <1>6 DEF TheOne
<1> HIDE DEF Framed, chosen
<1>10. BaseRecord(file, chosen).name = dep.record /\ chosen.border = dep.border
  BY <1>4, <1>5, <1>7, <1>9
<1>11. SpritePixels(file, k.name) = p
  <2>1. SpritePixels(file, k.name) =
          [record |-> BaseRecord(file, chosen).name, composed |-> TRUE, keyed |-> FALSE, border |-> chosen.border]
    BY <1>6, <1>8 DEF SpritePixels, chosen
  <2> QED
    BY <1>10, <2>1
<1>12. p # NoPixels
  BY <1>4 DEF NoPixels
<1>13. k.key = FALSE /\ (k.key \/ (k.kind = "sprite" /\ k.detect /\ dep.border)) = FALSE
  BY <1>1 DEF Request
<1>14. Single(k) = [p EXCEPT !.keyed = k.key \/ (k.kind = "sprite" /\ k.detect /\ p.border)]
  BY <1>11, <1>12 DEF Single
<1>15. Single(k) = p
  BY <1>13, <1>14
<1>16. Product(i) = p
  BY <1>3 DEF Product, Source, Bulk, Nothing
<1> QED
  BY <1>15, <1>16

(* Sprites that are a record as it stands.                                 *)
LEMMA AlikeStanding ==
  ASSUME WellFormed(file), NEW i, keys[i] \in Request, keys[i].kind = "sprite", Alike(keys[i]),
         deps[i] = Resolve(file, keys[i].name), ~deps[i].composed
  PROVE  Product(i) = Single(keys[i])
<1> DEFINE k == keys[i]
           dep == deps[i]
<1>1. /\ ~k.key /\ ~(k.detect /\ dep.border) /\ SpriteEntries(file, k.name) = {}
      /\ \/ dep.record = k.name
         \/ ~DecodesRaw(file, dep.record) /\ ~DecodesRaw(file, k.name)
  BY DEF Alike
<1>2. SpritePixels(file, k.name) = RawPixels(file, k.name)
  BY <1>1 DEF SpritePixels
<1>3. CASE ~DecodesRaw(file, dep.record) /\ ~DecodesRaw(file, k.name)
  BY <1>2, <1>3 DEF Product, Source, Bulk, Single, RawPixels, Nothing
<1>4. CASE dep.record = k.name /\ DecodesRaw(file, k.name)
  <2> DEFINE border == RecordNamed(file, k.name).border
             p == [record |-> k.name, composed |-> FALSE, keyed |-> FALSE, border |-> border]
  <2>1. RawPixels(file, k.name) = p
    BY <1>4 DEF RawPixels
  <2>2. k.name # NoName
    <3>1. k.name \in RecordNames(file)
      BY <1>4, UnreadRecordDoesNotDecode
    <3> QED
      BY <3>1 DEF RecordNames, WellFormed
  <2>3. p # NoPixels
    BY <2>2 DEF NoPixels
  <2>4. dep.border = border
    BY <1>4, <2>2, ResolveFacts
  <2>5. k.key = FALSE /\ (k.key \/ (k.kind = "sprite" /\ k.detect /\ border)) = FALSE
    BY <1>1, <2>4 DEF Request
  <2>6. Single(k) = [p EXCEPT !.keyed = k.key \/ (k.kind = "sprite" /\ k.detect /\ p.border)]
    BY <1>2, <2>1, <2>3 DEF Single
  <2>7. Single(k) = p
    BY <2>5, <2>6
  <2>8. Product(i) = [p EXCEPT !.keyed = k.kind = "raw" /\ (k.key \/ (k.detect /\ p.border))]
    BY <1>4, <2>1 DEF Product, Source, Bulk, Treated, Nothing
  <2>9. (k.kind = "raw" /\ (k.key \/ (k.detect /\ border))) = FALSE
    OBVIOUS
  <2> QED
    BY <2>7, <2>8, <2>9
<1> QED
  BY <1>1, <1>3, <1>4

(* Every result is the decoder's, by the time Main uploads.                *)
LEMMA ResultsFollow == Inv => ResultsAreRight
<1> SUFFICES ASSUME Inv PROVE ResultsAreRight
  OBVIOUS
<1>1. StoreIsCoherent
  BY StoreInvIsSound DEF Inv, PreloadInv
<1>2. ASSUME stage = "upload", pc[Main] = "out", NEW i \in DOMAIN keys
      PROVE  IF ~file.opens THEN results[i] = NoResult
             ELSE /\ results[i].key = keys[i]
                  /\ Alike(keys[i]) => results[i].pixels = Single(keys[i])
  <2>1. Begun /\ AllDone /\ issued = Len(physicals) + Len(keys) /\ WellFormed(file)
    BY <1>2 DEF Inv, PreloadInv, JobsOK, Begun, StoreInv
  <2>2. HasRun(i)
    BY <1>2, <2>1, Numbers DEF HasRun, AllDone
  <2>3. results[i] = IF file.opens THEN [key |-> keys[i], pixels |-> Product(i)] ELSE NoResult
    BY <1>2, <2>1, <2>2 DEF Inv, PreloadInv, ProductsOK
  <2>4. keys[i] \in Request
    BY <1>2 DEF Inv, PreloadInv, ListsOK
  <2>5. keys[i].kind = "sprite" => deps[i] = Resolve(file, keys[i].name)
    BY <1>2, <2>1 DEF Inv, PreloadInv, ListsOK
  <2>6. Alike(keys[i]) => Product(i) = Single(keys[i])
    <3>1. CASE keys[i].kind = "raw"
      BY <2>1, <2>4, <3>1, AlikeRaw
    <3>2. CASE keys[i].kind = "sprite" /\ deps[i].composed
      BY <2>1, <2>4, <2>5, <3>2, AlikeComposed
    <3>3. CASE keys[i].kind = "sprite" /\ ~deps[i].composed
      BY <2>1, <2>4, <2>5, <3>3, AlikeStanding
    <3>4. keys[i].kind \in {"sprite", "raw"}
      BY <2>4 DEF Request
    <3> QED
      BY <3>1, <3>2, <3>3, <3>4
  <2> QED
    BY <2>3, <2>6
<1>3. ResultsAreTheDecoders
  BY <1>2 DEF ResultsAreTheDecoders
<1> QED
  BY <1>1, <1>3 DEF ResultsAreRight

(* At the end nothing of the preloader's is left in the asset runtime.     *)
LEMMA NothingIsLeft == Inv => NothingIsLeftBehind
BY DEF Inv, PreloadInv, EntriesOK, BatchOK, NothingIsLeftBehind

(* No step touches what others have in the asset runtime.                  *)
LEMMA OthersAreLeftAlone == ASSUME Inv, PreloadNext PROVE OthersKeepTheirs
<1> DEFINE Theirs(k) == entries[k].by \in {"earlier", "worker", "failed"}
<1> SUFFICES ASSUME NEW k \in DOMAIN entries, Theirs(k) PROVE entries'[k] = entries[k]
  BY DEF OthersKeepTheirs
<1>1. entries[k] # NoEntry /\ entries[k] # Decoding /\ entries[k].by # "bulk"
  BY DEF NoEntry, Decoding
<1> HIDE DEF Theirs
<1>2. ASSUME NEW ks, entries' = Without(ks) PROVE entries'[k] = entries[k]
  BY <1>1, <1>2, WithoutFacts
<1>3. CASE MainStep
  <2>1. \/ UNCHANGED entries
        \/ \E ks : entries' = Without(ks)
    BY <1>3 DEF MainStep, ResolveKeys, Enqueue, Wait, DecodeFails, ComposeFails, Rollback, Upload, UploadFails,
                Uploaded, Cleanup, LeaveScope, HandOver
  <2> QED
    BY <1>2, <2>1
<1>4. ASSUME NEW w \in Workers, JobStep(w) PROVE entries'[k] = entries[k]
  <2>1. CASE EndCompose(w)
    <3> DEFINE object(i) == IF keys[i].kind = "raw" THEN call[w].got ELSE At(phys, deps[i].record)
    <3>1. PICK i, pixels : i = KeyOf(running[w]) /\ pixels = Bulk(keys[i], deps[i], object(i))
      OBVIOUS
    <3>2. i \in DOMAIN keys /\ (entries' = entries \/ Publish(keys[i], pixels))
      BY <2>1, <3>1, WhatAJobComposes DEF EndCompose, InJob
    <3>3. keys[i] \in DOMAIN entries /\ EntriesOK
      BY <3>2 DEF Inv, PreloadInv, ListsOK, EntriesOK
    <3> QED
      BY <1>1, <3>2, <3>3, PublishFacts
  <2> QED
    BY <1>4, <2>1 DEF JobStep, ReadImage, KeepImage, EndDecode, JobThrows
<1>5. CASE OtherStep
  <2>1. CASE Deliver
    BY <1>1, <2>1, DeliverFacts
  <2> QED
    BY <1>5, <2>1 DEF OtherStep, OtherReads, OtherKeeps
<1>6. ASSUME NEW t, PoolStep(t) \/ PoolWakeup(t) \/ PoolDestroy PROVE entries'[k] = entries[k]
  BY <1>6 DEF PoolStep, PoolWakeup, PoolDestroy, ownVars
<1> QED
  BY <1>3, <1>4, <1>5, <1>6 DEF PreloadNext, MainThread, WorkerThread

(* The preloader is a client of the pool like any other.                   *)
LEMMA PreloadStepsThePool == [PreloadNext]_preloadVars => [Next]_vars
<1> SUFFICES ASSUME [PreloadNext]_preloadVars PROVE [Next]_vars
  OBVIOUS
<1>1. CASE UNCHANGED preloadVars
  BY <1>1 DEF preloadVars
<1>2. CASE MainStep
  <2>1. UNCHANGED vars \/ Push(Main) \/ CallWaitIdle(Main) \/ Stop
    BY <1>2 DEF MainStep, ResolveKeys, Enqueue, Wait, DecodeFails, ComposeFails, Rollback, Upload, UploadFails,
                Uploaded, Cleanup, LeaveScope
  <2> QED
    BY <2>1, MainIsTheClient DEF Next
<1>3. ASSUME NEW w \in Workers, JobStep(w) PROVE [Next]_vars
  <2>1. UNCHANGED vars \/ FinishJob(w)
    BY <1>3 DEF JobStep, ReadImage, KeepImage, EndDecode, EndCompose, JobThrows
  <2> QED
    BY <2>1, MainIsTheClient DEF Next, FreeStep
<1>4. CASE OtherStep
  BY <1>4 DEF OtherStep, OtherReads, OtherKeeps, Deliver, OtherOnly
<1>5. ASSUME NEW t \in Threads, PoolStep(t) \/ PoolWakeup(t) \/ PoolDestroy PROVE [Next]_vars
  BY <1>5 DEF PoolStep, PoolWakeup, PoolDestroy, Next, FreeStep
<1> QED
  BY <1>1, <1>2, <1>3, <1>4, <1>5, MainIsTheClient DEF PreloadNext, MainThread, WorkerThread

(* So it always holds.                                                     *)
LEMMA PreloadInvariant == PreloadSpec => []Inv
<1>1. PreloadInit => Inv
  BY InitHasInv
<1>2. Inv /\ [PreloadNext]_preloadVars => Inv'
  BY PreloadNextKeepsInv
<1> QED
  BY <1>1, <1>2, PTL DEF PreloadSpec

(* The pool a preloader uses keeps its promises: what is proved of the     *)
(* pool with any clients holds here.                                       *)
THEOREM PreloaderUsesThePool == PreloadSpec => []JobsAreAccountedFor /\ IdleMeansAllDone
<1>1. PreloadInit => Init
  BY DEF PreloadInit
<1>2. PreloadSpec => Spec
  BY <1>1, PreloadStepsThePool, PTL DEF PreloadSpec, Spec
<1> QED
  BY <1>2, AccountsAreRight, WaitIdleIsSound, PTL

(* The bulk way finds what the decoder would have found, and the store     *)
(* stays coherent under all its readers.                                   *)
THEOREM BulkResultsAreRight == PreloadSpec => []ResultsAreRight
BY PreloadInvariant, ResultsFollow, PTL

(* Nothing is left behind, and nothing of others is taken.                 *)
THEOREM ThePreloaderKeepsToItsOwn == PreloadSpec => PreloadKeepsToItsOwn
<1>1. Inv /\ Inv' /\ [PreloadNext]_preloadVars => [NothingIsLeftBehind' /\ OthersKeepTheirs]_preloadVars
  <2> SUFFICES ASSUME Inv, Inv', [PreloadNext]_preloadVars, ~UNCHANGED preloadVars
               PROVE  NothingIsLeftBehind' /\ OthersKeepTheirs
    OBVIOUS
  <2>1. PreloadNext
    OBVIOUS
  <2>2. NothingIsLeftBehind'
    BY NothingIsLeft, PTL
  <2> QED
    BY <2>1, <2>2, OthersAreLeftAlone
<1> QED
  BY <1>1, PreloadInvariant, PTL DEF PreloadSpec, PreloadKeepsToItsOwn
=============================================================================
