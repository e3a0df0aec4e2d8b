------------------------------ MODULE WorkerPool ------------------------------
(***************************************************************************)
(* BoundedWorkerPool of src/src/d2engine/assets: a job queue served by     *)
(* worker threads, with one mutex and one condition variable shared by the *)
(* workers, who wait for jobs, and by the callers of wait_idle, who wait   *)
(* for the outstanding counter to reach zero.                              *)
(*                                                                         *)
(* A critical section is one step, except that a wait whose predicate is   *)
(* false keeps the mutex between the check and going to sleep (the step    *)
(* Block), because the outstanding counter changes outside the mutex.      *)
(* Notifications made after the mutex is released are steps of their own.  *)
(* A job may enqueue further jobs; whether it throws makes no difference.  *)
(***************************************************************************)
EXTENDS Integers, Sequences, FiniteSets

CONSTANTS
  Workers,     (* the pool's threads                                         *)
  Clients,     (* the threads that enqueue jobs and call wait_idle           *)
  Free,        (* the value of lock while nobody holds the mutex             *)
  MaxJobs      (* bound: number of jobs ever enqueued                        *)

ASSUME ThreadsAssumption ==
  /\ IsFiniteSet(Workers) /\ Workers # {}
  /\ Workers \cap Clients = {} /\ Free \notin Workers \cup Clients
ASSUME MaxJobsAssumption == MaxJobs \in Nat

VARIABLES
  pc,           (* where each thread is                                      *)
  lock,         (* who keeps mtx_ from a failed check to going to sleep      *)
  queue,        (* jobs_                                                     *)
  outstanding,  (* outstanding_                                              *)
  stopping,     (* stopping_                                                 *)
  issued,       (* the jobs enqueued so far are 1..issued                    *)
  running,      (* per worker, the job it took last, 0 for none              *)
  runs,         (* per job, how often it has been run to completion          *)
  dtor          (* "alive", "stopping", "joining", "gone": the destructor    *)

vars == <<pc, lock, queue, outstanding, stopping, issued, running, runs, dtor>>

Threads == Workers \cup Clients
Jobs == 1..MaxJobs
Executing == {w \in Workers : pc[w] \in {"run", "notify", "sub"}}
Asleep == {t \in Threads : pc[t] = "asleep"}

(* A woken thread takes the mutex again and looks at its predicate again.  *)
Retry(t) == IF t \in Workers THEN "loop" ELSE "wait"
Move(t, place) == pc' = [pc EXCEPT ![t] = place]
WakeAllAnd(t, place) ==
  pc' = [u \in Threads |-> IF u = t THEN place ELSE IF u \in Asleep THEN Retry(u) ELSE pc[u]]
-----------------------------------------------------------------------------
(* Mutant of IdleReached: a job taken from the queue counts as done.       *)
QueueIsEmpty == queue = <<>>

(* The wait predicates of worker_loop and wait_idle.                       *)
WorkerReady == stopping \/ queue # <<>>
IdleReached == outstanding = 0

(* enqueue, by a client or from inside a running job.                      *)
Push(t) ==
  /\ lock = Free /\ ~stopping /\ issued < MaxJobs
  /\ \/ t \in Clients /\ pc[t] = "out"
     \/ t \in Workers /\ pc[t] = "run"
  /\ issued' = issued + 1
  /\ queue' = Append(queue, issued + 1)
  /\ outstanding' = outstanding + 1
  /\ Move(t, "notify")
  /\ UNCHANGED <<lock, stopping, running, runs, dtor>>

Pushed(t) == IF t \in Workers THEN "run" ELSE "out"

(* Mutant of NotifyOne: nobody is told of the new job.                     *)
NotifyNobody(t) ==
  /\ pc[t] = "notify"
  /\ Move(t, Pushed(t))
  /\ UNCHANGED <<lock, queue, outstanding, stopping, issued, running, runs, dtor>>

(* notify_one wakes any one of the sleepers, worker or not.                *)
NotifyOne(t) ==
  /\ pc[t] = "notify"
  /\ IF Asleep = {} THEN Move(t, Pushed(t))
     ELSE \E u \in Asleep : pc' = [pc EXCEPT ![t] = Pushed(t), ![u] = Retry(u)]
  /\ UNCHANGED <<lock, queue, outstanding, stopping, issued, running, runs, dtor>>

CallWaitIdle(c) ==
  /\ pc[c] = "out" /\ dtor = "alive"
  /\ Move(c, "wait")
  /\ UNCHANGED <<lock, queue, outstanding, stopping, issued, running, runs, dtor>>

(* One look of wait_idle at its predicate, under the mutex.                *)
CheckIdle(c) ==
  /\ pc[c] = "wait" /\ lock = Free
  /\ IF IdleReached THEN Move(c, "out") /\ UNCHANGED lock
                    ELSE Move(c, "block") /\ lock' = c
  /\ UNCHANGED <<queue, outstanding, stopping, issued, running, runs, dtor>>

(* cv_.wait: releases the mutex and sleeps in one indivisible step.        *)
Block(t) ==
  /\ pc[t] = "block"
  /\ lock' = Free
  /\ Move(t, "asleep")
  /\ UNCHANGED <<queue, outstanding, stopping, issued, running, runs, dtor>>

SpuriousWakeup(t) ==
  /\ t \in Asleep
  /\ Move(t, Retry(t))
  /\ UNCHANGED <<lock, queue, outstanding, stopping, issued, running, runs, dtor>>
-----------------------------------------------------------------------------
MustExit == stopping /\ queue = <<>>

Popped == Tail(queue)

(* One look of worker_loop at its predicate: exit, take a job, or wait.    *)
Fetch(w) ==
  /\ pc[w] = "loop" /\ lock = Free
  /\ \/ ~WorkerReady /\ Move(w, "block") /\ lock' = w /\ UNCHANGED <<queue, running>>
     \/ MustExit /\ Move(w, "exit") /\ UNCHANGED <<lock, queue, running>>
     \/ /\ WorkerReady /\ ~MustExit
        /\ running' = [running EXCEPT ![w] = Head(queue)]
        /\ queue' = Popped
        /\ Move(w, "run")
        /\ UNCHANGED lock
  /\ UNCHANGED <<outstanding, stopping, issued, runs, dtor>>

(* Mutant of FinishJob: a job that throws skips the completion guard.      *)
FinishJobUnguarded(w) ==
  /\ pc[w] = "run"
  /\ runs' = [runs EXCEPT ![running[w]] = @ + 1]
  /\ Move(w, "loop")
  /\ UNCHANGED <<lock, queue, outstanding, stopping, issued, running, dtor>>

(* job(); what it throws is caught.                                        *)
FinishJob(w) ==
  /\ pc[w] = "run"
  /\ runs' = [runs EXCEPT ![running[w]] = @ + 1]
  /\ Move(w, "sub")
  /\ UNCHANGED <<lock, queue, outstanding, stopping, issued, running, dtor>>

(* CompletionGuard: the decrement needs no mutex.                          *)
Complete(w) ==
  /\ pc[w] = "sub"
  /\ outstanding' = outstanding - 1
  /\ Move(w, "signal")
  /\ UNCHANGED <<lock, queue, stopping, issued, running, runs, dtor>>

(* Mutant of Signal: the mutex is not taken.                               *)
SignalUnlocked(w) ==
  /\ pc[w] = "signal"
  /\ WakeAllAnd(w, "loop")
  /\ UNCHANGED <<lock, queue, outstanding, stopping, issued, running, runs, dtor>>

(* The notify_all that follows the decrement is made under the mutex.      *)
Signal(w) ==
  /\ pc[w] = "signal" /\ lock = Free
  /\ WakeAllAnd(w, "loop")
  /\ UNCHANGED <<lock, queue, outstanding, stopping, issued, running, runs, dtor>>
-----------------------------------------------------------------------------
(* The destructor.  Its caller sees to it that no client is in a call.     *)
Stop ==
  /\ dtor = "alive" /\ lock = Free
  /\ \A c \in Clients : pc[c] = "out"
  /\ stopping' = TRUE
  /\ dtor' = "stopping"
  /\ UNCHANGED <<pc, lock, queue, outstanding, issued, running, runs>>

StopNotifyAll ==
  /\ dtor = "stopping"
  /\ dtor' = "joining"
  /\ pc' = [u \in Threads |-> IF u \in Asleep THEN Retry(u) ELSE pc[u]]
  /\ UNCHANGED <<lock, queue, outstanding, stopping, issued, running, runs>>

Join ==
  /\ dtor = "joining"
  /\ \A w \in Workers : pc[w] = "exit"
  /\ dtor' = "gone"
  /\ UNCHANGED <<pc, lock, queue, outstanding, stopping, issued, running, runs>>
-----------------------------------------------------------------------------
Init ==
  /\ pc = [t \in Threads |-> IF t \in Workers THEN "loop" ELSE "out"]
  /\ lock = Free
  /\ queue = <<>>
  /\ outstanding = 0
  /\ stopping = FALSE
  /\ issued = 0
  /\ running = [w \in Workers |-> 0]
  /\ runs = [j \in Jobs |-> 0]
  /\ dtor = "alive"

(* The steps a thread takes by itself once it is in a call or in its loop. *)
LockStep(t) ==
  \/ t \in Clients /\ CheckIdle(t)
  \/ t \in Workers /\ (Fetch(t) \/ Signal(t))
FreeStep(t) ==
  \/ NotifyOne(t) \/ Block(t)
  \/ t \in Workers /\ (FinishJob(t) \/ Complete(t))
Destroy == StopNotifyAll \/ Join

Next ==
  \/ \E t \in Threads : LockStep(t) \/ FreeStep(t) \/ Push(t) \/ SpuriousWakeup(t)
  \/ \E c \in Clients : CallWaitIdle(c)
  \/ Stop \/ Destroy

Spec == Init /\ [][Next]_vars
-----------------------------------------------------------------------------
(* The shape of the pool's fields and of the threads' positions.           *)
PoolTypeOK ==
  /\ pc \in [Threads -> {"loop", "block", "asleep", "run", "notify", "sub", "signal", "exit",
                         "out", "wait"}]
  /\ lock \in Threads \cup {Free}
  /\ queue \in Seq(Jobs)
  /\ outstanding \in Nat
  /\ stopping \in BOOLEAN
  /\ issued \in 0..MaxJobs
  /\ running \in [Workers -> 0..MaxJobs]
  /\ runs \in [Jobs -> Nat]
  /\ dtor \in {"alive", "stopping", "joining", "gone"}

(* "outstanding_ == queued + executing jobs at all times"                  *)
(* (bounded_worker_pool.hpp:16), seen by whoever holds the mutex.          *)
OutstandingIsQueuedPlusExecuting == outstanding = Len(queue) + Cardinality(Executing)

(* Jobs leave the queue in the order they came, none is run twice, and one *)
(* that is neither queued nor executing has been run.                      *)
EveryJobIsSomewhere ==
  \A j \in 1..issued :
    LET queued == {i \in DOMAIN queue : queue[i] = j}
        held == {w \in Workers : pc[w] \in {"run", "notify"} /\ running[w] = j}
    IN  Cardinality(queued) + Cardinality(held) + runs[j] = 1

(* "wait_idle() returns only when outstanding_ == 0: every job enqueued    *)
(* before that point has fully completed" (bounded_worker_pool.hpp:20),    *)
(* jobs enqueued by jobs included.                                         *)
IdleMeansAllDone ==
  [][ \A c \in Clients :
        pc[c] = "wait" /\ pc'[c] = "out" => \A j \in 1..issued : runs[j] = 1 ]_vars

(* The destructor drains: when it is through, every job has been run.      *)
DestructorDrains == dtor = "gone" => \A j \in 1..issued : runs[j] = 1

(* The accounts of the pool: outstanding_ counts what it says, no job is   *)
(* lost or run twice, and the destructor leaves none behind                *)
(* (bounded_worker_pool.hpp:16-24).                                        *)
JobsAreAccountedFor ==
  OutstandingIsQueuedPlusExecuting /\ EveryJobIsSomewhere /\ DestructorDrains
=============================================================================
