------------------------------- MODULE Reclaimer -------------------------------
(***************************************************************************)
(* CpuStagingReclaimer of src/src/d2engine/assets: prepared images are     *)
(* handed over in batches and destroyed by one worker thread, so that the  *)
(* render thread never pays for freeing them.                              *)
(*                                                                         *)
(* An image is one item; only the number of items matters.  A step is one  *)
(* critical section or one atomic access.  The mutex work_mtx_ is explicit *)
(* where a wait with a false predicate keeps it until it sleeps (Block),   *)
(* because stopping_ and outstanding_ change without it; batch_mtx_ is     *)
(* held across steps only by the destructor's loop (dtor.at = "scan").     *)
(***************************************************************************)
EXTENDS Integers, FiniteSets, FiniteSetsExt

CONSTANTS
  Clients,      (* the threads that hand items over                          *)
  Worker,       (* worker_                                                   *)
  Free,         (* the value of workLock while nobody holds work_mtx_        *)
  MaxBatches,   (* bound: number of batches ever created                     *)
  MaxItems      (* bound: number of items ever handed over                   *)

ASSUME ThreadsAssumption == Worker \notin Clients /\ Free \notin Clients \cup {Worker}
ASSUME BoundsAssumption == MaxBatches \in Nat /\ MaxItems \in Nat

VARIABLES
  pc,           (* where each thread is                                      *)
  workLock,     (* who keeps work_mtx_ from a failed check to going to sleep *)
  created,      (* the batches created so far are 1..created                 *)
  live,         (* the keys of batches_                                      *)
  sealed, activated, completed,     (* the flags of the batches              *)
  pending,      (* per batch, the items held back until it is activated      *)
  active,       (* per batch, active_count                                   *)
  total,        (* per batch, total_enqueued; a history of ReclaimAuto too   *)
  queued,       (* items in work_queue_, per batch and of ReclaimAuto        *)
  taken,        (* per batch, the items the worker is dealing with           *)
  freed,        (* per batch, the items destroyed so far                     *)
  deferred, outstanding, stopping,
  call,         (* per client, the call it is in                             *)
  dtor          (* the destructor: where it is, its batch, the ones behind it *)

batchVars == <<created, live, sealed, activated, completed, pending, active, total>>
workVars == <<queued, taken, freed>>
counters == <<deferred, outstanding>>
vars == <<pc, workLock, batchVars, workVars, counters, stopping, call, dtor>>

Batches == 1..MaxBatches
ReclaimAuto == 0                                 \* kReclaimAuto
Threads == Clients \cup {Worker}
NoCall == [batch |-> ReclaimAuto, items |-> 0, drain |-> FALSE]
Total(f) == MapThenSumSet(LAMBDA b : f[b], DOMAIN f)
ItemsSoFar == Total(total)

Asleep == {t \in Threads : pc[t] = "asleep"}
Retry(t) == IF t = Worker THEN "loop" ELSE "idle"
Move(t, place) == pc' = [pc EXCEPT ![t] = place]
WakeAllAnd(t, place) ==
  pc' = [u \in Threads |-> IF u = t THEN place ELSE IF u \in Asleep THEN Retry(u) ELSE pc[u]]
WakeAll == pc' = [u \in Threads |-> IF u \in Asleep THEN Retry(u) ELSE pc[u]]

Idle(c) == pc[c] = "out" /\ dtor.at = "alive"
BatchesFree == dtor.at # "scan"
-----------------------------------------------------------------------------
CreateBatch(c) ==
  /\ Idle(c) /\ created < MaxBatches
  /\ created' = created + 1
  /\ live' = live \cup {created + 1}
  /\ UNCHANGED <<pc, workLock, sealed, activated, completed, pending, active, total,
                 workVars, counters, stopping, call, dtor>>

Accepts(b) == b \in live \ sealed

(* enqueue into a batch.  A batch that is sealed or gone drops the item.   *)
Enqueue(c, b) ==
  /\ Idle(c) /\ Accepts(b) /\ ItemsSoFar < MaxItems
  /\ pending' = [pending EXCEPT ![b] = @ + 1]
  /\ total' = [total EXCEPT ![b] = @ + 1]
  /\ deferred' = deferred + 1
  /\ UNCHANGED <<pc, workLock, created, live, sealed, activated, completed, active,
                 workVars, outstanding, stopping, call, dtor>>

(* enqueue into the auto batch: straight into the work queue.              *)
EnqueueAuto(c) ==
  /\ Idle(c) /\ workLock = Free /\ ItemsSoFar < MaxItems
  /\ queued' = [queued EXCEPT ![ReclaimAuto] = @ + 1]
  /\ outstanding' = outstanding + 1
  /\ IF Asleep = {} THEN UNCHANGED pc
     ELSE \E u \in Asleep : pc' = [pc EXCEPT ![u] = Retry(u)]
  /\ total' = [total EXCEPT ![ReclaimAuto] = @ + 1]
  /\ UNCHANGED <<workLock, created, live, sealed, activated, completed, pending, active,
                 taken, freed, deferred, stopping, call, dtor>>

SealBatch(c, b) ==
  /\ Idle(c) /\ b \in live
  /\ sealed' = sealed \cup {b}
  /\ UNCHANGED <<pc, workLock, created, live, activated, completed, pending, active, total,
                 workVars, counters, stopping, call, dtor>>

(* activate_batch, first critical section: seals, and the first activation *)
(* takes the pending items out.  drain says the call is drain_and_wait.    *)
Activate(c, b, drain) ==
  /\ Idle(c) /\ b \in 1..created
  /\ sealed' = sealed \cup (live \cap {b})
  /\ activated' = activated \cup (live \cap {b})
  /\ LET first == b \in live \ activated
         n == pending[b]
     IN  /\ IF first /\ n = 0
            THEN completed' = completed \cup {b} /\ live' = live \ {b}
            ELSE UNCHANGED <<completed, live>>
         /\ IF first /\ n > 0
            THEN pending' = [pending EXCEPT ![b] = 0] /\ Move(c, "publish")
            ELSE UNCHANGED pending /\ Move(c, IF drain THEN "find" ELSE "out")
         /\ call' = [call EXCEPT ![c] = [batch |-> b, items |-> IF first THEN n ELSE 0, drain |-> drain]]
  /\ UNCHANGED <<workLock, created, active, total, workVars, counters, stopping, dtor>>

(* Moves n items of batch b from deferred to the work queue.               *)
Publish(b, n) ==
  /\ workLock = Free
  /\ queued' = [queued EXCEPT ![b] = @ + n]
  /\ outstanding' = outstanding + n
  /\ deferred' = deferred - n
  /\ active' = [active EXCEPT ![b] = @ + n]

(* Mutant of ActivatePublish: the worker is not notified.                  *)
ActivatePublishSilently(c) ==
  /\ pc[c] = "publish"
  /\ Publish(call[c].batch, call[c].items)
  /\ Move(c, IF call[c].drain THEN "find" ELSE "out")
  /\ UNCHANGED <<workLock, created, live, sealed, activated, completed, pending, total,
                 taken, freed, stopping, call, dtor>>

(* activate_batch, second critical section.                                *)
ActivatePublish(c) ==
  /\ pc[c] = "publish"
  /\ Publish(call[c].batch, call[c].items)
  /\ WakeAllAnd(c, IF call[c].drain THEN "find" ELSE "out")
  /\ UNCHANGED <<workLock, created, live, sealed, activated, completed, pending, total,
                 taken, freed, stopping, call, dtor>>

(* drain_and_wait: a batch that is not in the map any more is completed.   *)
FindBatch(c) ==
  /\ pc[c] = "find"
  /\ Move(c, IF call[c].batch \in live THEN "await" ELSE "out")
  /\ UNCHANGED <<workLock, batchVars, workVars, counters, stopping, call, dtor>>

(* Mutant of AwaitCompletion: an activated batch without active items      *)
(* counts as complete.                                                     *)
AwaitNothingActive(c) ==
  /\ pc[c] = "await" /\ active[call[c].batch] = 0
  /\ Move(c, "out")
  /\ UNCHANGED <<workLock, batchVars, workVars, counters, stopping, call, dtor>>

(* drain_and_wait: completed_flag.                                         *)
AwaitCompletion(c) ==
  /\ pc[c] = "await" /\ call[c].batch \in completed
  /\ Move(c, "out")
  /\ UNCHANGED <<workLock, batchVars, workVars, counters, stopping, call, dtor>>

CallWaitIdle(c) ==
  /\ Idle(c)
  /\ Move(c, "idle")
  /\ UNCHANGED <<workLock, batchVars, workVars, counters, stopping, call, dtor>>

(* Mutant of IdleReached: items the worker has taken count as gone.        *)
QueueIsEmpty == Total(queued) = 0
IdleReached == outstanding = 0

CheckIdle(c) ==
  /\ pc[c] = "idle" /\ workLock = Free
  /\ IF IdleReached THEN Move(c, "out") /\ UNCHANGED workLock
                    ELSE Move(c, "block") /\ workLock' = c
  /\ UNCHANGED <<batchVars, workVars, counters, stopping, call, dtor>>

Block(t) ==
  /\ pc[t] = "block"
  /\ workLock' = Free
  /\ Move(t, "asleep")
  /\ UNCHANGED <<batchVars, workVars, counters, stopping, call, dtor>>

SpuriousWakeup(t) ==
  /\ t \in Asleep
  /\ Move(t, Retry(t))
  /\ UNCHANGED <<workLock, batchVars, workVars, counters, stopping, call, dtor>>
-----------------------------------------------------------------------------
MustExit == stopping /\ Total(queued) = 0

(* worker_loop, one look at the predicate: leave, take everything, or wait. *)
CheckWork ==
  /\ pc[Worker] = "loop" /\ workLock = Free
  /\ \/ MustExit /\ Move(Worker, "sweep") /\ UNCHANGED <<workLock, queued, taken>>
     \/ /\ Total(queued) > 0 /\ ~MustExit
        /\ taken' = queued
        /\ queued' = [b \in DOMAIN queued |-> 0]
        /\ Move(Worker, "free")
        /\ UNCHANGED workLock
     \/ /\ ~stopping /\ Total(queued) = 0
        /\ Move(Worker, "block") /\ workLock' = Worker
        /\ UNCHANGED <<queued, taken>>
  /\ UNCHANGED <<batchVars, freed, counters, stopping, call, dtor>>

(* items.clear(): the images are destroyed on this thread.                 *)
FreeItems ==
  /\ pc[Worker] = "free"
  /\ freed' = [b \in DOMAIN freed |-> freed[b] + taken[b]]
  /\ Move(Worker, "count")
  /\ UNCHANGED <<workLock, batchVars, queued, taken, counters, stopping, call, dtor>>

(* Mutant of RoundCount: a round counts as one item.                       *)
OnePerRound == 1
RoundCount == Total(taken)

(* The counter goes down without work_mtx_.                                *)
CountDown ==
  /\ pc[Worker] = "count"
  /\ outstanding' = outstanding - RoundCount
  /\ Move(Worker, "complete")
  /\ UNCHANGED <<workLock, batchVars, workVars, deferred, stopping, call, dtor>>

(* The batches that have become complete when `left` items remain active.  *)
Done(left) == {b \in live \cap sealed \cap activated : left[b] = 0}

(* Under batch_mtx_: only the batches of this round are looked at.         *)
CompleteBatches ==
  /\ pc[Worker] = "complete" /\ BatchesFree
  /\ active' = [b \in Batches |-> IF b \in live THEN active[b] - taken[b] ELSE active[b]]
  /\ LET done == {b \in Done(active') : taken[b] > 0}
     IN  completed' = completed \cup done /\ live' = live \ done
  /\ taken' = [b \in DOMAIN taken |-> 0]
  /\ Move(Worker, "signal")
  /\ UNCHANGED <<workLock, created, sealed, activated, pending, total, queued, freed,
                 counters, stopping, call, dtor>>

(* notify_all without work_mtx_.                                           *)
Signal ==
  /\ pc[Worker] = "signal"
  /\ WakeAllAnd(Worker, "loop")
  /\ UNCHANGED <<workLock, batchVars, workVars, counters, stopping, call, dtor>>

FinalSweep ==
  /\ pc[Worker] = "sweep" /\ BatchesFree
  /\ completed' = completed \cup Done(active)
  /\ live' = live \ Done(active)
  /\ Move(Worker, "exit")
  /\ UNCHANGED <<workLock, created, sealed, activated, pending, active, total, workVars,
                 counters, stopping, call, dtor>>
-----------------------------------------------------------------------------
(* The destructor.  Its caller sees to it that no client is in a call.     *)
BeginDestruction ==
  /\ dtor.at = "alive" /\ \A c \in Clients : Idle(c)
  /\ dtor' = [dtor EXCEPT !.at = "scan"]
  /\ UNCHANGED <<pc, workLock, batchVars, workVars, counters, stopping, call>>

(* Its loop over batches_, in the map's order, which is any order.  It lets *)
(* batch_mtx_ go to publish what a batch holds back.                        *)
Unvisited == live \ dtor.visited

Visit ==
  /\ dtor.at = "scan"
  /\ \E b \in Unvisited :
       /\ activated' = activated \cup {b}
       /\ dtor' = [visited |-> dtor.visited \cup {b}, batch |-> b,
                   at |-> IF b \in activated \/ pending[b] = 0 THEN "scan" ELSE "publish"]
  /\ UNCHANGED <<pc, workLock, created, live, sealed, completed, pending, active, total,
                 workVars, counters, stopping, call>>

DestructorPublish ==
  /\ dtor.at = "publish"
  /\ Publish(dtor.batch, pending[dtor.batch])
  /\ pending' = [pending EXCEPT ![dtor.batch] = 0]
  /\ dtor' = [dtor EXCEPT !.at = "relock"]
  /\ UNCHANGED <<pc, workLock, created, live, sealed, activated, completed, total,
                 taken, freed, stopping, call>>

(* Takes batch_mtx_ again and steps the iterator.  If the worker has erased *)
(* the batch meanwhile the iterator is invalid and the behaviour undefined; *)
(* nothing is modelled after that.                                          *)
Relock ==
  /\ dtor.at = "relock"
  /\ dtor' = [dtor EXCEPT !.at = IF dtor.batch \in live THEN "scan" ELSE "undefined"]
  /\ UNCHANGED <<pc, workLock, batchVars, workVars, counters, stopping, call>>

(* stopping_ is set and notified without work_mtx_.                        *)
SetStopping ==
  /\ dtor.at = "scan" /\ Unvisited = {}
  /\ stopping' = TRUE
  /\ dtor' = [dtor EXCEPT !.at = "notify"]
  /\ UNCHANGED <<pc, workLock, batchVars, workVars, counters, call>>

NotifyStopping ==
  /\ dtor.at = "notify"
  /\ WakeAll
  /\ dtor' = [dtor EXCEPT !.at = "join"]
  /\ UNCHANGED <<workLock, batchVars, workVars, counters, stopping, call>>

Join ==
  /\ dtor.at = "join" /\ pc[Worker] = "exit"
  /\ dtor' = [dtor EXCEPT !.at = "gone"]
  /\ UNCHANGED <<pc, workLock, batchVars, workVars, counters, stopping, call>>
-----------------------------------------------------------------------------
Init ==
  /\ pc = [t \in Threads |-> IF t = Worker THEN "loop" ELSE "out"]
  /\ workLock = Free
  /\ created = 0
  /\ live = {} /\ sealed = {} /\ activated = {} /\ completed = {}
  /\ pending = [b \in Batches |-> 0] /\ active = [b \in Batches |-> 0]
  /\ total = [b \in Batches \cup {ReclaimAuto} |-> 0]
  /\ queued = total /\ taken = total /\ freed = total
  /\ deferred = 0 /\ outstanding = 0
  /\ stopping = FALSE
  /\ call = [c \in Clients |-> NoCall]
  /\ dtor = [at |-> "alive", batch |-> ReclaimAuto, visited |-> {}]

ClientStep(c) == ActivatePublish(c) \/ FindBatch(c) \/ AwaitCompletion(c) \/ CheckIdle(c)
WorkerStep ==
  CheckWork \/ FreeItems \/ CountDown \/ CompleteBatches \/ Signal \/ FinalSweep
DestructorStep ==
  Visit \/ DestructorPublish \/ Relock \/ SetStopping \/ NotifyStopping \/ Join
Call(c) ==
  \/ CreateBatch(c) \/ EnqueueAuto(c) \/ CallWaitIdle(c)
  \/ \E b \in Batches : Enqueue(c, b) \/ SealBatch(c, b)
                          \/ \E drain \in BOOLEAN : Activate(c, b, drain)

Next ==
  \/ \E c \in Clients : Call(c) \/ ClientStep(c)
  \/ \E t \in Threads : Block(t) \/ SpuriousWakeup(t)
  \/ WorkerStep \/ DestructorStep \/ BeginDestruction

Spec == Init /\ [][Next]_vars

(* Threads keep running and none is starved at a mutex; calls, spurious    *)
(* wakeups and destruction may or may not come.                            *)
Fairness ==
  /\ \A c \in Clients : SF_vars(ClientStep(c))
  /\ \A t \in Threads : WF_vars(Block(t))
  /\ SF_vars(WorkerStep) /\ SF_vars(DestructorStep)
FairSpec == Spec /\ Fairness
-----------------------------------------------------------------------------
(* The shape of the reclaimer's fields: batch ids only name batches made.  *)
ReclaimerTypeOK ==
  /\ pc \in [Threads -> {"loop", "block", "asleep", "free", "count", "complete", "signal",
                         "sweep", "exit", "out", "publish", "find", "await", "idle"}]
  /\ workLock \in Threads \cup {Free}
  /\ created \in 0..MaxBatches
  /\ live \subseteq 1..created
  /\ {sealed, activated, completed} \subseteq SUBSET (1..created)
  /\ {pending, active} \subseteq [Batches -> Nat]
  /\ {total, queued, taken, freed} \subseteq [Batches \cup {ReclaimAuto} -> Nat]
  /\ deferred \in Nat /\ outstanding \in Nat
  /\ stopping \in BOOLEAN
  /\ call \in [Clients -> [batch : Batches \cup {ReclaimAuto}, items : Nat, drain : BOOLEAN]]
  /\ dtor \in [at : {"alive", "scan", "publish", "relock", "undefined", "notify", "join", "gone"},
               batch : Batches \cup {ReclaimAuto}, visited : SUBSET Batches]

(* The items of a batch that are not in the queue yet, and its share of    *)
(* what the worker has popped.                                             *)
OnTheWay(b) == {c \in Clients : pc[c] = "publish" /\ call[c].batch = b}
InHand(b) == IF pc[Worker] = "free" THEN taken[b] ELSE 0
Held(b) == pending[b] + Total([c \in OnTheWay(b) |-> call[c].items])

(* A batch is retired exactly when it is complete, and a complete batch    *)
(* has nothing left anywhere, now and later.                               *)
CompletedBatchesAreEmpty ==
  /\ live = 1..created \ completed
  /\ \A b \in completed : freed[b] = total[b]

(* Every item handed over is in exactly one place, and the two counters    *)
(* that total_owned adds up agree with where the items are: held back or   *)
(* on the way to the queue, and queued or in the worker's hands.  When the *)
(* destructor is done all of them are destroyed, those of batches never    *)
(* activated included ("LEAK_DETECTED", cpu_staging_reclaimer.cpp:95).      *)
ItemsAreAccountedFor ==
  /\ ReclaimerTypeOK /\ CompletedBatchesAreEmpty
  /\ \A b \in Batches : total[b] = Held(b) + queued[b] + InHand(b) + freed[b]
  /\ deferred = Total([b \in Batches |-> Held(b)])
  /\ outstanding = Total(queued) + IF pc[Worker] \in {"free", "count"} THEN Total(taken) ELSE 0
  /\ dtor.at = "gone" => freed = total

(* drain_and_wait returns only when every item the batch ever took is      *)
(* destroyed, also when other threads enqueue and activate meanwhile.      *)
DrainMeansFreed ==
  [][ \A c \in Clients : pc[c] \in {"find", "await"} /\ pc'[c] = "out" =>
        freed[call[c].batch] = total[call[c].batch] ]_vars

(* wait_idle returns only when everything activated is destroyed.          *)
IdleMeansFreed ==
  [][ \A c \in Clients : pc[c] = "idle" /\ pc'[c] = "out" =>
        Total(queued) = 0 /\ \A b \in Batches \cup {ReclaimAuto} : InHand(b) = 0 ]_vars

(* What the two waiting calls promise, whoever runs beside them.           *)
ReturnsMeanFreed == DrainMeansFreed /\ IdleMeansFreed

(* "drain_and_wait must eventually return" (test_cpu_staging_reclaimer.cpp). *)
DrainReturns == \A c \in Clients : pc[c] \in {"find", "await"} ~> pc[c] = "out"

(* Once begun, the destructor ends or hits undefined behaviour.            *)
DestructorEnds == dtor.at = "scan" ~> dtor.at \in {"gone", "undefined"}

(* The destructor never steps an iterator of an erased batch.              *)
DestructorStaysDefined == dtor.at # "undefined"
=============================================================================
