----------------------------- MODULE AssetRuntime -----------------------------
(***************************************************************************)
(* AssetRuntime of src/src/d2engine/assets: images are requested by key    *)
(* with a priority, decoded once by a set of worker threads, and handed to *)
(* every requester through one shared future per entry.                    *)
(*                                                                         *)
(* An entry (RequestState) is a number; the image it ends up with has the  *)
(* same number.  A step is one critical section; the promise is kept after *)
(* the mutex is released, in a step of its own.  Everything the workers    *)
(* wait for changes under the mutex, so a look at the predicate and going  *)
(* to sleep are one step.  A job's sequence number is its generation less  *)
(* one, because both counters are advanced together, so jobs have the      *)
(* generation only.  What a decoder throws it turns into a failure.        *)
(***************************************************************************)
EXTENDS Integers, FiniteSets

CONSTANTS
  Keys,         (* the image keys                                            *)
  Workers,      (* workers_                                                  *)
  Urgent,       (* the most urgent priority; AssetPriority is 0..3           *)
  MaxImages,    (* bound: number of entries and published images ever made   *)
  MaxIssued     (* bound: number of jobs ever queued                         *)

ASSUME WorkersAssumption == IsFiniteSet(Workers) /\ Workers # {}
ASSUME BoundsAssumption == Urgent \in Nat /\ MaxImages \in Nat /\ MaxIssued \in Nat

VARIABLES
  states,       (* per key, its entry in states_, 0 for none                 *)
  requests,     (* the entries made so far                                   *)
  made,         (* how many numbers of entries and images are used           *)
  queue,        (* queue_: a set, ordered by JobLess                         *)
  issued,       (* next_generation_                                          *)
  pc, hand,     (* per worker, where it is and the entry it has taken        *)
  result,       (* per worker, what its last decoding gave                   *)
  stopping,
  dtor          (* "alive", "notify", "join", "gone": the destructor         *)

entryVars == <<states, requests, made>>
jobVars == <<queue, issued>>
workerVars == <<pc, hand, result>>
vars == <<entryVars, jobVars, workerVars, stopping, dtor>>

Priority == 0..Urgent
Entry == 1..MaxImages
NoEntry == 0
Unused == [key |-> "none", status |-> "Unused", priority |-> 0,
           generation |-> 0, answer |-> "Pending"]

Status(k) == IF states[k] = NoEntry THEN "None" ELSE requests[states[k]].status
Asleep == {w \in Workers : pc[w] = "asleep"}
Holding == {w \in Workers : pc[w] \in {"decode", "deliver"}}

(* Mutant of NotifyOne: nobody is told of the job.                         *)
NotifyNobody == UNCHANGED pc

NotifyOne ==
  IF Asleep = {} THEN UNCHANGED pc ELSE \E w \in Asleep : pc' = [pc EXCEPT ![w] = "loop"]
NotifyAll == pc' = [w \in Workers |-> IF w \in Asleep THEN "loop" ELSE pc[w]]

Queued(k, p) ==
  /\ issued < MaxIssued
  /\ issued' = issued + 1
  /\ queue' = queue \cup {[key |-> k, priority |-> p, generation |-> issued + 1]}
  /\ NotifyOne
-----------------------------------------------------------------------------
(* Mutant of Promote: the job in the queue is expected to do.              *)
PromoteInPlace(k, p) ==
  /\ Status(k) = "Queued" /\ p > requests[states[k]].priority
  /\ requests' = [requests EXCEPT ![states[k]].priority = p]
  /\ UNCHANGED <<states, made, jobVars, pc>>

(* request_image, by any thread.  A known image is answered from its entry, *)
(* a more urgent request for an image that nobody decodes yet queues it     *)
(* again, and an unknown image gets an entry.                               *)
Promote(k, p) ==
  /\ Status(k) = "Queued" /\ p > requests[states[k]].priority
  /\ requests' = [requests EXCEPT ![states[k]].priority = p,
                                  ![states[k]].generation = issued + 1]
  /\ Queued(k, p)
  /\ UNCHANGED <<states, made>>

Enter(k, p) ==
  /\ Status(k) = "None" /\ made < MaxImages
  /\ made' = made + 1
  /\ states' = [states EXCEPT ![k] = made + 1]
  /\ requests' = [requests EXCEPT ![made + 1] =
                    [key |-> k, status |-> "Queued", priority |-> p,
                     generation |-> issued + 1, answer |-> "Pending"]]
  /\ Queued(k, p)

RequestImage(k, p) ==
  /\ dtor = "alive"
  /\ Promote(k, p) \/ Enter(k, p)
  /\ UNCHANGED <<hand, result, stopping, dtor>>

Ready(k) ==
  [key |-> k, status |-> "Ready", priority |-> 0, generation |-> 0, answer |-> "Image"]

(* publish_prepared: the caller comes with an image of its own.  emplace   *)
(* leaves a key alone that is there, and a failed entry is there.          *)
Publish(k) ==
  /\ dtor = "alive" /\ made < MaxImages
  /\ made' = made + 1
  /\ IF Status(k) = "None"
     THEN /\ states' = [states EXCEPT ![k] = made + 1]
          /\ requests' = [requests EXCEPT ![made + 1] = Ready(k)]
     ELSE UNCHANGED <<states, requests>>
  /\ UNCHANGED <<jobVars, workerVars, stopping, dtor>>

MayRelease(k) == Status(k) = "Ready"

Erase(k) ==
  /\ dtor = "alive"
  /\ states' = [states EXCEPT ![k] = NoEntry]
  /\ UNCHANGED <<requests, made, jobVars, workerVars, stopping, dtor>>
ReleasePrepared(k) == MayRelease(k) /\ Erase(k)
ReleasePreparedIfMatches(k, image) == MayRelease(k) /\ states[k] = image /\ Erase(k)
-----------------------------------------------------------------------------
(* JobLess: the more urgent first, then the older.                         *)
Before(i, j) ==
  i.priority > j.priority \/ (i.priority = j.priority /\ i.generation < j.generation)

(* Mutant of Top: first come, first served.                                *)
Oldest == CHOOSE j \in queue : \A i \in queue : j.generation <= i.generation
Top == CHOOSE j \in queue : \A i \in queue \ {j} : Before(j, i)

(* A job is void when its entry is gone, taken, or was queued again.       *)
Current(job) ==
  /\ Status(job.key) = "Queued"
  /\ LET r == requests[states[job.key]]
     IN r.generation = job.generation /\ r.priority = job.priority

Wait(w) ==
  /\ pc[w] = "loop" /\ ~stopping /\ queue = {}
  /\ pc' = [pc EXCEPT ![w] = "asleep"]
  /\ UNCHANGED <<entryVars, jobVars, hand, result, stopping, dtor>>

SpuriousWakeup(w) ==
  /\ w \in Asleep
  /\ pc' = [pc EXCEPT ![w] = "loop"]
  /\ UNCHANGED <<entryVars, jobVars, hand, result, stopping, dtor>>

MustExit == stopping /\ queue = {}

Exit(w) ==
  /\ pc[w] = "loop" /\ MustExit
  /\ pc' = [pc EXCEPT ![w] = "exit"]
  /\ UNCHANGED <<entryVars, jobVars, hand, result, stopping, dtor>>

SkipVoid(w) ==
  /\ pc[w] = "loop" /\ queue # {} /\ ~MustExit /\ ~Current(Top)
  /\ queue' = queue \ {Top}
  /\ UNCHANGED <<entryVars, issued, workerVars, stopping, dtor>>

Take(w) ==
  /\ pc[w] = "loop" /\ queue # {} /\ ~MustExit /\ Current(Top)
  /\ queue' = queue \ {Top}
  /\ hand' = [hand EXCEPT ![w] = states[Top.key]]
  /\ requests' = [requests EXCEPT ![states[Top.key]].status = "Decoding"]
  /\ pc' = [pc EXCEPT ![w] = "decode"]
  /\ UNCHANGED <<states, made, issued, result, stopping, dtor>>

Outcome(image) == IF image = "Image" THEN "Ready" ELSE "Failed"

(* decode_image, and the entry told of what it gave.                       *)
Decoded(w, image) ==
  /\ pc[w] = "decode"
  /\ result' = [result EXCEPT ![w] = image]
  /\ requests' = IF states[requests[hand[w]].key] = hand[w]
                 THEN [requests EXCEPT ![hand[w]].status = Outcome(image)] ELSE requests
  /\ pc' = [pc EXCEPT ![w] = "deliver"]
  /\ UNCHANGED <<states, made, jobVars, hand, stopping, dtor>>

(* set_value, outside the mutex: a second one would throw.                 *)
Deliver(w) ==
  /\ pc[w] = "deliver"
  /\ requests' = [requests EXCEPT ![hand[w]].answer = result[w]]
  /\ pc' = [pc EXCEPT ![w] = "loop"]
  /\ UNCHANGED <<states, made, jobVars, hand, result, stopping, dtor>>
-----------------------------------------------------------------------------
(* The destructor.  Its caller sees to it that nobody is in a call.        *)
Stop ==
  /\ dtor = "alive"
  /\ stopping' = TRUE /\ dtor' = "notify"
  /\ UNCHANGED <<entryVars, jobVars, workerVars>>

NotifyStopping ==
  /\ dtor = "notify"
  /\ NotifyAll /\ dtor' = "join"
  /\ UNCHANGED <<entryVars, jobVars, hand, result, stopping>>

JoinAndClear ==
  /\ dtor = "join" /\ \A w \in Workers : pc[w] = "exit"
  /\ states' = [k \in Keys |-> NoEntry]
  /\ dtor' = "gone"
  /\ UNCHANGED <<requests, made, jobVars, workerVars, stopping>>
-----------------------------------------------------------------------------
Init ==
  /\ states = [k \in Keys |-> NoEntry]
  /\ requests = [n \in Entry |-> Unused] /\ made = 0
  /\ queue = {} /\ issued = 0
  /\ pc = [w \in Workers |-> "loop"]
  /\ hand = [w \in Workers |-> NoEntry] /\ result = [w \in Workers |-> "Failure"]
  /\ stopping = FALSE /\ dtor = "alive"

Call ==
  \E k \in Keys :
    \/ \E p \in Priority : RequestImage(k, p)
    \/ Publish(k)
    \/ ReleasePrepared(k)
    \/ \E image \in 1..made : ReleasePreparedIfMatches(k, image)

WorkerStep(w) ==
  \/ Wait(w) \/ Exit(w) \/ SkipVoid(w) \/ Take(w)
  \/ \E image \in {"Image", "Failure"} : Decoded(w, image)
  \/ Deliver(w)

Next ==
  \/ Call
  \/ \E w \in Workers : WorkerStep(w) \/ SpuriousWakeup(w)
  \/ Stop \/ NotifyStopping \/ JoinAndClear

Spec == Init /\ [][Next]_vars

(* Decoding ends, and no worker is starved at the mutex; requests and      *)
(* destruction may or may not come.                                        *)
FairSpec ==
  /\ Spec
  /\ \A w \in Workers : SF_vars(WorkerStep(w))
  /\ WF_vars(NotifyStopping \/ JoinAndClear)
-----------------------------------------------------------------------------
(* The shape of the entries, the jobs and the workers' hands.              *)
AssetsTypeOK ==
  /\ states \in [Keys -> 0..made]
  /\ requests \in [Entry -> [key : Keys \cup {"none"}, priority : Priority, generation : 0..issued,
                             status : {"Unused", "Queued", "Decoding", "Ready", "Failed"},
                             answer : {"Pending", "Image", "Failure"}]]
  /\ \A k \in Keys : states[k] # NoEntry =>
       requests[states[k]].key = k /\ requests[states[k]].status # "Unused"
  /\ made \in 0..MaxImages /\ issued \in 0..MaxIssued
  /\ \A j \in queue : j.key \in Keys /\ j.priority \in Priority /\ j.generation \in 1..issued
  /\ pc \in [Workers -> {"loop", "asleep", "decode", "deliver", "exit"}]
  /\ hand \in [Workers -> 0..made] /\ \A w \in Holding : hand[w] # NoEntry
  /\ result \in [Workers -> {"Image", "Failure"}]
  /\ stopping \in BOOLEAN /\ dtor \in {"alive", "notify", "join", "gone"}

(* A request nobody has answered is in exactly one place: queued by one    *)
(* job that is not void, or in the hands of one worker; so promotion and   *)
(* release neither lose it nor have its promise kept twice, which          *)
(* set_value (asset_runtime.cpp:323) would answer with an exception.  And  *)
(* the destructor leaves nobody waiting for an answer.                     *)
JobsOf(n) == {j \in queue : Current(j) /\ states[j.key] = n}
HandsOn(n) == {w \in Holding : hand[w] = n}

RequestsAreSomewhere ==
  \A n \in Entry :
    requests[n].status # "Unused" =>
      /\ Cardinality(JobsOf(n)) + Cardinality(HandsOn(n))
           = IF requests[n].answer = "Pending" THEN 1 ELSE 0
      /\ dtor = "gone" => requests[n].answer # "Pending"

(* No image is decoded twice at a time, whichever calls overlap.           *)
OneDecoderPerImage ==
  \A v, w \in Workers :
    pc[v] = "decode" /\ pc[w] = "decode" /\ requests[hand[v]].key = requests[hand[w]].key => v = w

(* What an entry says is what its holders are told or about to be told.    *)
EntriesAgreeWithAnswers ==
  /\ AssetsTypeOK
  /\ \A n \in Entry :
       requests[n].status \in {"Ready", "Failed"} =>
         \E answer \in {"Image", "Failure"} :
           /\ requests[n].status = "Ready" <=> answer = "Image"
           /\ \/ requests[n].answer = answer
              \/ \E w \in HandsOn(n) : pc[w] = "deliver" /\ result[w] = answer

(* Every request is in one place, what is said of it is true, and no image *)
(* is decoded by two workers (asset_runtime.cpp:128-215, 290-330).         *)
RequestsAreAccountedFor == RequestsAreSomewhere /\ OneDecoderPerImage /\ EntriesAgreeWithAnswers

(* A worker starts on the most urgent waiting image, at the priority it    *)
(* was last asked for, and on the one asked for first among equals.        *)
MostUrgentFirst ==
  [][ \A n \in Entry : requests[n].status = "Queued" /\ requests'[n].status = "Decoding" =>
        \A m \in Entry \ {n} : requests[m].status = "Queued" => Before(requests[n], requests[m]) ]_vars

(* Every request is answered in the end, also when the runtime is          *)
(* destroyed meanwhile, and a destructor that has begun gets to its end.   *)
RequestsAreAnswered ==
  /\ \A n \in Entry : requests[n].status = "Queued" ~> requests[n].answer # "Pending"
  /\ dtor = "notify" ~> dtor = "gone"
=============================================================================
