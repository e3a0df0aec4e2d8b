----------------------------- MODULE AssetProofs -----------------------------
(***************************************************************************)
(* Proofs about AssetRuntime for any keys, workers, priorities and bounds: *)
(* every request is in exactly one place until it is answered, no image is *)
(* decoded by two workers, and the workers start on the most urgent one.   *)
(* Then about ExtractionTool, for any games, commands and number of runs:  *)
(* a package is published whole or not at all, and exit codes are right.   *)
(***************************************************************************)
EXTENDS AssetRuntime, ExtractionTool, NaturalFacts

Job == [key : Keys, priority : Priority, generation : 1..issued]
JobFor(n) ==
  [key |-> requests[n].key, priority |-> requests[n].priority,
   generation |-> requests[n].generation]

(* No two jobs have one generation, so that the queue has a first one.     *)
QueueIsOrdered ==
  /\ queue \subseteq Job
  /\ \A i, j \in queue : i.generation = j.generation => i = j

(* An entry is made once, and keeps its key.                               *)
EntriesAreMade ==
  \A n \in Entry :
    /\ requests[n].status # "Unused" => n <= made /\ requests[n].key \in Keys
    /\ requests[n].status = "Unused" => requests[n].answer = "Pending"

(* A waiting entry is the one its key leads to, and its job is queued.     *)
WaitingIsQueued ==
  \A n \in Entry : requests[n].status = "Queued" =>
    /\ requests[n].answer = "Pending"
    /\ states[requests[n].key] = n
    /\ JobFor(n) \in queue

(* An entry that is decoded is in one worker's hands and in nobody else's, *)
(* and stays the one its key leads to.                                     *)
DecodingIsHeld ==
  /\ \A n \in Entry : requests[n].status = "Decoding" =>
       \E w \in Workers : pc[w] = "decode" /\ hand[w] = n
  /\ \A w \in Workers : pc[w] = "decode" =>
       /\ requests[hand[w]].status = "Decoding"
       /\ requests[hand[w]].answer = "Pending"
       /\ states[requests[hand[w]].key] = hand[w]

(* An entry whose image is there is about to be answered or has been.      *)
DecidedIsAnswered ==
  /\ \A w \in Workers : pc[w] = "deliver" =>
       /\ requests[hand[w]].status = Outcome(result[w])
       /\ requests[hand[w]].answer = "Pending"
  /\ \A n \in Entry : requests[n].status \in {"Ready", "Failed"} =>
       \/ requests[n].status = Outcome(requests[n].answer) /\ requests[n].answer # "Pending"
       \/ \E w \in Workers : pc[w] = "deliver" /\ hand[w] = n

HandsAreDistinct ==
  /\ \A w \in Holding : hand[w] # NoEntry
  /\ \A v, w \in Holding : hand[v] = hand[w] => v = w

(* A worker leaves only when it is told to stop and nothing is queued.     *)
ExitsAreLast ==
  /\ stopping <=> dtor # "alive"
  /\ \A w \in Workers : pc[w] = "exit" => stopping /\ queue = {}
  /\ dtor = "gone" => \A w \in Workers : pc[w] = "exit"

AssetInv ==
  /\ AssetsTypeOK
  /\ QueueIsOrdered /\ EntriesAreMade /\ WaitingIsQueued /\ DecodingIsHeld
  /\ DecidedIsAnswered /\ HandsAreDistinct /\ ExitsAreLast
-----------------------------------------------------------------------------
LEMMA InitInv == Init => AssetInv
<1> SUFFICES ASSUME Init PROVE AssetInv
  OBVIOUS
<1> USE DEF Init, NoEntry, Unused
<1>1. AssetsTypeOK
  <2>1. requests \in [Entry -> [key : Keys \cup {"none"}, priority : Priority, generation : 0..issued,
                               status : {"Unused", "Queued", "Decoding", "Ready", "Failed"},
                               answer : {"Pending", "Image", "Failure"}]]
    BY BoundsAssumption DEF Priority
  <2>2. states \in [Keys -> 0..made] /\ \A k \in Keys : states[k] = NoEntry
    OBVIOUS
  <2>3. pc \in [Workers -> {"loop", "asleep", "decode", "deliver", "exit"}] /\ Holding = {}
    BY DEF Holding
  <2>4. /\ hand \in [Workers -> 0..made] /\ result \in [Workers -> {"Image", "Failure"}]
        /\ made \in 0..MaxImages /\ issued \in 0..MaxIssued
    BY BoundsAssumption
  <2> QED
    BY <2>1, <2>2, <2>3, <2>4 DEF AssetsTypeOK
<1>2. QueueIsOrdered /\ EntriesAreMade /\ WaitingIsQueued
  BY DEF QueueIsOrdered, EntriesAreMade, WaitingIsQueued
<1>3. DecodingIsHeld /\ DecidedIsAnswered
  BY DEF DecodingIsHeld, DecidedIsAnswered
<1>4. HandsAreDistinct /\ ExitsAreLast
  BY DEF HandsAreDistinct, ExitsAreLast, Holding
<1> QED
  BY <1>1, <1>2, <1>3, <1>4 DEF AssetInv

(* The queue's first job comes before every other one.                     *)
LEMMA TopIsFirst ==
  ASSUME QueueIsOrdered, queue # {}
  PROVE  Top \in queue /\ \A i \in queue \ {Top} : Before(Top, i)
<1> USE BoundsAssumption DEF QueueIsOrdered, Job, Priority
<1> DEFINE K == {Urgent - j.priority : j \in queue}
<1>1. K \in SUBSET Nat /\ K # {}
  OBVIOUS
<1>2. PICK k \in K : \A j \in K : k <= j
  BY <1>1, LeastExists
<1>3. \A j \in queue : j.priority <= Urgent - k
  <2> SUFFICES ASSUME NEW j \in queue PROVE j.priority <= Urgent - k
    OBVIOUS
  <2>1. Urgent - j.priority \in K /\ j.priority \in Nat /\ k \in Nat
    BY <1>1
  <2>2. k <= Urgent - j.priority
    BY <2>1, <1>2
  <2> QED
    BY <2>1, <2>2
<1> DEFINE G == {j.generation : j \in {i \in queue : i.priority = Urgent - k}}
<1>4. G # {}
  OBVIOUS
<1>5. G \in SUBSET Nat
  OBVIOUS
<1>6. PICK g \in G : \A h \in G : g <= h
  BY <1>4, <1>5, LeastExists
<1>7. PICK j \in queue : j.priority = Urgent - k /\ j.generation = g
  OBVIOUS
<1>8. \A i \in queue \ {j} : Before(j, i)
  <2> SUFFICES ASSUME NEW i \in queue \ {j} PROVE Before(j, i)
    OBVIOUS
  <2>1. CASE i.priority = j.priority
    <3>1. g <= i.generation
      BY <2>1, <1>6, <1>7
    <3> QED
      BY <2>1, <3>1, <1>7 DEF Before
  <2>2. CASE i.priority # j.priority
    BY <2>2, <1>3, <1>7 DEF Before
  <2> QED
    BY <2>1, <2>2
<1> QED
  BY <1>8 DEF Top
(* The fields of an entry, and the entries the keys lead to.               *)
LEMMA EntryFacts ==
  ASSUME AssetsTypeOK
  PROVE  /\ \A n \in Entry :
              /\ requests[n].key \in Keys \cup {"none"} /\ requests[n].priority \in Priority
              /\ requests[n].generation \in 0..issued
              /\ requests[n].status \in {"Unused", "Queued", "Decoding", "Ready", "Failed"}
              /\ requests[n].answer \in {"Pending", "Image", "Failure"}
         /\ \A k \in Keys : states[k] # NoEntry =>
              /\ states[k] \in Entry /\ requests[states[k]].key = k
              /\ requests[states[k]].status # "Unused"
         /\ \A w \in Holding : w \in Workers /\ hand[w] \in Entry
         /\ Priority \subseteq Nat /\ Entry \subseteq Nat /\ NoEntry \notin Entry
BY BoundsAssumption DEF AssetsTypeOK, Entry, Priority, Holding, NoEntry

(* Telling a sleeper of a job takes nobody's entry away.                   *)
LEMMA NotifyFacts ==
  ASSUME AssetsTypeOK, NotifyOne
  PROVE  /\ pc' \in [Workers -> {"loop", "asleep", "decode", "deliver", "exit"}]
         /\ \A w \in Workers : pc[w] # "asleep" => pc'[w] = pc[w]
         /\ \A w \in Workers : pc[w] = "asleep" => pc'[w] \in {"asleep", "loop"}
BY DEF AssetsTypeOK, NotifyOne, Asleep

LEMMA PromoteKeepsInv ==
  ASSUME AssetInv, dtor = "alive", NEW k \in Keys, NEW p \in Priority, Promote(k, p),
         UNCHANGED <<hand, result, stopping, dtor>>
  PROVE  AssetInv'
<1> DEFINE n == states[k]
<1> USE DEF AssetInv
<1>1. /\ n \in Entry /\ requests[n].status = "Queued" /\ requests[n].key = k
      /\ p > requests[n].priority
  BY EntryFacts DEF Promote, Status
<1>2. /\ \A m \in Entry : /\ requests'[m].key = requests[m].key
                           /\ requests'[m].status = requests[m].status
                           /\ requests'[m].answer = requests[m].answer
      /\ \A m \in Entry \ {n} : requests'[m] = requests[m]
      /\ requests'[n].priority = p /\ requests'[n].generation = issued + 1
  BY <1>1 DEF Promote, AssetsTypeOK
<1>3. /\ states' = states /\ made' = made /\ issued' = issued + 1 /\ issued' <= MaxIssued
      /\ queue' = queue \cup {[key |-> k, priority |-> p, generation |-> issued + 1]}
      /\ issued \in Nat /\ issued' \in 0..MaxIssued
  BY BoundsAssumption DEF Promote, Queued, AssetsTypeOK
<1>4. /\ Holding' = Holding
      /\ \A w \in Workers : pc'[w] \in {"decode", "deliver", "exit"} => pc'[w] = pc[w]
      /\ \A w \in Workers : pc[w] \in {"decode", "deliver", "exit"} => pc'[w] = pc[w]
      /\ pc' \in [Workers -> {"loop", "asleep", "decode", "deliver", "exit"}]
  BY NotifyFacts DEF Promote, Queued, Holding, AssetsTypeOK
<1>5. AssetsTypeOK'
  <2>1. requests' \in [Entry -> [key : Keys \cup {"none"}, priority : Priority, generation : 0..issued',
                                status : {"Unused", "Queued", "Decoding", "Ready", "Failed"},
                                answer : {"Pending", "Image", "Failure"}]]
    BY <1>1, <1>3 DEF Promote, AssetsTypeOK
  <2>2. \A j \in queue' : j.key \in Keys /\ j.priority \in Priority /\ j.generation \in 1..issued'
    BY <1>3 DEF AssetsTypeOK
  <2> QED
    BY <1>2, <1>3, <1>4, <2>1, <2>2, EntryFacts DEF AssetsTypeOK
<1>6. QueueIsOrdered'
  BY <1>3 DEF QueueIsOrdered, Job
<1>7. EntriesAreMade'
  BY <1>2, <1>3 DEF EntriesAreMade
<1>8. WaitingIsQueued'
  <2> SUFFICES ASSUME NEW m \in Entry, requests'[m].status = "Queued"
               PROVE  /\ requests'[m].answer = "Pending" /\ states'[requests'[m].key] = m
                      /\ JobFor(m)' \in queue'
    BY DEF WaitingIsQueued
  <2>1. CASE m = n
    BY <2>1, <1>1, <1>2, <1>3 DEF WaitingIsQueued, JobFor
  <2>2. CASE m # n
    BY <2>2, <1>2, <1>3 DEF WaitingIsQueued, JobFor
  <2> QED
    BY <2>1, <2>2
<1>9. DecodingIsHeld' /\ DecidedIsAnswered'
  BY <1>2, <1>3, <1>4, EntryFacts DEF DecodingIsHeld, DecidedIsAnswered, Holding
<1>10. HandsAreDistinct' /\ ExitsAreLast'
  BY <1>3, <1>4 DEF HandsAreDistinct, ExitsAreLast
<1> QED
  BY <1>5, <1>6, <1>7, <1>8, <1>9, <1>10

LEMMA EnterKeepsInv ==
  ASSUME AssetInv, dtor = "alive", NEW k \in Keys, NEW p \in Priority, Enter(k, p),
         UNCHANGED <<hand, result, stopping, dtor>>
  PROVE  AssetInv'
<1> DEFINE n == made + 1
<1> USE DEF AssetInv
<1>1. /\ n \in Entry /\ requests[n].status = "Unused" /\ states[k] = NoEntry
  <2>1. states[k] = NoEntry
    BY EntryFacts DEF Enter, Status
  <2> QED
    BY <2>1, EntryFacts, BoundsAssumption DEF Enter, AssetsTypeOK, Entry, EntriesAreMade
<1>2. /\ \A m \in Entry \ {n} : requests'[m] = requests[m]
      /\ requests'[n] = [key |-> k, status |-> "Queued", priority |-> p,
                         generation |-> issued + 1, answer |-> "Pending"]
  BY <1>1 DEF Enter, AssetsTypeOK
<1>3. /\ made' = made + 1 /\ issued' = issued + 1 /\ issued' <= MaxIssued
      /\ queue' = queue \cup {[key |-> k, priority |-> p, generation |-> issued + 1]}
      /\ issued \in Nat /\ issued' \in 0..MaxIssued /\ made \in Nat /\ made' \in 0..MaxImages
  BY BoundsAssumption DEF Enter, Queued, AssetsTypeOK
<1>4. /\ Holding' = Holding
      /\ \A w \in Workers : pc'[w] \in {"decode", "deliver", "exit"} => pc'[w] = pc[w]
      /\ \A w \in Workers : pc[w] \in {"decode", "deliver", "exit"} => pc'[w] = pc[w]
      /\ pc' \in [Workers -> {"loop", "asleep", "decode", "deliver", "exit"}]
  BY NotifyFacts DEF Enter, Queued, Holding, AssetsTypeOK
<1>5. states'[k] = n /\ \A i \in Keys \ {k} : states'[i] = states[i]
  BY DEF Enter, AssetsTypeOK
<1>6. AssetsTypeOK'
  <2>1. requests' \in [Entry -> [key : Keys \cup {"none"}, priority : Priority, generation : 0..issued',
                                status : {"Unused", "Queued", "Decoding", "Ready", "Failed"},
                                answer : {"Pending", "Image", "Failure"}]]
    BY <1>1, <1>3 DEF Enter, AssetsTypeOK
  <2>2. \A j \in queue' : j.key \in Keys /\ j.priority \in Priority /\ j.generation \in 1..issued'
    BY <1>3 DEF AssetsTypeOK
  <2>3. states' \in [Keys -> 0..made'] /\ hand' \in [Workers -> 0..made']
    BY <1>3 DEF Enter, AssetsTypeOK
  <2>4. ASSUME NEW i \in Keys, states'[i] # NoEntry
        PROVE  requests'[states'[i]].key = i /\ requests'[states'[i]].status # "Unused"
    <3>1. CASE i = k
      BY <3>1, <1>2, <1>5
    <3>2. CASE i # k
      BY <3>2, <2>4, <1>1, <1>2, <1>5, EntryFacts
    <3> QED
      BY <3>1, <3>2
  <2>5. \A w \in Holding' : hand'[w] # NoEntry
    BY <1>4 DEF AssetsTypeOK
  <2> QED
    BY <1>3, <1>4, <2>1, <2>2, <2>3, <2>4, <2>5 DEF AssetsTypeOK
<1>7. QueueIsOrdered'
  BY <1>3 DEF QueueIsOrdered, Job
<1>8. EntriesAreMade'
  BY <1>2, <1>3 DEF EntriesAreMade, Entry
<1>9. WaitingIsQueued'
  <2> SUFFICES ASSUME NEW m \in Entry, requests'[m].status = "Queued"
               PROVE  /\ requests'[m].answer = "Pending" /\ states'[requests'[m].key] = m
                      /\ JobFor(m)' \in queue'
    BY DEF WaitingIsQueued
  <2>1. CASE m = n
    BY <2>1, <1>2, <1>3, <1>5 DEF JobFor
  <2>2. CASE m # n
    BY <2>2, <1>1, <1>2, <1>3, <1>5, EntryFacts DEF WaitingIsQueued, JobFor, EntriesAreMade
  <2> QED
    BY <2>1, <2>2
<1>10. DecodingIsHeld' /\ DecidedIsAnswered'
  <2>1. \A w \in Holding : hand[w] \in Entry \ {n}
    BY <1>1, EntryFacts DEF DecodingIsHeld, DecidedIsAnswered, Holding, Outcome
  <2>2. \A w \in Workers : pc[w] = "decode" => states'[requests[hand[w]].key] = hand[w]
    BY <2>1, <1>1, <1>5, EntryFacts DEF DecodingIsHeld, Holding, EntriesAreMade
  <2>3. DecodingIsHeld'
    BY <2>1, <2>2, <1>2, <1>4 DEF DecodingIsHeld, Holding
  <2>4. DecidedIsAnswered'
    BY <2>1, <1>2, <1>4 DEF DecidedIsAnswered, Holding
  <2> QED
    BY <2>3, <2>4
<1>11. HandsAreDistinct' /\ ExitsAreLast'
  BY <1>3, <1>4 DEF HandsAreDistinct, ExitsAreLast
<1> QED
  BY <1>6, <1>7, <1>8, <1>9, <1>10, <1>11

LEMMA PublishKeepsInv ==
  ASSUME AssetInv, NEW k \in Keys, Publish(k)
  PROVE  AssetInv'
<1> DEFINE n == made + 1
<1> USE DEF AssetInv
<1>1. /\ n \in Entry /\ requests[n].status = "Unused" /\ made \in Nat
      /\ made' = n /\ made' \in 0..MaxImages
      /\ UNCHANGED <<queue, issued, pc, hand, result, stopping, dtor>> /\ dtor = "alive"
  BY EntryFacts, BoundsAssumption
  DEF Publish, AssetsTypeOK, Entry, EntriesAreMade, jobVars, workerVars
<1>2. CASE Status(k) = "None"
  <2>1. states[k] = NoEntry
    BY <1>2, EntryFacts DEF Status
  <2>2. /\ \A m \in Entry \ {n} : requests'[m] = requests[m]
        /\ requests'[n] = Ready(k)
        /\ states'[k] = n /\ \A i \in Keys \ {k} : states'[i] = states[i]
    BY <1>1, <1>2 DEF Publish, AssetsTypeOK
  <2>3. AssetsTypeOK'
    <3>1. requests' \in [Entry -> [key : Keys \cup {"none"}, priority : Priority, generation : 0..issued,
                                  status : {"Unused", "Queued", "Decoding", "Ready", "Failed"},
                                  answer : {"Pending", "Image", "Failure"}]]
      BY <1>1, <1>2, BoundsAssumption DEF Publish, AssetsTypeOK, Ready, Priority
    <3>2. states' \in [Keys -> 0..made'] /\ hand' \in [Workers -> 0..made']
      BY <1>1, <1>2 DEF Publish, AssetsTypeOK
    <3>3. ASSUME NEW i \in Keys, states'[i] # NoEntry
          PROVE  requests'[states'[i]].key = i /\ requests'[states'[i]].status # "Unused"
      <4>1. CASE i = k
        BY <4>1, <2>2 DEF Ready
      <4>2. CASE i # k
        BY <4>2, <3>3, <1>1, <2>2, EntryFacts
      <4> QED
        BY <4>1, <4>2
    <3> QED
      BY <1>1, <3>1, <3>2, <3>3 DEF AssetsTypeOK, Holding
  <2>4. QueueIsOrdered'
    BY <1>1 DEF QueueIsOrdered, Job
  <2>5. EntriesAreMade'
    BY <1>1, <2>2 DEF EntriesAreMade, Entry, Ready
  <2>6. WaitingIsQueued'
    <3> SUFFICES ASSUME NEW m \in Entry, requests'[m].status = "Queued"
                 PROVE  /\ requests'[m].answer = "Pending" /\ states'[requests'[m].key] = m
                        /\ JobFor(m)' \in queue'
      BY DEF WaitingIsQueued
    <3>1. m # n
      BY <2>2 DEF Ready
    <3> QED
      BY <3>1, <1>1, <2>1, <2>2, EntryFacts DEF WaitingIsQueued, JobFor, EntriesAreMade
  <2>7. DecodingIsHeld' /\ DecidedIsAnswered'
    <3>1. \A w \in Holding : hand[w] \in Entry \ {n}
      BY <1>1, EntryFacts DEF DecodingIsHeld, DecidedIsAnswered, Holding, Outcome
    <3>2. \A w \in Workers : pc[w] = "decode" => states'[requests[hand[w]].key] = hand[w]
      BY <3>1, <2>1, <2>2, EntryFacts DEF DecodingIsHeld, Holding, EntriesAreMade
    <3>3. DecodingIsHeld'
      BY <3>1, <3>2, <1>1, <2>2 DEF DecodingIsHeld, Holding, Ready
    <3>4. DecidedIsAnswered'
      BY <3>1, <1>1, <2>2 DEF DecidedIsAnswered, Holding, Ready, Outcome
    <3> QED
      BY <3>3, <3>4
  <2>8. HandsAreDistinct' /\ ExitsAreLast'
    BY <1>1 DEF HandsAreDistinct, ExitsAreLast, Holding
  <2> QED
    BY <2>3, <2>4, <2>5, <2>6, <2>7, <2>8
<1>3. CASE Status(k) # "None"
  <2>1. requests' = requests /\ states' = states
    BY <1>3 DEF Publish
  <2>2. AssetsTypeOK'
    BY <1>1, <2>1 DEF AssetsTypeOK, Holding
  <2>3. QueueIsOrdered' /\ EntriesAreMade' /\ WaitingIsQueued'
    BY <1>1, <2>1 DEF QueueIsOrdered, EntriesAreMade, WaitingIsQueued, JobFor, Job, Entry
  <2>4. DecodingIsHeld' /\ DecidedIsAnswered' /\ HandsAreDistinct' /\ ExitsAreLast'
    BY <1>1, <2>1 DEF DecodingIsHeld, DecidedIsAnswered, HandsAreDistinct, ExitsAreLast, Holding
  <2> QED
    BY <2>2, <2>3, <2>4
<1> QED
  BY <1>2, <1>3

LEMMA EraseKeepsInv ==
  ASSUME AssetInv, NEW k \in Keys, MayRelease(k), Erase(k)
  PROVE  AssetInv'
<1> USE BoundsAssumption DEF AssetInv, Erase, MayRelease, entryVars, jobVars, workerVars, NoEntry
<1>1. AssetsTypeOK'
  BY DEF AssetsTypeOK, Entry, Priority, Holding, Status, Outcome, HandsAreDistinct, Unused
<1>2. QueueIsOrdered'
  BY DEF QueueIsOrdered, Job, AssetsTypeOK
<1>3. EntriesAreMade'
  BY DEF EntriesAreMade, AssetsTypeOK, Entry, Holding, Status
<1>4. WaitingIsQueued'
  BY DEF WaitingIsQueued, JobFor, AssetsTypeOK, Entry, Holding, Status
<1>5. DecodingIsHeld'
  BY DEF DecodingIsHeld, AssetsTypeOK, Entry, Holding, Status
<1>6. DecidedIsAnswered'
  BY DEF DecidedIsAnswered, AssetsTypeOK, Entry, Holding, Status, Outcome
<1>7. HandsAreDistinct'
  BY DEF HandsAreDistinct, AssetsTypeOK, Holding
<1>8. ExitsAreLast'
  BY DEF ExitsAreLast, AssetsTypeOK, Holding
<1> QED
  BY <1>1, <1>2, <1>3, <1>4, <1>5, <1>6, <1>7, <1>8

LEMMA WaitKeepsInv ==
  ASSUME AssetInv, NEW w \in Workers, Wait(w)
  PROVE  AssetInv'
<1> USE BoundsAssumption DEF AssetInv, Wait, entryVars, jobVars, workerVars, NoEntry
<1>1. AssetsTypeOK'
  BY DEF AssetsTypeOK, Entry, Priority, Holding, Status, Outcome, HandsAreDistinct, Unused
<1>2. QueueIsOrdered'
  BY DEF QueueIsOrdered, Job, AssetsTypeOK
<1>3. EntriesAreMade'
  BY DEF EntriesAreMade, AssetsTypeOK, Entry, Holding, Status
<1>4. WaitingIsQueued'
  BY DEF WaitingIsQueued, JobFor, AssetsTypeOK, Entry, Holding, Status
<1>5. DecodingIsHeld'
  BY DEF DecodingIsHeld, AssetsTypeOK, Entry, Holding, Status
<1>6. DecidedIsAnswered'
  BY DEF DecidedIsAnswered, AssetsTypeOK, Entry, Holding, Status, Outcome
<1>7. HandsAreDistinct'
  BY DEF HandsAreDistinct, AssetsTypeOK, Holding
<1>8. ExitsAreLast'
  BY DEF ExitsAreLast, AssetsTypeOK, Holding
<1> QED
  BY <1>1, <1>2, <1>3, <1>4, <1>5, <1>6, <1>7, <1>8

LEMMA SpuriousWakeupKeepsInv ==
  ASSUME AssetInv, NEW w \in Workers, SpuriousWakeup(w)
  PROVE  AssetInv'
<1> USE BoundsAssumption DEF AssetInv, SpuriousWakeup, Asleep, entryVars, jobVars, workerVars, NoEntry
<1>1. AssetsTypeOK'
  BY DEF AssetsTypeOK, Entry, Priority, Holding, Status, Outcome, HandsAreDistinct, Unused
<1>2. QueueIsOrdered'
  BY DEF QueueIsOrdered, Job, AssetsTypeOK
<1>3. EntriesAreMade'
  BY DEF EntriesAreMade, AssetsTypeOK, Entry, Holding, Status
<1>4. WaitingIsQueued'
  BY DEF WaitingIsQueued, JobFor, AssetsTypeOK, Entry, Holding, Status
<1>5. DecodingIsHeld'
  BY DEF DecodingIsHeld, AssetsTypeOK, Entry, Holding, Status
<1>6. DecidedIsAnswered'
  BY DEF DecidedIsAnswered, AssetsTypeOK, Entry, Holding, Status, Outcome
<1>7. HandsAreDistinct'
  BY DEF HandsAreDistinct, AssetsTypeOK, Holding
<1>8. ExitsAreLast'
  BY DEF ExitsAreLast, AssetsTypeOK, Holding
<1> QED
  BY <1>1, <1>2, <1>3, <1>4, <1>5, <1>6, <1>7, <1>8

LEMMA ExitKeepsInv ==
  ASSUME AssetInv, NEW w \in Workers, Exit(w)
  PROVE  AssetInv'
<1> USE BoundsAssumption DEF AssetInv, Exit, MustExit, entryVars, jobVars, workerVars, NoEntry
<1>1. AssetsTypeOK'
  BY DEF AssetsTypeOK, Entry, Priority, Holding, Status, Outcome, HandsAreDistinct, Unused
<1>2. QueueIsOrdered'
  BY DEF QueueIsOrdered, Job, AssetsTypeOK
<1>3. EntriesAreMade'
  BY DEF EntriesAreMade, AssetsTypeOK, Entry, Holding, Status
<1>4. WaitingIsQueued'
  BY DEF WaitingIsQueued, JobFor, AssetsTypeOK, Entry, Holding, Status
<1>5. DecodingIsHeld'
  BY DEF DecodingIsHeld, AssetsTypeOK, Entry, Holding, Status
<1>6. DecidedIsAnswered'
  BY DEF DecidedIsAnswered, AssetsTypeOK, Entry, Holding, Status, Outcome
<1>7. HandsAreDistinct'
  BY DEF HandsAreDistinct, AssetsTypeOK, Holding
<1>8. ExitsAreLast'
  BY DEF ExitsAreLast, AssetsTypeOK, Holding
<1> QED
  BY <1>1, <1>2, <1>3, <1>4, <1>5, <1>6, <1>7, <1>8

LEMMA SkipVoidKeepsInv ==
  ASSUME AssetInv, NEW w \in Workers, SkipVoid(w)
  PROVE  AssetInv'
<1> USE BoundsAssumption DEF AssetInv, SkipVoid, MustExit, Current, entryVars, jobVars, workerVars, NoEntry
<1>1. AssetsTypeOK'
  BY DEF AssetsTypeOK, Entry, Priority, Holding, Status, Outcome, HandsAreDistinct, Unused
<1>2. QueueIsOrdered'
  BY DEF QueueIsOrdered, Job, AssetsTypeOK
<1>3. EntriesAreMade'
  BY DEF EntriesAreMade, AssetsTypeOK, Entry, Holding, Status
<1>4. WaitingIsQueued'
  BY DEF WaitingIsQueued, JobFor, AssetsTypeOK, Entry, Holding, Status
<1>5. DecodingIsHeld'
  BY DEF DecodingIsHeld, AssetsTypeOK, Entry, Holding, Status
<1>6. DecidedIsAnswered'
  BY DEF DecidedIsAnswered, AssetsTypeOK, Entry, Holding, Status, Outcome
<1>7. HandsAreDistinct'
  BY DEF HandsAreDistinct, AssetsTypeOK, Holding
<1>8. ExitsAreLast'
  BY DEF ExitsAreLast, AssetsTypeOK, Holding
<1> QED
  BY <1>1, <1>2, <1>3, <1>4, <1>5, <1>6, <1>7, <1>8

(* What a worker that does not skip the first job takes.                   *)
LEMMA TakenFacts ==
  ASSUME AssetInv, queue # {}, Current(Top)
  PROVE  LET n == states[Top.key] IN
         /\ n \in Entry /\ requests[n].status = "Queued" /\ requests[n].key = Top.key
         /\ Top = JobFor(n)
<1>1. Top \in Job
  BY TopIsFirst DEF AssetInv, QueueIsOrdered
<1> QED
  BY <1>1, EntryFacts DEF AssetInv, Current, Status, JobFor, Job

LEMMA TakeKeepsInv ==
  ASSUME AssetInv, NEW w \in Workers, Take(w)
  PROVE  AssetInv'
<1> DEFINE n == states[Top.key]
<1> USE DEF AssetInv
<1>1. /\ n \in Entry /\ requests[n].status = "Queued" /\ requests[n].key = Top.key
      /\ Top = JobFor(n) /\ requests[n].answer = "Pending" /\ n \in 0..made /\ n # NoEntry
  <2>1. /\ n \in Entry /\ requests[n].status = "Queued" /\ requests[n].key = Top.key
        /\ Top = JobFor(n)
    BY TakenFacts DEF Take
  <2> QED
    BY <2>1, EntryFacts DEF WaitingIsQueued, EntriesAreMade, Entry, AssetsTypeOK
<1>2. /\ \A m \in Entry \ {n} : requests'[m] = requests[m]
      /\ requests'[n].status = "Decoding"
      /\ \A m \in Entry : /\ requests'[m].key = requests[m].key
                          /\ requests'[m].answer = requests[m].answer
                          /\ JobFor(m)' = JobFor(m)
  BY <1>1 DEF Take, AssetsTypeOK, JobFor
<1>3. /\ UNCHANGED <<states, made, issued, result, stopping, dtor>>
      /\ queue' = queue \ {Top} /\ pc[w] = "loop"
      /\ pc'[w] = "decode" /\ \A v \in Workers \ {w} : pc'[v] = pc[v]
      /\ hand'[w] = n /\ \A v \in Workers \ {w} : hand'[v] = hand[v]
  BY DEF Take, AssetsTypeOK
<1>4. Holding' = Holding \cup {w} /\ w \notin Holding
  BY <1>3 DEF Holding
<1>5. \A v \in Holding : hand[v] \in Entry \ {n}
  <2> SUFFICES ASSUME NEW v \in Holding PROVE hand[v] \in Entry \ {n}
    OBVIOUS
  <2>1. CASE pc[v] = "decode"
    BY <2>1, <1>1, EntryFacts DEF DecodingIsHeld
  <2>2. CASE pc[v] = "deliver"
    BY <2>2, <1>1, EntryFacts DEF DecidedIsAnswered, Outcome
  <2> QED
    BY <2>1, <2>2 DEF Holding
<1>6. AssetsTypeOK'
  <2>1. requests' \in [Entry -> [key : Keys \cup {"none"}, priority : Priority, generation : 0..issued,
                                status : {"Unused", "Queued", "Decoding", "Ready", "Failed"},
                                answer : {"Pending", "Image", "Failure"}]]
    BY <1>1 DEF Take, AssetsTypeOK
  <2>2. pc' \in [Workers -> {"loop", "asleep", "decode", "deliver", "exit"}]
    BY DEF Take, AssetsTypeOK
  <2>3. hand' \in [Workers -> 0..made] /\ \A v \in Holding' : hand'[v] # NoEntry
    BY <1>1, <1>3, <1>4 DEF Take, AssetsTypeOK
  <2>4. \A k \in Keys : states[k] # NoEntry =>
          requests'[states[k]].key = k /\ requests'[states[k]].status # "Unused"
    BY <1>1, <1>2, EntryFacts
  <2> QED
    BY <1>3, <2>1, <2>2, <2>3, <2>4 DEF AssetsTypeOK
<1>7. QueueIsOrdered'
  BY <1>3 DEF QueueIsOrdered, Job
<1>8. EntriesAreMade'
  BY <1>1, <1>2, <1>3 DEF EntriesAreMade
<1>9. WaitingIsQueued'
  <2> SUFFICES ASSUME NEW m \in Entry, requests'[m].status = "Queued"
               PROVE  /\ requests'[m].answer = "Pending" /\ states'[requests'[m].key] = m
                      /\ JobFor(m)' \in queue'
    BY DEF WaitingIsQueued
  <2>1. m # n /\ requests[m].status = "Queued" /\ states[requests[m].key] = m
    BY <1>2 DEF WaitingIsQueued
  <2>2. JobFor(m) # Top
    BY <2>1, <1>1 DEF JobFor
  <2> QED
    BY <2>1, <2>2, <1>2, <1>3 DEF WaitingIsQueued
<1>10. DecodingIsHeld' /\ DecidedIsAnswered'
  <2>1. DecodingIsHeld'
    BY <1>1, <1>2, <1>3, <1>4, <1>5 DEF DecodingIsHeld, Holding, WaitingIsQueued
  <2>2. DecidedIsAnswered'
    BY <1>1, <1>2, <1>3, <1>4, <1>5 DEF DecidedIsAnswered, Holding
  <2> QED
    BY <2>1, <2>2
<1>11. HandsAreDistinct' /\ ExitsAreLast'
  <2>1. HandsAreDistinct'
    BY <1>1, <1>3, <1>4, <1>5 DEF HandsAreDistinct, Holding
  <2>2. ExitsAreLast'
    BY <1>3 DEF ExitsAreLast
  <2> QED
    BY <2>1, <2>2
<1> QED
  BY <1>6, <1>7, <1>8, <1>9, <1>10, <1>11

LEMMA DecodedKeepsInv ==
  ASSUME AssetInv, NEW w \in Workers, NEW image \in {"Image", "Failure"}, Decoded(w, image)
  PROVE  AssetInv'
<1> DEFINE n == hand[w]
<1> USE DEF AssetInv
<1>1. /\ n \in Entry /\ requests[n].status = "Decoding" /\ requests[n].answer = "Pending"
      /\ states[requests[n].key] = n /\ w \in Holding /\ pc[w] = "decode"
  BY EntryFacts DEF Decoded, Holding, DecodingIsHeld
<1>2. /\ \A m \in Entry \ {n} : requests'[m] = requests[m]
      /\ requests'[n].status = Outcome(image)
      /\ \A m \in Entry : /\ requests'[m].key = requests[m].key
                          /\ requests'[m].answer = requests[m].answer
                          /\ JobFor(m)' = JobFor(m)
  BY <1>1 DEF Decoded, AssetsTypeOK, JobFor
<1>3. /\ UNCHANGED <<states, made, queue, issued, hand, stopping, dtor>>
      /\ pc'[w] = "deliver" /\ \A v \in Workers \ {w} : pc'[v] = pc[v]
      /\ result'[w] = image /\ \A v \in Workers \ {w} : result'[v] = result[v]
      /\ Holding' = Holding
  BY <1>1 DEF Decoded, AssetsTypeOK, Holding, jobVars
<1>4. \A v \in Holding \ {w} : hand[v] \in Entry \ {n}
  BY <1>1, EntryFacts DEF HandsAreDistinct
<1>5. AssetsTypeOK'
  <2>1. requests' \in [Entry -> [key : Keys \cup {"none"}, priority : Priority, generation : 0..issued,
                                status : {"Unused", "Queued", "Decoding", "Ready", "Failed"},
                                answer : {"Pending", "Image", "Failure"}]]
    BY <1>1 DEF Decoded, AssetsTypeOK, Outcome
  <2>2. /\ pc' \in [Workers -> {"loop", "asleep", "decode", "deliver", "exit"}]
        /\ result' \in [Workers -> {"Image", "Failure"}]
    BY DEF Decoded, AssetsTypeOK
  <2>3. \A k \in Keys : states[k] # NoEntry =>
          requests'[states[k]].key = k /\ requests'[states[k]].status # "Unused"
    BY <1>1, <1>2, EntryFacts DEF Outcome
  <2> QED
    BY <1>3, <2>1, <2>2, <2>3 DEF AssetsTypeOK
<1>6. QueueIsOrdered'
  BY <1>3 DEF QueueIsOrdered, Job
<1>7. EntriesAreMade'
  BY <1>1, <1>2, <1>3 DEF EntriesAreMade, Outcome
<1>8. WaitingIsQueued'
  BY <1>2, <1>3 DEF WaitingIsQueued, Outcome
<1>9. DecodingIsHeld' /\ DecidedIsAnswered'
  <2>1. \A m \in Entry : requests'[m].status = "Decoding" =>
          \E v \in Workers : pc'[v] = "decode" /\ hand'[v] = m
    <3> SUFFICES ASSUME NEW m \in Entry, requests'[m].status = "Decoding"
                 PROVE  \E v \in Workers : pc'[v] = "decode" /\ hand'[v] = m
      OBVIOUS
    <3>1. m # n
      BY <1>2 DEF Outcome
    <3>2. PICK v \in Workers : pc[v] = "decode" /\ hand[v] = m
      BY <3>1, <1>2 DEF DecodingIsHeld
    <3> QED
      BY <3>1, <3>2, <1>3
  <2>2. DecodingIsHeld'
    BY <2>1, <1>2, <1>3, <1>4 DEF DecodingIsHeld, Holding
  <2>3. \A v \in Workers : pc'[v] = "deliver" =>
          /\ requests'[hand[v]].status = Outcome(result'[v])
          /\ requests'[hand[v]].answer = "Pending"
    BY <1>1, <1>2, <1>3, <1>4 DEF DecidedIsAnswered, Holding
  <2>4. ASSUME NEW m \in Entry, requests'[m].status \in {"Ready", "Failed"}
        PROVE  \/ requests'[m].status = Outcome(requests'[m].answer) /\ requests'[m].answer # "Pending"
               \/ \E v \in Workers : pc'[v] = "deliver" /\ hand'[v] = m
    <3>1. CASE m = n
      BY <3>1, <1>3
    <3>2. CASE m # n
      BY <3>2, <2>4, <1>1, <1>2, <1>3 DEF DecidedIsAnswered
    <3> QED
      BY <3>1, <3>2
  <2> QED
    BY <2>2, <2>3, <2>4, <1>3 DEF DecidedIsAnswered
<1>10. HandsAreDistinct' /\ ExitsAreLast'
  <2>1. ExitsAreLast'
    <3>1. ExitsAreLast /\ \A v \in Workers : pc'[v] = "exit" <=> pc[v] = "exit"
      BY <1>1, <1>3
    <3> QED
      BY <3>1, <1>3 DEF ExitsAreLast
  <2>2. HandsAreDistinct'
    BY <1>3 DEF HandsAreDistinct
  <2> QED
    BY <2>1, <2>2
<1> QED
  BY <1>5, <1>6, <1>7, <1>8, <1>9, <1>10

LEMMA DeliverKeepsInv ==
  ASSUME AssetInv, NEW w \in Workers, Deliver(w)
  PROVE  AssetInv'
<1> DEFINE n == hand[w]
<1> USE DEF AssetInv
<1>1. /\ n \in Entry /\ requests[n].status = Outcome(result[w]) /\ w \in Holding
      /\ pc[w] = "deliver" /\ result[w] \in {"Image", "Failure"}
  BY EntryFacts DEF Deliver, Holding, DecidedIsAnswered, AssetsTypeOK
<1>2. /\ \A m \in Entry \ {n} : requests'[m] = requests[m]
      /\ requests'[n].answer = result[w]
      /\ \A m \in Entry : /\ requests'[m].key = requests[m].key
                          /\ requests'[m].status = requests[m].status
                          /\ JobFor(m)' = JobFor(m)
  BY <1>1 DEF Deliver, AssetsTypeOK, JobFor
<1>3. /\ UNCHANGED <<states, made, queue, issued, hand, result, stopping, dtor>>
      /\ pc'[w] = "loop" /\ \A v \in Workers \ {w} : pc'[v] = pc[v]
      /\ Holding' = Holding \ {w}
  BY DEF Deliver, AssetsTypeOK, Holding, jobVars
<1>4. \A v \in Holding \ {w} : hand[v] \in Entry \ {n}
  BY <1>1, EntryFacts DEF HandsAreDistinct
<1>5. AssetsTypeOK'
  <2>1. requests' \in [Entry -> [key : Keys \cup {"none"}, priority : Priority, generation : 0..issued,
                                status : {"Unused", "Queued", "Decoding", "Ready", "Failed"},
                                answer : {"Pending", "Image", "Failure"}]]
    BY <1>1 DEF Deliver, AssetsTypeOK
  <2>2. pc' \in [Workers -> {"loop", "asleep", "decode", "deliver", "exit"}]
    BY DEF Deliver, AssetsTypeOK
  <2>3. \A k \in Keys : states[k] # NoEntry =>
          requests'[states[k]].key = k /\ requests'[states[k]].status # "Unused"
    BY <1>2, EntryFacts
  <2> QED
    BY <1>3, <2>1, <2>2, <2>3 DEF AssetsTypeOK
<1>6. QueueIsOrdered'
  BY <1>3 DEF QueueIsOrdered, Job
<1>7. EntriesAreMade'
  BY <1>1, <1>2, <1>3 DEF EntriesAreMade, Outcome
<1>8. WaitingIsQueued'
  BY <1>1, <1>2, <1>3 DEF WaitingIsQueued, Outcome
<1>9. DecodingIsHeld' /\ DecidedIsAnswered'
  <2>1. DecodingIsHeld'
    BY <1>1, <1>2, <1>3, <1>4 DEF DecodingIsHeld, Holding
  <2>2. \A v \in Workers : pc'[v] = "deliver" =>
          /\ requests'[hand[v]].status = Outcome(result[v])
          /\ requests'[hand[v]].answer = "Pending"
    BY <1>1, <1>2, <1>3, <1>4 DEF DecidedIsAnswered, Holding
  <2>3. ASSUME NEW m \in Entry, requests'[m].status \in {"Ready", "Failed"}
        PROVE  \/ requests'[m].status = Outcome(requests'[m].answer) /\ requests'[m].answer # "Pending"
               \/ \E v \in Workers : pc'[v] = "deliver" /\ hand'[v] = m
    <3>1. CASE m = n
      BY <3>1, <1>1, <1>2
    <3>2. CASE m # n
      BY <3>2, <2>3, <1>2, <1>3 DEF DecidedIsAnswered
    <3> QED
      BY <3>1, <3>2
  <2> QED
    BY <2>1, <2>2, <2>3, <1>3 DEF DecidedIsAnswered
<1>10. HandsAreDistinct' /\ ExitsAreLast'
  BY <1>1, <1>3 DEF HandsAreDistinct, ExitsAreLast
<1> QED
  BY <1>5, <1>6, <1>7, <1>8, <1>9, <1>10

LEMMA StopKeepsInv ==
  ASSUME AssetInv, Stop
  PROVE  AssetInv'
<1> USE BoundsAssumption DEF AssetInv, Stop, entryVars, jobVars, workerVars, NoEntry
<1>1. AssetsTypeOK'
  BY DEF AssetsTypeOK, Entry, Priority, Holding, Status, Outcome, HandsAreDistinct, Unused
<1>2. QueueIsOrdered'
  BY DEF QueueIsOrdered, Job, AssetsTypeOK
<1>3. EntriesAreMade'
  BY DEF EntriesAreMade, AssetsTypeOK, Entry, Holding, Status
<1>4. WaitingIsQueued'
  BY DEF WaitingIsQueued, JobFor, AssetsTypeOK, Entry, Holding, Status
<1>5. DecodingIsHeld'
  BY DEF DecodingIsHeld, AssetsTypeOK, Entry, Holding, Status
<1>6. DecidedIsAnswered'
  BY DEF DecidedIsAnswered, AssetsTypeOK, Entry, Holding, Status, Outcome
<1>7. HandsAreDistinct'
  BY DEF HandsAreDistinct, AssetsTypeOK, Holding
<1>8. ExitsAreLast'
  BY DEF ExitsAreLast, AssetsTypeOK, Holding
<1> QED
  BY <1>1, <1>2, <1>3, <1>4, <1>5, <1>6, <1>7, <1>8

LEMMA NotifyStoppingKeepsInv ==
  ASSUME AssetInv, NotifyStopping
  PROVE  AssetInv'
<1> USE BoundsAssumption DEF AssetInv, NotifyStopping, NotifyAll, Asleep, entryVars, jobVars, workerVars, NoEntry
<1>1. AssetsTypeOK'
  BY DEF AssetsTypeOK, Entry, Priority, Holding, Status, Outcome, HandsAreDistinct, Unused
<1>2. QueueIsOrdered'
  BY DEF QueueIsOrdered, Job, AssetsTypeOK
<1>3. EntriesAreMade'
  BY DEF EntriesAreMade, AssetsTypeOK, Entry, Holding, Status
<1>4. WaitingIsQueued'
  BY DEF WaitingIsQueued, JobFor, AssetsTypeOK, Entry, Holding, Status
<1>5. DecodingIsHeld'
  BY DEF DecodingIsHeld, AssetsTypeOK, Entry, Holding, Status
<1>6. DecidedIsAnswered'
  BY DEF DecidedIsAnswered, AssetsTypeOK, Entry, Holding, Status, Outcome
<1>7. HandsAreDistinct'
  BY DEF HandsAreDistinct, AssetsTypeOK, Holding
<1>8. ExitsAreLast'
  BY DEF ExitsAreLast, AssetsTypeOK, Holding
<1> QED
  BY <1>1, <1>2, <1>3, <1>4, <1>5, <1>6, <1>7, <1>8

LEMMA JoinAndClearKeepsInv ==
  ASSUME AssetInv, JoinAndClear
  PROVE  AssetInv'
<1> USE BoundsAssumption DEF AssetInv, JoinAndClear, entryVars, jobVars, workerVars, NoEntry
<1>1. AssetsTypeOK'
  BY DEF AssetsTypeOK, Entry, Priority, Holding, Status, Outcome, HandsAreDistinct, Unused
<1>2. QueueIsOrdered'
  BY DEF QueueIsOrdered, Job, AssetsTypeOK
<1>3. EntriesAreMade'
  BY DEF EntriesAreMade, AssetsTypeOK, Entry, Holding, Status
<1>4. WaitingIsQueued'
  <2>1. queue = {}
    BY WorkersAssumption DEF ExitsAreLast
  <2> QED
    BY <2>1 DEF WaitingIsQueued
<1>5. DecodingIsHeld'
  BY DEF DecodingIsHeld, AssetsTypeOK, Entry, Holding, Status
<1>6. DecidedIsAnswered'
  BY DEF DecidedIsAnswered, AssetsTypeOK, Entry, Holding, Status, Outcome
<1>7. HandsAreDistinct'
  BY DEF HandsAreDistinct, AssetsTypeOK, Holding
<1>8. ExitsAreLast'
  BY DEF ExitsAreLast, AssetsTypeOK, Holding
<1> QED
  BY <1>1, <1>2, <1>3, <1>4, <1>5, <1>6, <1>7, <1>8
-----------------------------------------------------------------------------
(* Every step keeps the invariant.                                         *)
LEMMA NextKeepsInv == AssetInv /\ [Next]_vars => AssetInv'
<1> SUFFICES ASSUME AssetInv, [Next]_vars PROVE AssetInv'
  OBVIOUS
<1>1. CASE Call
  <2>1. ASSUME NEW k \in Keys, NEW p \in Priority, RequestImage(k, p) PROVE AssetInv'
    BY <2>1, PromoteKeepsInv, EnterKeepsInv DEF RequestImage
  <2>2. ASSUME NEW k \in Keys, Publish(k) PROVE AssetInv'
    BY <2>2, PublishKeepsInv
  <2>3. ASSUME NEW k \in Keys, ReleasePrepared(k) PROVE AssetInv'
    BY <2>3, EraseKeepsInv DEF ReleasePrepared
  <2>4. ASSUME NEW k \in Keys, NEW image \in 1..made, ReleasePreparedIfMatches(k, image)
        PROVE  AssetInv'
    BY <2>4, EraseKeepsInv DEF ReleasePreparedIfMatches
  <2> QED
    BY <1>1, <2>1, <2>2, <2>3, <2>4 DEF Call
<1>2. ASSUME NEW w \in Workers, WorkerStep(w) \/ SpuriousWakeup(w) PROVE AssetInv'
  BY <1>2, WaitKeepsInv, SpuriousWakeupKeepsInv, ExitKeepsInv, SkipVoidKeepsInv, TakeKeepsInv,
     DecodedKeepsInv, DeliverKeepsInv DEF WorkerStep
<1>3. CASE Stop \/ NotifyStopping \/ JoinAndClear
  BY <1>3, StopKeepsInv, NotifyStoppingKeepsInv, JoinAndClearKeepsInv
<1>4. CASE UNCHANGED vars
  <2> USE <1>4 DEF vars, entryVars, jobVars, workerVars, AssetInv
  <2>1. AssetsTypeOK'
    BY DEF AssetsTypeOK, Holding
  <2>2. QueueIsOrdered' /\ EntriesAreMade' /\ WaitingIsQueued'
    BY DEF QueueIsOrdered, Job, EntriesAreMade, WaitingIsQueued, JobFor
  <2>3. DecodingIsHeld' /\ DecidedIsAnswered' /\ HandsAreDistinct' /\ ExitsAreLast'
    BY DEF DecodingIsHeld, DecidedIsAnswered, HandsAreDistinct, ExitsAreLast, Holding
  <2> QED
    BY <2>1, <2>2, <2>3
<1> QED
  BY <1>1, <1>2, <1>3, <1>4 DEF Next

LEMMA AssetInvHolds == Spec => []AssetInv
BY InitInv, NextKeepsInv, PTL DEF Spec

(* The jobs of a waiting entry are the one that is not void.               *)
LEMMA OneJob ==
  ASSUME AssetInv, NEW n \in Entry
  PROVE  JobsOf(n) = IF requests[n].status = "Queued" THEN {JobFor(n)} ELSE {}
<1> USE DEF AssetInv
<1>1. ASSUME NEW j \in JobsOf(n) PROVE requests[n].status = "Queued" /\ j = JobFor(n)
  <2>1. j \in Job /\ Current(j) /\ states[j.key] = n
    BY <1>1 DEF JobsOf, QueueIsOrdered
  <2>2. requests[n].status = "Queued" /\ requests[n].key = j.key
    BY <2>1, EntryFacts DEF Current, Status, Job, Entry, NoEntry
  <2> QED
    BY <2>1, <2>2 DEF Current, JobFor, Job
<1>2. ASSUME requests[n].status = "Queued" PROVE JobFor(n) \in JobsOf(n)
  BY <1>2, EntryFacts DEF WaitingIsQueued, JobsOf, JobFor, Current, Status
<1> QED
  BY <1>1, <1>2

(* The hands an entry is in.                                               *)
LEMMA OneHand ==
  ASSUME AssetInv, NEW n \in Entry
  PROVE  \/ HandsOn(n) = {}
         \/ \E w \in Holding : HandsOn(n) = {w}
BY DEF AssetInv, HandsAreDistinct, HandsOn

LEMMA EntryIsSomewhere ==
  ASSUME AssetInv, NEW n \in Entry, requests[n].status # "Unused"
  PROVE  /\ Cardinality(JobsOf(n)) + Cardinality(HandsOn(n))
               = IF requests[n].answer = "Pending" THEN 1 ELSE 0
         /\ dtor = "gone" => requests[n].answer # "Pending"
<1> USE DEF AssetInv
<1>1. CASE requests[n].status = "Queued"
  <2>1. JobsOf(n) = {JobFor(n)} /\ requests[n].answer = "Pending" /\ queue # {}
    BY <1>1, OneJob DEF WaitingIsQueued
  <2>2. HandsOn(n) = {}
    BY <1>1 DEF HandsOn, Holding, DecodingIsHeld, DecidedIsAnswered, Outcome
  <2>3. dtor # "gone"
    BY <2>1, WorkersAssumption DEF ExitsAreLast
  <2>4. Cardinality(JobsOf(n)) = 1 /\ Cardinality(HandsOn(n)) = 0
    BY <2>1, <2>2, FS_Singleton, FS_EmptySet
  <2> QED
    BY <2>1, <2>3, <2>4
<1>2. CASE requests[n].status # "Queued" /\ HandsOn(n) = {}
  <2>1. JobsOf(n) = {}
    BY <1>2, OneJob
  <2>2. requests[n].answer # "Pending"
    BY <1>2, EntryFacts DEF HandsOn, Holding, DecodingIsHeld, DecidedIsAnswered
  <2> QED
    BY <1>2, <2>1, <2>2, FS_EmptySet
<1>3. CASE requests[n].status # "Queued" /\ HandsOn(n) # {}
  <2>1. JobsOf(n) = {}
    BY <1>3, OneJob
  <2>2. PICK w \in Holding : HandsOn(n) = {w} /\ hand[w] = n
    BY <1>3, OneHand DEF HandsOn
  <2>3. requests[n].answer = "Pending" /\ dtor # "gone"
    BY <2>2 DEF Holding, DecodingIsHeld, DecidedIsAnswered, ExitsAreLast
  <2>4. Cardinality(JobsOf(n)) = 0 /\ Cardinality(HandsOn(n)) = 1
    BY <2>1, <2>2, FS_Singleton, FS_EmptySet
  <2> QED
    BY <2>3, <2>4
<1> QED
  BY <1>1, <1>2, <1>3

(* The runs' invariant: a request nobody has answered is in exactly one    *)
(* place, no image is decoded by two workers, and what an entry says is    *)
(* what its holders are told.                                              *)
LEMMA InvImpliesAccounts == AssetInv => RequestsAreAccountedFor
<1> SUFFICES ASSUME AssetInv PROVE RequestsAreAccountedFor
  OBVIOUS
<1>1. RequestsAreSomewhere
  BY EntryIsSomewhere DEF RequestsAreSomewhere
<1>2. OneDecoderPerImage
  BY DEF AssetInv, OneDecoderPerImage, DecodingIsHeld, HandsAreDistinct, Holding
<1>3. ASSUME NEW n \in Entry, requests[n].status \in {"Ready", "Failed"}
      PROVE  \E reply \in {"Image", "Failure"} :
               /\ requests[n].status = "Ready" <=> reply = "Image"
               /\ \/ requests[n].answer = reply
                  \/ \E w \in HandsOn(n) : pc[w] = "deliver" /\ result[w] = reply
  <2>1. CASE requests[n].answer # "Pending" /\ requests[n].status = Outcome(requests[n].answer)
    BY <2>1, EntryFacts DEF AssetInv, Outcome
  <2>2. CASE \E w \in Workers : pc[w] = "deliver" /\ hand[w] = n
    <3>1. PICK w \in Workers : pc[w] = "deliver" /\ hand[w] = n
      BY <2>2
    <3>2. /\ w \in HandsOn(n) /\ result[w] \in {"Image", "Failure"}
          /\ requests[n].status = "Ready" <=> result[w] = "Image"
      BY <3>1 DEF HandsOn, Holding, AssetInv, AssetsTypeOK, DecidedIsAnswered, Outcome
    <3> QED
      BY <3>1, <3>2
  <2> QED
    BY <1>3, <2>1, <2>2 DEF AssetInv, DecidedIsAnswered
<1> QED
  BY <1>1, <1>2, <1>3 DEF RequestsAreAccountedFor, EntriesAgreeWithAnswers, AssetInv

(* In every reachable state, for any keys, workers and priorities, a       *)
(* request waits in exactly one place until it is answered, and the        *)
(* destructor leaves nobody waiting (asset_runtime.cpp:128-215, 290-330).  *)
THEOREM RequestsAreAlwaysAccountedFor == Spec => []RequestsAreAccountedFor
BY AssetInvHolds, InvImpliesAccounts, PTL

(* A step that begins to decode an entry takes the first job.              *)
LEMMA TakenIsMostUrgent ==
  ASSUME AssetInv, [Next]_vars,
         NEW n \in Entry, requests[n].status = "Queued", requests'[n].status = "Decoding",
         NEW m \in Entry \ {n}, requests[m].status = "Queued"
  PROVE  Before(requests[n], requests[m])
<1> USE DEF AssetInv
<1>1. PICK w \in Workers : Take(w)
  <2>1. ASSUME NEW k \in Keys, NEW p \in Priority, RequestImage(k, p) PROVE FALSE
    BY <2>1, EntryFacts DEF RequestImage, Promote, Enter, Status, AssetsTypeOK
  <2>2. ASSUME NEW k \in Keys, Publish(k) PROVE FALSE
    BY <2>2, EntryFacts DEF Publish, Ready, AssetsTypeOK
  <2>3. ~UNCHANGED requests
    OBVIOUS
  <2>4. ASSUME NEW v \in Workers, NEW image \in {"Image", "Failure"}, Decoded(v, image) PROVE FALSE
    <3>1. hand[v] \in Entry /\ requests[hand[v]].status = "Decoding"
      BY <2>4, EntryFacts DEF Decoded, Holding, DecodingIsHeld
    <3> QED
      BY <2>4, <3>1 DEF Decoded, AssetsTypeOK
  <2>5. ASSUME NEW v \in Workers, Deliver(v) PROVE FALSE
    <3>1. hand[v] \in Entry
      BY <2>5, EntryFacts DEF Deliver, Holding
    <3> QED
      BY <2>5, <3>1 DEF Deliver, AssetsTypeOK
  <2>6. ASSUME NEW v \in Workers, Wait(v) \/ Exit(v) \/ SkipVoid(v) \/ SpuriousWakeup(v) PROVE FALSE
    BY <2>3, <2>6 DEF Wait, Exit, SkipVoid, SpuriousWakeup, entryVars
  <2>7. ~Stop /\ ~NotifyStopping /\ ~JoinAndClear /\ ~UNCHANGED vars
    BY <2>3 DEF Stop, NotifyStopping, JoinAndClear, entryVars, vars
  <2>8. \A k \in Keys : ~Erase(k)
    BY <2>3 DEF Erase
  <2>9. ~Call
    BY <2>1, <2>2, <2>8 DEF Call, ReleasePrepared, ReleasePreparedIfMatches
  <2> QED
    BY <2>4, <2>5, <2>6, <2>7, <2>9 DEF Next, WorkerStep
<1>2. /\ states[Top.key] = n /\ Top = JobFor(n)
  BY <1>1, TakenFacts DEF Take
<1>3. JobFor(m) \in queue /\ states[requests[m].key] = m
  BY DEF WaitingIsQueued
<1>4. JobFor(m) # Top
  BY <1>2, <1>3 DEF JobFor
<1>5. Before(Top, JobFor(m))
  BY <1>3, <1>4, TopIsFirst
<1> QED
  BY <1>2, <1>5 DEF Before, JobFor

(* For any number of waiting images, the one a worker starts on is the     *)
(* most urgent, and the oldest of these (asset_runtime.cpp:256-288).       *)
THEOREM MostUrgentIsFirst == Spec => MostUrgentFirst
<1>1. AssetInv /\ [Next]_vars =>
        [ \A n \in Entry : requests[n].status = "Queued" /\ requests'[n].status = "Decoding" =>
            \A m \in Entry \ {n} : requests[m].status = "Queued" => Before(requests[n], requests[m]) ]_vars
  BY TakenIsMostUrgent
<1> QED
  BY <1>1, AssetInvHolds, PTL DEF Spec, MostUrgentFirst
-----------------------------------------------------------------------------
(* The build of a package (PackageBuilder), as a command of the tool.      *)
(* What each phase may rely on: the files that the phases before it have   *)
(* written are in the staging directory, the work directory is gone when   *)
(* the report of the build is there, and no report tells of an error.      *)
BuilderFields == {"at", "files", "tables", "ids", "manifest", "log", "exit"}
Building == {"containers", "links", "report", "validate", "publish"}

InPlace(at, files) ==
  /\ at \in {"links", "report", "validate", "publish"} => <<"manifest">> \in DOMAIN files
  /\ at \in {"report", "validate", "publish"} => <<"links">> \in DOMAIN files
  /\ at \in {"validate", "publish"} =>
       /\ <<"build_report">> \in DOMAIN files /\ <<".work">> \notin DOMAIN files
       /\ files[<<"build_report">>] = Builder!Cut \/ files[<<"build_report">>].success
  /\ at = "publish" =>
       /\ <<"validation_report">> \in DOMAIN files
       /\ files[<<"validation_report">>] = Builder!Cut \/ files[<<"validation_report">>].valid

BuilderIsTyped ==
  /\ builder = [f \in BuilderFields |-> builder[f]]
  /\ builder.at \in Building \cup {"idle", "ended"}
  /\ builder.at # "ended" => builder.exit = -1

PackageInv ==
  /\ faults \in Nat
  /\ BuilderIsTyped
  /\ builder.exit = 0 => destination.there
  /\ builder.at \in Building => staging.there /\ InPlace(builder.at, staging.files)

(* What a step may do to the three, beyond the invariant.                  *)
BuildStep ==
  /\ builder'.exit = 0 => destination'.there
  /\ destination.there => Builder!SameButReport(destination, destination')
  /\ builder.exit # 0 /\ builder'.exit = 0 =>
       destination' = staging /\ Builder!IsComplete(staging.files)
  /\ <<"manifest">> \in DOMAIN destination'.files =>
       <<"manifest">> \in DOMAIN destination.files \/ (builder.exit # 0 /\ builder'.exit = 0)
  /\ ~destination.there /\ destination'.there => faults' < faults \/ builder'.exit = 0
  /\ builder.at \notin {"idle", "ended"} /\ builder'.exit \in {0, 1} => ~staging'.there

LEMMA BuilderCounts ==
  ASSUME NEW S
  PROVE  Builder!Cardinality(S) = Cardinality(S)
BY DEF Builder!Cardinality, Cardinality

(* Of a write at most one file is cut, and only while a fault is left.     *)
LEMMA CutsAreFaults ==
  ASSUME faults \in Nat, NEW keys, NEW cut \in Builder!MayCut(keys)
  PROVE  faults - Builder!Cardinality(cut) \in Nat
<1>1. CASE cut = {}
  BY <1>1, FS_EmptySet, BuilderCounts
<1>2. CASE faults > 0 /\ \E k \in keys : cut = {k}
  <2>1. Cardinality(cut) = 1
    BY <1>2, FS_Singleton, Zenon
  <2> QED
    BY <1>2, <2>1, BuilderCounts
<1> QED
  BY <1>1, <1>2 DEF Builder!MayCut

(* A file that is put is there, whole or cut, and the others stay.         *)
LEMMA PutAddsOne ==
  ASSUME NEW dir, NEW file, NEW content, NEW cut
  PROVE  LET new == Builder!Put(dir, file, content, cut)
         IN  /\ DOMAIN new = DOMAIN dir \cup {file}
             /\ new[file] \in {content, Builder!Cut}
             /\ \A k \in DOMAIN dir \ {file} : new[k] = dir[k]
BY DEF Builder!Put

LEMMA DirectoryIsThere ==
  ASSUME NEW files
  PROVE  /\ Builder!Directory(files).there
         /\ Builder!Directory(files).files = files
         /\ ~Builder!Absent.there
BY DEF Builder!Directory, Builder!Absent

(* A build that fails, wherever it is, leaves no staging directory.        *)
LEMMA FailKeepsPackageInv ==
  ASSUME PackageInv, Builder!Fail, faults' \in Nat
  PROVE  PackageInv' /\ BuildStep
<1>1. /\ builder' = [builder EXCEPT !.at = "ended", !.exit = 1]
      /\ ~staging'.there /\ UNCHANGED destination
  BY DirectoryIsThere DEF Builder!Fail
<1>2. builder'.at = "ended" /\ builder'.exit = 1
  BY <1>1 DEF PackageInv, BuilderIsTyped, BuilderFields
<1>3. builder' = [f \in BuilderFields |-> builder'[f]]
  BY <1>1 DEF PackageInv, BuilderIsTyped, BuilderFields
<1>4. destination.there => Builder!SameButReport(destination, destination')
  BY <1>1 DEF Builder!SameButReport
<1>5. BuilderIsTyped'
  BY <1>2, <1>3 DEF BuilderIsTyped
<1>6. PackageInv'
  BY <1>2, <1>5 DEF PackageInv, Building
<1> QED
  BY <1>1, <1>2, <1>4, <1>6 DEF BuildStep

(* A step that keeps the destination and goes on with the build, or ends   *)
(* it without an exit code, has only its own files to account for.         *)
LEMMA GoingOnKeepsPackageInv ==
  ASSUME PackageInv, faults' \in Nat, UNCHANGED destination,
         builder' = [f \in BuilderFields |-> builder'[f]],
         builder'.at \in Building, builder'.exit = -1, staging'.there,
         InPlace(builder'.at, staging'.files)
  PROVE  PackageInv' /\ BuildStep
<1>1. destination.there => Builder!SameButReport(destination, destination')
  BY DEF Builder!SameButReport
<1> QED
  BY <1>1 DEF PackageInv, BuilderIsTyped, BuildStep, Building

(* What is done to a package while it is filled.                           *)
LEMMA FillingKeepsBuilder ==
  ASSUME NEW b, b = [f \in BuilderFields |-> b[f]]
  PROVE  /\ \A ds : LET c == Builder!Warn(b, ds)
                    IN c = [f \in BuilderFields |-> c[f]] /\ c.at = b.at /\ c.exit = b.exit
         /\ \A path, kinds : LET c == Builder!AddContainer(b, path, kinds)
                             IN c = [f \in BuilderFields |-> c[f]] /\ c.at = b.at /\ c.exit = b.exit
         /\ LET c == Builder!Next1(b)
            IN c = [f \in BuilderFields |-> c[f]] /\ c.at = b.at /\ c.exit = b.exit
         /\ \A path, atlas : LET c == Builder!WithAtlas(b, path, atlas)
                             IN c = [f \in BuilderFields |-> c[f]] /\ c.at = b.at /\ c.exit = b.exit
<1>1. \A ds : LET c == Builder!Warn(b, ds)
              IN c = [f \in BuilderFields |-> c[f]] /\ c.at = b.at /\ c.exit = b.exit
  BY DEF Builder!Warn, BuilderFields
<1>2. \A path, kinds : LET c == Builder!AddContainer(b, path, kinds)
                       IN c = [f \in BuilderFields |-> c[f]] /\ c.at = b.at /\ c.exit = b.exit
  BY DEF Builder!AddContainer, BuilderFields
<1>3. LET c == Builder!Next1(b)
      IN c = [f \in BuilderFields |-> c[f]] /\ c.at = b.at /\ c.exit = b.exit
  BY DEF Builder!Next1, BuilderFields
<1>4. ASSUME NEW path, NEW atlas
      PROVE  LET c == Builder!WithAtlas(b, path, atlas)
             IN c = [f \in BuilderFields |-> c[f]] /\ c.at = b.at /\ c.exit = b.exit
  <2>1. CASE atlas.ok
    BY <2>1 DEF Builder!WithAtlas, BuilderFields
  <2>2. CASE ~atlas.ok
    BY <2>2 DEF Builder!WithAtlas, BuilderFields
  <2> QED
    BY <2>1, <2>2
<1> QED
  BY <1>1, <1>2, <1>3, <1>4
-----------------------------------------------------------------------------
(* Step by step: first those that do not build.                            *)
LEMMA OutsideKeepsPackageInv ==
  ASSUME PackageInv,
         \/ Builder!Refuse \/ Builder!Die \/ Builder!BuildAgain
         \/ Builder!Intrude \/ Builder!ValidateDestination \/ Builder!InspectDestination
  PROVE  PackageInv' /\ BuildStep
<1> USE DEF Building, BuilderFields
<1>1. CASE Builder!Refuse
  <2>1. /\ builder' = [f \in BuilderFields |-> builder'[f]]
        /\ builder'.at = "ended" /\ builder'.exit = 1 /\ builder.at = "idle"
        /\ UNCHANGED <<staging, destination, faults>>
    BY <1>1 DEF Builder!Refuse, PackageInv, BuilderIsTyped
  <2>2. destination.there => Builder!SameButReport(destination, destination')
    BY <2>1 DEF Builder!SameButReport
  <2> QED
    BY <2>1, <2>2 DEF PackageInv, BuilderIsTyped, BuildStep
<1>2. CASE Builder!Die
  <2>1. /\ builder' = [f \in BuilderFields |-> builder'[f]]
        /\ builder'.at = "ended" /\ builder'.exit = -1
        /\ UNCHANGED <<staging, destination, faults>>
    BY <1>2 DEF Builder!Die, Builder!Idle
  <2>2. destination.there => Builder!SameButReport(destination, destination')
    BY <2>1 DEF Builder!SameButReport
  <2> QED
    BY <2>1, <2>2 DEF PackageInv, BuilderIsTyped, BuildStep
<1>3. CASE Builder!BuildAgain
  <2>1. /\ builder' = [f \in BuilderFields |-> builder'[f]]
        /\ builder'.at = "idle" /\ builder'.exit = -1
        /\ UNCHANGED <<staging, destination, faults>>
    BY <1>3 DEF Builder!BuildAgain, Builder!Idle
  <2>2. destination.there => Builder!SameButReport(destination, destination')
    BY <2>1 DEF Builder!SameButReport
  <2> QED
    BY <2>1, <2>2 DEF PackageInv, BuilderIsTyped, BuildStep
<1>4. CASE Builder!Intrude
  <2>1. /\ ~destination.there /\ faults' < faults /\ faults' \in Nat
        /\ builder.exit = -1 /\ UNCHANGED <<staging, builder>>
    BY <1>4 DEF Builder!Intrude, PackageInv, BuilderIsTyped
  <2>2. destination'.there /\ <<"manifest">> \notin DOMAIN destination'.files
    <3>1. CASE destination' = Builder!Foreign
      <4>1. destination'.there /\ DOMAIN destination'.files = {<<"foreign">>}
        BY <3>1 DEF Builder!Foreign, Builder!Directory
      <4>2. <<"foreign">>[1] # <<"manifest">>[1]
        OBVIOUS
      <4> QED
        BY <4>1, <4>2
    <3>2. CASE destination' = Builder!Directory(<<>>)
      BY <3>2 DEF Builder!Directory
    <3> QED
      BY <1>4, <3>1, <3>2 DEF Builder!Intrude
  <2> QED
    BY <2>1, <2>2 DEF PackageInv, BuilderIsTyped, BuildStep
<1>5. CASE Builder!ValidateDestination
  <2>1. builder.at = "ended" /\ destination.there /\ UNCHANGED <<staging, builder>>
    BY <1>5 DEF Builder!ValidateDestination
  <2>2. ASSUME NEW cut
        PROVE  LET new == Builder!Directory(Builder!Reported(destination.files, cut))
               IN  /\ new.there /\ Builder!SameButReport(destination, new)
                   /\ DOMAIN new.files = DOMAIN destination.files \cup {<<"validation_report">>}
    <3> DEFINE files == Builder!Reported(destination.files, cut)
    <3>1. /\ DOMAIN files = DOMAIN destination.files \cup {<<"validation_report">>}
          /\ \A k \in DOMAIN destination.files \ {<<"validation_report">>} :
               files[k] = destination.files[k]
      BY DEF Builder!Reported, Builder!Put
    <3> HIDE DEF files
    <3>2. LET new == Builder!Directory(files)
          IN  /\ new.there /\ Builder!SameButReport(destination, new)
              /\ DOMAIN new.files = DOMAIN destination.files \cup {<<"validation_report">>}
      BY <3>1, DirectoryIsThere DEF Builder!SameButReport
    <3> QED
      BY <3>2 DEF files
  <2>3. /\ faults' \in Nat
        /\ \/ destination' = destination
           \/ \E cut : destination' = Builder!Directory(Builder!Reported(destination.files, cut))
    <3>1. CASE Builder!ReportInPackage
      <4>1. PICK cut \in Builder!MayCut({<<"validation_report">>}) :
              /\ faults' = faults - Builder!Cardinality(cut)
              /\ destination' = Builder!Directory(Builder!Reported(destination.files, cut))
        BY <3>1 DEF Builder!ReportInPackage
      <4> QED
        BY <4>1, CutsAreFaults DEF PackageInv
    <3>2. CASE Builder!ReportElsewhere
      BY <3>2 DEF Builder!ReportElsewhere, PackageInv
    <3>3. CASE Builder!ReportFails
      BY <3>3 DEF Builder!ReportFails, PackageInv
    <3> QED
      BY <1>5, <3>1, <3>2, <3>3 DEF Builder!ValidateDestination
  <2>4. /\ destination'.there /\ Builder!SameButReport(destination, destination')
        /\ <<"manifest">> \in DOMAIN destination'.files => <<"manifest">> \in DOMAIN destination.files
    <3>1. CASE destination' = destination
      BY <2>1, <3>1 DEF Builder!SameButReport
    <3>2. CASE \E cut : destination' = Builder!Directory(Builder!Reported(destination.files, cut))
      BY <2>2, <3>2
    <3> QED
      BY <2>3, <3>1, <3>2
  <2> QED
    BY <2>1, <2>3, <2>4 DEF PackageInv, BuilderIsTyped, BuildStep
<1>6. CASE Builder!InspectDestination
  <2>1. /\ builder.at = "ended" /\ destination.there
        /\ UNCHANGED <<staging, destination, builder, faults>>
    BY <1>6 DEF Builder!InspectDestination
  <2>2. Builder!SameButReport(destination, destination')
    BY <2>1 DEF Builder!SameButReport
  <2> QED
    BY <2>1, <2>2 DEF PackageInv, BuilderIsTyped, BuildStep
<1> QED
  BY <1>1, <1>2, <1>3, <1>4, <1>5, <1>6

(* The files of the game, one container and one table after the other.     *)
LEMMA ContainerKeepsPackageInv ==
  ASSUME PackageInv, Builder!Container
  PROVE  PackageInv' /\ BuildStep
<1> DEFINE file == Head(builder.files)
<1>1. /\ builder.at = "containers" /\ staging.there
      /\ builder = [f \in BuilderFields |-> builder[f]] /\ builder.exit = -1
  BY DEF Builder!Container, Builder!Working, PackageInv, BuilderIsTyped
<1> DEFINE Kept(b) == b = [f \in BuilderFields |-> b[f]] /\ b.at = "containers" /\ b.exit = -1
<1>2. \A b : Kept(b) =>
        /\ \A ds : Kept(Builder!Warn(b, ds))
        /\ \A path, kinds : Kept(Builder!AddContainer(b, path, kinds))
        /\ Kept(Builder!Next1(b))
        /\ \A path, atlas : Kept(Builder!WithAtlas(b, path, atlas))
  BY FillingKeepsBuilder
<1>3. ASSUME faults' \in Nat, UNCHANGED destination, staging'.there, Kept(builder')
      PROVE  PackageInv' /\ BuildStep
  BY <1>3, GoingOnKeepsPackageInv DEF Building, InPlace
<1>4. Kept(builder)
  BY <1>1
<1>5. CASE Builder!SkipContainer(file)
  <2>1. Kept(builder') /\ UNCHANGED <<staging, destination, faults>>
    <3>1. builder' = Builder!Warn(Builder!Next1(builder),
                                  Builder!Warnings("unsupported", Builder!OfContainer(file.path)))
      BY <1>5 DEF Builder!SkipContainer
    <3>2. Kept(Builder!Next1(builder))
      BY <1>2, <1>4
    <3> HIDE DEF Kept
    <3> QED
      BY <1>2, <1>5, <3>1, <3>2 DEF Builder!SkipContainer
  <2> QED
    BY <1>1, <1>3, <2>1 DEF PackageInv
<1>6. ASSUME NEW cut \in Builder!Cuts(file), NEW x, Builder!ExtractOne(file, x, cut)
      PROVE  PackageInv' /\ BuildStep
  <2>1. faults' = faults - Builder!Cardinality(cut)
    BY <1>6 DEF Builder!ExtractOne
  <2>2. faults' \in Nat
    BY <2>1, CutsAreFaults DEF PackageInv, Builder!Cuts
  <2>3. CASE Builder!ContainerFails(file, x)
    <3>1. Kept(Builder!Next1(builder))
      BY <1>2, <1>4
    <3> HIDE DEF Kept
    <3>2. Kept(Builder!AddContainer(Builder!Next1(builder), file.path, Builder!LikelyContent(file)))
      BY <1>2, <3>1
    <3>3. Kept(builder')
      BY <1>2, <2>3, <3>2 DEF Builder!ContainerFails
    <3> QED
      BY <1>1, <1>3, <2>2, <2>3, <3>3 DEF Builder!ContainerFails
  <2>4. CASE Builder!ContainerStops(file, x)
    BY <2>2, <2>4, FailKeepsPackageInv DEF Builder!ContainerStops
  <2>5. CASE Builder!PackageContainer(file, x, cut)
    <3>1. Kept(Builder!WithAssets(builder, file, x))
      <4> DEFINE added == Builder!AddContainer(Builder!Next1(builder), file.path, Builder!LikelyContent(file))
                 filled == [added EXCEPT
                              !.ids = @ \cup Builder!NewIds(file.path, x.assets),
                              !.manifest.assets = @ \cup Builder!Entries(file.path, x.assets)]
      <4>1. Kept(Builder!Next1(builder))
        BY <1>2, <1>4
      <4>2. Kept(added)
        BY <1>2, <4>1
      <4>3. Kept(filled)
        <5> HIDE DEF added
        <5> QED BY <4>2 DEF BuilderFields
      <4>4. Builder!WithAssets(builder, file, x)
              = Builder!Warn(filled, Builder!Warnings("extraction", x.warnings))
        BY DEF Builder!WithAssets
      <4> HIDE DEF filled, Kept
      <4> QED
        BY <1>2, <4>3, <4>4
    <3> HIDE DEF Kept
    <3>2. Kept(builder') /\ staging'.there
      <4>1. CASE Builder!PackageAssets(file, x, cut)
        BY <3>1, <4>1, DirectoryIsThere DEF Builder!PackageAssets
      <4>2. CASE Builder!PackageWithAtlas(file, x, Builder!ExtractAtlas(file.content), cut)
        BY <1>2, <3>1, <4>2, DirectoryIsThere DEF Builder!PackageWithAtlas
      <4> QED
        BY <2>5, <4>1, <4>2 DEF Builder!PackageContainer
    <3> QED
      BY <1>3, <2>2, <2>5, <3>2 DEF Builder!PackageContainer
  <2> QED
    BY <1>6, <2>3, <2>4, <2>5 DEF Builder!ExtractOne
<1> QED
  BY <1>5, <1>6 DEF Builder!Container

LEMMA TableKeepsPackageInv ==
  ASSUME PackageInv, Builder!Table
  PROVE  PackageInv' /\ BuildStep
<1> DEFINE file == Head(builder.tables)
<1>1. /\ builder.at = "containers" /\ staging.there
      /\ builder = [f \in BuilderFields |-> builder[f]] /\ builder.exit = -1
  BY DEF Builder!Table, Builder!Working, PackageInv, BuilderIsTyped
<1>2. CASE Builder!TableStops(file)
  BY <1>2, FailKeepsPackageInv DEF Builder!TableStops, PackageInv
<1>3. CASE Builder!PackageTable(file)
  <2>1. PICK cut \in Builder!MayCut({Builder!TableKey(file.path)}) :
          /\ faults' = faults - Builder!Cardinality(cut)
          /\ staging' = Builder!Directory(Builder!Put(staging.files, Builder!TableKey(file.path),
                                                      Builder!CanonicalTable(file), cut))
    BY <1>3 DEF Builder!PackageTable
  <2>2. faults' \in Nat
    BY <2>1, CutsAreFaults DEF PackageInv
  <2>3. staging'.there
    BY <2>1, DirectoryIsThere
  <2> DEFINE added == Builder!AddContainer(builder, file.path, {"data"})
  <2>4. added = [f \in BuilderFields |-> added[f]] /\ added.at = builder.at /\ added.exit = builder.exit
    BY <1>1, FillingKeepsBuilder
  <2>5. /\ builder' = [f \in BuilderFields |-> builder'[f]]
        /\ builder'.at = "containers" /\ builder'.exit = -1 /\ UNCHANGED destination
    <3> HIDE DEF added
    <3>1. builder' = [added EXCEPT
              !.tables = Tail(@),
              !.ids = @ \cup {Builder!AssetId(file.path, file.path.name)},
              !.manifest.assets = @ \cup {Builder!Entry(file.path, "data", file.path.name,
                                                         Builder!TableKey(file.path))}]
      BY <1>3 DEF Builder!PackageTable, added
    <3> QED
      BY <1>1, <1>3, <2>4, <3>1 DEF Builder!PackageTable, BuilderFields
  <2> QED
    BY <2>2, <2>3, <2>5, GoingOnKeepsPackageInv DEF Building, InPlace
<1> QED
  BY <1>2, <1>3 DEF Builder!Table

(* A file that the next phase relies on is put beside the others.          *)
LEMMA WritingKeepsPackageInv ==
  ASSUME PackageInv, NEW files, NEW file, NEW content, NEW cut \in Builder!MayCut({file}),
         NEW at \in Building, builder.at \in Building,
         faults' = faults - Builder!Cardinality(cut), UNCHANGED destination,
         staging' = Builder!Directory(Builder!Put(files, file, content, cut)),
         builder' = [builder EXCEPT !.at = at],
         InPlace(at, Builder!Put(files, file, content, cut))
  PROVE  PackageInv' /\ BuildStep
<1>1. faults' \in Nat
  BY CutsAreFaults DEF PackageInv
<1>2. /\ builder' = [f \in BuilderFields |-> builder'[f]]
      /\ builder'.at = at /\ builder'.exit = -1
  BY DEF PackageInv, BuilderIsTyped, BuilderFields, Building
<1>3. staging'.there /\ staging'.files = Builder!Put(files, file, content, cut)
  BY DirectoryIsThere
<1> QED
  BY <1>1, <1>2, <1>3, GoingOnKeepsPackageInv

LEMMA OpenKeepsPackageInv ==
  ASSUME PackageInv, Builder!OpenStaging
  PROVE  PackageInv' /\ BuildStep
<1>1. /\ builder' = [f \in BuilderFields |-> builder'[f]]
      /\ builder'.at = "containers" /\ builder'.exit = -1
      /\ staging'.there /\ UNCHANGED <<destination, faults>>
  BY DirectoryIsThere DEF Builder!OpenStaging, PackageInv, BuilderIsTyped, BuilderFields
<1> QED
  BY <1>1, GoingOnKeepsPackageInv DEF PackageInv, Building, InPlace

LEMMA ManifestKeepsPackageInv ==
  ASSUME PackageInv, Builder!WriteManifest
  PROVE  PackageInv' /\ BuildStep
<1>1. PICK cut \in Builder!MayCut({<<"manifest">>}) :
        /\ faults' = faults - Builder!Cardinality(cut)
        /\ staging' = Builder!Directory(Builder!Put(staging.files, <<"manifest">>, builder.manifest, cut))
  BY DEF Builder!WriteManifest
<1>2. InPlace("links", Builder!Put(staging.files, <<"manifest">>, builder.manifest, cut))
  <2> DEFINE new == Builder!Put(staging.files, <<"manifest">>, builder.manifest, cut)
  <2>1. /\ DOMAIN new = DOMAIN staging.files \cup {<<"manifest">>}
        /\ new[<<"manifest">>] \in {builder.manifest, Builder!Cut}
        /\ \A k \in DOMAIN staging.files \ {<<"manifest">>} : new[k] = staging.files[k]
    BY DEF Builder!Put
  <2> HIDE DEF new
  <2>2. InPlace("links", new)
    BY <2>1 DEF InPlace
  <2> QED
    BY <2>2 DEF new
<1> QED
  BY <1>1, <1>2, WritingKeepsPackageInv DEF Builder!WriteManifest, Builder!Working, Building

LEMMA LinksKeepPackageInv ==
  ASSUME PackageInv, Builder!WriteLinks
  PROVE  PackageInv' /\ BuildStep
<1> DEFINE links == Builder!Resolve(staging.files, staging.files[<<"manifest">>])
<1>1. PICK cut \in Builder!MayCut({<<"links">>}) :
        /\ faults' = faults - Builder!Cardinality(cut)
        /\ staging' = Builder!Directory(Builder!Put(staging.files, <<"links">>, links, cut))
  BY DEF Builder!WriteLinks
<1>2. builder.at = "links" /\ <<"manifest">> \in DOMAIN staging.files
  BY DEF Builder!WriteLinks, Builder!Working, PackageInv, InPlace, Building
<1>3. InPlace("report", Builder!Put(staging.files, <<"links">>, links, cut))
  <2> DEFINE new == Builder!Put(staging.files, <<"links">>, links, cut)
  <2>1. /\ DOMAIN new = DOMAIN staging.files \cup {<<"links">>}
        /\ new[<<"links">>] \in {links, Builder!Cut}
        /\ \A k \in DOMAIN staging.files \ {<<"links">>} : new[k] = staging.files[k]
    BY DEF Builder!Put
  <2> HIDE DEF new
  <2>2. InPlace("report", new)
    BY <1>2, <2>1 DEF InPlace
  <2> QED
    BY <2>2 DEF new
<1> QED
  BY <1>1, <1>2, <1>3, WritingKeepsPackageInv DEF Builder!WriteLinks, Building

LEMMA ReportKeepsPackageInv ==
  ASSUME PackageInv, Builder!WriteReport
  PROVE  PackageInv' /\ BuildStep
<1> DEFINE rest == Builder!WithoutWork(staging.files)
           report == Builder!BuildReport(builder.log)
<1>1. PICK cut \in Builder!MayCut({<<"build_report">>}) :
        /\ faults' = faults - Builder!Cardinality(cut)
        /\ staging' = Builder!Directory(Builder!Put(rest, <<"build_report">>, report, cut))
  BY DEF Builder!WriteReport
<1>2. builder.at = "report" /\ {<<"manifest">>, <<"links">>} \subseteq DOMAIN staging.files
  BY DEF Builder!WriteReport, Builder!Working, PackageInv, InPlace, Building
<1>3. {<<"manifest">>, <<"links">>} \subseteq DOMAIN rest /\ <<".work">> \notin DOMAIN rest
  BY <1>2 DEF Builder!WithoutWork, Builder!Restrict
<1>4. report.success
  BY DEF Builder!WriteReport, Builder!BuildReport
<1>5. InPlace("validate", Builder!Put(rest, <<"build_report">>, report, cut))
  <2> DEFINE new == Builder!Put(rest, <<"build_report">>, report, cut)
  <2>1. /\ DOMAIN new = DOMAIN rest \cup {<<"build_report">>}
        /\ new[<<"build_report">>] \in {report, Builder!Cut}
        /\ \A k \in DOMAIN rest \ {<<"build_report">>} : new[k] = rest[k]
    BY DEF Builder!Put
  <2> HIDE DEF new
  <2>2. InPlace("validate", new)
    BY <1>3, <1>4, <2>1 DEF InPlace
  <2> QED
    BY <2>2 DEF new
<1> QED
  BY <1>1, <1>2, <1>5, WritingKeepsPackageInv DEF Builder!WriteReport, Building

LEMMA ValidateKeepsPackageInv ==
  ASSUME PackageInv, Builder!Validate
  PROVE  PackageInv' /\ BuildStep
<1> DEFINE report == Builder!ValidationReport(staging.files)
<1>1. PICK cut \in Builder!MayCut({<<"validation_report">>}) :
        /\ faults' = faults - Builder!Cardinality(cut)
        /\ staging' = Builder!Directory(Builder!Put(staging.files, <<"validation_report">>, report, cut))
  BY DEF Builder!Validate, Builder!Reported
<1>2. builder.at = "validate" /\ InPlace("validate", staging.files)
  BY DEF Builder!Validate, Builder!Working, PackageInv, Building
<1>3. report.valid
  BY DEF Builder!Validate, Builder!ValidationReport
<1>4. InPlace("publish", Builder!Put(staging.files, <<"validation_report">>, report, cut))
  <2> DEFINE new == Builder!Put(staging.files, <<"validation_report">>, report, cut)
  <2>1. /\ DOMAIN new = DOMAIN staging.files \cup {<<"validation_report">>}
        /\ new[<<"validation_report">>] \in {report, Builder!Cut}
        /\ \A k \in DOMAIN staging.files \ {<<"validation_report">>} : new[k] = staging.files[k]
    BY DEF Builder!Put
  <2> HIDE DEF new
  <2>2. InPlace("publish", new)
    BY <1>2, <1>3, <2>1 DEF InPlace
  <2> QED
    BY <2>2 DEF new
<1> QED
  BY <1>1, <1>2, <1>4, WritingKeepsPackageInv DEF Builder!Validate, Building

(* What is published is whole, and there was no file in its place.         *)
LEMMA PublishKeepsPackageInv ==
  ASSUME PackageInv, Builder!Publish
  PROVE  PackageInv' /\ BuildStep
<1>1. /\ builder.at = "publish" /\ staging.there
      /\ destination.there => DOMAIN destination.files = {}
      /\ destination' = staging /\ UNCHANGED faults
      /\ ~staging'.there
  BY DirectoryIsThere DEF Builder!Publish, Builder!Working
<1>2. /\ builder' = [f \in BuilderFields |-> builder'[f]]
      /\ builder'.at = "ended" /\ builder'.exit = 0
  BY DEF Builder!Publish, PackageInv, BuilderIsTyped, BuilderFields
<1>3. InPlace("publish", staging.files)
  BY <1>1 DEF PackageInv, Building
<1>4. Builder!IsComplete(staging.files)
  BY <1>3 DEF InPlace, Builder!IsComplete
<1>5. destination.there => Builder!SameButReport(destination, destination')
  BY <1>1 DEF Builder!SameButReport
<1>6. builder.exit = -1
  BY <1>1 DEF PackageInv, BuilderIsTyped
<1> QED
  BY <1>1, <1>2, <1>4, <1>5, <1>6 DEF PackageInv, BuilderIsTyped, BuildStep, Building

LEMMA FailingKeepsPackageInv ==
  ASSUME PackageInv,
         \/ Builder!LinksStop \/ Builder!GiveUp \/ Builder!ValidationStops
         \/ Builder!CannotPublish \/ Builder!WriteFails
  PROVE  PackageInv' /\ BuildStep
<1>1. Builder!Fail /\ faults' \in Nat
  BY DEF Builder!LinksStop, Builder!GiveUp, Builder!ValidationStops, Builder!CannotPublish,
         Builder!WriteFails, PackageInv
<1> QED
  BY <1>1, FailKeepsPackageInv

LEMMA ToolKeepsPackageInv ==
  ASSUME PackageInv, [ToolNext]_<<command, inspectionVars, packageVars>>
  PROVE  PackageInv' /\ [BuildStep]_packageVars
<1>1. CASE UNCHANGED packageVars
  BY <1>1 DEF packageVars, PackageInv, BuilderIsTyped
<1>2. CASE Builder!Next
  BY <1>2, OutsideKeepsPackageInv, OpenKeepsPackageInv, ContainerKeepsPackageInv,
     TableKeepsPackageInv, ManifestKeepsPackageInv, LinksKeepPackageInv, ReportKeepsPackageInv,
     ValidateKeepsPackageInv, PublishKeepsPackageInv, FailingKeepsPackageInv
     DEF Builder!Next
<1> QED
  BY <1>1, <1>2 DEF ToolNext, InspectScenario, HandlePackage

LEMMA PackageInvHolds == ToolSpec => []PackageInv
<1>1. ToolInit => PackageInv
  <2>1. ASSUME Builder!Fresh PROVE PackageInv
    <3>1. /\ builder = [f \in BuilderFields |-> builder[f]]
          /\ builder.at = "idle" /\ builder.exit = -1
      BY <2>1 DEF Builder!Fresh, Builder!Idle, BuilderFields
    <3>2. faults \in Nat
      BY <2>1, MaxFaultsAssumption DEF Builder!Fresh
    <3> QED
      BY <3>1, <3>2 DEF PackageInv, BuilderIsTyped, Building
  <2> QED
    BY <2>1 DEF ToolInit, Builder!Init
<1> QED
  BY <1>1, ToolKeepsPackageInv, PTL DEF ToolSpec

(* For any game, inspections and faults: what a build that succeeds leaves *)
(* at the destination is its staging directory, whole and validated, a     *)
(* manifest appears in no other way, no file that is there is replaced but *)
(* the report of a validation, and a build that ends leaves no staging     *)
(* directory (runtime_package.cpp:41-90, 740-953).                         *)
THEOREM PackagesAreBuiltWhole == ToolSpec => BuildIsAllOrNothing
<1>1. PackageInv /\ [ToolNext]_<<command, inspectionVars, packageVars>> => [BuildStep]_packageVars
  BY ToolKeepsPackageInv
<1>2. [BuildStep]_packageVars => [BuildStep]_(Builder!vars)
  BY DEF packageVars, Builder!vars
<1> QED
  BY <1>1, <1>2, PackageInvHolds, PTL
     DEF ToolSpec, BuildIsAllOrNothing, Builder!BuildIsAllOrNothing, BuildStep
-----------------------------------------------------------------------------
(* The outputs of sg-inspect (ScenarioInspection).  While they are written *)
(* the dump comes first, what is claimed was asked for, what is claimed and*)
(* could be opened holds what was read, or the beginning of it, and nothing*)
(* else does; a dump that cannot be made was not written.                  *)
OutputsAreWritten ==
  /\ claimed \subseteq AllAsked
  /\ claimed # {} /\ Asked("json") => "json" \in claimed
  /\ "json" \in claimed => ~DumpIsRefused
  /\ DOMAIN written = claimed \cap request.writable
  /\ \A output \in DOMAIN written : OutputIsRight(output)

InspectionInv ==
  /\ stage \in {"open", "load", "report", "annotate", "write", "ended", "crashed"}
  /\ stage = "open" => parsed = Nothing
  /\ stage \in {"load", "report", "annotate", "write"} => parsed # Nothing
  /\ stage \in {"open", "load", "report", "annotate"} => claimed = {} /\ written = <<>>
  /\ stage = "write" => OutputsAreWritten
  /\ ExitCodeIsRight

(* The content of an output is made of what was read before the first one  *)
(* is written.                                                             *)
LEMMA ContentStays ==
  ASSUME UNCHANGED <<request, seen, parsed>>
  PROVE  /\ \A output : Content(output)' = Content(output)
         /\ DumpIsRefused' = DumpIsRefused
         /\ AllAsked' = AllAsked
<1>1. Listing' = Listing
  BY DEF Listing
<1>2. TerrainSize' = TerrainSize
  BY DEF TerrainSize
<1>3. Usages' = Usages /\ HasResolver' = HasResolver
  BY DEF Usages, HasResolver
<1>4. ShownUsages' = ShownUsages
  BY <1>3 DEF ShownUsages
<1>5. Classification' = Classification
  BY DEF Classification
<1>6. JsonDump' = JsonDump
  BY <1>1, <1>2, <1>3, <1>4, <1>5 DEF JsonDump
<1>7. TerrainDebug' = TerrainDebug
  BY DEF TerrainDebug
<1>8. TableTexts' = TableTexts /\ FileTexts' = FileTexts
  BY <1>3 DEF TableTexts, FileTexts
<1>9. DumpFails' = DumpFails
  BY <1>3, <1>8 DEF DumpFails
<1> QED
  BY <1>6, <1>7, <1>9 DEF Content, DumpIsRefused, AllAsked

(* Outputs that are not touched stay right.                                *)
LEMMA OutputsStay ==
  ASSUME UNCHANGED <<request, seen, parsed>>, NEW output, written'[output] = written[output]
  PROVE  OutputIsRight(output)' <=> OutputIsRight(output)
BY ContentStays DEF OutputIsRight

LEMMA NothingIsWrittenYet ==
  ASSUME InspectionInv, stage \in {"open", "load", "report", "annotate"},
         UNCHANGED <<written, claimed>>, parsed' # Nothing,
         stage' \in {"load", "report", "annotate", "write"}
  PROVE  InspectionInv'
<1>1. claimed' = {} /\ written' = <<>>
  BY DEF InspectionInv
<1>2. stage' = "write" => OutputsAreWritten'
  BY <1>1 DEF OutputsAreWritten
<1> QED
  BY <1>1, <1>2 DEF InspectionInv, ExitCodeIsRight

(* The command ends before it writes anything.                             *)
LEMMA NothingIsWrittenEver ==
  ASSUME InspectionInv, stage \in {"open", "annotate"}, UNCHANGED <<written, claimed>>,
         \/ stage' = "crashed"
         \/ stage' = "ended" /\ exit' = 1 /\ parsed' = Nothing
  PROVE  InspectionInv'
<1>1. claimed' = {} /\ written' = <<>>
  BY DEF InspectionInv
<1>2. NothingIsTouched'
  BY <1>1 DEF NothingIsTouched
<1> QED
  BY <1>2 DEF InspectionInv, ExitCodeIsRight

LEMMA OutputKeepsInspectionInv ==
  ASSUME InspectionInv, NEW output \in ToSet(Outputs), Write(output)
  PROVE  InspectionInv'
<1>1. /\ stage = "write" /\ stage' = "write" /\ parsed # Nothing
      /\ output \in request.options /\ output \notin claimed
      /\ claimed' = claimed \cup {output}
      /\ UNCHANGED <<request, seen, parsed>>
  BY DEF Write, IsNext, Asked, InspectionInv
<1>2. /\ \A o : Content(o)' = Content(o)
      /\ DumpIsRefused' = DumpIsRefused /\ AllAsked' = AllAsked
  BY <1>1, ContentStays
<1>3. OutputsAreWritten
  BY <1>1 DEF InspectionInv
<1>4. Asked("json")' => "json" \in claimed'
  <2>1. CASE output = "json"
    BY <1>1, <2>1
  <2>2. CASE output # "json" /\ Asked("json")
    BY <1>1, <2>2 DEF Write, IsNext, Outputs, ToSet
  <2> QED
    BY <1>1, <2>1, <2>2 DEF Asked
<1>5. DOMAIN written' = claimed' \cap request'.writable
  BY <1>1, <1>3 DEF Write, WithOutput, OutputsAreWritten
<1>6. ASSUME NEW o \in DOMAIN written'
      PROVE  OutputIsRight(o)'
  <2>1. CASE o # output \/ output \notin request.writable
    <3>1. o \in DOMAIN written /\ written'[o] = written[o]
      BY <1>1, <1>3, <1>6, <2>1 DEF Write, WithOutput, OutputsAreWritten
    <3> QED
      BY <1>1, <1>3, <3>1, OutputsStay DEF OutputsAreWritten
  <2>2. CASE o = output /\ output \in request.writable
    <3>1. written'[o] = [content |-> Content(o), whole |-> o \notin request.cut]
      BY <2>2 DEF Write, WithOutput, Written
    <3>2. written'[o].content = Content(o)'
      BY <1>2, <3>1
    <3>3. written'[o].whole <=> o \notin request'.cut
      <4> DEFINE isWhole == o \notin request.cut
      <4>1. written'[o].whole = isWhole
        <5> HIDE DEF isWhole
        <5>1. written'[o] = [content |-> Content(o), whole |-> isWhole]
          BY <3>1 DEF isWhole
        <5> QED
          BY <5>1
      <4>2. isWhole <=> o \notin request'.cut
        BY <1>1
      <4> HIDE DEF isWhole
      <4> QED
        BY <4>1, <4>2, Zenon
    <3> QED
      BY <3>2, <3>3 DEF OutputIsRight
  <2> QED
    BY <2>1, <2>2
<1>7. "json" \in claimed' => ~DumpIsRefused
  <2>1. output = "json" => ~DumpIsRefused
    BY DEF Write, DumpIsRefused
  <2> QED
    BY <1>1, <1>3, <2>1 DEF OutputsAreWritten
<1>8. claimed' \subseteq AllAsked
  BY <1>1, <1>3 DEF AllAsked, OutputsAreWritten
<1>9. OutputsAreWritten'
  BY <1>2, <1>4, <1>5, <1>6, <1>7, <1>8 DEF OutputsAreWritten
<1> QED
  BY <1>1, <1>9 DEF InspectionInv, ExitCodeIsRight

LEMMA EndKeepsInspectionInv ==
  ASSUME InspectionInv, DumpThrows \/ Finish
  PROVE  InspectionInv'
<1>1. /\ stage = "write" /\ stage' = "ended" /\ parsed # Nothing
      /\ UNCHANGED <<request, seen, parsed, claimed>>
  BY DEF DumpThrows, Finish, IsNext, Fail, InspectionInv
<1>2. DumpIsRefused' = DumpIsRefused /\ AllAsked' = AllAsked
  BY <1>1, ContentStays
<1>3. OutputsAreWritten
  BY <1>1 DEF InspectionInv
<1>4. CASE DumpThrows
  <2>1. exit' = 1 /\ DumpIsRefused /\ "json" \notin claimed /\ Asked("json")
    BY <1>4 DEF DumpThrows, IsNext, Fail, DumpIsRefused, Asked
  <2>2. claimed = {} /\ DOMAIN written = {}
    BY <1>3, <2>1 DEF OutputsAreWritten
  <2>3. DOMAIN written' = {"json"} /\ written'["json"] = Empty
    BY <1>4, <2>2 DEF DumpThrows, WithOutput
  <2>4. ExitCodeIsRight'
    BY <1>1, <1>2, <2>1, <2>2, <2>3 DEF ExitCodeIsRight, Empty
  <2> QED
    BY <1>1, <2>4 DEF InspectionInv
<1>5. CASE Finish
  <2>1. exit' = 0 /\ written' = written /\ claimed = AllAsked
    <3>1. AllAsked \subseteq claimed
      BY <1>5 DEF Finish, Asked, AllAsked, ToSet, Outputs
    <3> QED
      BY <1>3, <1>5, <3>1 DEF Finish, OutputsAreWritten
  <2>2. ~DumpIsRefused
    BY <1>3, <2>1 DEF OutputsAreWritten, DumpIsRefused, AllAsked, ToSet, Outputs
  <2>3. \A output \in DOMAIN written' : OutputIsRight(output)'
    BY <1>1, <1>3, <2>1, OutputsStay DEF OutputsAreWritten
  <2>4. ExitCodeIsRight'
    BY <1>1, <1>2, <1>3, <2>1, <2>2, <2>3 DEF ExitCodeIsRight, OutputsAreWritten
  <2> QED
    BY <1>1, <2>4 DEF InspectionInv
<1> QED
  BY <1>4, <1>5

LEMMA ToolKeepsInspectionInv ==
  ASSUME InspectionInv, [ToolNext]_<<command, inspectionVars, packageVars>>
  PROVE  InspectionInv'
<1>1. CASE UNCHANGED inspectionVars
  <2>1. /\ DumpIsRefused' = DumpIsRefused /\ AllAsked' = AllAsked
        /\ \A o : OutputIsRight(o)' <=> OutputIsRight(o)
    BY <1>1, ContentStays, OutputsStay DEF inspectionVars
  <2>2. OutputsAreWritten' <=> OutputsAreWritten
    BY <1>1, <2>1 DEF inspectionVars, OutputsAreWritten, Asked
  <2>3. ExitCodeIsRight' <=> ExitCodeIsRight
    BY <1>1, <2>1 DEF inspectionVars, ExitCodeIsRight, NothingIsTouched, Empty
  <2> QED
    BY <1>1, <2>2, <2>3 DEF inspectionVars, InspectionInv
<1>2. CASE InspectionNext
  <2>1. CASE OpenFails
    BY <2>1, NothingIsWrittenEver DEF OpenFails, Fail, InspectionInv
  <2>2. ASSUME NEW template, stage = "open", ParseFile(template) \/ ParseFails(template)
        PROVE  InspectionInv'
    <3>1. CASE ParseFile(template)
      <4>1. parsed' # Nothing
        BY <3>1 DEF ParseFile, Nothing
      <4> QED
        BY <2>2, <3>1, <4>1, NothingIsWrittenYet DEF ParseFile
    <3>2. CASE ParseFails(template)
      BY <2>2, <3>2, NothingIsWrittenEver DEF ParseFails, Fail, InspectionInv
    <3> QED
      BY <2>2, <3>1, <3>2
  <2>3. ASSUME NEW table, LoadTable(table)
        PROVE  InspectionInv'
    BY <2>3, NothingIsWrittenYet DEF LoadTable, InspectionInv
  <2>4. CASE PrintSummary \/ PrintReport \/ Annotate
    BY <2>4, NothingIsWrittenYet DEF PrintSummary, PrintReport, Annotate, InspectionInv
  <2>5. CASE AnnotateCrashes
    BY <2>5, NothingIsWrittenEver DEF AnnotateCrashes
  <2> QED
    BY <1>2, <2>1, <2>2, <2>3, <2>4, <2>5, OutputKeepsInspectionInv, EndKeepsInspectionInv
       DEF InspectionNext
<1> QED
  BY <1>1, <1>2 DEF ToolNext, InspectScenario, HandlePackage

(* For any request, outputs that cannot be opened and outputs that are cut *)
(* while they are written among it: the exit code of sg-inspect is 1 when  *)
(* there is no scenario, and when the dump was opened and could not be     *)
(* made, which is then empty and the only output; else it is 0, and says   *)
(* that every output was tried, not that it is there or whole: what could  *)
(* be opened holds what was read, but for the end of those that were cut   *)
(* (commands_sg_inspect.cpp:651-681, 898-922).                             *)
THEOREM ExitCodesAreRight == ToolSpec => []ExitCodeIsRight
<1>1. ToolInit => InspectionInv
  <2> SUFFICES ASSUME Fresh
               PROVE  InspectionInv
    BY DEF ToolInit, InspectionInit
  <2>1. stage = "open" /\ parsed = Nothing /\ claimed = {} /\ written = <<>>
    BY DEF Fresh
  <2>2. NothingIsTouched
    BY <2>1 DEF NothingIsTouched
  <2> QED
    BY <2>1, <2>2 DEF InspectionInv, ExitCodeIsRight
<1>2. InspectionInv => ExitCodeIsRight
  BY DEF InspectionInv
<1> QED
  BY <1>1, <1>2, ToolKeepsInspectionInv, PTL DEF ToolSpec
=============================================================================
