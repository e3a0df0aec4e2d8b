------------------------- MODULE AnimationPreloader --------------------------
(***************************************************************************)
(* AnimationAssetPreloader::prepare_sprites inside                         *)
(* RenderAssetRuntime::preload_complete: the whole life of one preloader,  *)
(* which prepares a list of images in its own worker pool (WorkerPool),    *)
(* reads them from the store (FfAssetStore) that others read too,          *)
(* publishes them in the asset runtime, and uploads them.                  *)
(*                                                                         *)
(* The client of the pool is the main thread.  Its jobs decode one record  *)
(* each, and when all have ended compose one image each; job j is the j-th *)
(* of these.  A worker of the asset runtime (Other) is busy at the same    *)
(* time with requests made before.  A request is [name, kind, detect,      *)
(* key]: kind "sprite" or "raw", and which magenta treatment is asked for. *)
(*                                                                         *)
(* Calls on the asset runtime that no other thread can tell apart are one  *)
(* step.  The order in which hash maps are walked is fixed here.  An       *)
(* allocation or a callback may fail once (plan.faulty).                   *)
(***************************************************************************)
EXTENDS WorkerPool, FfAssetStore

CONSTANTS
  Main,        (* the client                                                 *)
  Other,       (* a worker of the asset runtime                              *)
  Plans        (* [file, requests, entries, calls, faulty]                   *)

Decoding == [by |-> "decoding", pixels |-> NoPixels]

(* The asset runtime has an entry of its own for every image asked for, in *)
(* which its worker has one request (AssetRuntime) that is not answered.   *)
Request == [name : Name, kind : {"sprite", "raw"}, detect : BOOLEAN, key : BOOLEAN]
ASSUME PlansAssumption ==
  /\ Clients = {Main} /\ Readers = Workers \cup {Other} /\ Other \notin Workers
  /\ \A p \in Plans :
       /\ p.faulty \in BOOLEAN /\ WellFormed(p.file)
       /\ p.requests \in Seq(Request \cap DOMAIN p.entries)
       /\ \A k \in DOMAIN p.entries : p.entries[k].by # "bulk"
       /\ p.calls \in Seq([op : {"raw", "png"}, key : Request])
       /\ \A i, j \in DOMAIN p.calls :
            p.calls[i].op = "png" =>
              /\ p.calls[i].key \in DOMAIN p.entries /\ p.entries[p.calls[i].key] = Decoding
              /\ p.calls[j].op = "png" /\ p.calls[i].key = p.calls[j].key => i = j

VARIABLES
  plan,        (* one of Plans, fixed                                        *)
  keys,        (* the images asked for, each once                            *)
  deps,        (* per key, what resolve_sprite_fast finds                    *)
  physicals,   (* the records the sprites are made of, each once             *)
  stage,       (* where the call is                                          *)
  next,        (* the next thing to enqueue or to upload, counted from 1     *)
  phys,        (* phys->results: record name -> object                       *)
  results,     (* compose_results                                            *)
  published,   (* the slots of published_images that are set                 *)
  entries,     (* the asset runtime's entries, [by, pixels]                  *)
  batch,       (* what the reclaim batch has taken                           *)
  pending,     (* calls the other worker still has to make                   *)
  faults       (* how many failures there have been                          *)

ownVars == <<plan, keys, deps, physicals, stage, next, phys, results, published, entries, batch, pending, faults>>
preloadVars == <<vars, storeVars, ownVars>>

NoEntry == [by |-> "nobody", pixels |-> NoPixels]
NoKey == [name |-> NoName, kind |-> "none", detect |-> FALSE, key |-> FALSE]
NoResult == [key |-> NoKey, pixels |-> NoPixels]
Failed == [by |-> "failed", pixels |-> NoPixels]
-----------------------------------------------------------------------------
(* The members of a sequence, each where it comes first, but not nobody.   *)
FirstOfEach(s, nobody) ==
  LET Passed(n) == s[n] = nobody \/ \E j \in 1 .. n - 1 : s[j] = s[n]
      upTo[n \in 0 .. Len(s)] ==
        IF n = 0 THEN << >> ELSE IF Passed(n) THEN upTo[n - 1] ELSE Append(upTo[n - 1], s[n])
  IN upTo[Len(s)]
Lists == <<plan, keys, deps, physicals>>

IsDecode(j) == j <= Len(physicals)
KeyOf(j) == j - Len(physicals)

(* postprocess_and_wrap treats raw images only.                            *)
Treated(k, pixels) ==
  [pixels EXCEPT !.keyed = k.kind = "raw" /\ (k.key \/ (k.detect /\ pixels.border))]

(* What a composing job makes of key k, and AssetRuntime::decode_image.    *)
Bulk(k, dep, object) ==
  IF object = Nothing THEN NoPixels
  ELSE IF k.kind = "raw" THEN Treated(k, RawPixels(file, k.name))
  ELSE IF dep.composed
  THEN [record |-> dep.record, composed |-> TRUE, keyed |-> FALSE, border |-> dep.border]
  ELSE Treated(k, RawPixels(file, dep.record))

Single(k) ==
  LET pixels == IF k.kind = "raw" THEN RawPixels(file, k.name) ELSE SpritePixels(file, k.name)
  IN IF pixels = NoPixels THEN NoPixels
     ELSE [pixels EXCEPT !.keyed = k.key \/ (k.kind = "sprite" /\ k.detect /\ pixels.border)]
-----------------------------------------------------------------------------
(* The asset runtime: publish_prepared leaves an entry alone that is there *)
(* already, a failed one included.                                         *)
Publish(k, pixels) ==
  entries' = IF entries[k] = NoEntry THEN [entries EXCEPT ![k] = [by |-> "bulk", pixels |-> pixels]]
             ELSE entries

(* release_prepared_if_matches for the images of ks.                       *)
Without(ks) ==
  [k \in DOMAIN entries |-> IF k \in ks /\ entries[k].by = "bulk" THEN NoEntry ELSE entries[k]]
-----------------------------------------------------------------------------
(* The body of a job: read, then compose and publish.                      *)
Reads(j) ==
  IF IsDecode(j) THEN physicals[j]
  ELSE keys[KeyOf(j)].name

NeedsRead(j) == ~IsDecode(j) => keys[KeyOf(j)].kind = "raw"
InJob(w) == pc[w] = "run" /\ UNCHANGED <<Lists, stage, next, batch, pending, faults>>

ReadImage(w) ==
  /\ InJob(w) /\ call[w].place = "out" /\ NeedsRead(running[w])
  /\ LookUp(w, "png", Reads(running[w]))
  /\ UNCHANGED <<vars, phys, results, published, entries>>

KeepImage(w) ==
  /\ InJob(w) /\ Keep(w)
  /\ UNCHANGED <<vars, phys, results, published, entries>>

Forget(w) == call' = [call EXCEPT ![w] = NoCall]
StoreRests == UNCHANGED <<file, opened, pngs, bytes, made, usage, missing, finished, given>>

EndDecode(w) ==
  /\ InJob(w) /\ IsDecode(running[w]) /\ call[w].place = "done"
  /\ phys' = Put(phys, Reads(running[w]), call[w].got)
  /\ Forget(w) /\ StoreRests /\ FinishJob(w)
  /\ UNCHANGED <<results, published, entries>>

(* A job that throws leaves its slot as it was.                            *)
EndCompose(w) ==
  LET j == running[w]
      k == keys[KeyOf(j)]
      dep == deps[KeyOf(j)]
      object == IF k.kind = "raw" THEN call[w].got ELSE At(phys, dep.record)
      pixels == Bulk(k, dep, object)
  IN /\ InJob(w) /\ ~IsDecode(j) /\ call[w].place = (IF NeedsRead(j) THEN "done" ELSE "out")
     /\ results' = [results EXCEPT ![KeyOf(j)] = [key |-> k, pixels |-> pixels]]
     /\ IF pixels = NoPixels THEN UNCHANGED <<entries, published>>
        ELSE Publish(k, pixels) /\ published' = published \cup {KeyOf(j)}
     /\ Forget(w) /\ StoreRests /\ FinishJob(w)
     /\ UNCHANGED phys

JobThrows(w) ==
  /\ InJob(w) /\ call[w].place = "thrown"
  /\ Forget(w) /\ StoreRests /\ FinishJob(w)
  /\ UNCHANGED <<phys, results, published, entries>>
-----------------------------------------------------------------------------
(* The main thread.                                                        *)
OnMain(from) == stage = from /\ pc[Main] = "out" /\ UNCHANGED <<plan, pending>>
Go(to) == stage' = to /\ next' = 1
Fault == plan.faulty /\ faults = 0 /\ faults' = 1

(* Steps 1 and 2 of prepare_sprites: every image once, every record once.  *)
(* Resolving opens the container; one that does not open ends the call     *)
(* before anything has begun.                                              *)
ResolveKeys ==
  LET wanted == FirstOfEach(plan.requests, NoKey)
      Found(k) == IF k.kind = "sprite" THEN Resolve(file, k.name) ELSE Unresolved
      found == [i \in DOMAIN wanted |-> Found(wanted[i])]
      some == \E i \in DOMAIN wanted : wanted[i].kind = "sprite"
  IN /\ OnMain("resolve")
     /\ keys' = wanted
     /\ IF some => file.opens
        THEN /\ Go("decode")
             /\ deps' = found
             /\ physicals' = FirstOfEach([i \in DOMAIN wanted |-> found[i].record], NoName)
             /\ opened' = (opened \/ some)
             /\ results' = [i \in DOMAIN wanted |-> NoResult]
        ELSE Go("cleanup") /\ UNCHANGED <<deps, physicals, opened, results>>
     /\ UNCHANGED <<vars, file, call, pngs, bytes, made, usage, missing, finished, given>>
     /\ UNCHANGED <<phys, published, entries, batch, faults>>

MainOnly == UNCHANGED <<storeVars, keys, deps, physicals, phys, results, published>>

(* Enqueue the jobs of a stage one by one, then wait for the pool.         *)
Enqueue(from, jobs) ==
  /\ OnMain(from) /\ next <= jobs
  /\ Push(Main) /\ next' = next + 1
  /\ MainOnly /\ UNCHANGED <<stage, entries, batch, faults>>

(* Mutant: the next stage begins without waiting.                          *)
WaitNot(from, jobs, to) ==
  /\ OnMain(from) /\ next = jobs + 1
  /\ Go(to)
  /\ MainOnly /\ UNCHANGED <<vars, entries, batch, faults>>

Wait(from, jobs, to) ==
  /\ OnMain(from) /\ next = jobs + 1
  /\ CallWaitIdle(Main) /\ Go(to)
  /\ MainOnly /\ UNCHANGED <<entries, batch, faults>>

(* What fails before there are composing jobs has nothing to take back,    *)
(* although decoding jobs may still run; what fails later waits for the    *)
(* pool first.                                                             *)
DecodeFails ==
  /\ OnMain("decode") /\ Fault
  /\ Go("cleanup")
  /\ MainOnly /\ UNCHANGED <<vars, entries, batch>>

InTheTry == OnMain("compose") \/ (OnMain("upload") /\ next = 1)

(* Mutant: the images are taken back at once.                              *)
ComposeFailsUnwaited ==
  /\ InTheTry /\ Fault
  /\ Go("rollback")
  /\ MainOnly /\ UNCHANGED <<vars, entries, batch>>

ComposeFails ==
  /\ InTheTry /\ Fault
  /\ CallWaitIdle(Main) /\ Go("rollback")
  /\ MainOnly /\ UNCHANGED <<entries, batch>>

Rollback ==
  /\ OnMain("rollback")
  /\ entries' = Without({keys[i] : i \in published})
  /\ Go("cleanup")
  /\ MainOnly /\ UNCHANGED <<vars, batch, faults>>

(* upload_one_and_release, and the caller's callback.  A callback that     *)
(* throws finds the result already moved into the batch.                   *)
Succeeded(i) == results[i].pixels # NoPixels
HandOver(i) ==
  /\ entries' = IF Succeeded(i) THEN Without({results[i].key}) ELSE entries
  /\ batch' = [batch EXCEPT !.items = @ \cup (IF Succeeded(i) THEN {i} ELSE {})]

Upload ==
  /\ OnMain("upload") /\ next \in DOMAIN keys
  /\ HandOver(next)
  /\ next' = next + 1
  /\ MainOnly /\ UNCHANGED <<vars, stage, faults>>

UploadFails ==
  /\ OnMain("upload") /\ next \in DOMAIN keys /\ Fault
  /\ HandOver(next) \/ UNCHANGED <<entries, batch>>
  /\ stage' = "recover" /\ UNCHANGED next
  /\ MainOnly /\ UNCHANGED vars

Uploaded ==
  /\ OnMain("upload") /\ next = Len(keys) + 1
  /\ batch' = [batch EXCEPT !.state = "sealed"]
  /\ Go("end")
  /\ MainOnly /\ UNCHANGED <<vars, entries, faults>>

(* cleanup: the results prepare_sprites has returned and that were not     *)
(* uploaded, if it did return; then the batch is emptied.                  *)
Unprocessed == IF stage = "recover" THEN {i \in next .. Len(keys) : Succeeded(i)} \ batch.items ELSE {}
Cleanup ==
  /\ OnMain("cleanup") \/ OnMain("recover")
  /\ entries' = Without({keys[i] : i \in Unprocessed})
  /\ batch' = [items |-> batch.items \cup Unprocessed, state |-> "drained"]
  /\ Go("end")
  /\ MainOnly /\ UNCHANGED <<vars, faults>>

(* The preloader is a local variable: the pool ends with the call.         *)
LeaveScope ==
  /\ OnMain("end") /\ Stop
  /\ MainOnly /\ UNCHANGED <<stage, next, entries, batch, faults>>
-----------------------------------------------------------------------------
(* A worker of the asset runtime with requests made earlier, and another   *)
(* reader of the store.                                                    *)
OtherOnly == UNCHANGED <<vars, Lists, stage, next, phys, results, published, batch, faults>>
OtherReads ==
  /\ pending # << >> /\ call[Other].place = "out"
  /\ LET c == Head(pending)
     IN CASE c.op = "raw" -> LookUp(Other, "raw", c.key.name)
          [] c.key.kind = "raw" -> LookUp(Other, "png", c.key.name)
          [] OTHER -> DecodeSprite(Other, c.key.name)
  /\ OtherOnly /\ UNCHANGED <<pending, entries>>

OtherKeeps == Keep(Other) /\ OtherOnly /\ UNCHANGED <<pending, entries>>

Deliver ==
  /\ call[Other].place \in {"done", "thrown"}
  /\ LET c == Head(pending)
         pixels == IF call[Other].place = "thrown" THEN NoPixels ELSE Single(c.key)
     IN entries' = IF c.op = "raw" THEN entries
                   ELSE [entries EXCEPT ![c.key] =
                           IF pixels = NoPixels THEN Failed ELSE [by |-> "worker", pixels |-> pixels]]
  /\ pending' = Tail(pending)
  /\ Forget(Other) /\ StoreRests /\ OtherOnly
-----------------------------------------------------------------------------
PreloadInit ==
  /\ Init
  /\ plan \in Plans
  /\ StoreInit(plan.file)
  /\ keys = << >> /\ deps = << >> /\ physicals = << >>
  /\ stage = "resolve" /\ next = 1
  /\ phys = << >> /\ results = << >>
  /\ published = {}
  /\ entries = plan.entries
  /\ batch = [items |-> {}, state |-> "open"]
  /\ pending = plan.calls
  /\ faults = 0

MainStep ==
  \/ ResolveKeys
  \/ Enqueue("decode", Len(physicals)) \/ Wait("decode", Len(physicals), "compose")
  \/ Enqueue("compose", Len(keys)) \/ Wait("compose", Len(keys), "upload")
  \/ DecodeFails \/ ComposeFails \/ Rollback
  \/ Upload \/ UploadFails \/ Uploaded \/ Cleanup \/ LeaveScope
JobStep(w) == ReadImage(w) \/ KeepImage(w) \/ EndDecode(w) \/ EndCompose(w) \/ JobThrows(w)
OtherStep == OtherReads \/ OtherKeeps \/ Deliver

(* The steps of the pool that are not the body of a job.                   *)
PoolStep(t) ==
  /\ LockStep(t) \/ NotifyOne(t) \/ Block(t) \/ (t \in Workers /\ Complete(t))
  /\ UNCHANGED <<storeVars, ownVars>>
PoolWakeup(t) == SpuriousWakeup(t) /\ UNCHANGED <<storeVars, ownVars>>
PoolDestroy == Destroy /\ UNCHANGED <<storeVars, ownVars>>

MainThread == MainStep \/ PoolStep(Main) \/ PoolDestroy
WorkerThread(w) == JobStep(w) \/ PoolStep(w)

PreloadNext ==
  \/ MainThread \/ OtherStep
  \/ \E w \in Workers : WorkerThread(w)
  \/ \E t \in Threads : PoolWakeup(t)

(* No thread stops, and none is starved at the pool's mutex.               *)
PreloadSpec ==
  /\ PreloadInit /\ [][PreloadNext]_preloadVars
  /\ SF_preloadVars(MainThread) /\ WF_preloadVars(OtherStep)
  /\ \A w \in Workers : SF_preloadVars(WorkerThread(w))
-----------------------------------------------------------------------------
(* Type invariant of the preloader's own variables.                        *)
PreloadTypeOK ==
  /\ stage \in {"resolve", "decode", "compose", "upload", "rollback", "recover", "cleanup", "end"}
  /\ next \in Nat \ {0} /\ published \subseteq DOMAIN keys
  /\ \A k \in DOMAIN entries :
       entries[k].by \in {"nobody", "failed", "decoding", "earlier", "worker", "bulk"}
  /\ batch.items \subseteq DOMAIN keys /\ batch.state \in {"open", "sealed", "drained"}

(* All or nothing: however the call ends, no image it made stays behind in *)
(* the asset runtime, and what it returned has gone through the batch,     *)
(* which is drained unless the call succeeded                              *)
(* (animation_asset_preloader.cpp:215-227, 407-411,                        *)
(* render_asset_runtime.cpp:199-222).                                      *)
NothingIsLeftBehind ==
  stage = "end" =>
    /\ \A k \in DOMAIN entries : entries[k].by # "bulk"
    /\ batch.state = "sealed" => batch.items = {i \in DOMAIN keys : Succeeded(i)}
    /\ batch.state # "open"

(* What others have in the asset runtime is neither replaced nor taken     *)
(* away, although the same keys are prepared here                          *)
(* (asset_runtime.cpp:234-270).                                            *)
OthersKeepTheirs ==
  \A k \in DOMAIN entries :
    entries[k].by \in {"earlier", "worker", "failed"} => entries'[k] = entries[k]

(* The preloader keeps to its own: both of these hold at every step, also  *)
(* when it fails half-way while its jobs still publish.                    *)
PreloadKeepsToItsOwn == [][NothingIsLeftBehind' /\ OthersKeepTheirs]_preloadVars

(* Where the bulk way and AssetRuntime::decode_image agree.  Else they may  *)
(* part: the bulk way does not treat sprites, the other does not look for  *)
(* the magenta border of raw images; and only the bulk way finds a record  *)
(* by a name without ".PNG" or in capitals, or puts the end of a PNG back  *)
(* that it composes, while a name that only the decoder finds is lost to it.*)
Alike(k) ==
  LET dep == Resolve(file, k.name)
      bases == {BaseRecord(file, e).name :
                  e \in {x \in file.entries : x.framed /\ Upper(x.name) = Upper(k.name)}}
  IN IF k.kind = "raw" THEN k.key \/ ~(k.detect /\ RecordNamed(file, k.name).border)
     ELSE /\ ~k.key /\ ~(k.detect /\ dep.border)
          /\ IF dep.composed
             THEN bases = {dep.record} /\ RecordNamed(file, dep.record).data = "whole"
             ELSE /\ SpriteEntries(file, k.name) = {}
                  /\ \/ dep.record = k.name
                     \/ ~DecodesRaw(file, dep.record) /\ ~DecodesRaw(file, k.name)

(* prepare_sprites returns one result per key, in the order of the keys,   *)
(* and the image of each is the one the asset runtime would have made of   *)
(* it - "the worker will produce the same result" (asset_runtime.cpp:244)  *)
(* - where the two ways are Alike.  Only jobs that throw leave a result    *)
(* without its key, and only a container that does not open makes them.    *)
ResultsAreTheDecoders ==
  stage = "upload" /\ pc[Main] = "out" =>
    \A i \in DOMAIN keys :
      IF ~file.opens THEN results[i] = NoResult
      ELSE /\ results[i].key = keys[i]
           /\ Alike(keys[i]) => results[i].pixels = Single(keys[i])

(* Whoever reads first, one by one or in bulk, the store keeps one picture *)
(* of every record with true accounts, and what is given back is right.    *)
ResultsAreRight == StoreIsCoherent /\ ResultsAreTheDecoders

(* The call comes to an end, however it goes, and so does its pool; by     *)
(* then all of its jobs have been run (DestructorDrains)                   *)
(* (animation_asset_preloader.cpp:285-286, 388-389).                       *)
PreloadEnds == <>(dtor = "gone")
=============================================================================
