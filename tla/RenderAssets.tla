----------------------------- MODULE RenderAssets -----------------------------
(***************************************************************************)
(* RenderAssetRuntime, its IncrementalRenderAssetPreload and the texture   *)
(* cache of src/src/d2engine/render, on top of what module AssetRuntime    *)
(* gives (images decoded by workers, shared per key) and what module       *)
(* Reclaimer takes (batches of used images).                               *)
(*                                                                         *)
(* All of it but the decoding belongs to the main thread, and one frame    *)
(* makes many of these calls, so they are operators on the record a:       *)
(*   a.entry     per key, the image asked for in states_, 0 for none,      *)
(*   a.images    every image ever asked for, [key, status]; a handle is    *)
(*               its number, and it stays valid when the entry is gone,    *)
(*   a.texture   per key, the image its texture was made of, 0 for none,   *)
(*               Raw when the cache has read the file itself,              *)
(*   a.refused   images no texture could be made of,                       *)
(*   a.pending   pending_, the handles pump_uploads looks at,              *)
(*   a.cleanups  cancelled_preload_cleanup_,                               *)
(*   a.batches   the state of every reclaim batch,                         *)
(*   a.armed     armed_batches_,                                           *)
(*   a.dropped   images a sealed batch did not take any more.              *)
(*                                                                         *)
(* An upload call ends when its time is up, which may be after any image   *)
(* (budget); that covers its limit on the number of images.  Not here:     *)
(* planned_ and the lazy reading of sprites nobody planned, strict mode,   *)
(* the animation preloader (preload_complete has no caller), statistics.   *)
(***************************************************************************)
EXTENDS Integers, Sequences, SequencesExt, FiniteSets

CONSTANTS
  Keys,        (* the image keys                                             *)
  Faults       (* what may be wrong with the files: records [undecodable,    *)
               (* unusable : SUBSET Keys, scenario, battle : BOOLEAN]        *)

ASSUME FaultsAssumption ==
  \A f \in Faults : f.undecodable \cup f.unusable \subseteq Keys

VARIABLES
  assets,      (* the record a                                               *)
  faults       (* one of Faults, fixed                                       *)

Raw == -1
NoTexture == 0

AssetsAtStart ==
  [entry |-> [k \in Keys |-> 0], images |-> << >>, texture |-> [k \in Keys |-> NoTexture],
   refused |-> {}, pending |-> << >>, cleanups |-> {}, batches |-> << >>, armed |-> {},
   dropped |-> {}]

(* op applied to a and the members of s, one after the other.              *)
Through(op(_, _), a, s) ==
  LET upTo[n \in 0 .. Len(s)] == IF n = 0 THEN a ELSE op(upTo[n - 1], s[n]) IN upTo[Len(s)]

KeyOf(a, n) == a.images[n].key
Cached(a, k) == a.texture[k] # NoTexture
IsReady(a, n) == a.images[n].status # "Waiting"
AllReady(a, handles) == \A i \in DOMAIN handles : IsReady(a, handles[i])
HasImage(a, n) == a.images[n].status = "Ready"
Resident(a, k) == a.entry[k] # 0 /\ HasImage(a, a.entry[k])
-----------------------------------------------------------------------------
(* AssetRuntime, as this thread sees it.  request_image joins the entry of *)
(* its key, whatever its status, or makes one.                             *)
Request(a, k) ==
  IF a.entry[k] # 0 THEN a
  ELSE [a EXCEPT !.images = Append(@, [key |-> k, status |-> "Waiting"]),
                 !.entry[k] = Len(a.images) + 1]

(* request_batch asks for all of the keys, request_textures for those      *)
(* without a texture.  The handles go to the caller.                       *)
Asked(known, c, k) ==
  IF k \in known THEN c
  ELSE [a |-> Request(c.a, k), handles |-> Append(c.handles, Request(c.a, k).entry[k])]

AskFor(a, keys, known) == Through(LAMBDA c, k : Asked(known, c, k), [a |-> a, handles |-> << >>], keys)
RequestBatch(a, keys) == AskFor(a, keys, {})
RequestUncached(a, keys) == AskFor(a, keys, {k \in Keys : Cached(a, k)})

(* A worker is done with image n.                                          *)
Decode(n) ==
  /\ ~IsReady(assets, n)
  /\ assets' = [assets EXCEPT !.images[n].status =
                  IF KeyOf(assets, n) \in faults.undecodable THEN "Failed" ELSE "Ready"]

(* release_prepared takes the image of a key away, whichever it is, and    *)
(* release_prepared_if_matches only a certain one.                         *)
ReleasePrepared(a, k) == IF Resident(a, k) THEN [a EXCEPT !.entry[k] = 0] ELSE a
ReleaseIfMatches(a, n) ==
  IF a.entry[KeyOf(a, n)] = n /\ HasImage(a, n) THEN [a EXCEPT !.entry[KeyOf(a, n)] = 0] ELSE a

(* The latter for each of some handles.                                    *)
GiveBack(a, handles) ==
  [a EXCEPT !.entry = [k \in Keys |-> IF a.entry[k] \in handles /\ HasImage(a, a.entry[k]) THEN 0
                                      ELSE a.entry[k]]]
-----------------------------------------------------------------------------
(* The reclaimer, as this thread sees it.                                  *)
CreateBatch(a) == [a EXCEPT !.batches = Append(@, "open")]
Enqueue(a, b, n) == IF a.batches[b] = "open" THEN a ELSE [a EXCEPT !.dropped = @ \cup {n}]
Seal(a, b) == [a EXCEPT !.batches[b] = IF @ = "open" THEN "sealed" ELSE @]
Activate(a, b) == [a EXCEPT !.batches[b] = "active"]
Arm(a, b) == [a EXCEPT !.armed = @ \cup {b}]

OnFramePresented(a) ==
  [a EXCEPT !.batches = [b \in DOMAIN @ |-> IF b \in a.armed THEN "active" ELSE @[b]], !.armed = {}]
-----------------------------------------------------------------------------
(* The texture cache.                                                      *)
UploadPrepared(a, n) ==
  IF Cached(a, KeyOf(a, n)) THEN a
  ELSE IF KeyOf(a, n) \in faults.unusable THEN [a EXCEPT !.refused = @ \cup {n}]
  ELSE [a EXCEPT !.texture[KeyOf(a, n)] = n]

(* get_raw: reads the file on this thread; what fails is not tried again.  *)
GetRaw(a, keys) ==
  [a EXCEPT !.texture = [k \in Keys |->
     IF k \in ToSet(keys) /\ ~Cached(a, k) /\ k \notin faults.undecodable \cup faults.unusable
     THEN Raw ELSE a.texture[k]]]
-----------------------------------------------------------------------------
(* request_textures: pump_uploads will look at the handles too.            *)
RequestTextures(a, keys) ==
  [RequestUncached(a, keys).a EXCEPT !.pending = @ \o RequestUncached(a, keys).handles]

(* What the upload calls do with the image of a ready handle.  Those of    *)
(* this class release the image of the key when that has a texture; a      *)
(* preload and upload_one_and_release release their own image in any case, *)
(* and enqueue it in a batch or in the automatic one, which is always open.*)
ByKey == -1
Automatic == 0

UploadOne(a, n, b) ==
  LET x == UploadPrepared(a, n)
  IN  IF ~HasImage(a, n) THEN a
      ELSE IF b = ByKey
      THEN IF Cached(x, KeyOf(a, n)) THEN ReleasePrepared(x, KeyOf(a, n)) ELSE x
      ELSE IF b = Automatic THEN ReleaseIfMatches(x, n)
      ELSE Enqueue(ReleaseIfMatches(x, n), b, n)

UploadEach(a, handles, b) == Through(LAMBDA x, n : UploadOne(x, n, b), a, handles)
UploadReady(a, handles) == UploadEach(a, handles, ByKey)

(* One handle in the loops of pump_uploads and of advance.  c.left is how  *)
(* many images the loop still has time for, c.rest what it did not look    *)
(* at, c.back what it put back because it was not ready.                   *)
Looked(b, c, n) ==
  IF c.left = 0 THEN [c EXCEPT !.rest = Append(@, n)]
  ELSE IF Cached(c.a, KeyOf(c.a, n)) THEN c
  ELSE IF ~IsReady(c.a, n) THEN [c EXCEPT !.back = Append(@, n)]
  ELSE [c EXCEPT !.a = UploadOne(@, n, b), !.left = @ - 1,
                 !.failed = @ \/ ~HasImage(c.a, n) \/ KeyOf(c.a, n) \in faults.unusable]

LookThrough(a, handles, budget, b) ==
  Through(LAMBDA c, n : Looked(b, c, n),
          [a |-> a, left |-> budget, rest |-> << >>, back |-> << >>, failed |-> FALSE], handles)

PumpUploads(a, budget) ==
  LET end == LookThrough(a, a.pending, budget, ByKey)
  IN  [end.a EXCEPT !.pending = end.rest \o end.back]

(* pump_cancelled_preload_cleanup: what a cancelled preload still waited   *)
(* for is let go as it comes, and its batch when nothing is left.          *)
ReadyOf(a, c) == {n \in c.pending : IsReady(a, n)}

PumpCleanups(a) ==
  LET unfinished == {c \in a.cleanups : ReadyOf(a, c) # c.pending}
      finished == {c.batch : c \in a.cleanups \ unfinished}
  IN  [GiveBack(a, UNION {ReadyOf(a, c) : c \in a.cleanups}) EXCEPT
         !.dropped = @ \cup UNION {{n \in ReadyOf(a, c) : HasImage(a, n)} :
                                     c \in {x \in a.cleanups : a.batches[x.batch] # "open"}},
         !.batches = [b \in DOMAIN @ |-> IF b \in finished THEN "active" ELSE @[b]],
         !.cleanups = {[c EXCEPT !.pending = @ \ ReadyOf(a, c)] : c \in unfinished}]
-----------------------------------------------------------------------------
(* IncrementalRenderAssetPreload: [batch, pending, failed].  It is         *)
(* complete when nothing is pending, and seals its batch at that moment.   *)
NoPreload == [batch |-> 0, pending |-> << >>, failed |-> FALSE]
Exists(p) == p.batch # 0
Complete(p) == p.pending = << >>
SealIfComplete(a, p) == IF Complete(p) THEN Seal(a, p.batch) ELSE a

BegunPreload(a, keys) ==
  [batch |-> Len(a.batches) + 1, pending |-> RequestUncached(CreateBatch(a), keys).handles,
   failed |-> FALSE]
BeginPreload(a, keys) ==
  SealIfComplete(RequestUncached(CreateBatch(a), keys).a, BegunPreload(a, keys))

(* advance: [a, p] after it.                                               *)
Advance(a, p, budget) ==
  LET end == LookThrough(a, p.pending, budget, p.batch)
      after == [p EXCEPT !.pending = end.rest \o end.back, !.failed = @ \/ end.failed]
  IN  [a |-> SealIfComplete(end.a, after), p |-> after]

(* The destructor of a preload that was not finished.                      *)
(* Mutant: what was complete is activated, the rest forgotten.             *)
CancelComplete(a, p) == IF Exists(p) /\ Complete(p) THEN Activate(a, p.batch) ELSE a
Cancel(a, p) ==
  IF ~Exists(p) THEN a
  ELSE IF Complete(p) THEN Activate(a, p.batch)
  ELSE [a EXCEPT !.cleanups = @ \cup {[pending |-> ToSet(p.pending), batch |-> p.batch]}]

Budgets(handles) == 1..(IF handles = << >> THEN 1 ELSE Len(handles))
=============================================================================
