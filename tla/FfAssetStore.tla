---------------------------- MODULE FfAssetStore -----------------------------
(***************************************************************************)
(* FfAssetStore of src/src/d2engine/assets over one .ff container: which   *)
(* record a sprite name leads to, and the caches its records are kept in   *)
(* while several threads ask for them.                                     *)
(*                                                                         *)
(* A name is [base, upper, png]: its letters, whether they are written in  *)
(* upper case, and whether ".PNG" ends it.  The container is a constant    *)
(* value file:                                                             *)
(*   file.opens     the MQDB can be read,                                  *)
(*   file.indexed   it has the OPT records an image decoder needs,         *)
(*   file.records   its records [name, id, data, border], whose names      *)
(*                  differ in more than case; data is "whole", "cut" (the  *)
(*                  PNG lacks its end chunk) or "broken", border says that *)
(*                  the image has the magenta border,                      *)
(*   file.entries   the sprites of its index [name, id, framed, border],   *)
(*                  framed when the image map has a frame for the name.    *)
(* The file is mapped into memory, so a record that does not decode never  *)
(* does.  Pixels are what they were made of: [record, composed, keyed].    *)
(*                                                                         *)
(* A call of raw_png or raw_record is two critical sections with the       *)
(* decoding between them; the opening of the container, which all callers  *)
(* wait for, is part of the first.  Not here: animations (the same lookup  *)
(* per frame), several containers (nothing is shared between them but the  *)
(* registry, fixed after construction), and the decoder's own small cache. *)
(***************************************************************************)
EXTENDS Integers, Sequences, FiniteSets

CONSTANTS
  Readers      (* the threads that read images                               *)

VARIABLES
  file,        (* the container                                              *)
  opened,      (* initialize_container has been through                      *)
  call,        (* per reader, its last call: [op, name, place, got]          *)
  pngs,        (* decoded_png_cache: name -> object                          *)
  bytes,       (* raw_bytes_cache: name -> object                            *)
  made,        (* how many objects have been made                            *)
  usage,       (* record_usage: name -> [hits, loads, cached]                *)
  missing,     (* missing_usage: name -> hits                                *)
  finished,    (* history: name -> calls that have returned                  *)
  given        (* history: <<op, name, object>> for every object handed out   *)

storeVars == <<file, opened, call, pngs, bytes, made, usage, missing, finished, given>>

Nothing == 0
NoName == [base |-> "none", upper |-> FALSE, png |-> FALSE]
NoCall == [op |-> "none", name |-> NoName, place |-> "out", got |-> Nothing]
-----------------------------------------------------------------------------
(* Names.                                                                  *)
Name == [base : STRING, upper : BOOLEAN, png : BOOLEAN]
Upper(n) == [n EXCEPT !.upper = TRUE]
WithPng(n) == IF n.png THEN NoName ELSE [n EXCEPT !.png = TRUE]   (* no name ends in it twice *)
WithoutPng(n) == [n EXCEPT !.png = FALSE]

RecordNames(f) == {r.name : r \in f.records}
NoRecord == [name |-> NoName, id |-> -1, data |-> "none", border |-> FALSE]
TheOne(S, default) == IF S = {} THEN default ELSE CHOOSE x \in S : TRUE

(* MqdbContainer: lookups by name take no notice of case.                  *)
FindByName(f, n) == TheOne({r \in f.records : Upper(r.name) = Upper(n)}, NoRecord)
FindById(f, id) == TheOne({r \in f.records : r.id = id}, NoRecord)
RecordNamed(f, n) == TheOne({r \in f.records : r.name = n}, NoRecord)

(***************************************************************************)
(* resolve_index: what initialize_container makes of the index, first the  *)
(* sprites that are composed from a record, then the records left over.    *)
(* The name of the record, or NoName.                                      *)
(***************************************************************************)
PhysicalOf(f, e) ==
  IF FindById(f, e.id) # NoRecord THEN FindById(f, e.id).name
  ELSE IF e.name \in RecordNames(f) THEN e.name
  ELSE IF Upper(WithPng(e.name)) \in RecordNames(f) THEN WithPng(e.name) ELSE NoName

Unresolved == [record |-> NoName, composed |-> FALSE, border |-> FALSE]
Composed(f, key) ==
  {[record |-> PhysicalOf(f, e), composed |-> TRUE, border |-> e.border] :
     e \in {x \in f.entries : x.framed /\ Upper(x.name) = key /\ PhysicalOf(f, x) # NoName}}

(* A left-over record serves its own name and that name without ".PNG".    *)
LeftOver(f, key) ==
  {[record |-> r.name, composed |-> FALSE, border |-> r.border] :
     r \in {x \in f.records : /\ Upper(x.name).png /\ Composed(f, Upper(x.name)) = {}
                              /\ key \in {Upper(x.name), WithoutPng(Upper(x.name))}}}

(* resolve_sprite_fast.                                                    *)
Resolve(f, n) ==
  LET key == Upper(n)
      raw(r) == [record |-> r, composed |-> FALSE, border |-> RecordNamed(f, r).border]
  IN IF f.indexed /\ Composed(f, key) # {} THEN TheOne(Composed(f, key), Unresolved)
     ELSE IF f.indexed /\ LeftOver(f, key) # {} THEN TheOne(LeftOver(f, key), Unresolved)
     ELSE IF key \in RecordNames(f) THEN raw(key)
     ELSE IF WithPng(key) \in RecordNames(f) THEN raw(WithPng(key))
     ELSE Unresolved

(* ImageResourceDecoder::decode_image has a way of its own to the record.  *)
BaseRecord(f, e) ==
  IF FindById(f, e.id) # NoRecord THEN FindById(f, e.id)
  ELSE IF FindByName(f, e.name) # NoRecord THEN FindByName(f, e.name)
  ELSE FindByName(f, WithPng(e.name))

(* The end chunk a PNG lacks is put back before raw_png decodes it, and    *)
(* only there.                                                             *)
DecodesRaw(f, n) == RecordNamed(f, n).data \in {"whole", "cut"}
DecodesAsBase(f, e) == BaseRecord(f, e).data = "whole"

NoPixels == [record |-> NoName, composed |-> FALSE, keyed |-> FALSE, border |-> FALSE]
RawPixels(f, n) ==
  IF ~DecodesRaw(f, n) THEN NoPixels
  ELSE [record |-> n, composed |-> FALSE, keyed |-> FALSE, border |-> RecordNamed(f, n).border]

(* decode_sprite: composed if it can be, else the record of that very name.*)
SpriteEntries(f, n) ==
  {e \in f.entries : f.indexed /\ e.framed /\ Upper(e.name) = Upper(n) /\ DecodesAsBase(f, e)}
SpritePixels(f, n) ==
  IF SpriteEntries(f, n) = {} THEN RawPixels(f, n)
  ELSE LET e == TheOne(SpriteEntries(f, n), NoRecord)
       IN [record |-> BaseRecord(f, e).name, composed |-> TRUE, keyed |-> FALSE, border |-> e.border]

(* A container: its records go by different names, and entries that lead   *)
(* one name to one record have one image.                                  *)
WellFormed(f) ==
  /\ {f.opens, f.indexed} \subseteq BOOLEAN
  /\ \A r \in f.records : r.name \in Name \ {NoName} /\ r.border \in BOOLEAN
  /\ \A q, r \in f.records : Upper(q.name) = Upper(r.name) => q = r
  /\ \A d, e \in f.entries :
       /\ {e.framed, e.border} \subseteq BOOLEAN
       /\ Upper(d.name) = Upper(e.name) /\ BaseRecord(f, d) = BaseRecord(f, e) => d.border = e.border
-----------------------------------------------------------------------------
(* The counters.                                                           *)
At(counts, n) == IF n \in DOMAIN counts THEN counts[n] ELSE 0
Put(map, n, x) == [m \in DOMAIN map \cup {n} |-> IF m = n THEN x ELSE map[m]]
Add(counts, n) == Put(counts, n, At(counts, n) + 1)

CountHit(n, what) ==
  /\ usage' = [usage EXCEPT ![n] = [hits |-> @.hits + 1,
                                    loads |-> @.loads + (IF what = "load" THEN 1 ELSE 0),
                                    cached |-> @.cached + (IF what = "cached" THEN 1 ELSE 0)]]
  /\ UNCHANGED missing
CountMissing(n) == missing' = Add(missing, n) /\ UNCHANGED usage

(* The cache an operation answers from, and the end of a call.             *)
Cache(op) == IF op = "png" THEN pngs ELSE bytes
Return(t, op, n, object) ==
  /\ call' = [call EXCEPT ![t] = [op |-> op, name |-> n, place |-> "done", got |-> object]]
  /\ finished' = Add(finished, n)
  /\ given' = IF object = Nothing THEN given ELSE given \cup {<<op, n, object>>}
FromCache(t, op, n) == CountHit(n, "cached") /\ Return(t, op, n, Cache(op)[n])

(* The first section of raw_png and raw_record: a container that cannot be *)
(* opened is tried again by every call, and every call throws.             *)
Throw(t, op, n) ==
  /\ call' = [call EXCEPT ![t] = [op |-> op, name |-> n, place |-> "thrown", got |-> Nothing]]
  /\ UNCHANGED <<opened, usage, missing, finished, given>>

LookUp(t, op, n) ==
  /\ IF ~file.opens THEN Throw(t, op, n)
     ELSE /\ opened' = TRUE
          /\ IF n \notin RecordNames(file) THEN CountMissing(n) /\ Return(t, op, n, Nothing)
             ELSE IF n \in DOMAIN Cache(op) THEN FromCache(t, op, n)
             ELSE /\ call' = [call EXCEPT ![t] =
                                [op |-> op, name |-> n, place |-> "decoding", got |-> Nothing]]
                  /\ UNCHANGED <<usage, missing, finished, given>>
  /\ UNCHANGED <<file, pngs, bytes, made>>

(* decode_sprite: what it composes is a copy of its own, and counted under *)
(* the name of the sprite, which need not be a record.                     *)
DecodeSprite(t, n) ==
  IF ~file.opens \/ SpriteEntries(file, n) = {} THEN LookUp(t, "png", n)
  ELSE /\ opened' = TRUE
       /\ IF n \in RecordNames(file) THEN CountHit(n, "composed") ELSE CountMissing(n)
       /\ Return(t, "sprite", n, Nothing)
       /\ UNCHANGED <<file, pngs, bytes, made>>

(* Another thread has been faster.                                         *)
Beaten(t) == call[t].name \in DOMAIN Cache(call[t].op)

(* The second section: keep what was decoded, or take the winner's.        *)
Keep(t) ==
  LET op == call[t].op
      n == call[t].name
      new == made + 1
  IN /\ call[t].place = "decoding"
     /\ IF op = "png" /\ ~DecodesRaw(file, n)
        THEN CountMissing(n) /\ Return(t, op, n, Nothing) /\ UNCHANGED <<pngs, bytes, made>>
        ELSE IF Beaten(t) THEN FromCache(t, op, n) /\ UNCHANGED <<pngs, bytes, made>>
        ELSE /\ CountHit(n, "load") /\ Return(t, op, n, new)
             /\ made' = new
             /\ IF op = "png" THEN pngs' = Put(pngs, n, new) ELSE UNCHANGED pngs
             /\ bytes' = Put(bytes, n, new)
     /\ UNCHANGED <<file, opened>>

StoreInit(f) ==
  /\ file = f
  /\ opened = FALSE
  /\ call = [t \in Readers |-> NoCall]
  /\ pngs = << >> /\ bytes = << >> /\ made = 0
  /\ usage = [n \in RecordNames(f) |-> [hits |-> 0, loads |-> 0, cached |-> 0]]
  /\ missing = << >> /\ finished = << >> /\ given = {}
-----------------------------------------------------------------------------
(* "The same physical decoded object is returned on repeated calls"        *)
(* (ff_asset_store.hpp:164), whatever threads make them.                   *)
OnePngPerRecord ==
  \A g, h \in given : g[1] = "png" /\ h[1] = "png" /\ g[2] = h[2] => g[3] = h[3]

(* The access report tells the truth at any moment: every call that has    *)
(* returned is a hit of its record or a missing request, and a record was  *)
(* read at most once for its pixels and once for its bytes                 *)
(* (ff_asset_store.cpp:846-857, 881-950).                                  *)
ReportIsTrue ==
  /\ \A n \in DOMAIN finished :
       finished[n] = At(missing, n) + (IF n \in RecordNames(file) THEN usage[n].hits ELSE 0)
  /\ \A n \in RecordNames(file) :
       /\ usage[n].loads + usage[n].cached <= usage[n].hits
       /\ usage[n].loads <= Cardinality({g[1] : g \in {h \in given : h[2] = n}})

(* The store keeps one picture of every record, and true accounts.         *)
StoreIsCoherent == OnePngPerRecord /\ ReportIsTrue
=============================================================================
