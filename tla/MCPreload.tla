------------------------------ MODULE MCPreload -------------------------------
(***************************************************************************)
(* Containers of four records and four sprites, lists of up to three       *)
(* images of them, requests made before, two pool workers.                 *)
(***************************************************************************)
EXTENDS AnimationPreloader

CONSTANTS w1, w2, c1, d1
TwoWorkers == {w1, w2}
OneClient == {c1}
ThreeReaders == {w1, w2, d1}

Plain(base) == [base |-> base, upper |-> TRUE, png |-> FALSE]
Png(base) == WithPng(Plain(base))
Small(n) == [n EXCEPT !.upper = FALSE]
Record(name, id, data) == [name |-> name, id |-> id, data |-> data, border |-> FALSE]
Entry(name, id) == [name |-> name, id |-> id, framed |-> TRUE, border |-> FALSE]
Sprite(name) == [name |-> name, kind |-> "sprite", detect |-> FALSE, key |-> FALSE]
Raw(name) == [Sprite(name) EXCEPT !.kind = "raw"]

(* A sheet two sprites are cut from, a record of its own name, one in      *)
(* small letters, a broken and a bordered one; sprites found by id, by     *)
(* name, by name and ending, and not at all.                               *)
Container(data) ==
  [opens |-> TRUE, indexed |-> TRUE,
   records |-> {Record(Png("sheet"), 10, data), Record(Png("face"), 11, "whole"),
                Record(Small(Plain("odd")), 12, "whole"), Record(Png("bad"), 13, "broken"),
                [Record(Plain("edge"), 14, "whole") EXCEPT !.border = TRUE]},
   entries |-> {Entry(Plain("a"), 10), Entry(Plain("b"), 10), Entry(Plain("face"), 99),
                Entry(Plain("bad"), 99), Entry(Plain("lost"), 99)}]
Shut == [Container("whole") EXCEPT !.opens = FALSE]

Call(op, key) == [op |-> op, key |-> key]
Plan(f, requests, calls, earlier, faulty) ==
  LET wanted == {requests[i] : i \in DOMAIN requests}
      asked == {calls[i].key : i \in {x \in DOMAIN calls : calls[x].op = "png"}}
  IN [file |-> f, requests |-> requests, calls |-> calls, faulty |-> faulty,
      entries |-> [k \in wanted \cup asked |->
                     IF k \in asked THEN Decoding
                     ELSE IF k \in earlier THEN [by |-> "earlier", pixels |-> NoPixels] ELSE NoEntry]]

A == Sprite(Plain("a"))
B == Sprite(Plain("b"))
Face == Sprite(Plain("face"))
Sheet == Raw(Png("sheet"))

(* Readers that race for one record.                                       *)
Races == {
  Plan(Container("whole"), <<A, Sheet, A, B>>, <<Call("png", Sheet)>>, {}, FALSE),
  Plan(Container("whole"), <<A, Sheet>>, <<Call("raw", Sheet), Call("png", B)>>, {}, TRUE),
  Plan(Container("whole"), <<A, Face>>, <<Call("png", A)>>, {}, TRUE),
  Plan(Container("broken"), <<B, Sheet>>, <<Call("png", A)>>, {Sheet}, TRUE),
  Plan(Shut, <<Sheet, Raw(Png("face"))>>, <<Call("png", Sheet)>>, {}, TRUE),
  Plan(Shut, <<Sheet, A>>, << >>, {}, FALSE)}

(* One name at a time.                                                     *)
Names == {Plain("a"), Small(Plain("a")), Plain("face"), Png("face"), Plain("odd"), Small(Plain("odd")),
          Plain("bad"), Png("bad"), Plain("lost"), Plain("edge"), Plain("nowhere")}
Requests == [name : Names, kind : {"sprite", "raw"}, detect : BOOLEAN, key : BOOLEAN]
Namings ==
  {Plan(f, <<k>>, << >>, {}, FALSE) : f \in {Container("cut"), [Container("whole") EXCEPT !.indexed = FALSE]},
                                      k \in {r \in Requests : ~(r.detect /\ r.key)}}
AllPlans == Races \cup Namings
=============================================================================
