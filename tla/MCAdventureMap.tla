--------------------------- MODULE MCAdventureMap ---------------------------
(***************************************************************************)
(* Scenarios of 3 x 3 cells.  Walks: every map of plains and roads with    *)
(* obstacles in the middle column, and maps of mixed ground with another   *)
(* stack for the three profiles, played without drawing.  Grounds: every   *)
(* neighbourhood of a cell made of it and one other ground, for several    *)
(* pairs, and some of many grounds.  Worlds: objects of every kind, with   *)
(* what may be wrong with them, and with images that are missing.          *)
(* Companies: groups of two or three as they may be stored, looked at.     *)
(***************************************************************************)
EXTENDS AdventureMap

Row == 0 .. 2
Byte(code) == CASE code = "BL" -> 0 [] code = "HU" -> 1 [] code = "DW" -> 2 [] code = "HE" -> 3
                [] code = "UN" -> 4 [] code = "NE" -> 5 [] code = "EL" -> 6 [] code = "WA" -> 29
ForestByte(code) == IF code = "NE" THEN 13 ELSE Byte(code) + 8
(* The tiles as they are stored, of a function from cells to bytes.        *)
Tiles(t) == [c \in Row \X Row |-> t[<<c[2], c[1]>>]]
Plains == [c \in Cells |-> Byte("HU")]

NameAt(names, c) == names[1 + c[1] + 3 * c[2]]
RoadName(c) == NameAt(<<"r1", "r2", "r3", "r4", "r5", "r6", "r7", "r8", "r9">>, c)
HillName(c) == NameAt(<<"h1", "h2", "h3", "h4", "h5", "h6", "h7", "h8", "h9">>, c)

(* The game.  There are two rows of footmen, of which the second counts,   *)
(* and a soldier whose pictures are filed under another name.              *)
Unit(id) == [UNIT_ID |-> id, SIZE_SMALL |-> "T", NAME_TXT |-> "x1", ATTACK_ID |-> "HIT", ATTACK2_ID |-> "G000000000"]
Gunits ==
  <<[Unit("FOOT") EXCEPT !.SIZE_SMALL = "F", !.ATTACK_ID = "NONE"], [Unit("SWIMMER") EXCEPT !.ATTACK_ID = "NONE"],
    Unit("WHALE") @@ [WATER_ONLY |-> "T"], Unit("UNSEEN"), Unit("GUARD"), Unit("FOOT"),
    [Unit("DRAGON") EXCEPT !.SIZE_SMALL = "F", !.ATTACK2_ID = "BURN"] @@ [DEATH_ANIM |-> "2"],
    [Unit("SQUIRE") EXCEPT !.ATTACK2_ID = "NONE"] @@ [BASE_UNIT |-> "FOOT"], [SIZE_SMALL |-> "T"]>>
Tables ==
  [Gunits   |-> Gunits,
   Gattacks |-> <<[ATT_ID |-> "HIT", CLASS |-> "1", REACH |-> "2"], [ATT_ID |-> "BURN", CLASS |-> "3", ALT_ATTACK |-> "HIT"]>>,
   GMabi    |-> <<[UNIT_ID |-> "SWIMMER", M_ABILITY |-> "3"]>>,
   Grace    |-> <<[RACE_ID |-> "R1", NAME_TXT |-> "x2", RACE_TYPE |-> "1", GUARDIAN |-> "GUARD"],
                  [RACE_ID |-> "R4", NAME_TXT |-> "x3", RACE_TYPE |-> "4", GUARDIAN |-> "G000000000"]>>,
   Tglobal  |-> <<[TXT_ID |-> "x1", TEXT |-> "Fighter"], [TXT_ID |-> "x2", TEXT |-> "Empire"]>>,
   LattC    |-> <<[ID |-> "1", TEXT |-> "L_DAMAGE"], [ID |-> "3", TEXT |-> "L_BITE"]>>,
   LAttR    |-> <<[ID |-> "2", TEXT |-> "L_ALL"]>>,
   LDthAnim |-> <<[ID |-> "2", TEXT |-> "L_DRAGON"]>>,
   Faces    |-> <<[kind |-> "FACE", unit |-> "foot"], [kind |-> "FACEB", unit |-> "foot"],
                  [kind |-> "FACEB", unit |-> "dragon"], [kind |-> "FACE", unit |-> "seen"]>>]
MCDisks == [Full |-> Tables, Poor |-> [Gunits |-> Gunits, Grace |-> Tables.Grace]]
MCNumerals == [x \in {"0", "1", "2", "3", "4"} |-> IF x = "0" THEN 0 ELSE IF x = "1" THEN 1 ELSE IF x = "2" THEN 2
                                                 ELSE IF x = "3" THEN 3 ELSE 4]
InLower ==
  [FOOT |-> "foot", SWIMMER |-> "swimmer", WHALE |-> "whale", UNSEEN |-> "unseen", GUARD |-> "guard", DRAGON |-> "dragon",
   SQUIRE |-> "squire", NOBODY |-> "nobody", HIT |-> "hit", BURN |-> "burn", NONE |-> "none", R1 |-> "r1", R4 |-> "r4",
   G000000000 |-> "g000000000"]
MCLower(text) == IF text \in DOMAIN InLower THEN InLower[text] ELSE text
MCResource(text) == IF text = "UNSEEN" THEN "seen" ELSE MCLower(text)

(* The animations: of the body two frames, of the shadow one.  Some have   *)
(* no shadow or an empty one; in the cracked file each is spoilt in a way  *)
(* of its own.                                                             *)
Frame(drawn) == [drawn |-> drawn, state |-> "Good"]
Steps == <<Frame({<<0, -1>>, <<0, -2>>}), Frame({<<1, -4>>})>>
Animated ==
  [foot |-> <<Steps, <<Frame({<<1, 0>>})>>>>, swimmer |-> <<Steps, Steps>>, whale |-> <<Steps, <<Frame({}), Frame({})>>>>,
   dragon |-> <<<<Frame({<<-1, -3>>})>>, Steps>>, r1 |-> <<Steps, Steps>>]
Cracked ==
  [Animated EXCEPT !["foot"][1] = <<Frame({<<0, 0>>}), Frame({})>>, !["swimmer"][2] = <<[Frame({<<0, 0>>}) EXCEPT !.state = "Broken"]>>,
                   !["whale"][2] = <<Frame({}), Frame({<<0, 0>>})>>, !["r1"][1] = << >>,
                   !["dragon"][1] = <<[Frame({<<0, 0>>}) EXCEPT !.state = "Undecodable"]>>]
Owners(kind) == IF kind = "Boat" THEN {"r1"} ELSE DOMAIN Animated \ {"r1"}
Files(animations) ==
  [n \in UNION {Owners(kind) \X {AnimationSuffix[kind]["Idle"][layer] : layer \in {"Main", "Shadow"}} \X (0 .. 7) :
                kind \in {"Unit", "Boat"}} \ ({"swimmer"} \X {"SSTO"} \X (0 .. 6)) |->
     animations[n[1]][IF n[2] \in {"STOP", "BOAT"} THEN 1 ELSE 2]]
MCIsounits == [Plain |-> Files(Animated), Cracked |-> Files(Cracked)]

(* The scenarios.  Objects are written with the cells of the plan they     *)
(* have, in order.                                                         *)
Object(kind, id, at) ==
  [kind |-> kind, id |-> id, at |-> at, plan |-> << >>, image |-> 1, size |-> <<1, 1>>, stack |-> NoId,
   inside |-> NoId, leader |-> "u1", subrace |-> "s1", members |-> <<"u1">>, cells |-> <<0, -1, -1, -1, -1, -1>>]
Built(kind, id, at, plan) == [Object(kind, id, at) EXCEPT !.plan = plan]
Road(c) == Object("Road", RoadName(c), c)
Hill(c) == Object("Landmark", HillName(c), c)
Led(s, leader) == [s EXCEPT !.leader = leader, !.members = <<leader>>]

AllImages ==
  [disk |-> "Full", isounit |-> "Plain", noShape |-> {}, crowded |-> {}, unreadable |-> {}, noGround |-> {},
   noSprite |-> {}, noTrees |-> {}, noCapital |-> {}, shadows |-> TRUE, banners |-> 4,
   shield |-> Frame({<<0, -2>>, <<0, -3>>})]
Instance(type) == [type |-> type, hp |-> 3, name |-> NoText]
People ==
  [u1 |-> Instance("FOOT"), u2 |-> Instance("SWIMMER"), u3 |-> Instance("UNSEEN"), u4 |-> Instance("NOBODY"),
   u5 |-> Instance("DRAGON"), u6 |-> [Instance("SQUIRE") EXCEPT !.name = "Bob"], u7 |-> Instance("WHALE"),
   g1 |-> Instance("GUARD"), g2 |-> [Instance("GUARD") EXCEPT !.hp = 0]]
Players == [p1 |-> "R1", p4 |-> "R4"]
Banner(player, subrace, banner) == [player |-> player, subrace |-> subrace, banner |-> banner]
Peoples ==
  [s1 |-> Banner("p1", 1, 1), s4 |-> Banner("p4", 4, 2), s7 |-> Banner("p1", 1, 4), s9 |-> Banner("p9", 1, 0)]

Stripped(o) == [f \in DOMAIN o \ {"plan"} |-> o[f]]
PlanOf(objects) == FoldSet(LAMBDA o, plan : plan \o [i \in DOMAIN o.plan |-> [element |-> o.id, cell |-> o.plan[i]]], << >>, objects)
Scenario(t, objects) ==
  [size |-> "Terrain", raw |-> Tiles(t), plan |-> PlanOf(objects), mountains |-> {"mm"}, players |-> Players,
   subraces |-> Peoples, units |-> People, objects |-> {Stripped(o) : o \in objects},
   assets |-> AllImages, drawn |-> TRUE, asks |-> {}, points |-> {}]
Alone(t, objects, asks) == [Scenario(t, objects) EXCEPT !.drawn = FALSE, !.asks = asks]

(* Walks                                                                   *)
Corner == <<0, 0>>
Walker(at) == Object("Stack", "a", at)
Other(at) == Object("Stack", "b", at)
Walks ==
  {Alone(Plains, {Walker(Corner)} \cup {Road(c) : c \in roads} \cup {Hill(c) : c \in hills},
         {[mover |-> "a", profile |-> "Walking", goal |-> g] : g \in {<<2, 0>>, <<2, 2>>}}) :
     roads \in SUBSET (Cells \ {Corner}), hills \in SUBSET {c \in Cells : c[1] = 1}}

MixedGround ==
  {[c \in Cells |-> IF c[2] = 0 THEN 29 ELSE IF c[2] = 1 THEN middle ELSE 1] : middle \in {1, 9, 29, 255}}
Journeys ==
  {Alone(t, {Walker(start), Other(other), Road(<<1, 1>>), Road(<<1, 2>>), Hill(<<0, 1>>)},
         {[mover |-> "a", profile |-> p, goal |-> g] : p \in Profile, g \in Cells \cup {<<3, 0>>}}) :
     t \in MixedGround, start \in {<<0, 0>>, <<0, 2>>}, other \in {<<1, 0>>, <<1, 1>>}}

(* Grounds                                                                 *)
Middle == <<1, 1>>
Pairs == {<<"HU", "DW">>, <<"DW", "HU">>, <<"WA", "NE">>, <<"NE", "WA">>, <<"BL", "HU">>}
Neighbourhoods ==
  {Scenario([c \in Cells |-> Byte(IF c = Middle \/ c \notin others THEN pair[1] ELSE pair[2])], {}) :
     pair \in Pairs, others \in SUBSET (Cells \ {Middle})}
Ring == <<"HU", "DW", "HE", "UN", "NE", "EL", "WA", "BL">>
ManyGrounds ==
  {Scenario([c \in Cells |-> Byte(IF c = Middle THEN middle
                                  ELSE Ring[1 + ((turn * (c[1] + 3 * c[2])) % 8)])], {}) :
     middle \in DOMAIN LowBytes, turn \in 1 .. 7}

(* Worlds: a map with water in the last row and forest in the first.       *)
Coast == [c \in Cells |-> IF c[2] = 2 THEN 29 ELSE IF c = <<2, 0>> THEN 9 ELSE IF c = <<1, 0>> THEN 13 ELSE 1]
Square == <<<<0, 0>>, <<1, 0>>, <<0, 1>>, <<1, 1>>>>
Capital == [Built("Capital", "c", <<0, 0>>, Square) EXCEPT !.members = <<"u1", "g1">>, !.cells = <<0, 1, -1, -1, -1, -1>>]
Village == Built("Village", "v", <<0, 0>>, <<<<0, 0>>, <<1, 0>>>>)
Guest1(home) == [Object("Stack", "b", <<0, 0>>) EXCEPT !.inside = home]
Ship == [Object("Stack", "a", <<1, 2>>) EXCEPT !.image = 7]

Peaceful ==
  { {Capital, Ship, Road(<<2, 1>>), Road(<<2, 2>>), Hill(<<0, 2>>)},
    {[Capital EXCEPT !.stack = "b"], Guest1("c"), Led(Ship, "u2")}, {Led(Ship, "u7"), [Led(Ship, "u2") EXCEPT !.id = "b", !.at = <<0, 2>>, !.image = 2]},
    {[Village EXCEPT !.stack = "b"], Guest1("v"), Built("Mage", "m", <<0, 1>>, <<<<0, 1>>, <<1, 1>>>>), Ship},
    {Built("Ruin", "n", <<0, 0>>, <<<<0, 0>>, <<0, 1>>>>), Built("Crystal", "k", <<2, 1>>, <<<<2, 1>>>>),
     Object("Bag", "g", <<1, 1>>), Object("Mountain", "o", <<1, 0>>), Walker(<<2, 0>>)},
    {[Object("Mountain", "o", <<1, 0>>) EXCEPT !.size = <<2, 2>>], Led(Walker(<<0, 1>>), "u6"), Object("Bag", "g", <<2, 2>>)},
    {Built("Merchant", "m", <<1, 1>>, <<<<1, 1>>>>), Built("Mercs", "n", <<2, 1>>, <<<<2, 1>>>>),
     Built("Trainer", "t", <<1, 1>>, <<<<1, 1>>>>), Road(<<1, 1>>)} }

Wrong ==
  { {[Village EXCEPT !.image = 6]}, {Built("Mage", "m", Corner, <<Corner>>), [Walker(Middle) EXCEPT !.image = 8]},
    {Built("Crystal", "k", Corner, << >>)}, {[Village EXCEPT !.id = NoId]}, {[Village EXCEPT !.plan = <<Corner, Corner>>]},
    {Walker(Corner), [Walker(Middle) EXCEPT !.image = 2]},
    {Walker(Corner), Other(Corner)}, {Walker(Corner), Hill(Corner)}, {Walker(<<3, 0>>)}, {Object("Landmark", "h1", <<-1, 0>>), Hill(<<0, 1>>)},
    {Object("Landmark", "h1", <<1, -2>>)}, {Built("Trainer", "t", Corner, << >>), Walker(Middle)},
    {Led(Walker(Middle), "u3")}, {Led(Walker(Middle), "u4")}, {Led(Walker(Middle), "u9")}, {[Walker(Middle) EXCEPT !.subrace = "s8"]},
    {[Walker(Middle) EXCEPT !.subrace = "s7"]}, {[Led(Ship, "u2") EXCEPT !.subrace = "s9"]}, {[Ship EXCEPT !.subrace = "s9"]},
    {[Ship EXCEPT !.subrace = "s4"]}, {[Capital EXCEPT !.subrace = "s9"]}, {[Capital EXCEPT !.subrace = "s8"]},
    {[Capital EXCEPT !.plan = << >>]}, {[Capital EXCEPT !.members = <<"g1", "u9">>]}, {[Capital EXCEPT !.members = <<"g2", "g1">>]},
    {[Capital EXCEPT !.members = <<"u9", "g1">>]}, {[Capital EXCEPT !.members = <<"u1">>]}, {[Capital EXCEPT !.members = <<"u1", "g1", "u9">>]}, {[Capital EXCEPT !.members = <<"g1", "g2">>]}, {[Capital EXCEPT !.subrace = "s4"]},
    {[Village EXCEPT !.stack = "b"]}, {[Village EXCEPT !.stack = "b"], Guest1(NoId)},
    {[Village EXCEPT !.stack = "b"], Guest1("c")}, {[Village EXCEPT !.stack = "b", !.plan = << >>], Guest1("v")},
    {[Village EXCEPT !.stack = "b"], [Guest1("v") EXCEPT !.subrace = "s4"]}, {Village, Guest1("v")},
    {[Capital EXCEPT !.stack = "b"], [Guest1("c") EXCEPT !.subrace = "s4"]} }

Visit == {[mover |-> "a", profile |-> "Walking", goal |-> Middle]}
Worlds == {[Scenario(Coast, objects) EXCEPT !.asks = Visit] : objects \in Peaceful \cup Wrong}

Bare == [AllImages EXCEPT !.noSprite = {"r6", "n", "m", "o", "g", "h7"}, !.noTrees = {"NE"}, !.noCapital = {"R1"}, !.shadows = FALSE]
Spoilt == [AllImages EXCEPT !.isounit = "Cracked"]
Poor ==
  {[Scenario(Coast, objects) EXCEPT !.assets = Bare] : objects \in Peaceful}
  \cup {[Scenario(Coast, {}) EXCEPT !.assets = images] :
          images \in {[AllImages EXCEPT !.noShape = {<<"NE", 19>>, <<"WA", 3>>}], [AllImages EXCEPT !.noGround = {"HU"}],
                      [AllImages EXCEPT !.noGround = {"WA"}],
                      [AllImages EXCEPT !.unreadable = {"NE", "WA"} \X (1 .. 31)],
                      [AllImages EXCEPT !.crowded = {"WA"} \X (1 .. 31)]}}
  \cup {[Scenario(Coast, {Walker(Corner)}) EXCEPT !.size = size, !.asks = Visit] : size \in {"SizeOnly", "None"}}
  \cup {[Scenario(Coast, objects) EXCEPT !.size = "SizeOnly"] :
          objects \in {{}, {Object("Bag", "g", Middle)}, {Built("Ruin", "n", Corner, <<Corner>>), Walker(<<3, 3>>)}}}
  \cup {[Scenario(Coast, {s}) EXCEPT !.assets = Spoilt] :
          s \in {Led(Walker(Middle), u) : u \in {"u1", "u2", "u5", "u6", "u7"}} \cup {Ship, [Led(Walker(Middle), "u2") EXCEPT !.image = 7]}}
  \cup {[Scenario(Coast, {[Village EXCEPT !.stack = "b"], Guest1("v")}) EXCEPT !.assets.shield.state = "Undecodable"]}
  \cup {[Scenario(Coast, {Walker(Corner)}) EXCEPT !.plan = @ \o <<[element |-> x, cell |-> Middle]>>] : x \in {"mm", "zz", "a"}}

(* What can be pointed at: nothing, stacks close together, a shield.       *)
Crowd == {Walker(Middle), [Object("Stack", "b", <<2, 1>>) EXCEPT !.cells = <<-1, 0, 0>>], Hill(<<1, 2>>)}
Sights ==
  {[Scenario(Coast, objects) EXCEPT !.points = (-1 .. 13) \X (-1 .. 13)] :
     objects \in {{}, Crowd, {[Village EXCEPT !.stack = "b"], Guest1("v"), Walker(<<1, 1>>)}}}

(* Companies: the members of a group and the cells each of them has.       *)
UnderFeet == <<6, 7>>
Companies == {<<"u1", "u5", NoId>>, <<"u5", "u6", "u9">>, <<"u4", NullId, "u1">>}
Formation(a, b, n) == [c \in 1 .. 6 |-> IF c - 1 \in b THEN n ELSE IF c - 1 \in a THEN 0 ELSE -1]
Standing == {{}, {0}, {3}, {5}, {0, 1}, {2, 3}, {1, 2}}
Looked(s) == [Scenario(Coast, {s}) EXCEPT !.points = {UnderFeet}]
Groups ==
  {Looked([Walker(Middle) EXCEPT !.members = m, !.cells = Formation(a, b, n), !.leader = IF m[1] = "u4" THEN "u1" ELSE m[1]]) :
     m \in Companies, a \in Standing, b \in Standing, n \in {1, 2}}
Oddities ==
  {Looked([Walker(Middle) EXCEPT !.members = m, !.cells = c, !.subrace = r]) :
     m \in {<<"u1", "u2", "u3", "u6", "u5", "u1", "u2">>, <<"u6">>}, c \in {<<0, 6, 2, 1>>, <<5, 5, 3, 3, -2, 0>>},
     r \in {"s1", "s4", "s9"}}
  \cup {[Looked([Walker(Middle) EXCEPT !.members = <<"u1", "u6", "u5">>, !.cells = <<2, 2, 0, -1, -1, 1>>]) EXCEPT !.assets.disk = "Poor"]}

MCScenarios == Walks \cup Journeys \cup Neighbourhoods \cup ManyGrounds \cup Worlds \cup Poor \cup Sights \cup Groups \cup Oddities

(* A number of its own for every part of every object, in no order that    *)
(* the objects have otherwise.                                             *)
Parts == <<"Tree", "Body", "Shield", "Banner", "Shadow", "Road">>
Names == <<"r1", "r2", "r3", "r4", "r5", "r6", "r7", "r8", "r9", "h1", "h2", "h3", "h4", "h5", "h6", "h7",
           "h8", "h9", "a", "b", "c", "v", "m", "n", "k", "g", "o", "t", NoId>>
IndexIn(s, x) == CHOOSE i \in DOMAIN s : s[i] = x
MCHash(label) ==
  LET part == IndexIn(Parts, label[1])
      number == IF label[1] = "Tree" THEN label[3][1] + 3 * label[3][2] ELSE IndexIn(Names, label[2])
  IN  ((1 + part + 7 * number) * 37) % 293
=============================================================================
