------------------------------ MODULE SdeParse ------------------------------
(***************************************************************************)
(* From the four JSONL files of a build to the graph that is published:    *)
(* mapSolarSystems, mapStargates, types and typeDogma are read one after   *)
(* the other, line by line, and the rows become a GraphData.  One step is  *)
(* one line; what a file holds is found out line by line.                  *)
(*                                                                         *)
(* Abstracted: JSON text (a line is a row, blank, or no row at all), and   *)
(* numbers to what is decided on them: a security status is in hundredths. *)
(***************************************************************************)
EXTENDS GraphData

CONSTANTS SystemRows, GateRows, TypeRows, DogmaRows,   \* rows a line may hold
          MaxLines,   \* bound: lines of each file
          MaxRows     \* bound: rows of all files

\* What the JSON types promise of a row.
ASSUME RowsAssumption ==
    /\ GateRows \subseteq Int \X Int
    /\ \A r \in SystemRows : r.sec \in Int /\ r.region_id \in Int
    /\ \A r \in TypeRows : r.published \in BOOLEAN
    /\ \A r \in DogmaRows : r.attributes \in Seq(ToSet(r.attributes))

ASSUME BoundsAssumption == MaxLines \in Nat /\ MaxRows \in Nat

ATTR_JUMP_DRIVE_RANGE       == 867
ATTR_JUMP_DRIVE_RANGE_BONUS == 870
JDC_SKILL_TYPE_ID           == 21611
FIRST_WORMHOLE_REGION       == 11000000

\* The order of reading.
After == [systems |-> "gates", gates |-> "types", types |-> "dogma", dogma |-> "build"]
FILES == DOMAIN After

VARIABLES
    pc,           \* the file being read, "build", "built" or "failed"
    line,         \* lines of it read so far
    systems, seen, gate_pairs,               \* what the map files gave
    published, hulls, jdc_bonus_per_level,   \* what the type files gave
    graph,        \* << >>, or << the GraphData >>
    failure,      \* << >>, or << file, line >> of the error
    rows          \* the rows read, file by file (history)

map  == <<systems, seen, gate_pairs>>
join == <<published, hulls, jdc_bonus_per_level>>
vars == <<pc, line, map, join, graph, failure, rows>>

Init ==
    /\ pc = "systems"
    /\ line = 0
    /\ systems = << >> /\ seen = {} /\ gate_pairs = << >>
    /\ published = << >> /\ hulls = << >> /\ jdc_bonus_per_level = NoBonus
    /\ graph = << >>
    /\ failure = << >>
    /\ rows = [f \in FILES |-> << >>]

----------------------------------------------------------------------------
RowsRead == Len(rows["systems"]) + Len(rows["gates"]) + Len(rows["types"])
                 + Len(rows["dogma"])

\* The next line of a file, an error or not.
NextLine(file) ==
    /\ pc = file /\ pc \in FILES
    /\ line < MaxLines
    /\ RowsRead < MaxRows
    /\ line' = line + 1

Row(file, r) ==
    /\ NextLine(file)
    /\ rows' = [rows EXCEPT ![file] = Append(@, r)]
    /\ UNCHANGED <<pc, graph, failure>>

\* Nothing is left of a line but a byte order mark, perhaps.
BlankLine ==
    /\ NextLine(pc)
    /\ UNCHANGED <<pc, map, join, graph, failure, rows>>

\* ParseError: the line does not parse, or cannot be read.
BadLine ==
    /\ NextLine(pc)
    /\ pc' = "failed"
    /\ failure' = <<pc, line'>>
    /\ UNCHANGED <<map, join, graph, rows>>

\* Faulty ClassifySecurity: what is shown as 0.5 is lowsec.
ClassifySecurityRaw(sec, is_wormhole) ==
    CASE is_wormhole -> "wormhole"
      [] ~is_wormhole /\ sec >= 50 -> "highsec"
      [] ~is_wormhole /\ sec \in 1..49 -> "lowsec"
      [] OTHER -> "nullsec"

\* classify_security, in hundredths.
ClassifySecurity(sec, is_wormhole) ==
    CASE is_wormhole -> "wormhole"
      [] ~is_wormhole /\ sec >= 45 -> "highsec"
      [] ~is_wormhole /\ sec \in 1..44 -> "lowsec"
      [] OTHER -> "nullsec"

\* system_from_raw
SystemFromRaw(r) ==
    [id |-> r.id, name |-> r.name, coords |-> r.coords,
     sec |-> ClassifySecurity(r.sec, r.region_id >= FIRST_WORMHOLE_REGION)]

\* Faulty ParseSystem: J-space is left out already here.
ParseSystemKSpaceOnly(r) ==
    /\ Row("systems", r)
    /\ systems' = IF r.region_id < FIRST_WORMHOLE_REGION
                  THEN Append(systems, SystemFromRaw(r)) ELSE systems
    /\ UNCHANGED <<seen, gate_pairs, join>>

ParseSystem(r) ==
    /\ Row("systems", r)
    /\ systems' = Append(systems, SystemFromRaw(r))
    /\ UNCHANGED <<seen, gate_pairs, join>>

\* Faulty GateKey: the two halves of a link differ.
GateKeyDirected(r) == r

\* Both halves of a link have the key with the lesser id first.
GateKey(r) == IF r[1] <= r[2] THEN r ELSE <<r[2], r[1]>>

ParseGate(r) ==
    /\ Row("gates", r)
    /\ seen' = seen \cup {GateKey(r)}
    /\ gate_pairs' = IF GateKey(r) \in seen THEN gate_pairs
                                            ELSE Append(gate_pairs, GateKey(r))
    /\ UNCHANGED <<systems, join>>

TypeFromRaw(r) == [name |-> r.name, group_id |-> r.group_id]

\* published, with the type of a row put in or replaced.
WithType(r) ==
    [id \in DOMAIN published \cup {r.id} |->
        IF id = r.id THEN TypeFromRaw(r) ELSE published[id]]

\* Faulty ParseType: unpublished types are kept.
ParseTypeAny(r) ==
    /\ Row("types", r)
    /\ published' = WithType(r)
    /\ UNCHANGED <<map, hulls, jdc_bonus_per_level>>

\* Pass 1: published types only, a later row for an id replaces the earlier.
ParseType(r) ==
    /\ Row("types", r)
    /\ published' = IF r.published THEN WithType(r) ELSE published
    /\ UNCHANGED <<map, hulls, jdc_bonus_per_level>>

\* dogma_attributes.iter().find(..)
HasAttribute(r, id) == \E a \in ToSet(r.attributes) : a.id = id

Attribute(r, id) ==
    LET first == CHOOSE i \in DOMAIN r.attributes :
                     /\ r.attributes[i].id = id
                     /\ \A j \in 1..i - 1 : r.attributes[j].id # id
    IN  r.attributes[first].value

HullFromRaw(r) ==
    [type_id |-> r.id, name |-> published[r.id].name,
     group_id |-> published[r.id].group_id,
     base_ly |-> Attribute(r, ATTR_JUMP_DRIVE_RANGE)]

\* Pass 2: the skill's bonus, and the range of a published type.
ParseDogma(r) ==
    /\ Row("dogma", r)
    /\ jdc_bonus_per_level' =
           IF /\ r.id = JDC_SKILL_TYPE_ID
              /\ HasAttribute(r, ATTR_JUMP_DRIVE_RANGE_BONUS)
           THEN Attribute(r, ATTR_JUMP_DRIVE_RANGE_BONUS)
           ELSE jdc_bonus_per_level
    /\ hulls' =
           IF r.id \in DOMAIN published /\ HasAttribute(r, ATTR_JUMP_DRIVE_RANGE)
           THEN Append(hulls, HullFromRaw(r)) ELSE hulls
    /\ UNCHANGED <<map, published>>

EndOfFile ==
    /\ pc \in FILES
    /\ pc' = After[pc]
    /\ line' = 0
    /\ UNCHANGED <<map, join, graph, failure, rows>>

Build ==
    /\ pc = "build"
    /\ pc' = "built"
    /\ graph' = <<BuildGraph([systems |-> systems, gate_pairs |-> gate_pairs,
                    hulls |-> [hulls |-> hulls,
                               jdc_bonus_per_level |-> jdc_bonus_per_level]], 1)>>
    /\ UNCHANGED <<line, map, join, failure, rows>>

Next ==
    \/ BlankLine \/ BadLine \/ EndOfFile \/ Build
    \/ \E r \in SystemRows : ParseSystem(r)
    \/ \E r \in GateRows : ParseGate(r)
    \/ \E r \in TypeRows : ParseType(r)
    \/ \E r \in DogmaRows : ParseDogma(r)

Spec == Init /\ [][Next]_vars
----------------------------------------------------------------------------
(* What the graph should be, in terms of the rows of the files.            *)

SystemsRead == rows["systems"]

\* The node index n is of the last row with an id.
Owner(n, id) ==
    /\ n + 1 \in DOMAIN SystemsRead
    /\ SystemsRead[n + 1].id = id
    /\ \A i \in DOMAIN SystemsRead : SystemsRead[i].id = id => i <= n + 1

\* A type the catalog should hold, and the ranges the files give it.
Published(t) == {r \in ToSet(rows["types"]) : r.id = t.id /\ r.published}

Ranges(t) ==
    {a.value : a \in {b \in ToSet(t.attributes) : b.id = ATTR_JUMP_DRIVE_RANGE}}

JumpCapable ==
    {r \in ToSet(rows["dogma"]) : Published(r) # {} /\ Ranges(r) # {}}

TypeOK ==
    /\ pc \in FILES \cup {"build", "built", "failed"}
    /\ line \in 0..MaxLines
    /\ Len(systems) = Len(SystemsRead)
    /\ DOMAIN published \subseteq {r.id : r \in TypeRows}
    /\ {h.type_id : h \in ToSet(hulls)} \subseteq DOMAIN published
    /\ pc = "built" <=> graph # << >>
    /\ pc = "failed" <=> failure # << >>

(***************************************************************************)
(* parse_gate_pairs collapses the halves of a link, in one pass and        *)
(* whatever their order: no pair comes twice, each has its lesser id first *)
(* and none of the links read so far is missing.                           *)
(***************************************************************************)
PairsAreDistinct ==
    /\ IsInjective(gate_pairs)
    /\ \A p \in ToSet(gate_pairs) : p[1] <= p[2]
    /\ seen = ToSet(gate_pairs)
    /\ \A r \in ToSet(rows["gates"]) : {r, <<r[2], r[1]>>} \cap seen # {}

(***************************************************************************)
(* Every system of the file is found by its id and by its name in any      *)
(* case; where rows share a key, the last one is found.  A position in     *)
(* `systems` is a node index, for the class as well.                       *)
(***************************************************************************)
LookupsFindTheSystem ==
    pc = "built" =>
        LET g == graph[1] IN
        \A i \in DOMAIN SystemsRead :
            LET row == SystemsRead[i]
                n   == ResolveSystem(g, [by |-> "id", key |-> row.id])
                m   == ResolveSystem(g, [by |-> "name", key |-> row.name])
            IN  /\ Owner(n, row.id)
                /\ m + 1 \in i..Len(SystemsRead)
                /\ Lower[SystemsRead[m + 1].name] = Lower[row.name]
                /\ SystemAt(g, n).id = row.id

(***************************************************************************)
(* Two systems are joined exactly when the gates file links them, in one   *)
(* direction or both; a gate with an end outside the map is left out and   *)
(* takes no other gate with it.                                            *)
(***************************************************************************)
EdgesAreTheLinks ==
    pc = "built" =>
        graph[1].gate_graph =
            {e \in {{m, n} : m, n \in 0..Len(SystemsRead) - 1} :
                \E r \in ToSet(rows["gates"]) : \E m, n \in e :
                    e = {m, n} /\ Owner(m, r[1]) /\ Owner(n, r[2])}

(***************************************************************************)
(* Range queries see exactly the systems of K-space regions, and a system  *)
(* is highsec when the game displays 0.5 or more for it (a status rounded  *)
(* to one decimal): 0.45 is highsec and 0.44 is not.                       *)
(***************************************************************************)
ClassesAreAsDisplayed ==
    pc = "built" =>
        LET g == graph[1] IN
        \A i \in DOMAIN SystemsRead :
            LET row   == SystemsRead[i]
                kspace == row.region_id < FIRST_WORMHOLE_REGION
            IN  /\ i - 1 \in g.spatial_index <=> kspace
                /\ g.systems[i].sec = "highsec"
                       <=> kspace /\ (row.sec + 5) \div 10 >= 5

(***************************************************************************)
(* The catalog holds exactly the published types that have a jump range,   *)
(* under their id with a name, a group and a range that the files give     *)
(* that type; a lookup by its name finds a hull of that name.              *)
(***************************************************************************)
HullsAreJumpCapable ==
    pc = "built" =>
        LET g == graph[1] IN
        /\ DOMAIN g.hulls.by_type_id = {r.id : r \in JumpCapable}
        /\ \A t \in DOMAIN g.hulls.by_type_id :
              LET hull == g.hulls.by_type_id[t]
              IN  /\ \E r \in JumpCapable :
                        /\ r.id = t /\ hull.base_ly \in Ranges(r)
                        /\ \E p \in Published(r) :
                              hull.name = p.name /\ hull.group_id = p.group_id
                  /\ Lower[ResolveHull(g.hulls, [by |-> "name",
                               key |-> hull.name]).name] = Lower[hull.name]
=============================================================================
