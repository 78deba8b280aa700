---------------------------- MODULE MCSdeParse ----------------------------
(***************************************************************************)
(* An instance of SdeParse: systems that share an id or a name, both       *)
(* halves of a gate and one to nowhere, a hull that comes twice, hulls of  *)
(* one name, an unpublished type, a dogma row without type, the skill.     *)
(***************************************************************************)
EXTENDS SdeParse

MCLower == [s \in {"jita", "JITA", "thera", "sin", "SIN", "rag", "skill"} |->
               CASE s = "JITA" -> "jita" [] s = "SIN" -> "sin" [] OTHER -> s]

System(id, name, sec, region_id) ==
    [id |-> id, name |-> name, sec |-> sec, region_id |-> region_id,
     coords |-> <<id, 0>>]

MCSystemRows ==
    {System(1, "JITA", 45, 10000001), System(1, "thera", 44, 11000000),
     System(2, "jita", 44, 10999999)}

MCGateRows == {<<1, 2>>, <<2, 1>>, <<2, 9>>}

Type(id, name, group_id, is_published) ==
    [id |-> id, name |-> name, group_id |-> group_id, published |-> is_published]

MCTypeRows ==
    {Type(10, "SIN", 898, TRUE), Type(10, "rag", 30, FALSE), Type(11, "sin", 898, TRUE)}

Dogma(id, attributes) == [id |-> id, attributes |-> attributes]
Value(id, value)      == [id |-> id, value |-> value]

MCDogmaRows ==
    {Dogma(10, <<Value(867, 4)>>), Dogma(10, <<Value(868, 1), Value(867, 3)>>),
     Dogma(11, <<Value(867, 5)>>), Dogma(12, <<Value(867, 1)>>), Dogma(11, << >>),
     Dogma(21611, <<Value(870, 20)>>)}
=============================================================================
