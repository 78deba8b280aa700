---------------------------- MODULE HullCatalog ----------------------------
(***************************************************************************)
(* The catalog of jump-capable hulls of one SDE build: pure operators over *)
(* the rows that the parser joined                                         *)
(*                                                                         *)
(*   hulls                a sequence of [type_id, name, group_id, base_ly] *)
(*   jdc_bonus_per_level  percent per level, or NoBonus                    *)
(*                                                                         *)
(* Base ranges are in hundredths of a light-year: the SDE has 2.5, 3, 3.5, *)
(* 3.75 and more.                                                          *)
(***************************************************************************)
EXTENDS Integers, SequencesExt

CONSTANT Lower   \* Lower[s]: to_ascii_lowercase of a spelling s of a name

\* A spelling in lower case is left alone.
ASSUME LowerAssumption == \A s \in DOMAIN Lower : Lower[Lower[s]] = Lower[s]

\* Faulty LastBy: the first row with a key keeps it.
FirstBy(keys) ==
    [k \in ToSet(keys) |->
        CHOOSE i \in DOMAIN keys :
            keys[i] = k /\ \A j \in 1..i - 1 : keys[j] # k]

\* Inserting rows with these keys in order leaves, for each key, the last one.
LastBy(keys) ==
    [k \in ToSet(keys) |->
        CHOOSE i \in DOMAIN keys :
            keys[i] = k /\ \A j \in DOMAIN keys : j > i => keys[j] # k]

\* The keys of a sequence of rows, by name.
LowerNames(rows) == [i \in DOMAIN rows |-> Lower[rows[i].name]]

NoBonus == -1              \* jdc_bonus_per_level: None
NoHull  == [type_id |-> -1]

\* Faulty MinBaseLyByGroup: the last row of a group sets its range.
LastBaseLyByGroup(hulls) ==
    LET last == LastBy([i \in DOMAIN hulls |-> hulls[i].group_id])
    IN  [group \in DOMAIN last |-> hulls[last[group]].base_ly]

\* The least range of a group, over every row of it, overwritten ones too.
MinBaseLyByGroup(hulls) ==
    [group \in {h.group_id : h \in ToSet(hulls)} |->
        Min({h.base_ly : h \in {x \in ToSet(hulls) : x.group_id = group}})]

\* HullCatalog::from_raw
FromRaw(raw) ==
    LET names == LastBy(LowerNames(raw.hulls))
        ids   == LastBy([i \in DOMAIN raw.hulls |-> raw.hulls[i].type_id])
    IN  [by_name    |-> [n \in DOMAIN names |-> raw.hulls[names[n]]],
         by_type_id |-> [t \in DOMAIN ids |-> raw.hulls[ids[t]]],
         min_base_ly_by_group |-> MinBaseLyByGroup(raw.hulls),
         bonus_per_level |->
            IF raw.jdc_bonus_per_level = NoBonus THEN 0
                                                 ELSE raw.jdc_bonus_per_level]

\* resolve_hull, of a reference [by |-> "id" or "name", key].
ResolveHull(hulls, r) ==
    LET index == IF r.by = "id" THEN hulls.by_type_id ELSE hulls.by_name
        key   == IF r.by = "id" THEN r.key ELSE Lower[r.key]
    IN  IF key \in DOMAIN index THEN index[key] ELSE NoHull
=============================================================================
