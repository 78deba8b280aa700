--------------------------- MODULE SdeParseProofs ---------------------------
(***************************************************************************)
(* Proofs about SdeParse, for files of any length and any rows: the graph  *)
(* that is built says what the files say.                                  *)
(***************************************************************************)
EXTENDS SdeParse, WellFoundedInduction, TLAPS

----------------------------------------------------------------------------
(* Sequences.                                                              *)

IsSeq(s) == s \in Seq(ToSet(s))

(***************************************************************************)
(* A set of naturals that is not empty has a least member.                 *)
(***************************************************************************)
LEMMA LeastMember ==
    ASSUME NEW T, T \subseteq Nat, T # {}
    PROVE  \E x \in T : \A y \in T : x <= y
<1>. DEFINE R == OpToRel(<, Nat)
<1>1. IsWellFoundedOn(R, Nat)
  BY NatLessThanWellFounded
<1>2. PICK x \in T : \A y \in T : ~(<<y, x>> \in R)
  <2>. HIDE DEF R
  <2>. QED  BY <1>1, WFMin
<1>3. ASSUME NEW y \in T, y < x PROVE FALSE
  <2>1. <<y, x>> \in R
    BY <1>3 DEF OpToRel
  <2>. QED  BY <1>2, <2>1
<1>4. \A y \in T : x <= y
  BY <1>3
<1>. QED  BY <1>4

(***************************************************************************)
(* What appending does to a sequence.                                      *)
(***************************************************************************)
LEMMA SeqFacts ==
    ASSUME NEW s, IsSeq(s)
    PROVE  Len(s) \in Nat /\ DOMAIN s = 1..Len(s)
BY DEF IsSeq

LEMMA AppendFacts ==
    ASSUME NEW s, IsSeq(s), NEW e
    PROVE  /\ IsSeq(Append(s, e))
           /\ Len(Append(s, e)) = Len(s) + 1
           /\ DOMAIN Append(s, e) = 1..Len(s) + 1
           /\ \A i \in 1..Len(s) : Append(s, e)[i] = s[i]
           /\ Append(s, e)[Len(s) + 1] = e
           /\ ToSet(Append(s, e)) = ToSet(s) \cup {e}
<1>. DEFINE S == ToSet(s) \cup {e}
            t == Append(s, e)
<1>1. s \in Seq(S)
  BY DEF IsSeq
<1>2. /\ t \in Seq(S) /\ Len(t) = Len(s) + 1 /\ DOMAIN t = 1..Len(s) + 1
      /\ \A i \in 1..Len(s) : t[i] = s[i]
      /\ t[Len(s) + 1] = e
  BY <1>1
<1>3. Len(s) \in Nat /\ DOMAIN s = 1..Len(s)
  BY SeqFacts
<1>. HIDE DEF t
<1>4. ToSet(t) = S
  BY <1>2, <1>3 DEF ToSet
<1>5. IsSeq(t)
  BY <1>2, <1>4 DEF IsSeq
<1>. QED  BY <1>2, <1>4, <1>5 DEF t

(***************************************************************************)
(* The last position of a key, and the first position with a property.     *)
(***************************************************************************)
LEMMA LastByIsLast ==
    ASSUME NEW keys, NEW n \in Nat, DOMAIN keys = 1..n, NEW k \in ToSet(keys)
    PROVE  /\ DOMAIN LastBy(keys) = ToSet(keys)
           /\ LastBy(keys)[k] \in 1..n
           /\ keys[LastBy(keys)[k]] = k
           /\ \A j \in 1..n : keys[j] = k => j <= LastBy(keys)[k]
<1>. DEFINE T == {n - i : i \in {j \in 1..n : keys[j] = k}}
<1>1. PICK x \in T : \A y \in T : x <= y
  <2>1. T \subseteq Nat /\ T # {}
    BY DEF ToSet
  <2>. HIDE DEF T
  <2>. QED  BY <2>1, LeastMember
<1>2. PICK i \in 1..n : keys[i] = k /\ x = n - i
  BY <1>1
<1>3. ASSUME NEW j \in 1..n, j > i, keys[j] = k PROVE FALSE
  <2>1. n - j \in T
    BY <1>3
  <2>2. n - i <= n - j
    BY <1>1, <1>2, <2>1
  <2>. QED  BY <1>2, <1>3, <2>2
<1>4. \E m \in DOMAIN keys :
          keys[m] = k /\ \A j \in DOMAIN keys : j > m => keys[j] # k
  BY <1>2, <1>3
<1>5. LastBy(keys)[k] = CHOOSE m \in DOMAIN keys :
          keys[m] = k /\ \A j \in DOMAIN keys : j > m => keys[j] # k
  BY DEF LastBy
<1>6. /\ LastBy(keys)[k] \in DOMAIN keys
      /\ keys[LastBy(keys)[k]] = k
      /\ \A j \in DOMAIN keys : j > LastBy(keys)[k] => keys[j] # k
  BY <1>4, <1>5
<1>. QED  BY <1>6 DEF LastBy

LEMMA AttributeIsOfRow ==
    ASSUME NEW r \in DogmaRows, NEW id, HasAttribute(r, id)
    PROVE  \E a \in ToSet(r.attributes) : a.id = id /\ Attribute(r, id) = a.value
<1>. DEFINE T == {i \in DOMAIN r.attributes : r.attributes[i].id = id}
            First(i) == /\ r.attributes[i].id = id
                        /\ \A j \in 1..i - 1 : r.attributes[j].id # id
            first == CHOOSE i \in DOMAIN r.attributes : First(i)
<1>1. DOMAIN r.attributes = 1..Len(r.attributes) /\ Len(r.attributes) \in Nat
  BY RowsAssumption
<1>2. T \subseteq Nat /\ T # {}
  BY <1>1 DEF HasAttribute, ToSet
<1>3. PICK x \in T : \A y \in T : x <= y
  <2>. HIDE DEF T
  <2>. QED  BY <1>2, LeastMember
<1>4. x \in DOMAIN r.attributes /\ First(x)
  <2>1. \A j \in 1..x - 1 : r.attributes[j].id # id
    BY <1>1, <1>3
  <2>. QED  BY <1>3, <2>1
<1>5. first \in DOMAIN r.attributes /\ First(first)
  <2>. HIDE DEF First
  <2>. QED  BY <1>4
<1>6. Attribute(r, id) = r.attributes[first].value
  BY DEF Attribute
<1>. QED  BY <1>5, <1>6 DEF ToSet

----------------------------------------------------------------------------
(***************************************************************************)
(* The inductive invariant: how each value of the parsers follows from the *)
(* rows read so far.  For the hulls it needs that the types are read to    *)
(* the end before the first of them is asked for.                          *)
(***************************************************************************)
RowsInv ==
    /\ DOMAIN rows = FILES
    /\ IsSeq(rows["systems"]) /\ ToSet(rows["systems"]) \subseteq SystemRows
    /\ IsSeq(rows["gates"]) /\ ToSet(rows["gates"]) \subseteq GateRows
    /\ IsSeq(rows["types"]) /\ ToSet(rows["types"]) \subseteq TypeRows
    /\ IsSeq(rows["dogma"]) /\ ToSet(rows["dogma"]) \subseteq DogmaRows
    /\ pc \in {"systems", "gates", "types"} => rows["dogma"] = << >>

SystemsInv ==
    /\ IsSeq(systems)
    /\ Len(systems) = Len(rows["systems"])
    /\ \A i \in 1..Len(systems) : systems[i] = SystemFromRaw(rows["systems"][i])

PairsInv ==
    /\ IsSeq(gate_pairs)
    /\ PairsAreDistinct
    /\ \A p \in seen : \E r \in ToSet(rows["gates"]) : p = GateKey(r)

PublishedInv ==
    /\ \A id \in DOMAIN published : \E r \in ToSet(rows["types"]) :
           r.id = id /\ r.published /\ published[id] = TypeFromRaw(r)
    /\ \A r \in ToSet(rows["types"]) : r.published => r.id \in DOMAIN published

\* A hull is of a dogma row.
IsHullOf(h, r) ==
    /\ h.type_id = r.id
    /\ h.base_ly \in Ranges(r)
    /\ \E p \in Published(r) : h.name = p.name /\ h.group_id = p.group_id

HullsInv ==
    /\ IsSeq(hulls)
    /\ \A h \in ToSet(hulls) : \E r \in ToSet(rows["dogma"]) : IsHullOf(h, r)
    /\ \A r \in JumpCapable : \E h \in ToSet(hulls) : h.type_id = r.id
    /\ rows["dogma"] = << >> => hulls = << >>

Parsed == [systems |-> systems, gate_pairs |-> gate_pairs,
           hulls |-> [hulls |-> hulls, jdc_bonus_per_level |-> jdc_bonus_per_level]]

ControlInv ==
    /\ pc \in FILES \cup {"build", "built", "failed"}
    /\ line \in 0..MaxLines
    /\ pc = "built" <=> graph # << >>
    /\ pc = "failed" <=> failure # << >>
    /\ pc = "built" => graph = <<BuildGraph(Parsed, 1)>>

IInv ==
    /\ ControlInv /\ RowsInv
    /\ SystemsInv /\ PairsInv /\ PublishedInv /\ HullsInv

LEMMA FilesAre == FILES = {"systems", "gates", "types", "dogma"}
BY DEF FILES, After

LEMMA EmptyFacts == IsSeq(<< >>) /\ ToSet(<< >>) = {} /\ IsInjective(<< >>)
BY DEF IsSeq, ToSet, IsInjective

LEMMA InitEstablishesIInv == Init => IInv
<1>. SUFFICES ASSUME Init PROVE IInv
  OBVIOUS
<1>1. rows["systems"] = << >> /\ rows["gates"] = << >> /\ rows["types"] = << >>
          /\ rows["dogma"] = << >> /\ DOMAIN rows = FILES
  BY FilesAre DEF Init
<1>2. ControlInv
  BY FilesAre, BoundsAssumption DEF Init, ControlInv
<1>3. RowsInv
  BY <1>1, EmptyFacts DEF RowsInv
<1>4. SystemsInv
  BY <1>1, EmptyFacts DEF Init, SystemsInv
<1>5. PairsInv
  BY <1>1, EmptyFacts DEF Init, PairsInv, PairsAreDistinct
<1>6. PublishedInv
  BY <1>1, EmptyFacts DEF Init, PublishedInv
<1>7. HullsInv
  BY <1>1, EmptyFacts DEF Init, HullsInv, JumpCapable
<1>. QED  BY <1>2, <1>3, <1>4, <1>5, <1>6, <1>7 DEF IInv

(***************************************************************************)
(* What a row adds to the history, and what it leaves alone.               *)
(***************************************************************************)
LEMMA RowEffect ==
    ASSUME IInv, NEW file \in FILES, NEW r, Row(file, r)
    PROVE  /\ pc = file /\ pc' = file /\ graph' = graph /\ failure' = failure
           /\ line' \in 0..MaxLines
           /\ rows'[file] = Append(rows[file], r)
           /\ \A f \in FILES \ {file} : rows'[f] = rows[f]
           /\ DOMAIN rows' = FILES
           /\ IsSeq(rows'[file]) /\ ToSet(rows'[file]) = ToSet(rows[file]) \cup {r}
<1>1. IsSeq(rows[file]) /\ DOMAIN rows = FILES
  BY FilesAre DEF IInv, RowsInv
<1>2. line' \in 0..MaxLines
  BY BoundsAssumption DEF IInv, ControlInv, Row, NextLine
<1>3. rows'[file] = Append(rows[file], r)
  BY <1>1 DEF Row
<1>. QED  BY <1>1, <1>2, <1>3, AppendFacts DEF Row, NextLine

(***************************************************************************)
(* A row leaves the control state good; its graph is not built yet.        *)
(***************************************************************************)
LEMMA RowKeepsControl ==
    ASSUME IInv, NEW file \in FILES, NEW r, Row(file, r)
    PROVE  ControlInv'
BY RowEffect, FilesAre DEF IInv, ControlInv

LEMMA ParseSystemPreserves ==
    ASSUME IInv, NEW r \in SystemRows, ParseSystem(r)
    PROVE  IInv'
<1>1. Row("systems", r) /\ systems' = Append(systems, SystemFromRaw(r))
          /\ UNCHANGED <<seen, gate_pairs, published, hulls>>
  BY DEF ParseSystem, join
<1>2. /\ pc = "systems" /\ pc' = "systems"
      /\ rows'["systems"] = Append(rows["systems"], r)
      /\ rows'["gates"] = rows["gates"] /\ rows'["types"] = rows["types"]
      /\ rows'["dogma"] = rows["dogma"] /\ DOMAIN rows' = FILES
      /\ IsSeq(rows'["systems"])
      /\ ToSet(rows'["systems"]) = ToSet(rows["systems"]) \cup {r}
  BY <1>1, RowEffect, FilesAre
<1>3. ControlInv'
  BY <1>1, RowKeepsControl, FilesAre
<1>4. RowsInv'
  BY <1>2 DEF IInv, RowsInv
<1>5. SystemsInv'
  <2>1. IsSeq(systems) /\ IsSeq(rows["systems"]) /\ Len(systems) = Len(rows["systems"])
    BY DEF IInv, RowsInv, SystemsInv
  <2>2. /\ IsSeq(systems') /\ Len(systems') = Len(systems) + 1
        /\ \A i \in 1..Len(systems) : systems'[i] = systems[i]
        /\ systems'[Len(systems) + 1] = SystemFromRaw(r)
    BY <1>1, <2>1, AppendFacts
  <2>3. /\ Len(rows'["systems"]) = Len(systems) + 1
        /\ \A i \in 1..Len(systems) : rows'["systems"][i] = rows["systems"][i]
        /\ rows'["systems"][Len(systems) + 1] = r
    BY <1>2, <2>1, AppendFacts
  <2>4. Len(systems) \in Nat
    BY <2>1, SeqFacts
  <2>5. \A i \in 1..Len(systems) + 1 :
            systems'[i] = SystemFromRaw(rows'["systems"][i])
    <3>1. \A i \in 1..Len(systems) : systems'[i] = SystemFromRaw(rows'["systems"][i])
      BY <2>2, <2>3 DEF IInv, SystemsInv
    <3>. QED  BY <2>2, <2>3, <2>4, <3>1
  <2>. QED  BY <2>2, <2>3, <2>5 DEF SystemsInv
<1>6. PairsInv' /\ PublishedInv'
  BY <1>1, <1>2 DEF IInv, PairsInv, PairsAreDistinct, PublishedInv
<1>7. HullsInv'
  BY <1>1, <1>2 DEF IInv, HullsInv, IsHullOf, JumpCapable, Published
<1>. QED  BY <1>3, <1>4, <1>5, <1>6, <1>7 DEF IInv

LEMMA ParseGatePreserves ==
    ASSUME IInv, NEW r \in GateRows, ParseGate(r)
    PROVE  IInv'
<1>. DEFINE key == GateKey(r)
<1>1. Row("gates", r) /\ seen' = seen \cup {key}
          /\ gate_pairs' = (IF key \in seen THEN gate_pairs ELSE Append(gate_pairs, key))
          /\ UNCHANGED <<systems, published, hulls>>
  BY DEF ParseGate, join
<1>2. /\ pc = "gates" /\ pc' = "gates"
      /\ rows'["systems"] = rows["systems"] /\ rows'["types"] = rows["types"]
      /\ rows'["dogma"] = rows["dogma"] /\ DOMAIN rows' = FILES
      /\ IsSeq(rows'["gates"])
      /\ ToSet(rows'["gates"]) = ToSet(rows["gates"]) \cup {r}
  BY <1>1, RowEffect, FilesAre
<1>3. ControlInv'
  BY <1>1, RowKeepsControl, FilesAre
<1>4. RowsInv'
  BY <1>2 DEF IInv, RowsInv
<1>5. SystemsInv'
  BY <1>1, <1>2 DEF IInv, SystemsInv
<1>6. PairsInv'
  <2>1. IsSeq(gate_pairs) /\ PairsAreDistinct /\ Len(gate_pairs) \in Nat
            /\ DOMAIN gate_pairs = 1..Len(gate_pairs)
    BY SeqFacts DEF IInv, PairsInv
  <2>2. key[1] <= key[2] /\ key \in {r, <<r[2], r[1]>>}
    <3>1. r[1] \in Int /\ r[2] \in Int
      BY RowsAssumption
    <3>. QED  BY <3>1 DEF GateKey
  <2>3. IsSeq(gate_pairs') /\ ToSet(gate_pairs') = seen'
    <3>1. CASE key \in seen
      BY <1>1, <2>1, <3>1 DEF PairsAreDistinct
    <3>2. CASE key \notin seen
      BY <1>1, <2>1, <3>2, AppendFacts DEF PairsAreDistinct
    <3>. QED  BY <3>1, <3>2
  <2>4. IsInjective(gate_pairs')
    <3>1. CASE key \in seen
      BY <1>1, <2>1, <3>1 DEF PairsAreDistinct
    <3>2. CASE key \notin seen
      <4>. DEFINE n == Len(gate_pairs)
      <4>1. /\ DOMAIN gate_pairs' = 1..n + 1
            /\ \A i \in 1..n : gate_pairs'[i] = gate_pairs[i]
            /\ gate_pairs'[n + 1] = key
        BY <1>1, <2>1, <3>2, AppendFacts
      <4>2. \A i \in 1..n : gate_pairs[i] # key
        BY <2>1, <3>2 DEF PairsAreDistinct, ToSet
      <4>3. \A i, j \in 1..n : gate_pairs[i] = gate_pairs[j] => i = j
        BY <2>1 DEF PairsAreDistinct, IsInjective
      <4>. QED  BY <2>1, <4>1, <4>2, <4>3 DEF IsInjective
    <3>. QED  BY <3>1, <3>2
  <2>5. \A p \in ToSet(gate_pairs') : p[1] <= p[2]
    BY <1>1, <2>1, <2>2, <2>3 DEF PairsAreDistinct
  <2>6. \A q \in ToSet(rows'["gates"]) : {q, <<q[2], q[1]>>} \cap seen' # {}
    BY <1>1, <1>2, <2>1, <2>2 DEF PairsAreDistinct
  <2>7. \A p \in seen' : \E q \in ToSet(rows'["gates"]) : p = GateKey(q)
    BY <1>1, <1>2 DEF IInv, PairsInv
  <2>. QED  BY <2>3, <2>4, <2>5, <2>6, <2>7 DEF PairsInv, PairsAreDistinct
<1>7. PublishedInv'
  BY <1>1, <1>2 DEF IInv, PublishedInv
<1>8. HullsInv'
  BY <1>1, <1>2 DEF IInv, HullsInv, IsHullOf, JumpCapable, Published
<1>. QED  BY <1>3, <1>4, <1>5, <1>6, <1>7, <1>8 DEF IInv

LEMMA ParseTypePreserves ==
    ASSUME IInv, NEW r \in TypeRows, ParseType(r)
    PROVE  IInv'
<1>1. Row("types", r) /\ published' = (IF r.published THEN WithType(r) ELSE published)
          /\ UNCHANGED <<systems, seen, gate_pairs, hulls>>
  BY DEF ParseType, map
<1>2. /\ pc = "types" /\ pc' = "types"
      /\ rows'["systems"] = rows["systems"] /\ rows'["gates"] = rows["gates"]
      /\ rows'["dogma"] = rows["dogma"] /\ DOMAIN rows' = FILES
      /\ IsSeq(rows'["types"])
      /\ ToSet(rows'["types"]) = ToSet(rows["types"]) \cup {r}
  BY <1>1, RowEffect, FilesAre
<1>3. ControlInv'
  BY <1>1, RowKeepsControl, FilesAre
<1>4. RowsInv'
  BY <1>2 DEF IInv, RowsInv
<1>5. SystemsInv' /\ PairsInv'
  BY <1>1, <1>2 DEF IInv, SystemsInv, PairsInv, PairsAreDistinct
<1>6. PublishedInv'
  <2>1. CASE ~r.published
    BY <1>1, <1>2, <2>1 DEF IInv, PublishedInv
  <2>2. CASE r.published
    <3>1. DOMAIN published' = DOMAIN published \cup {r.id}
      BY <1>1, <2>2 DEF WithType
    <3>2. \A id \in DOMAIN published' :
              published'[id] = IF id = r.id THEN TypeFromRaw(r) ELSE published[id]
      BY <1>1, <2>2 DEF WithType
    <3>3. ASSUME NEW id \in DOMAIN published'
          PROVE  \E q \in ToSet(rows'["types"]) :
                     q.id = id /\ q.published /\ published'[id] = TypeFromRaw(q)
      <4>1. CASE id = r.id
        BY <1>2, <2>2, <3>2, <4>1
      <4>2. CASE id # r.id
        BY <1>2, <3>1, <3>2, <4>2 DEF IInv, PublishedInv
      <4>. QED  BY <4>1, <4>2
    <3>4. \A q \in ToSet(rows'["types"]) : q.published => q.id \in DOMAIN published'
      BY <1>2, <3>1 DEF IInv, PublishedInv
    <3>. QED  BY <3>3, <3>4 DEF PublishedInv
  <2>. QED  BY <2>1, <2>2
<1>7. HullsInv'
  <2>1. rows["dogma"] = << >>
    BY <1>2 DEF IInv, RowsInv
  <2>2. rows'["dogma"] = << >> /\ hulls' = << >>
    BY <1>1, <1>2, <2>1 DEF IInv, HullsInv
  <2>. QED  BY <2>2, EmptyFacts DEF HullsInv, JumpCapable
<1>. QED  BY <1>3, <1>4, <1>5, <1>6, <1>7 DEF IInv

LEMMA ParseDogmaPreserves ==
    ASSUME IInv, NEW r \in DogmaRows, ParseDogma(r)
    PROVE  IInv'
<1>. DEFINE isHull == r.id \in DOMAIN published /\ HasAttribute(r, ATTR_JUMP_DRIVE_RANGE)
<1>1. Row("dogma", r)
          /\ hulls' = (IF isHull THEN Append(hulls, HullFromRaw(r)) ELSE hulls)
          /\ UNCHANGED <<systems, seen, gate_pairs, published>>
  BY DEF ParseDogma, map
<1>2. /\ pc = "dogma" /\ pc' = "dogma"
      /\ rows'["systems"] = rows["systems"] /\ rows'["gates"] = rows["gates"]
      /\ rows'["types"] = rows["types"] /\ DOMAIN rows' = FILES
      /\ rows'["dogma"] = Append(rows["dogma"], r)
      /\ IsSeq(rows'["dogma"])
      /\ ToSet(rows'["dogma"]) = ToSet(rows["dogma"]) \cup {r}
  BY <1>1, RowEffect, FilesAre
<1>3. ControlInv'
  BY <1>1, RowKeepsControl, FilesAre
<1>4. RowsInv'
  BY <1>2 DEF IInv, RowsInv
<1>5. SystemsInv' /\ PairsInv' /\ PublishedInv'
  BY <1>1, <1>2 DEF IInv, SystemsInv, PairsInv, PairsAreDistinct, PublishedInv
<1>6. HullsInv'
  <2>1. Ranges(r) # {} <=> HasAttribute(r, ATTR_JUMP_DRIVE_RANGE)
    BY DEF Ranges, HasAttribute
  <2>2. Published(r) # {} <=> r.id \in DOMAIN published
    BY DEF IInv, PublishedInv, Published
  <2>3. Published(r)' = Published(r) /\ \A q : Published(q)' = Published(q)
    BY <1>2 DEF Published
  <2>4. JumpCapable' = JumpCapable \cup (IF isHull THEN {r} ELSE {})
    BY <1>2, <2>1, <2>2, <2>3 DEF JumpCapable
  <2>5. rows'["dogma"] # << >>
    <3>1. ToSet(rows'["dogma"]) # {}
      BY <1>2
    <3>. QED  BY <3>1, EmptyFacts
  <2>6. IsSeq(hulls')
    BY <1>1, AppendFacts DEF IInv, HullsInv
  <2>7. ToSet(hulls') = ToSet(hulls) \cup (IF isHull THEN {HullFromRaw(r)} ELSE {})
    BY <1>1, AppendFacts DEF IInv, HullsInv
  <2>8. isHull => IsHullOf(HullFromRaw(r), r)
    <3>. SUFFICES ASSUME isHull PROVE IsHullOf(HullFromRaw(r), r)
      OBVIOUS
    <3>1. PICK a \in ToSet(r.attributes) :
              a.id = ATTR_JUMP_DRIVE_RANGE /\ Attribute(r, ATTR_JUMP_DRIVE_RANGE) = a.value
      BY AttributeIsOfRow
    <3>2. HullFromRaw(r).base_ly \in Ranges(r)
      BY <3>1 DEF HullFromRaw, Ranges
    <3>3. PICK p \in ToSet(rows["types"]) :
              p.id = r.id /\ p.published /\ published[r.id] = TypeFromRaw(p)
      BY DEF IInv, PublishedInv
    <3>4. p \in Published(r) /\ HullFromRaw(r).name = p.name
              /\ HullFromRaw(r).group_id = p.group_id
      BY <3>3 DEF Published, HullFromRaw, TypeFromRaw
    <3>. QED  BY <3>2, <3>4 DEF IsHullOf, HullFromRaw
  <2>9. \A h \in ToSet(hulls') : \E q \in ToSet(rows'["dogma"]) : IsHullOf(h, q)'
    <3>1. \A h, q : IsHullOf(h, q)' <=> IsHullOf(h, q)
      BY <2>3 DEF IsHullOf, Ranges
    <3>2. \A h \in ToSet(hulls) : \E q \in ToSet(rows["dogma"]) : IsHullOf(h, q)
      BY DEF IInv, HullsInv
    <3>. QED  BY <1>2, <2>7, <2>8, <3>1, <3>2
  <2>10. \A q \in JumpCapable' : \E h \in ToSet(hulls') : h.type_id = q.id
    <3>1. \A q \in JumpCapable : \E h \in ToSet(hulls) : h.type_id = q.id
      BY DEF IInv, HullsInv
    <3>2. HullFromRaw(r).type_id = r.id
      BY DEF HullFromRaw
    <3>. QED  BY <2>4, <2>7, <3>1, <3>2
  <2>. QED  BY <2>5, <2>6, <2>9, <2>10 DEF HullsInv
<1>. QED  BY <1>3, <1>4, <1>5, <1>6 DEF IInv

(***************************************************************************)
(* The steps that read no row.                                             *)
(***************************************************************************)
DataUnchanged == UNCHANGED <<rows, systems, seen, gate_pairs, published, hulls,
                             jdc_bonus_per_level>>

LEMMA DataStays ==
    ASSUME IInv, DataUnchanged, ControlInv',
           pc' \in {"systems", "gates", "types"} => pc \in {"systems", "gates", "types"}
    PROVE  IInv'
<1>1. RowsInv' /\ SystemsInv'
  BY DEF IInv, DataUnchanged, RowsInv, SystemsInv
<1>2. PairsInv' /\ PublishedInv'
  BY DEF IInv, DataUnchanged, PairsInv, PairsAreDistinct, PublishedInv
<1>3. HullsInv'
  BY DEF IInv, DataUnchanged, HullsInv, IsHullOf, JumpCapable, Published
<1>. QED  BY <1>1, <1>2, <1>3 DEF IInv

LEMMA LinePreserves ==
    ASSUME IInv, BlankLine \/ BadLine
    PROVE  IInv'
<1>1. pc \in FILES /\ line' \in 0..MaxLines /\ DataUnchanged /\ graph' = graph
  BY BoundsAssumption
     DEF IInv, ControlInv, BlankLine, BadLine, NextLine, DataUnchanged, map, join
<1>2. CASE BlankLine
  <2>1. pc' = pc /\ failure' = failure
    BY <1>2 DEF BlankLine
  <2>2. ControlInv'
    BY <1>1, <2>1, FilesAre DEF IInv, ControlInv
  <2>. QED  BY <1>1, <2>1, <2>2, DataStays
<1>3. CASE BadLine
  <2>1. pc' = "failed" /\ failure' # << >>
    BY <1>3 DEF BadLine
  <2>2. ControlInv'
    BY <1>1, <2>1, FilesAre DEF IInv, ControlInv
  <2>. QED  BY <1>1, <2>1, <2>2, DataStays
<1>. QED  BY <1>2, <1>3

LEMMA EndOfFilePreserves ==
    ASSUME IInv, EndOfFile
    PROVE  IInv'
<1>1. /\ pc \in FILES /\ pc' = After[pc] /\ line' = 0 /\ DataUnchanged
      /\ graph' = graph /\ failure' = failure
  BY DEF EndOfFile, DataUnchanged, map, join
<1>2. /\ pc' \in {"gates", "types", "dogma", "build"}
      /\ pc' \in {"gates", "types"} => pc \in {"systems", "gates"}
  BY <1>1, FilesAre DEF After
<1>3. ControlInv'
  BY <1>1, <1>2, FilesAre, BoundsAssumption DEF IInv, ControlInv
<1>. QED  BY <1>1, <1>2, <1>3, DataStays

LEMMA BuildPreserves ==
    ASSUME IInv, Build
    PROVE  IInv'
<1>1. /\ pc = "build" /\ pc' = "built" /\ DataUnchanged
      /\ graph' = <<BuildGraph(Parsed, 1)>> /\ line' = line /\ failure' = failure
  BY DEF Build, DataUnchanged, Parsed, map, join
<1>2. BuildGraph(Parsed, 1)' = BuildGraph(Parsed, 1)
  BY <1>1 DEF DataUnchanged, Parsed
<1>3. ControlInv'
  BY <1>1, <1>2, FilesAre DEF IInv, ControlInv
<1>. QED  BY <1>1, <1>3, DataStays

LEMMA NextPreservesIInv ==
    ASSUME IInv, [Next]_vars
    PROVE  IInv'
<1>1. CASE BlankLine \/ BadLine
  BY <1>1, LinePreserves
<1>2. CASE EndOfFile
  BY <1>2, EndOfFilePreserves
<1>3. CASE Build
  BY <1>3, BuildPreserves
<1>4. CASE \E r \in SystemRows : ParseSystem(r)
  BY <1>4, ParseSystemPreserves
<1>5. CASE \E r \in GateRows : ParseGate(r)
  BY <1>5, ParseGatePreserves
<1>6. CASE \E r \in TypeRows : ParseType(r)
  BY <1>6, ParseTypePreserves
<1>7. CASE \E r \in DogmaRows : ParseDogma(r)
  BY <1>7, ParseDogmaPreserves
<1>8. CASE UNCHANGED vars
  <2>1. DataUnchanged /\ UNCHANGED <<pc, line, graph, failure>>
    BY <1>8 DEF vars, map, join, DataUnchanged
  <2>2. BuildGraph(Parsed, 1)' = BuildGraph(Parsed, 1)
    BY <2>1 DEF DataUnchanged, Parsed
  <2>3. ControlInv'
    BY <2>1, <2>2 DEF IInv, ControlInv
  <2>. QED  BY <2>1, <2>3, DataStays
<1>. QED  BY <1>1, <1>2, <1>3, <1>4, <1>5, <1>6, <1>7, <1>8 DEF Next

LEMMA Invariance == Spec => []IInv
BY InitEstablishesIInv, NextPreservesIInv, PTL DEF Spec

----------------------------------------------------------------------------
(* What follows for the files and the graph.                               *)

\* Every variable keeps its type, whatever is read.
THEOREM TypeCorrect == Spec => []TypeOK
<1>1. IInv => TypeOK
  <2>. SUFFICES ASSUME IInv PROVE TypeOK
    OBVIOUS
  <2>1. DOMAIN published \subseteq {r.id : r \in TypeRows}
    BY DEF IInv, RowsInv, PublishedInv
  <2>2. \A h \in ToSet(hulls) : h.type_id \in DOMAIN published
    <3>. TAKE h \in ToSet(hulls)
    <3>1. PICK r \in ToSet(rows["dogma"]) : IsHullOf(h, r)
      BY DEF IInv, HullsInv
    <3>2. PICK p \in ToSet(rows["types"]) : p.id = r.id /\ p.published
      BY <3>1 DEF IsHullOf, Published
    <3>. QED  BY <3>1, <3>2 DEF IInv, PublishedInv, IsHullOf
  <2>. QED  BY <2>1, <2>2 DEF IInv, ControlInv, SystemsInv, SystemsRead, TypeOK
<1>. QED  BY <1>1, Invariance, PTL

\* The two halves of a link become one pair, wherever they are in the file.
THEOREM GatePairsCollapse == Spec => []PairsAreDistinct
<1>1. IInv => PairsAreDistinct  BY DEF IInv, PairsInv
<1>. QED  BY <1>1, Invariance, PTL

(***************************************************************************)
(* What is built is built from what was parsed.                            *)
(***************************************************************************)
LEMMA BuiltGraph ==
    ASSUME IInv, pc = "built"
    PROVE  graph[1] = BuildGraph(Parsed, 1)
BY DEF IInv, ControlInv

LEMMA SystemFacts ==
    ASSUME IInv
    PROVE  /\ Len(systems) \in Nat
           /\ DOMAIN systems = 1..Len(systems)
           /\ DOMAIN SystemsRead = 1..Len(systems)
           /\ \A i \in 1..Len(systems) :
                  /\ SystemsRead[i] \in SystemRows
                  /\ systems[i] = SystemFromRaw(SystemsRead[i])
<1>1. IsSeq(systems) /\ IsSeq(SystemsRead) /\ Len(systems) = Len(SystemsRead)
  BY DEF IInv, SystemsInv, RowsInv, SystemsRead
<1>2. Len(systems) \in Nat /\ DOMAIN systems = 1..Len(systems)
          /\ DOMAIN SystemsRead = 1..Len(systems)
  BY <1>1, SeqFacts
<1>3. \A i \in 1..Len(systems) : SystemsRead[i] \in ToSet(SystemsRead)
  BY <1>2 DEF ToSet
<1>. QED  BY <1>2, <1>3 DEF IInv, SystemsInv, RowsInv, SystemsRead

(***************************************************************************)
(* A status of s hundredths is displayed as 0.5 or more from 45 on.        *)
(***************************************************************************)
LEMMA DisplayedFrom45 ==
    ASSUME NEW s \in Int
    PROVE  (s + 5) \div 10 >= 5 <=> s >= 45
OBVIOUS

LEMMA ClassFacts ==
    ASSUME NEW s \in Int, NEW w \in BOOLEAN
    PROVE  /\ ClassifySecurity(s, w) = "wormhole" <=> w
           /\ ClassifySecurity(s, w) = "highsec" <=> ~w /\ s >= 45
<1>1. CASE w
  BY <1>1 DEF ClassifySecurity
<1>2. CASE ~w /\ s >= 45
  <2>1. ClassifySecurity(s, w) = "highsec"
    BY <1>2 DEF ClassifySecurity
  <2>. QED  BY <1>2, <2>1
<1>3. CASE ~w /\ s \in 1..44
  <2>1. ClassifySecurity(s, w) = "lowsec"
    BY <1>3 DEF ClassifySecurity
  <2>. QED  BY <1>3, <2>1
<1>4. CASE ~w /\ ~(s >= 45) /\ s \notin 1..44
  <2>1. ClassifySecurity(s, w) = "nullsec"
    BY <1>4 DEF ClassifySecurity
  <2>. QED  BY <1>4, <2>1
<1>. QED  BY <1>1, <1>2, <1>3, <1>4

\* The spatial index holds K-space and nothing else, and classes are those
\* that the game displays, for every file.
THEOREM ClassesFollowTheDisplay == Spec => []ClassesAreAsDisplayed
<1>1. IInv => ClassesAreAsDisplayed
  <2>. SUFFICES ASSUME IInv, pc = "built", NEW i \in DOMAIN SystemsRead
               PROVE  LET row    == SystemsRead[i]
                          kspace == row.region_id < FIRST_WORMHOLE_REGION
                      IN  /\ i - 1 \in graph[1].spatial_index <=> kspace
                          /\ graph[1].systems[i].sec = "highsec"
                                 <=> kspace /\ (row.sec + 5) \div 10 >= 5
    BY DEF ClassesAreAsDisplayed
  <2>. DEFINE row    == SystemsRead[i]
              kspace == row.region_id < FIRST_WORMHOLE_REGION
  <2>1. graph[1].systems = systems /\ graph[1].spatial_index = SpatialIndex(systems)
    BY BuiltGraph DEF BuildGraph, Parsed
  <2>2. /\ i \in 1..Len(systems) /\ DOMAIN systems = 1..Len(systems)
        /\ Len(systems) \in Nat
        /\ row.sec \in Int /\ row.region_id \in Int
        /\ systems[i].sec
               = ClassifySecurity(row.sec, row.region_id >= FIRST_WORMHOLE_REGION)
    BY SystemFacts, RowsAssumption DEF SystemFromRaw
  <2>3. (row.region_id >= FIRST_WORMHOLE_REGION) = ~kspace
    BY <2>2 DEF FIRST_WORMHOLE_REGION
  <2>4. /\ systems[i].sec = "wormhole" <=> ~kspace
        /\ systems[i].sec = "highsec" <=> kspace /\ row.sec >= 45
    <3>. HIDE DEF row, kspace
    <3>. QED  BY <2>2, <2>3, ClassFacts
  <2>5. i - 1 \in SpatialIndex(systems) <=> ~IsWormhole(systems[i])
    BY <2>2 DEF SpatialIndex
  <2>. QED  BY <2>1, <2>2, <2>3, <2>4, <2>5, DisplayedFrom45 DEF IsWormhole
<1>. QED  BY <1>1, Invariance, PTL

----------------------------------------------------------------------------
(***************************************************************************)
(* The two indices.                                                        *)
(***************************************************************************)
LEMMA IdFacts ==
    ASSUME IInv
    PROVE  /\ DOMAIN IdToIdx(systems) = {SystemsRead[i].id : i \in 1..Len(systems)}
           /\ \A id \in DOMAIN IdToIdx(systems) :
                  /\ IdToIdx(systems)[id] \in 0..Len(systems) - 1
                  /\ Owner(IdToIdx(systems)[id], id)
<1>. DEFINE keys == [i \in DOMAIN systems |-> systems[i].id]
            idx  == IdToIdx(systems)
            last == LastBy(keys)
<1>1. /\ DOMAIN keys = 1..Len(systems) /\ Len(systems) \in Nat
      /\ DOMAIN SystemsRead = 1..Len(systems)
      /\ \A i \in 1..Len(systems) : keys[i] = SystemsRead[i].id
  BY SystemFacts DEF SystemFromRaw
<1>2. idx = [id \in DOMAIN last |-> last[id] - 1] /\ DOMAIN last = ToSet(keys)
  BY DEF IdToIdx, LastBy
<1>3. ToSet(keys) = {SystemsRead[i].id : i \in 1..Len(systems)}
  <2>. HIDE DEF keys
  <2>. QED  BY <1>1 DEF ToSet
<1>4. ASSUME NEW id \in DOMAIN idx
      PROVE  idx[id] \in 0..Len(systems) - 1 /\ Owner(idx[id], id)
  <2>1. /\ last[id] \in 1..Len(systems)
        /\ keys[last[id]] = id
        /\ \A j \in 1..Len(systems) : keys[j] = id => j <= last[id]
    <3>1. id \in ToSet(keys)
      BY <1>2, <1>4
    <3>. HIDE DEF keys
    <3>. QED  BY <1>1, <3>1, LastByIsLast
  <2>2. idx[id] = last[id] - 1
    BY <1>2, <1>4
  <2>. HIDE DEF keys, idx, last
  <2>3. idx[id] + 1 = last[id]
    BY <2>1, <2>2
  <2>. QED  BY <1>1, <2>1, <2>2, <2>3 DEF Owner
<1>. QED  BY <1>2, <1>3, <1>4

LEMMA OwnerIsIndexed ==
    ASSUME IInv, NEW n \in Int, NEW id
    PROVE  Owner(n, id) <=> id \in DOMAIN IdToIdx(systems) /\ n = IdToIdx(systems)[id]
<1>. DEFINE idx == IdToIdx(systems)
<1>1. ASSUME Owner(n, id) PROVE id \in DOMAIN idx /\ n = idx[id]
  <2>1. n + 1 \in 1..Len(systems) /\ SystemsRead[n + 1].id = id
    BY <1>1, SystemFacts DEF Owner
  <2>2. id \in DOMAIN idx
    BY <2>1, IdFacts
  <2>3. idx[id] \in 0..Len(systems) - 1 /\ Owner(idx[id], id)
    BY <2>2, IdFacts
  <2>4. idx[id] + 1 <= n + 1 /\ n + 1 <= idx[id] + 1
    BY <1>1, <2>3 DEF Owner
  <2>. HIDE DEF idx
  <2>5. n = idx[id]
    BY <2>3, <2>4
  <2>. QED  BY <2>2, <2>5
<1>. QED  BY <1>1, IdFacts

LEMMA NameFacts ==
    ASSUME IInv, NEW i \in 1..Len(systems)
    PROVE  LET name == Lower[SystemsRead[i].name]
               m    == NameToIdx(systems)[name]
           IN  /\ name \in DOMAIN NameToIdx(systems)
               /\ m + 1 \in i..Len(systems)
               /\ Lower[SystemsRead[m + 1].name] = name
<1>. DEFINE keys == LowerNames(systems)
            name == Lower[SystemsRead[i].name]
            idx  == NameToIdx(systems)
            last == LastBy(keys)
<1>1. /\ DOMAIN keys = 1..Len(systems) /\ Len(systems) \in Nat
      /\ \A j \in 1..Len(systems) : keys[j] = Lower[SystemsRead[j].name]
  BY SystemFacts DEF SystemFromRaw, LowerNames
<1>2. idx = [n \in DOMAIN last |-> last[n] - 1] /\ DOMAIN last = ToSet(keys)
  BY DEF NameToIdx, LastBy
<1>3. name \in ToSet(keys)
  <2>. HIDE DEF keys
  <2>. QED  BY <1>1 DEF ToSet
<1>4. /\ last[name] \in 1..Len(systems)
      /\ keys[last[name]] = name
      /\ \A j \in 1..Len(systems) : keys[j] = name => j <= last[name]
  <2>. HIDE DEF keys, name
  <2>. QED  BY <1>1, <1>3, LastByIsLast
<1>5. name \in DOMAIN idx /\ idx[name] = last[name] - 1
  BY <1>2, <1>3
<1>6. idx[name] + 1 = last[name] /\ i <= last[name]
  <2>. HIDE DEF keys, idx, last
  <2>. QED  BY <1>1, <1>4, <1>5
<1>. HIDE DEF keys, idx, last
<1>7. /\ name \in DOMAIN idx
      /\ idx[name] + 1 \in i..Len(systems)
      /\ Lower[SystemsRead[idx[name] + 1].name] = name
  <2>. HIDE DEF name
  <2>. QED  BY <1>1, <1>4, <1>5, <1>6
<1>. QED  BY <1>7 DEF idx

\* Every system is found by its id and by its name in any case, and where
\* rows share a key, the last one.
THEOREM LookupsAreRight == Spec => []LookupsFindTheSystem
<1>1. IInv => LookupsFindTheSystem
  <2>. SUFFICES ASSUME IInv, pc = "built", NEW i \in DOMAIN SystemsRead
               PROVE  LET g   == graph[1]
                          row == SystemsRead[i]
                          n   == ResolveSystem(g, [by |-> "id", key |-> row.id])
                          m   == ResolveSystem(g, [by |-> "name", key |-> row.name])
                      IN  /\ Owner(n, row.id)
                          /\ m + 1 \in i..Len(SystemsRead)
                          /\ Lower[SystemsRead[m + 1].name] = Lower[row.name]
                          /\ SystemAt(g, n).id = row.id
    BY DEF LookupsFindTheSystem
  <2>. DEFINE g   == graph[1]
              row == SystemsRead[i]
              n   == ResolveSystem(g, [by |-> "id", key |-> row.id])
              m   == ResolveSystem(g, [by |-> "name", key |-> row.name])
  <2>1. /\ g.systems = systems
        /\ g.id_to_idx = IdToIdx(systems)
        /\ g.name_to_idx = NameToIdx(systems)
    BY BuiltGraph DEF BuildGraph, Parsed
  <2>2. i \in 1..Len(systems) /\ Len(systems) = Len(SystemsRead)
    BY SystemFacts DEF IInv, SystemsInv, SystemsRead
  <2>3. row.id \in DOMAIN IdToIdx(systems)
    BY <2>2, IdFacts
  <2>4. n = IdToIdx(systems)[row.id]
    BY <2>1, <2>3 DEF ResolveSystem
  <2>5. Owner(n, row.id) /\ n \in 0..Len(systems) - 1
    BY <2>3, <2>4, IdFacts
  <2>6. /\ Lower[row.name] \in DOMAIN NameToIdx(systems)
        /\ NameToIdx(systems)[Lower[row.name]] + 1 \in i..Len(systems)
        /\ Lower[SystemsRead[NameToIdx(systems)[Lower[row.name]] + 1].name]
               = Lower[row.name]
    BY <2>2, NameFacts
  <2>7. m = NameToIdx(systems)[Lower[row.name]]
    BY <2>1, <2>6 DEF ResolveSystem
  <2>8. SystemAt(g, n).id = row.id
    <3>1. SystemAt(g, n) = systems[n + 1]
      BY <2>1 DEF SystemAt
    <3>2. n + 1 \in 1..Len(systems) /\ SystemsRead[n + 1].id = row.id
      BY <2>5, SystemFacts DEF Owner
    <3>. HIDE DEF g, n, row
    <3>. QED  BY <3>1, <3>2, SystemFacts DEF SystemFromRaw
  <2>. HIDE DEF n, m, g
  <2>9. m + 1 \in i..Len(SystemsRead) /\ Lower[SystemsRead[m + 1].name] = Lower[row.name]
    BY <2>2, <2>6, <2>7
  <2>. QED  BY <2>5, <2>8, <2>9 DEF n, m, g
<1>. QED  BY <1>1, Invariance, PTL

\* The gate graph joins what the gates file links, in one direction or both.
THEOREM EdgesFollowTheFile == Spec => []EdgesAreTheLinks
<1>1. IInv => EdgesAreTheLinks
  <2>. SUFFICES ASSUME IInv, pc = "built" PROVE EdgesAreTheLinks
    BY DEF EdgesAreTheLinks
  <2>. DEFINE idx   == IdToIdx(systems)
              pairs == ToSet(gate_pairs)
              links == ToSet(rows["gates"])
              nodes == 0..Len(SystemsRead) - 1
              edges == {e \in {{m, n} : m, n \in nodes} :
                           \E r \in links : \E m, n \in e :
                               e = {m, n} /\ Owner(m, r[1]) /\ Owner(n, r[2])}
  <2>1. graph[1].gate_graph = GateGraph(gate_pairs, idx)
    BY BuiltGraph DEF BuildGraph, Parsed
  <2>2. /\ \A p \in pairs : p \in links \/ <<p[2], p[1]>> \in links
        /\ \A r \in links : r \in pairs \/ <<r[2], r[1]>> \in pairs
        /\ \A r \in links : r = <<r[1], r[2]>>
        /\ \A p \in pairs : p = <<p[1], p[2]>>
    <3>1. links \subseteq Int \X Int
      BY RowsAssumption DEF IInv, RowsInv
    <3>2. seen = pairs /\ \A p \in seen : \E r \in links : p = GateKey(r)
      BY DEF IInv, PairsInv, PairsAreDistinct
    <3>3. \A r \in links : {r, <<r[2], r[1]>>} \cap seen # {}
      BY DEF IInv, PairsInv, PairsAreDistinct
    <3>. HIDE DEF pairs, links
    <3>4. \A r \in links : r = <<r[1], r[2]>>
      BY <3>1
    <3>5. \A p \in pairs : p = <<p[1], p[2]>> /\ (p \in links \/ <<p[2], p[1]>> \in links)
      <4>. TAKE p \in pairs
      <4>1. PICK r \in links : p = GateKey(r)
        BY <3>2
      <4>. QED  BY <3>4, <4>1 DEF GateKey
    <3>. QED  BY <3>2, <3>3, <3>4, <3>5
  <2>3. Len(SystemsRead) = Len(systems) /\ Len(systems) \in Nat
    BY SystemFacts DEF IInv, SystemsInv, SystemsRead
  <2>4. \A id \in DOMAIN idx : idx[id] \in nodes /\ Owner(idx[id], id)
    BY <2>3, IdFacts
  <2>5. \A n \in nodes : \A id : Owner(n, id) => id \in DOMAIN idx /\ n = idx[id]
    BY <2>3, OwnerIsIndexed
  <2>. HIDE DEF idx, pairs, links, nodes
  <2>6. ASSUME NEW e \in GateGraph(gate_pairs, idx) PROVE e \in edges
    <3>1. PICK p \in pairs : {p[1], p[2]} \subseteq DOMAIN idx /\ e = {idx[p[1]], idx[p[2]]}
      BY <2>6 DEF GateGraph, pairs
    <3>2. e \in {{m, n} : m, n \in nodes}
      BY <2>4, <3>1
    <3>3. CASE p \in links
      BY <2>4, <3>1, <3>2, <3>3
    <3>4. CASE <<p[2], p[1]>> \in links
      <4>. DEFINE r == <<p[2], p[1]>>
      <4>1. Owner(idx[p[2]], r[1]) /\ Owner(idx[p[1]], r[2]) /\ r \in links
        BY <2>4, <3>1, <3>4
      <4>2. e = {idx[p[2]], idx[p[1]]} /\ idx[p[2]] \in e /\ idx[p[1]] \in e
        BY <3>1
      <4>. HIDE DEF r
      <4>. QED  BY <3>2, <4>1, <4>2
    <3>. QED  BY <2>2, <3>3, <3>4
  <2>7. ASSUME NEW e \in edges PROVE e \in GateGraph(gate_pairs, idx)
    <3>1. PICK r \in links, m \in e, n \in e :
              e = {m, n} /\ Owner(m, r[1]) /\ Owner(n, r[2])
      BY <2>7
    <3>2. m \in nodes /\ n \in nodes
      BY <2>7
    <3>3. {r[1], r[2]} \subseteq DOMAIN idx /\ m = idx[r[1]] /\ n = idx[r[2]]
      BY <2>5, <3>1, <3>2
    <3>4. CASE r \in pairs
      BY <3>1, <3>3, <3>4 DEF GateGraph, pairs
    <3>5. CASE <<r[2], r[1]>> \in pairs
      <4>. DEFINE p == <<r[2], r[1]>>
      <4>1. p \in pairs /\ {p[1], p[2]} \subseteq DOMAIN idx /\ e = {idx[p[1]], idx[p[2]]}
        BY <3>1, <3>3, <3>5
      <4>. HIDE DEF p
      <4>. QED  BY <4>1 DEF GateGraph, pairs
    <3>. QED  BY <2>2, <3>4, <3>5
  <2>8. GateGraph(gate_pairs, idx) = edges
    <3>. HIDE DEF edges
    <3>. QED  BY <2>6, <2>7
  <2>. QED  BY <2>1, <2>8 DEF EdgesAreTheLinks, edges, links, nodes
<1>. QED  BY <1>1, Invariance, PTL

----------------------------------------------------------------------------
(***************************************************************************)
(* The catalog's indices hold rows of the hulls under their own keys.      *)
(***************************************************************************)
LEMMA CatalogFacts ==
    ASSUME IInv
    PROVE  LET c == FromRaw(Parsed.hulls)
           IN  /\ DOMAIN c.by_type_id = {h.type_id : h \in ToSet(hulls)}
               /\ \A t \in DOMAIN c.by_type_id :
                      c.by_type_id[t] \in ToSet(hulls) /\ c.by_type_id[t].type_id = t
               /\ DOMAIN c.by_name = {Lower[h.name] : h \in ToSet(hulls)}
               /\ \A n \in DOMAIN c.by_name : Lower[c.by_name[n].name] = n
<1>. DEFINE c      == FromRaw(Parsed.hulls)
            tkeys  == [i \in DOMAIN hulls |-> hulls[i].type_id]
            nkeys  == LowerNames(hulls)
            tLast  == LastBy(tkeys)
            nLast  == LastBy(nkeys)
<1>1. Len(hulls) \in Nat /\ DOMAIN hulls = 1..Len(hulls)
  BY SeqFacts DEF IInv, HullsInv
<1>2. /\ c.by_type_id = [t \in DOMAIN tLast |-> hulls[tLast[t]]]
      /\ c.by_name = [n \in DOMAIN nLast |-> hulls[nLast[n]]]
  BY DEF FromRaw, Parsed
<1>3. DOMAIN tLast = ToSet(tkeys) /\ DOMAIN nLast = ToSet(nkeys)
  BY DEF LastBy
<1>4. /\ DOMAIN tkeys = 1..Len(hulls) /\ DOMAIN nkeys = 1..Len(hulls)
      /\ \A i \in 1..Len(hulls) :
             tkeys[i] = hulls[i].type_id /\ nkeys[i] = Lower[hulls[i].name]
  BY <1>1 DEF LowerNames
<1>. HIDE DEF c, tkeys, nkeys
<1>5. /\ ToSet(tkeys) = {h.type_id : h \in ToSet(hulls)}
      /\ ToSet(nkeys) = {Lower[h.name] : h \in ToSet(hulls)}
  BY <1>1, <1>4 DEF ToSet
<1>6. ASSUME NEW t \in DOMAIN tLast
      PROVE  tLast[t] \in 1..Len(hulls) /\ tkeys[tLast[t]] = t
  <2>1. t \in ToSet(tkeys)
    BY <1>3
  <2>. QED  BY <1>1, <1>4, <2>1, LastByIsLast
<1>7. ASSUME NEW n \in DOMAIN nLast
      PROVE  nLast[n] \in 1..Len(hulls) /\ nkeys[nLast[n]] = n
  <2>1. n \in ToSet(nkeys)
    BY <1>3
  <2>. QED  BY <1>1, <1>4, <2>1, LastByIsLast
<1>. HIDE DEF tLast, nLast
<1>8. \A i \in 1..Len(hulls) : hulls[i] \in ToSet(hulls)
  BY <1>1 DEF ToSet
<1>9. \A t \in DOMAIN c.by_type_id :
          c.by_type_id[t] \in ToSet(hulls) /\ c.by_type_id[t].type_id = t
  BY <1>2, <1>4, <1>6, <1>8
<1>10. \A n \in DOMAIN c.by_name : Lower[c.by_name[n].name] = n
  BY <1>2, <1>4, <1>7
<1>. QED  BY <1>2, <1>3, <1>5, <1>9, <1>10 DEF c

\* The catalog holds the published types that have a jump range, with what
\* the files say of them, and no other.
THEOREM CatalogFollowsTheFiles == Spec => []HullsAreJumpCapable
<1>1. IInv => HullsAreJumpCapable
  <2>. SUFFICES ASSUME IInv, pc = "built" PROVE HullsAreJumpCapable
    BY DEF HullsAreJumpCapable
  <2>. DEFINE c == FromRaw(Parsed.hulls)
  <2>1. graph[1].hulls = c
    BY BuiltGraph DEF BuildGraph, Parsed
  <2>2. \A h \in ToSet(hulls) : \E r \in JumpCapable : IsHullOf(h, r)
    <3>. TAKE h \in ToSet(hulls)
    <3>1. PICK r \in ToSet(rows["dogma"]) : IsHullOf(h, r)
      BY DEF IInv, HullsInv
    <3>2. Published(r) # {} /\ Ranges(r) # {}
      BY <3>1 DEF IsHullOf
    <3>. QED  BY <3>1, <3>2 DEF JumpCapable
  <2>3. \A r \in JumpCapable : \E h \in ToSet(hulls) : h.type_id = r.id
    BY DEF IInv, HullsInv
  <2>4. /\ DOMAIN c.by_type_id = {h.type_id : h \in ToSet(hulls)}
        /\ \A t \in DOMAIN c.by_type_id :
               c.by_type_id[t] \in ToSet(hulls) /\ c.by_type_id[t].type_id = t
        /\ DOMAIN c.by_name = {Lower[h.name] : h \in ToSet(hulls)}
        /\ \A n \in DOMAIN c.by_name : Lower[c.by_name[n].name] = n
    BY CatalogFacts
  <2>. HIDE DEF c
  <2>5. DOMAIN c.by_type_id = {r.id : r \in JumpCapable}
    <3>1. \A h \in ToSet(hulls) : \E r \in JumpCapable : h.type_id = r.id
      BY <2>2 DEF IsHullOf
    <3>. QED  BY <2>3, <2>4, <3>1
  <2>6. ASSUME NEW t \in DOMAIN c.by_type_id
        PROVE  LET hull == c.by_type_id[t]
               IN  /\ \E r \in JumpCapable :
                         /\ r.id = t /\ hull.base_ly \in Ranges(r)
                         /\ \E p \in Published(r) :
                               hull.name = p.name /\ hull.group_id = p.group_id
                   /\ Lower[ResolveHull(c, [by |-> "name", key |-> hull.name]).name]
                          = Lower[hull.name]
    <3>. DEFINE hull == c.by_type_id[t]
    <3>1. hull \in ToSet(hulls) /\ hull.type_id = t
      BY <2>4, <2>6
    <3>2. Lower[hull.name] \in DOMAIN c.by_name
      BY <2>4, <3>1
    <3>3. ResolveHull(c, [by |-> "name", key |-> hull.name])
              = c.by_name[Lower[hull.name]]
      BY <3>2 DEF ResolveHull
    <3>. HIDE DEF hull
    <3>4. PICK r \in JumpCapable : IsHullOf(hull, r)
      BY <2>2, <3>1
    <3>5. r.id = t /\ hull.base_ly \in Ranges(r) /\ \E p \in Published(r) :
              hull.name = p.name /\ hull.group_id = p.group_id
      BY <3>1, <3>4 DEF IsHullOf
    <3>. QED  BY <2>4, <3>2, <3>3, <3>5 DEF hull
  <2>. QED  BY <2>1, <2>5, <2>6 DEF HullsAreJumpCapable
<1>. QED  BY <1>1, Invariance, PTL
=============================================================================
