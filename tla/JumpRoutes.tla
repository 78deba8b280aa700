----------------------------- MODULE JumpRoutes -----------------------------
(***************************************************************************)
(* POST /api/v1/route/blops and POST /api/v1/route/range.  A black-ops     *)
(* fleet at A wants a bridge to B: the answer is the staging system ★, the *)
(* first in-range system it comes to by gates, with the route there and    *)
(* some fallbacks.  A range request wants every system one jump away.      *)
(*                                                                         *)
(* Each of the checks of the code is an action of its own; it is reached   *)
(* when the checks before it have passed.                                  *)
(***************************************************************************)
EXTENDS Handler, JumpRange

CONSTANT MAX_ALTERNATES

ASSUME AlternatesAssumption == MAX_ALTERNATES \in Nat

BLOPS_GROUP_ID == 898

VARIABLE answer     \* << >>, or << the response >>

JumpInit == answer = << >>

----------------------------------------------------------------------------
\* The range of the ship, or of the worst Black Ops hull when none is named.

JdcValid == req.jdc_level \in 1..5

HullKnown ==
    IF req.ship = NoShip
    THEN BLOPS_GROUP_ID \in DOMAIN G.hulls.min_base_ly_by_group
    ELSE ResolveHull(G.hulls, req.ship) # NoHull

BaseLy ==
    IF req.ship = NoShip THEN G.hulls.min_base_ly_by_group[BLOPS_GROUP_ID]
                         ELSE ResolveHull(G.hulls, req.ship).base_ly

EffectiveRange ==
    EffectiveLy(BaseLy, G.hulls.bonus_per_level, req.jdc_level)

Refuse(error) == Reject(error) /\ UNCHANGED answer

Answered(response) ==
    /\ pc' = "answered"
    /\ answer' = <<response>>
    /\ UNCHANGED <<liveVars, request, snapshots, failure>>

SystemNamed(n) ==
    [system |-> SystemAt(G, n).name, system_id |-> SystemAt(G, n).id,
     sec_class |-> SystemAt(G, n).sec]

\* validate_jdc_level, for both routes.
RejectLevel ==
    /\ pc = "checking" /\ req.route \in {"blops", "range"}
    /\ ~JdcValid
    /\ Refuse([error |-> "invalid_param"])

----------------------------------------------------------------------------
(* route_blops and compute_staging                                         *)

Staging == pc = "checking" /\ req.route = "blops" /\ JdcValid

To == ResolveSystem(G, req.to)

\* A black-ops bridge may leave from any K-space system, not lead to highsec.
DestOk(n)  == SystemAt(G, n).sec # "highsec"
StageOk(n) == TRUE

\* Faulty Candidates: B is among them.
CandidatesWithTarget(hits) == {n \in hits : StageOk(n)}

Candidates(hits) == {n \in hits \ {To} : StageOk(n)}

\* Faulty RejectHull: the hull is looked up before the level is checked.
RejectHullFirst ==
    /\ pc = "checking" /\ req.route = "blops" /\ ~HullKnown
    /\ Refuse([error |-> "unknown_hull"])

RejectHull ==
    /\ Staging /\ ~HullKnown
    /\ Refuse([error |-> "unknown_hull"])

RejectEnds ==
    /\ Staging /\ HullKnown
    /\ ~AllResolve(G, <<req.from, req.to>>)
    /\ Refuse(Unknown(<<req.from, req.to>>))

EndsKnown == Staging /\ HullKnown /\ AllResolve(G, <<req.from, req.to>>)

RejectTarget ==
    /\ EndsKnown /\ ~DestOk(To)
    /\ Refuse([error |-> "cyno_target_highsec"])

NoStaging(hits) ==
    /\ EndsKnown /\ DestOk(To)
    /\ Candidates(hits) = {}
    /\ Refuse([error |-> "no_staging_in_range"])

RejectOverlay(hits) ==
    /\ EndsKnown /\ DestOk(To) /\ Candidates(hits) # {}
    /\ ~AllResolve(G, OverlayRefs)
    /\ Refuse(Unknown(OverlayRefs))

\* The gate leg: only `from` is exempt from the avoid set, A and B are the
\* endpoints that bring their hub's signatures.
StagingContext ==
    ContextFor(AssembleAvoidSet(G, req) \ {From}, ResolveConnections(G, req),
               {From, To})

\* Each way to pick a cheapest route to every candidate that has one: a
\* function from these candidates to their routes.
Settled(ctx, candidates) ==
    LET picks[n \in 0..Len(G.systems)] ==
            IF n = 0 THEN {<< >>}
            ELSE LET before == picks[n - 1]
                     routes == CheapestRoutes(ctx, From, n - 1)
                 IN  IF n - 1 \notin candidates \/ routes = {} THEN before
                     ELSE {[m \in DOMAIN f \cup {n - 1} |->
                               IF m = n - 1 THEN p ELSE f[m]] :
                              f \in before, p \in routes}
    IN  picks[Len(G.systems)]

\* Faulty Ranked: distances are compared as they are shown.
RankedRounded(ctx, settled) ==
    LET key(n) == <<Jumps(settled[n]), Round2(Distance2(G, n, To)),
                    Cost(ctx, settled[n]), n>>
        before(m, n) ==
            \E i \in 1..4 : /\ key(m)[i] < key(n)[i]
                            /\ \A j \in 1..i - 1 : key(m)[j] = key(n)[j]
    IN  CHOOSE order \in SetToSeqs(DOMAIN settled) :
            \A i, j \in DOMAIN order : i < j => before(order[i], order[j])

\* Faulty Ranked: the nearest to B comes first.
RankedByDistance(ctx, settled) ==
    LET before(m, n) == Distance2(G, m, To) < Distance2(G, n, To)
    IN  CHOOSE order \in SetToSeqs(DOMAIN settled) :
            \A i, j \in DOMAIN order : i < j => ~before(order[j], order[i])

\* Fewest jumps, then nearest to B; the sort is stable over settling order.
Ranked(ctx, settled) ==
    LET key(n) == <<Jumps(settled[n]), Distance2(G, n, To), Cost(ctx, settled[n]), n>>
        before(m, n) ==
            \E i \in 1..4 : /\ key(m)[i] < key(n)[i]
                            /\ \A j \in 1..i - 1 : key(m)[j] = key(n)[j]
    IN  CHOOSE order \in SetToSeqs(DOMAIN settled) :
            \A i, j \in DOMAIN order : i < j => before(order[i], order[j])

\* The next-best behind ★, unless A is in range already.
Fallbacks(ranked, settled) ==
    IF Jumps(settled[Head(ranked)]) = 0 THEN << >>
    ELSE [i \in 1..Min({MAX_ALTERNATES, Len(ranked) - 1}) |->
             [system     |-> SystemNamed(ranked[i + 1]),
              gate_jumps |-> Jumps(settled[ranked[i + 1]]),
              ly_to_b    |-> Round2(Distance2(G, ranked[i + 1], To))]]

\* Faulty Chosen: the jumps are counted as systems.
ChosenCountsSystems(ctx, path) ==
    [gate_jumps |-> Len(path),
     gate_path  |-> BuildSteps(G, ctx, path),
     bridge     |-> [from     |-> SystemNamed(Last(path)),
                     to       |-> SystemNamed(To),
                     jump_ly  |-> Round2(Distance2(G, Last(path), To)),
                     in_range |-> TRUE]]

\* The gate leg to ★ and the bridge from there.
Chosen(ctx, path) ==
    [gate_jumps |-> Jumps(path),
     gate_path  |-> BuildSteps(G, ctx, path),
     bridge     |-> [from     |-> SystemNamed(Last(path)),
                     to       |-> SystemNamed(To),
                     jump_ly  |-> Round2(Distance2(G, Last(path), To)),
                     in_range |-> TRUE]]

BlopsResponse(ctx, settled) ==
    LET ranked == Ranked(ctx, settled)
    IN  [jdc_level    |-> req.jdc_level,
         effective_ly |-> EffectiveRange,
         defaulted    |-> req.ship = NoShip,
         chosen       |-> Chosen(ctx, settled[Head(ranked)]),
         alternates   |-> Fallbacks(ranked, settled)]

Stage(hits) ==
    /\ EndsKnown /\ DestOk(To) /\ Candidates(hits) # {}
    /\ AllResolve(G, OverlayRefs)
    /\ \E settled \in Settled(StagingContext, Candidates(hits)) :
          IF DOMAIN settled = {}
          THEN Refuse([error |-> "staging_unreachable"])
          ELSE Answered(BlopsResponse(StagingContext, settled))

----------------------------------------------------------------------------
(* route_range and compute_reachable                                       *)

Ranging == pc = "checking" /\ req.route = "range" /\ JdcValid

RejectSource ==
    /\ Ranging /\ From = Unresolved
    /\ Refuse(Unknown(<<req.from>>))

RejectRangeHull ==
    /\ Ranging /\ From # Unresolved /\ ~HullKnown
    /\ Refuse([error |-> "unknown_hull"])

\* Faulty Reachable: highsec is not left out.
ReachableAnywhere(hits) == hits \ {From}

\* No cyno can be lit in highsec, and the source is no answer.
Reachable(hits) == {n \in hits \ {From} : SystemAt(G, n).sec # "highsec"}

\* build_summary, of a sequence of entries in ascending distance.
Summary(reachable) ==
    LET classes == {r.system.sec_class : r \in ToSet(reachable)}
    IN  [reachable_count |-> Len(reachable),
         farthest_ly     |-> IF reachable = << >> THEN 0
                             ELSE Last(reachable).jump_ly,
         by_sec_class    |->
            [c \in classes |->
                Cardinality({i \in DOMAIN reachable :
                                reachable[i].system.sec_class = c})]]

\* Entries at equal distance come in any order.
RangeAnswers(hits) ==
    {[i \in DOMAIN order |->
        [system  |-> SystemNamed(order[i]),
         jump_ly |-> Round2(Distance2(G, order[i], From))]] :
        order \in {o \in SetToSeqs(Reachable(hits)) :
            \A i \in 2..Len(o) :
                Distance2(G, o[i - 1], From) <= Distance2(G, o[i], From)}}

ComputeReachable(hits) ==
    /\ Ranging /\ From # Unresolved /\ HullKnown
    /\ \E reachable \in RangeAnswers(hits) :
          LET hull == ResolveHull(G.hulls, req.ship)
          IN  Answered([summary      |-> Summary(reachable),
                        jdc_level    |-> req.jdc_level,
                        effective_ly |-> EffectiveRange,
                        source       |-> SystemNamed(From),
                        hull         |-> [name    |-> hull.name,
                                          type_id |-> hull.type_id,
                                          base_ly |-> hull.base_ly],
                        reachable    |-> reachable])

----------------------------------------------------------------------------
JumpNext ==
    \/ RejectLevel
    \/ RejectHull
    \/ RejectEnds
    \/ RejectTarget
    \/ /\ EndsKnown
       /\ \E hits \in Hits(G, To, EffectiveRange) :
             \/ NoStaging(hits)
             \/ RejectOverlay(hits)
             \/ Stage(hits)
    \/ RejectSource
    \/ RejectRangeHull
    \/ /\ Ranging /\ From # Unresolved /\ HullKnown
       /\ \E hits \in Hits(G, From, EffectiveRange) : ComputeReachable(hits)
----------------------------------------------------------------------------
(* What an answer should be, in terms of the SDE the handler loaded.       *)

Response == answer[1]
Staged   == answer # << >> /\ req.route = "blops"
Ranged   == answer # << >> /\ req.route = "range"

IdOf(n) == SystemAt(G, n).id

Apart2(s, t) ==
    LET d(i) == s.coords[i] - t.coords[i] IN d(1) * d(1) + d(2) * d(2) + d(3) * d(3)

\* The systems that are not out of a range of s, and those well within.
InRange(s, range)     == {t \in SystemsOf : ~Outside(Apart2(s, t), range)}
WellInRange(s, range) == {t \in SystemsOf : Inside(Apart2(s, t), range)}

SystemsNamed(ref) == {s \in SystemsOf : s.id \in Named(ref)}

\* Hull rows a reference may mean, the range a row has for the request, and
\* what may be computed for it.
HullRows == ToSet(Sde[view].hulls.hulls)

HullsNamed(ref) ==
    {h \in HullRows : IF ref.by = "id" THEN h.type_id = ref.key
                                       ELSE Lower[h.name] = Lower[ref.key]}

RangeOf(h) ==
    LET given == Sde[view].hulls.jdc_bonus_per_level
        bonus == IF given = NoBonus THEN 0 ELSE given
    IN  h.base_ly * (100 + bonus * req.jdc_level)

Around(range) == range - 1..range + 1

BlackOps == {h \in HullRows : h.group_id = BLOPS_GROUP_ID}

Ends == Named(req.from) \cup Named(req.to)

\* Systems to bridge from, among some: in K-space, not B.
Stageable(systems) ==
    {s \in systems : s.sec # "wormhole" /\ s.id \notin Named(req.to)}

\* ... that the fleet may stop in, within some gate jumps of it by the
\* signatures that are live at t, or now.
WithinAt(t, jumps, systems) ==
    LET within == WithinJumps(Ends, t)
        k      == IF jumps \in DOMAIN within THEN jumps ELSE Cardinality(DOMAIN within) - 1
    IN  {s \in systems : /\ s.id \in within[k]
                         /\ s.id \in Named(req.from) \/ ~Barred(s.id)}

Within(jumps, systems) == WithinAt(clock, jumps, systems)

AnyJumps == Cardinality(SystemsOf)

JumpTypeOK ==
    /\ answer # << >> => pc = "answered" /\ failure = NoFailure
    /\ Staged => IsBlopsRouteResponse(Response)
    /\ Ranged => IsRangeResponse(Response)

(***************************************************************************)
(* The fleet can do what a staging answer says, in the build the handler   *)
(* loaded, whatever was swapped in meanwhile: the gate leg is a route that *)
(* the request allows from A to ★, ★ is no excluded system, and the bridge *)
(* leads from K-space to B, which is not highsec, over no more than the    *)
(* range echoed.                                                           *)
(***************************************************************************)
StagingIsUsable ==
    Staged =>
        LET path   == Response.chosen.gate_path
            bridge == Response.chosen.bridge
            star   == CHOOSE s \in SystemsOf : s.id = bridge.from.system_id
            b      == CHOOSE s \in SystemsOf : s.id = bridge.to.system_id
        IN  /\ path[1].system_id \in Named(req.from)
            /\ path[Len(path)].system_id = star.id
            /\ IsAllowed(path, Ends, began)
            /\ star.id \in Named(req.from) \/ ~Barred(star.id)
            /\ b.id \in Named(req.to) /\ b.sec # "highsec"
            /\ star \in Stageable(InRange(b, Response.effective_ly))

(***************************************************************************)
(* ★ is the best there is: under `shortest` no system in range is fewer    *)
(* jumps away, and none as near is closer to B, even by less than the      *)
(* answer shows.                                                           *)
(***************************************************************************)
StagingIsNearest ==
    Staged /\ req.preference = "shortest" =>
        LET jumps  == Response.chosen.gate_jumps
            star   == CHOOSE s \in SystemsOf :
                          s.id = Response.chosen.bridge.from.system_id
            b      == CHOOSE s \in SystemsOf : s.id \in Named(req.to)
            stages == Stageable(WellInRange(b, Response.effective_ly))
        IN  /\ Within(jumps - 1, stages) = {} \/ jumps = 0
            /\ \A s \in Within(jumps, stages) : Apart2(star, b) <= Apart2(s, b)

(***************************************************************************)
(* The fallbacks continue the ranking behind ★ (none if A is in range      *)
(* itself).  Every system listed is one to bridge from, in range, and the  *)
(* fleet gets there in the jumps listed; they are other systems, by jumps  *)
(* and then by distance to B, even by less than the answer shows.  Room is *)
(* left only when nothing else can be reached; and under `shortest` the    *)
(* jumps are the fewest and what is left out is no better than the last    *)
(* one listed: not fewer jumps away, and as near, not closer to B.         *)
(***************************************************************************)
FallbacksAreNextBest ==
    Staged =>
        LET chosen   == Response.chosen
            listed   == <<[system |-> chosen.bridge.from, gate_jumps |-> chosen.gate_jumps]>>
                            \o Response.alternates
            at(i)    == CHOOSE s \in SystemsOf : s.id = listed[i].system.system_id
            jumps(i) == listed[i].gate_jumps
            b        == CHOOSE s \in SystemsOf : s.id \in Named(req.to)
            near     == Stageable(InRange(b, Response.effective_ly))
            left     == {s \in Within(AnyJumps, Stageable(WellInRange(b, Response.effective_ly))) :
                            \A i \in DOMAIN listed : s # at(i)}
            last     == Len(listed)
        IN  /\ last <= MAX_ALTERNATES + 1
            /\ jumps(1) = 0 => last = 1
            /\ \A i \in DOMAIN listed : at(i) \in WithinAt(began, jumps(i), near)
            /\ \A i, j \in DOMAIN listed : i < j =>
                  /\ at(i) # at(j)
                  /\ \/ jumps(i) < jumps(j)
                     \/ /\ jumps(i) = jumps(j)
                        /\ Apart2(at(i), b) <= Apart2(at(j), b)
            /\ jumps(1) > 0 /\ left # {} => last = MAX_ALTERNATES + 1
            /\ jumps(1) > 0 /\ req.preference = "shortest" =>
                  /\ \A i \in DOMAIN listed : at(i) \notin Within(jumps(i) - 1, near)
                  /\ Within(jumps(last) - 1, left) = {}
                  /\ \A s \in Within(jumps(last), left) :
                        Apart2(at(last), b) <= Apart2(s, b)

(***************************************************************************)
(* The refusals of the two routes.  What can be wrong with a request is    *)
(* stated in the order in which it is to be reported: the level, then the  *)
(* hull and the systems at the ends (the source first, for a range), then  *)
(* B in highsec; then, for a staging, nothing in range, an unknown system  *)
(* in the overlay and nothing within reach.                                *)
(***************************************************************************)
UnknownIn(refs) == \E i \in DOMAIN refs : Named(refs[i]) = {}

\* The first of some references that the loaded build does not know.
IsFirstUnknown(ref, refs) ==
    \E i \in DOMAIN refs :
        /\ ref = refs[i] /\ Named(ref) = {}
        /\ \A j \in 1..i - 1 : Named(refs[j]) # {}

EndRefs == IF req.route = "range" THEN <<req.from>> ELSE <<req.from, req.to>>

NoSuchHull ==
    IF req.ship = NoShip THEN BlackOps = {} ELSE HullsNamed(req.ship) = {}

Faults ==
    LET level == [error |-> "invalid_param",  holds |-> req.jdc_level \notin 1..5]
        hull  == [error |-> "unknown_hull",   holds |-> NoSuchHull]
        ends  == [error |-> "unknown_system", holds |-> UnknownIn(EndRefs)]
    IN  IF req.route = "range" THEN <<level, ends, hull>>
        ELSE <<level, hull, ends,
               [error |-> "cyno_target_highsec",
                holds |-> \A s \in SystemsNamed(req.to) : s.sec = "highsec"]>>

\* A ship that several rows answer to may have the range of any of them.
RangesMeant ==
    IF req.ship = NoShip THEN Around(Min({RangeOf(h) : h \in BlackOps}))
                         ELSE UNION {Around(RangeOf(h)) : h \in HullsNamed(req.ship)}

B == CHOOSE s \in SystemsOf : s.id \in Named(req.to)

(***************************************************************************)
(* A refusal has its reason in the build that was loaded, and the reason   *)
(* that comes first, whatever else is wrong; the reference it shows is the *)
(* first that the build does not know.  A request with nothing in range,   *)
(* or with nothing to be reached by the signatures that are live even now, *)
(* is refused for that only when there is no earlier reason, and a request *)
(* with an unknown reference in its avoid list or its connections, in use  *)
(* or not, is never answered.                                              *)
(***************************************************************************)
RefusalsAreReal ==
    req.route \in {"blops", "range"} /\ pc = "answered" /\ failure.error # "malformed" =>
        LET first(i) == Faults[i].holds /\ \A j \in 1..i - 1 : ~Faults[j].holds
            sure(range)     == Stageable(WellInRange(B, range))
            possible(range) == Stageable(InRange(B, range))
        IN  /\ \A i \in DOMAIN Faults : first(i) => failure.error = Faults[i].error
            /\ failure.error = "unknown_system" =>
                  IsFirstUnknown(failure.ref,
                                 IF req.route = "range" THEN EndRefs
                                 ELSE EndRefs \o OverlayRefs)
            /\ (\A i \in DOMAIN Faults : ~Faults[i].holds) =>
                  CASE failure.error = "no_staging_in_range" ->
                          req.route = "blops" /\ \E range \in RangesMeant : sure(range) = {}
                    [] failure.error = "unknown_system" ->
                          /\ req.route = "blops" /\ UnknownIn(OverlayRefs)
                          /\ \E range \in RangesMeant : possible(range) # {}
                    [] failure.error = "staging_unreachable" ->
                          /\ req.route = "blops" /\ ~UnknownIn(OverlayRefs)
                          /\ \E range \in RangesMeant :
                                possible(range) # {} /\ Within(AnyJumps, sure(range)) = {}
                    [] OTHER ->
                          /\ failure = NoFailure
                          /\ req.route = "blops" => ~UnknownIn(OverlayRefs)

(***************************************************************************)
(* Without a ship the answer plans for the worst: the range echoed is that *)
(* of a Black Ops hull of the loaded build at that level, and none has a   *)
(* shorter one (by more than a hair); and a ship that is named has the     *)
(* range echoed.                                                           *)
(***************************************************************************)
DefaultRangeIsConservative ==
    Staged =>
        LET range == Response.effective_ly
            given == IF Response.defaulted THEN BlackOps ELSE HullsNamed(req.ship)
        IN  /\ \E h \in given : range \in Around(RangeOf(h))
            /\ Response.defaulted => \A h \in BlackOps : range <= RangeOf(h) + 1

(***************************************************************************)
(* A range answer holds every system that a cyno can be lit in and that is *)
(* in range of the source, once, nearest first even by less than is shown, *)
(* and nothing else (what is a hair from the range may be missing); the    *)
(* range is that of the hull echoed, and the summary agrees with the list. *)
(***************************************************************************)
RangeIsExact ==
    Ranged =>
        LET list  == Response.reachable
            ids   == {list[i].system.system_id : i \in DOMAIN list}
            at(i) == CHOOSE s \in SystemsOf : s.id = list[i].system.system_id
            a     == CHOOSE s \in SystemsOf : s.id = Response.source.system_id
            lit(systems) == {s.id : s \in {t \in systems \ {a} : t.sec \in {"lowsec", "nullsec"}}}
            tally == Response.summary.by_sec_class
            count(c) == IF c \in DOMAIN tally THEN tally[c] ELSE 0
        IN  /\ a.id \in Named(req.from)
            /\ Cardinality(ids) = Len(list)
            /\ lit(WellInRange(a, Response.effective_ly)) \subseteq ids
            /\ ids \subseteq lit(InRange(a, Response.effective_ly))
            /\ \A i \in 2..Len(list) : Apart2(a, at(i - 1)) <= Apart2(a, at(i))
            /\ Response.summary.reachable_count = Len(list)
            /\ DOMAIN tally \subseteq {"lowsec", "nullsec"}
            /\ count("lowsec") + count("nullsec") = Len(list)
            /\ list # << >> => Response.summary.farthest_ly = Last(list).jump_ly
            /\ \E h \in HullsNamed(req.ship) :
                  /\ h.type_id = Response.hull.type_id
                  /\ Response.effective_ly \in Around(RangeOf(h))
----------------------------------------------------------------------------
(* What the documentation says and the code does not do.                   *)

(***************************************************************************)
(* src/dto.rs:250-252: connections are always validated, an unknown system *)
(* is a request-level 400.  An empty candidate set is refused before they  *)
(* are looked at.                                                          *)
(***************************************************************************)
ConnectionsAreValidated ==
    failure.error = "no_staging_in_range" => ~UnknownIn(ConnectionRefs(req))
=============================================================================
