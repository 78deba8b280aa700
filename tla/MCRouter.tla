------------------------------ MODULE MCRouter ------------------------------
(***************************************************************************)
(* Instances of Router.  The gates are                                     *)
(*                                                                         *)
(*   build 1:  Jita - Port - Near - Turnur,  Port - Zarzakh - Turnur       *)
(*   build 2:  Jita - Port - Zarzakh - Turnur - H                          *)
(*                                                                         *)
(* and Thera has none.  Around Turnur, the target B of most bridges, lie   *)
(* Near 0.6 light-years away, Zarzakh a little nearer (0.598, shown as     *)
(* 0.6), Port 0.8, just the range of a widow at level 5, and Thera at the  *)
(* same spot.  In build 2 the systems come in another order, so that a     *)
(* node index means another system, and ranges are other.                  *)
(* Signatures lead from Thera to Jita and Near and from Turnur to Jita.    *)
(***************************************************************************)
EXTENDS Router, TLC

MCNodes == 0..5
MCLower == [s \in {"jita", "JITA", "port", "near", "turnur", "thera", "zarzakh", "h",
                   "nowhere", "sin", "SIN", "widow", "rag"} |->
               CASE s = "JITA" -> "jita" [] s = "SIN" -> "sin" [] OTHER -> s]

System(id, name, sec, x, y) ==
    [id |-> id, name |-> name, sec |-> sec, coords |-> <<x, y, 0>>]

Hull(id, name, group_id, base_ly) ==
    [type_id |-> id, name |-> name, group_id |-> group_id, base_ly |-> base_ly]

Jita   == System(1, "jita", "highsec", 0, 0)
Near   == System(2, "near", "nullsec", 400, 60)
Port   == System(3, "port", "highsec", 320, 0)
Target == System(4, "turnur", "lowsec", 400, 0)
Hub    == System(5, "thera", "wormhole", 400, 0)
Lock   == System(6, "zarzakh", "nullsec", 341, 10)
Beyond == System(7, "h", "lowsec", 400, 60)

MCSde ==
    <<[systems |-> <<Jita, Port, Near, Lock, Target, Hub>>,
       gate_pairs |-> <<<<1, 3>>, <<2, 3>>, <<3, 6>>, <<2, 4>>, <<4, 6>>>>,
       hulls |-> [hulls |-> <<Hull(10, "widow", 898, 40), Hull(11, "SIN", 898, 80),
                              Hull(12, "rag", 30, 40)>>,
                  jdc_bonus_per_level |-> 20]],
      [systems |-> <<Hub, Target, Beyond, Lock, Port, Jita>>,
       gate_pairs |-> <<<<1, 3>>, <<3, 6>>, <<4, 6>>, <<4, 7>>, <<2, 4>>>>,
       hulls |-> [hulls |-> <<Hull(12, "rag", 30, 40), Hull(11, "SIN", 31, 40)>>,
                  jdc_bonus_per_level |-> 10]]>>

\* What f64 makes of 0.4 and 0.8 LY at these bonuses and levels.
Products(bases, missed) == {<<b, m[1], m[2]>> : b \in bases, m \in missed}

MCFallsShort == Products({40, 80}, {<<10, 4>>, <<20, 2>>})
MCExceeds    == Products({40, 80}, {<<10, 1>>, <<10, 5>>, <<20, 3>>, <<20, 4>>})

Sig(out, in, type, expires) ==
    [out |-> out, in |-> in, type |-> type, expires |-> expires]

\* Everything at once: one expires midway, others at the end, a data site, an
\* origin that is no hub and a system outside the map.
MCFeeds ==
    {<<Sig(5, 1, "wormhole", 1), Sig(5, 2, "wormhole", 2), Sig(4, 1, "wormhole", 1),
       Sig(5, 3, "data", 2), Sig(2, 1, "wormhole", 2), Sig(5, 99, "wormhole", 2)>>}

Name(s) == [by |-> "name", key |-> s]
Id(i)   == [by |-> "id", key |-> i]
Conn(kind, a, b) == [kind |-> kind, from |-> a, to |-> b]

Body(route, given) == [route |-> route, given |-> given, wrong |-> {}]

\* Jita to Turnur, unless the fields say otherwise.
Blops(fields) ==
    Body("blops", fields @@ [from |-> Name("JITA"), to |-> Name("turnur")])

RangeFrom(fields) ==
    Body("range", fields @@ [from |-> Id(4), ship |-> Name("sin"), jdc_level |-> 5])

\* From Jita by gates.
Route(fields) ==
    Body("system", fields @@ [from |-> Name("jita"), to |-> <<Id(4)>>])

\* Bodies the extractor refuses: no target, no level, a level beyond a u8, a
\* connection of no known type.
Undecodable ==
    {Body("blops", [from |-> Id(1)]),
     Body("range", [from |-> Id(1), ship |-> Id(11)]),
     Blops([jdc_level |-> 256]),
     [Blops(<< >>) EXCEPT !.wrong = {"connections"}]}

\* Faults of the request, alone and on top of each other.
Faulty ==
    {Blops([jdc_level |-> 0, ship |-> Id(99)]),
     Blops([jdc_level |-> 6]), RangeFrom([jdc_level |-> 0, from |-> Id(99)]),
     Blops([ship |-> Name("nowhere"), to |-> Id(99)]),
     Blops([from |-> Id(99), to |-> Name("nowhere")]),
     Blops([from |-> Id(99), to |-> Id(1)]),
     Blops([to |-> Id(1), avoid |-> <<Id(99)>>]),
     Blops([ship |-> Id(12), jdc_level |-> 1, avoid |-> <<Id(99)>>]),
     Blops([avoid |-> <<Id(2), Id(99)>>, ship |-> Id(11)]),
     Blops([connections |-> <<Conn("bridge", Id(1), Name("nowhere"))>>]),
     RangeFrom([from |-> Id(99), ship |-> Id(99)]), RangeFrom([ship |-> Id(99)])}

\* Ships, levels, ends and preferences.
Planning ==
    {Blops([ship |-> Id(11), jdc_level |-> l, from |-> f]) :
        l \in {1, 5}, f \in {Id(1), Id(2), Id(4), Id(5)}} \cup
    {Blops([preference |-> p, include_zarzakh |-> z, ship |-> Name("SIN"), to |-> t]) :
        p \in Preferences, z \in BOOLEAN, t \in {Id(4), Id(2)}} \cup
    {Blops([to |-> t, jdc_level |-> 4]) : t \in {Id(4), Id(5), Id(3)}}

\* What is avoided, and what is added to the gates.
Steering ==
    {Blops([avoid |-> <<a>>, ship |-> Id(11), from |-> f]) :
        a \in {Id(2), Id(3)}, f \in {Id(1), Id(3)}} \cup
    {Blops([use_bridges |-> u, include_thera |-> h, avoid |-> <<Id(3)>>,
            connections |-> <<Conn("bridge", Id(1), Name("near"))>>]) :
        u \in BOOLEAN, h \in BOOLEAN}

Ranges ==
    {RangeFrom([from |-> f, jdc_level |-> l]) : f \in {Id(4), Id(5), Id(3)}, l \in {1, 5}}

\* Header errors, and destinations that fail in their slot.
BadRoutes ==
    {Body("system", [from |-> Id(1)]),
     [Route([max_size |-> "xlarge"]) EXCEPT !.wrong = {"preference"}],
     Route([to |-> << >>]), Route([to |-> <<Id(3), Id(3), Id(3)>>]),
     Route([from |-> Name("nowhere")]), Route([avoid |-> <<Name("nowhere"), Id(4)>>]),
     Route([connections |-> <<Conn("bridge", Id(1), Id(4)),
                              Conn("wormhole", Id(1), Name("nowhere"))>>]),
     Route([to |-> <<Name("nowhere"), Id(3)>>])}

\* Avoided systems as transit and as endpoints, in both slots.
Avoiding ==
    {Route([to |-> <<Name("zarzakh"), Id(4)>>, avoid |-> a, include_zarzakh |-> z]) :
        a \in {<< >>, <<Id(1)>>, <<Name("zarzakh")>>, <<Name("port")>>}, z \in BOOLEAN}

\* Connections under each combination of flags: a bridge and a wormhole of
\* the same pair, one parallel to a gate, a self-loop.
Connecting ==
    {Route([to |-> <<Id(4), Id(3)>>, use_bridges |-> b, use_wormholes |-> w,
            connections |-> <<Conn("bridge", Id(3), Name("jita")),
                              Conn("bridge", Id(4), Id(1)),
                              Conn("wormhole", Id(1), Id(4)),
                              Conn("wormhole", Id(4), Id(4))>>]) :
        b \in BOOLEAN, w \in BOOLEAN}

\* Hubs as shortcuts and as endpoints.
Scouting ==
    {Route([from |-> f, to |-> d, include_thera |-> th, include_turnur |-> tu]) :
        f \in {Id(1), Id(5)}, th \in BOOLEAN, tu \in BOOLEAN,
        d \in {<<Id(7), Id(2)>>, <<Id(5), Id(4)>>}}

MCBodies ==
    UNION {Undecodable, Faulty, Planning, Steering, Ranges,
           BadRoutes, Avoiding, Connecting, Scouting,
           {Route([preference |-> p]) : p \in {"safest", "prefer_gates"}}}

\* One destination twice, behind a signature.
TwiceBody == {Route([to |-> <<Id(5), Id(5)>>])}

\* A ship with nothing in its range to bridge from, and an unknown connection.
UnknownConnectionBody ==
    {Blops([ship |-> Id(12), jdc_level |-> 1,
            connections |-> <<Conn("bridge", Id(3), Name("nowhere"))>>])}
=============================================================================
