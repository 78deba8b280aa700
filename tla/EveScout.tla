------------------------------ MODULE EveScout ------------------------------
(***************************************************************************)
(* EVE-Scout signatures and the snapshot of them that requests read.  Pure *)
(* operators; a raw row is a record [out, in, type, expires], times are    *)
(* natural numbers.                                                        *)
(***************************************************************************)
EXTENDS Integers, Sequences

CONSTANTS Thera, Turnur    \* the ids of the two hubs

ASSUME HubsAssumption == Thera # Turnur

\* What serde leaves of a row.
RawSignature == [out : Int, in : Int, type : STRING, expires : Nat]

Never == -1                \* fetched_at: None

\* EveScoutSnapshot::default
EmptySnapshot == [thera |-> << >>, turnur |-> << >>, fetched_at |-> Never]

IsLive(sig, now) == sig.expires > now

\* The wormholes of a hub among some rows, in their order.
WormholesOf(hub, raw) ==
    LET kept[i \in 0..Len(raw)] ==
            IF i = 0 THEN << >>
            ELSE IF raw[i].type = "wormhole" /\ raw[i].out = hub
                 THEN Append(kept[i - 1], raw[i])
                 ELSE kept[i - 1]
    IN  kept[Len(raw)]

\* partition: wormholes only, by hub; other origins are dropped.
Partition(raw, now) ==
    [thera      |-> WormholesOf(Thera, raw),
     turnur     |-> WormholesOf(Turnur, raw),
     fetched_at |-> now]

SigCount(snapshot) == Len(snapshot.thera) + Len(snapshot.turnur)
=============================================================================
