----------------------------- MODULE MCService -----------------------------
(***************************************************************************)
(* Instances of Service: an answer of EVE-Scout with a signature and one   *)
(* without; the environments are the empty one, one with values that do    *)
(* not parse and without SIGINT, one with an interval of 0 each, and an    *)
(* offline one with an interval that has no use and no handlers.           *)
(***************************************************************************)
EXTENDS Service

MCFeeds == {<< >>, <<[out |-> 5, in |-> 1, type |-> "wormhole", expires |-> 2]>>}

Env(dir, reload, poll, installable) ==
    [sde_dir |-> dir, sde_reload |-> reload, eve_scout |-> poll,
     installable |-> installable]

MCEnvs ==
    {Env(FALSE, NotSet, NotSet, Signals),
     Env(FALSE, Junk, 0, {"SIGTERM"}),
     Env(FALSE, 0, Junk, Signals),
     Env(TRUE, 60, 60, {})}
=============================================================================
