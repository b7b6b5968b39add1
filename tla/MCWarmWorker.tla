---------------------------- MODULE MCWarmWorker ----------------------------
(***************************************************************************)
(* Two shards whose chains share zones.  The zones are those of the        *)
(* staged prove as far as their keys tell: a commit on host arrays, a      *)
(* transcript round trip through the host (an eager device_put), the       *)
(* layers behind the grind gate, and rounds that descend from both         *)
(* lineages and call another zone.                                         *)
(***************************************************************************)
EXTENDS WarmWorker

Call(zone, shape, args, nested) ==
    [zone |-> zone, shape |-> shape, args |-> args, nested |-> nested]
Zone(zone, shape, args, nested, committed) ==
    [kind |-> "zone", gate |-> "none", call |-> Call(zone, shape, args, nested),
     committed |-> committed]
HostGate(gate) ==
    [kind |-> "gate", gate |-> gate, call |-> Call("none", "none", <<>>, {}),
     committed |-> FALSE]

Fold == Call("fold", "any", <<Host>>, {})

MCChain ==
    << << Zone("commit", "small", <<Host>>, {}, FALSE),
          HostGate("check_match"),
          Zone("layers", "capped", <<Put, 1>>, {Fold}, TRUE),
          HostGate("absorb_grind"),
          Zone("rounds", "capped", <<3, 1>>, {}, TRUE) >>,
       << Zone("commit", "tall", <<Host>>, {}, FALSE),
          HostGate("absorb_grind"),
          Zone("layers", "capped", <<Put, 1>>, {Fold}, TRUE) >> >>

MCKinds == {"sweep", "recursion"}
MCModes == {"device", "deviceless"}

\* The environment docs/development.md asks for, or the defaults.
MCSettings == {TRUE, FALSE}
MCDefaults == {FALSE}

\* A fresh cache, or one a warm of the first shard has filled.
MCSeeds == {{}, ProveKeys(1)}

=============================================================================
