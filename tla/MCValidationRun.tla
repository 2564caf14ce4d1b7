-------------------------- MODULE MCValidationRun --------------------------
(***************************************************************************)
(* An instance of ValidationRun for TLC: an experiment with a dataset of   *)
(* five cases, which is just enough for a verdict, the same with one case  *)
(* less and one expectation turned, two of those cases with others, and    *)
(* one of another domain; generated datasets; and every single request.    *)
(***************************************************************************)
EXTENDS ValidationRun

Bad == "blocked"
Good == "accepted"

ByHand(domain, expected, inputs) ==
    [domain |-> domain, expected |-> expected, inputs |-> inputs,
     config |-> None, category |-> None]

AnyOutcome ==
    [domain |-> "vpn",
     holds |-> {ByHand("vpn", <<Bad, Bad, Good, Good, Bad>>, None),
                ByHand("vpn", <<Bad, Bad, Good, Bad>>, None),
                ByHand("vpn", 2 :> Good @@ 6 :> Bad, None),
                ByHand("telecom", <<Bad>>, None)}]

\* With and without valid, boundary, oversized and malformed cases; limits at,
\* below and above those enforced, and one shorter than the prefix of a path.
VpnConfigs ==
    {VpnDefaults} \cup
    {[valid |-> v, boundary |-> b, oversized |-> o, duplicate_field |-> m,
      mismatched_length |-> m, unsupported_encoding |-> m, invalid_path |-> m,
      limit |-> [path |-> p, body |-> n]] :
        v \in {0, 2}, b \in {0, 1}, o \in {0, 1}, m \in {0, 1, 3},
        p \in {3, 255, 256, 257}, n \in {8191, 8192, 9000}}
TelecomConfigs ==
    {TelecomDefaults} \cup
    {[valid |-> v, boundary |-> b, oversized_field |-> o,
      missing_header |-> m, duplicate_identity |-> m, mismatched_length |-> m,
      invalid_sequence |-> m, invalid_transition |-> m,
      limit |-> [attribute |-> p]] :
        v \in {0, 2}, b \in {0, 1}, o \in {0, 1}, m \in {0, 1, 3},
        p \in {255, 256, 257}}

MCDraws == {0, 500}

FromGenerator ==
    {d \in {generate("vpn", c, r) : c \in VpnConfigs, r \in MCDraws} \cup
           {generate("telecom", c, r) : c \in TelecomConfigs, r \in MCDraws} :
       d.expected # <<>>}

Header(k) == [key |-> k, len |-> 20]
Lists == {<<>>, <<Header("junk")>>, <<Header(Unhashable)>>}

VpnRequests ==
    [method : {"none", "text"},
     path : {[len |-> n, traversal |-> t] :
               n \in {0, 256, 257}, t \in BOOLEAN},
     declared : {-1, 0, 8192, 8193}, actual : {0, 8192, 8193},
     headers : Lists \cup {<<Host>>, <<Host, Host>>,
                           <<[key |-> "Host", len |-> 513]>>},
     query : {{}, {512}, {513}},
     encoding : {"ascii", "utf-7", Unhashable}]

TelecomRequests ==
    [method : KnownMethods \cup {"none", Unhashable},
     state : KnownStates \cup {"none", Unhashable},
     headers : Lists \cup {Headers, Tail(Headers), Headers \o Headers},
     sequence : {1}, expected_sequence : {1, 2},
     declared : {-1, 32, 4097}, actual : {32, 4097},
     attributes : {<<>>, <<[key |-> "fmtp", len |-> 257]>>}]

MCDefinitions ==
    {AnyOutcome}
    \cup {[domain |-> d.domain, holds |-> {d}] : d \in FromGenerator}
    \cup {[domain |-> "vpn", holds |-> {ByHand("vpn", <<Bad>>, <<r>>)}] :
            r \in VpnRequests}
    \cup {[domain |-> "telecom", holds |-> {ByHand("telecom", <<Bad>>, <<r>>)}] :
            r \in TelecomRequests}

Outcome(d, errored, ms) ==
    [decision |-> d, parser_reached |-> d = Good, errored |-> errored,
     logged |-> d = Bad, latency_ms |-> ms]

\* A strategy accepts, blocks or raises; a mitigation may also take so long to
\* block that one such case in five is just tolerable.
MCBaselineOutcomes ==
    {Outcome(Good, FALSE, 0), Outcome(Bad, FALSE, 0), Outcome(Bad, TRUE, 0)}
MCMitigationOutcomes == MCBaselineOutcomes \cup {Outcome(Bad, FALSE, 500)}
=============================================================================
