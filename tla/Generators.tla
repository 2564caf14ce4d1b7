----------------------------- MODULE Generators -----------------------------
(***************************************************************************)
(* The dataset generators of the Experiment Studio.  A test set is a       *)
(* sequence of cases: what is sent, what the generator expects of the      *)
(* mitigation, and its category, with oversized requests apart from the    *)
(* other malformed ones.  What the seeded generator draws is a parameter,  *)
(* the same for all cases of a set, as each case is decided by itself.     *)
(***************************************************************************)
(* A configuration has the number of cases of each kind and the limits     *)
(* that the generator uses; it ignores the others.                         *)
(***************************************************************************)
EXTENDS Strategies

Case(category, input, expected) ==
    [category |-> category, input |-> input, expected |-> expected]

\* The cases of one kind; inputs[i] is the request of the i-th.
Cases(category, inputs, expected) ==
    [i \in DOMAIN inputs |-> Case(category, inputs[i], expected)]

\* A list of k words is gone through again and again.
Turn(k, i) == ((i - 1) % k) + 1
Cycle(words, i) == words[Turn(Len(words), i)]
-----------------------------------------------------------------------------
(* VPN.  A path that was drawn from a fixed list has the length 13.        *)

VpnPrefix == 8
VpnDefaults ==
    [valid |-> 4, boundary |-> 1, oversized |-> 2, duplicate_field |-> 2,
     mismatched_length |-> 2, unsupported_encoding |-> 2, invalid_path |-> 2,
     limit |-> [path |-> 256, body |-> 8192]]

Host == [key |-> "Host", len |-> 17]

VpnRequest(path_length) ==
    [method |-> "text", path |-> [len |-> path_length, traversal |-> FALSE],
     headers |-> <<Host>>, declared |-> 0, actual |-> 0, query |-> {},
     encoding |-> "utf-8"]

\* The prefix and as many letters as are left: a limit shorter than the prefix
\* leaves none.
PathOfLength(n) == VpnPrefix + Max({0, n - VpnPrefix})

\* Mutant: the path over the limit is as long as the limit.
Mut_OverLimitPath(config) == PathOfLength(config.limit.path)

OverLimitPath(config) == PathOfLength(config.limit.path + 1)

\* A pair of boundary cases, at the limit and over it.
VpnBoundary(config, i) ==
    IF i % 2 = 1
    THEN Case("boundary", VpnRequest(PathOfLength(config.limit.path)),
              "accepted")
    ELSE Case("boundary", VpnRequest(OverLimitPath(config)), "blocked")

vpn_test_set(config, draw) ==
    LET login == VpnRequest(13)
        Sized(declared, actual) ==
            [login EXCEPT !.declared = declared, !.actual = actual]
        too_long == config.limit.body + 1 + draw
        malformed ==
            [i \in 1..config.duplicate_field |->
                [login EXCEPT !.headers = <<Host, Host>>]]
            \o [i \in 1..config.mismatched_length |-> Sized(42, 142 + draw)]
            \o [i \in 1..config.unsupported_encoding |->
                   [login EXCEPT !.encoding =
                      Cycle(<<"utf-7", "cesu-8", "unspecified-binary">>, i)]]
            \o [i \in 1..config.invalid_path |->
                   [login EXCEPT !.path.traversal = TRUE]]
    IN Cases("valid", [i \in 1..config.valid |-> login], "accepted")
       \o [i \in 1..(2 * config.boundary) |-> VpnBoundary(config, i)]
       \o Cases("oversized", [i \in 1..config.oversized |->
                                Sized(too_long, too_long)], "blocked")
       \o Cases("malformed", malformed, "blocked")
-----------------------------------------------------------------------------
(* Telecom. *)

TelecomDefaults ==
    [valid |-> 4, boundary |-> 1, oversized_field |-> 2, missing_header |-> 2,
     duplicate_identity |-> 2, mismatched_length |-> 2, invalid_sequence |-> 2,
     invalid_transition |-> 2, limit |-> [attribute |-> 256]]

Mandatory == <<"Call-ID", "From", "To">>
Headers == [i \in 1..3 |-> [key |-> Mandatory[i], len |-> 20]]

TelecomRequest(transition, sequence, expected) ==
    [state |-> transition[1], method |-> transition[2], headers |-> Headers,
     sequence |-> sequence, expected_sequence |-> expected,
     attributes |-> <<[key |-> "accept-type", len |-> 9]>>,
     declared |-> 32, actual |-> 32]

Invite == TelecomRequest(<<"INIT", "INVITE">>, 1, 1)
WithAttribute(n) == [Invite EXCEPT !.attributes[1].len = n]

TelecomBoundary(config, i) ==
    IF i % 2 = 1
    THEN Case("boundary", WithAttribute(config.limit.attribute), "accepted")
    ELSE Case("boundary", WithAttribute(config.limit.attribute + 1), "blocked")

telecom_test_set(config, draw) ==
    LET legal == <<<<"INIT", "INVITE">>, <<"RINGING", "ACK">>,
                   <<"ESTABLISHED", "BYE">>>>
        illegal == <<<<"INIT", "ACK">>, <<"INIT", "BYE">>,
                     <<"ESTABLISHED", "INVITE">>>>
        oversized == WithAttribute(config.limit.attribute + 1 + draw)
        malformed ==
            [i \in 1..config.missing_header |->
                [Invite EXCEPT !.headers = RemoveAt(Headers, Turn(3, i))]]
            \o [i \in 1..config.duplicate_identity |->
                   [Invite EXCEPT !.headers =
                      Append(@, [key |-> Cycle(Mandatory, i), len |-> 30])]]
            \o [i \in 1..config.mismatched_length |->
                   [Invite EXCEPT !.actual = 232 + draw]]
            \o [i \in 1..config.invalid_sequence |->
                   TelecomRequest(<<"INIT", "INVITE">>, 0, 4 + i)]
            \o [i \in 1..config.invalid_transition |->
                   TelecomRequest(Cycle(illegal, i), 1, 1)]
    IN Cases("valid", [i \in 1..config.valid |->
                         TelecomRequest(Cycle(legal, i), i, i)], "accepted")
       \o [i \in 1..(2 * config.boundary) |-> TelecomBoundary(config, i)]
       \o Cases("oversized", [i \in 1..config.oversized_field |-> oversized],
                "blocked")
       \o Cases("malformed", malformed, "blocked")
-----------------------------------------------------------------------------
\* What the configuration of a domain can be.
Limits == Nat \ {0}
ConfigsOf(domain) ==
    IF domain = "vpn"
    THEN [valid : Nat, boundary : Nat, oversized : Nat, duplicate_field : Nat,
          mismatched_length : Nat, unsupported_encoding : Nat,
          invalid_path : Nat, limit : [path : Limits, body : Limits]]
    ELSE [valid : Nat, boundary : Nat, oversized_field : Nat,
          missing_header : Nat, duplicate_identity : Nat,
          mismatched_length : Nat, invalid_sequence : Nat,
          invalid_transition : Nat, limit : [attribute : Limits]]

\* The limits that the mitigation of a domain enforces.
EnforcedLimits ==
    [vpn |-> [path |-> VpnLimits.path, body |-> VpnLimits.body],
     telecom |-> [attribute |-> TelecomLimits.attribute]]

\* generate: the cases as a test set, with the configuration they came from.
generate(domain, config, draw) ==
    LET all == IF domain = "vpn" THEN vpn_test_set(config, draw)
               ELSE telecom_test_set(config, draw)
    IN [domain |-> domain, config |-> config,
        expected |-> [i \in DOMAIN all |-> all[i].expected],
        inputs |-> [i \in DOMAIN all |-> all[i].input],
        category |-> [i \in DOMAIN all |-> all[i].category]]
=============================================================================
